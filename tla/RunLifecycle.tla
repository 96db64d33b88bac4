---------------------------- MODULE RunLifecycle ----------------------------
(***************************************************************************)
(* The life of one agent run in the local worker: meta.json and            *)
(* control.json of the run, and every thread of the worker process that    *)
(* reads and writes them.                                                  *)
(*                                                                         *)
(*   Worker     the thread that executes the run (the HTTP thread of       *)
(*              start_run, or the background thread of stream_run)         *)
(*   Stream     the server-sent-events generator of stream_run, advanced   *)
(*              by the client that pulls it                                *)
(*   Resumers   requests that answer the run's pending approval            *)
(*   Cancellers requests that cancel the run                               *)
(*   Steerers   requests that append a steering instruction                *)
(*   Pollers    requests that list the active runs (and expire stale ones) *)
(*                                                                         *)
(* Only start_active_run, append_run_event and complete_active_run take    *)
(* _RUN_LOCK; every other handler reads a file, decides, and writes the    *)
(* whole file back, so each of those is two steps here.  A thread between  *)
(* its read and its write keeps what it read in seen[t] or seenControl[t]. *)
(***************************************************************************)
EXTENDS Naturals

CONSTANTS
    Worker, Stream,      \* the two threads a run may have of its own
    Resumers, Cancellers, Steerers, Pollers,
    Nobody,              \* the holder of a free _RUN_LOCK
    ClientMayLeave       \* may the client drop the event stream?

Drivers == {Worker} \cup Resumers      \* threads that execute the graph
Threads == Drivers \cup {Stream} \cup Cancellers \cup Steerers \cup Pollers

\* The threads are pairwise different and none is the free lock.
ASSUME ThreadsAssumption ==
    /\ Worker # Stream
    /\ Nobody \notin Threads
    /\ {Worker, Stream} \cap (Resumers \cup Cancellers \cup Steerers \cup Pollers) = {}
    /\ Resumers \cap (Cancellers \cup Steerers \cup Pollers) = {}
    /\ Cancellers \cap (Steerers \cup Pollers) = {}
    /\ Steerers \cap Pollers = {}
    /\ ClientMayLeave \in BOOLEAN

VARIABLES
    meta,         \* meta.json: status, is there a pending approval, a final result
    control,      \* control.json: cancellation_requested, unread steering
    lock,         \* the holder of _RUN_LOCK
    pc,           \* where each thread is
    seen,         \* the meta.json a thread read and has not written back yet
    seenControl,  \* the same for control.json
    plan,         \* the status and result a thread is about to record
    deferred,     \* deferred_finalization of stream_run
    events,       \* what the generator has not read of events.jsonl
    cursor,       \* the generator's saw_final, and the emptiness of its last read
    mode,         \* was the run started by start_run or by stream_run?
    aged          \* is the run older than APPROVAL_TTL_SECONDS?

vars == <<meta, control, lock, pc, seen, seenControl, plan, deferred,
          events, cursor, mode, aged>>

Terminal == {"completed", "failed", "cancelled"}
Active   == {"running", "waiting_approval", "cancelling"}
Statuses == {"none"} \cup Active \cup Terminal

Metas    == [status : Statuses, pending : BOOLEAN, answer : BOOLEAN]
Controls == [cancel : BOOLEAN, steering : BOOLEAN]
Plans    == [status : Terminal \cup {"waiting_approval", "none"}, answer : BOOLEAN]

NoMeta    == [status |-> "none", pending |-> FALSE, answer |-> FALSE]
NoControl == [cancel |-> FALSE, steering |-> FALSE]
NoPlan    == [status |-> "none", answer |-> FALSE]

Outcome(s, a) == [status |-> s, answer |-> a]

Init ==
    /\ meta = NoMeta
    /\ control = NoControl
    /\ lock = Nobody
    /\ pc = [t \in Threads |-> "idle"]
    /\ seen = [t \in Threads |-> NoMeta]
    /\ seenControl = [t \in Threads |-> NoControl]
    /\ plan = [t \in Threads |-> NoPlan]
    /\ deferred = NoPlan
    /\ events = [unread |-> FALSE, final |-> FALSE]
    /\ cursor = [final |-> FALSE, any |-> FALSE]
    /\ mode \in {"sync", "stream"}
    /\ aged = FALSE

(***************************************************************************)
(* Shared pieces of the handlers                                           *)
(***************************************************************************)
Goto(t, from, to) == pc[t] = from /\ pc' = [pc EXCEPT ![t] = to]

Remember(t, m) == seen' = [seen EXCEPT ![t] = m]
Forget(t) == seen' = [seen EXCEPT ![t] = NoMeta]
Intend(t, s, a) == plan' = [plan EXCEPT ![t] = Outcome(s, a)]

Unread == [events EXCEPT !.unread = TRUE]

\* append_run_event runs under _RUN_LOCK
Append == lock = Nobody /\ events' = Unread

\* should_cancel: the control flag, or the status
ShouldCancel == control.cancel \/ meta.status \in {"cancelled", "cancelling"}

StartRun ==
    /\ meta.status = "none" /\ lock = Nobody
    /\ meta' = [NoMeta EXCEPT !.status = "running"]
    /\ pc' = [pc EXCEPT ![Worker] = "graph",
                        ![Stream] = IF mode = "stream" THEN "read" ELSE "idle"]
    /\ UNCHANGED <<control, lock, seen, seenControl, plan, deferred, events,
                   cursor, mode, aged>>

(***************************************************************************)
(* A thread that executes the graph.  The graph reads meta.status at its   *)
(* cancellation checks and consumes steering from control.json.            *)
(***************************************************************************)
\* mutant: any run with a pending approval is resumed, whatever its status
ResumeAnyPending(r) ==
    /\ Goto(r, "idle", "graph")
    /\ meta.pending
    /\ UNCHANGED <<meta, control, lock, seen, seenControl, plan, deferred,
                   events, cursor, mode, aged>>

\* resume_approval: only the status is tested, and it is left as it is
ResumeApproval(r) ==
    /\ Goto(r, "idle", "graph")
    /\ meta.status = "waiting_approval" /\ meta.pending
    /\ UNCHANGED <<meta, control, lock, seen, seenControl, plan, deferred,
                   events, cursor, mode, aged>>

\* consume_steering: read control.json ...
ConsumeRead(d) ==
    /\ Goto(d, "graph", "consume")
    /\ control.steering
    /\ seenControl' = [seenControl EXCEPT ![d] = control]
    /\ UNCHANGED <<meta, control, lock, seen, plan, deferred, events, cursor,
                   mode, aged>>

\* ... and write it back without the instructions; an instruction parsed as
\* "cancel" ends the graph
ConsumeWrite(d) ==
    /\ \/ Goto(d, "consume", "graph") /\ UNCHANGED plan
       \/ Goto(d, "consume", "ended") /\ Intend(d, "cancelled", TRUE)
    /\ control' = [seenControl[d] EXCEPT !.steering = FALSE]
    /\ seenControl' = [seenControl EXCEPT ![d] = NoControl]
    /\ UNCHANGED <<meta, lock, seen, deferred, events, cursor, mode, aged>>

\* the graph answers, asks for an approval, or stops at a cancellation check
GraphEnds(d) ==
    /\ Goto(d, "graph", "ended")
    /\ \/ Intend(d, "completed", TRUE)
       \/ Intend(d, "waiting_approval", FALSE)
       \/ meta.status \in {"cancelling", "cancelled"} /\ Intend(d, "cancelled", TRUE)
    /\ UNCHANGED <<meta, control, lock, seen, seenControl, deferred, events,
                   cursor, mode, aged>>

\* the graph raises: start_run and stream_run record a failure (stream_run
\* after an error event), resume_approval lets the exception through
GraphRaises(d) ==
    /\ IF d = Worker
         THEN Goto(d, "graph", "complete") /\ Intend(d, "failed", FALSE)
         ELSE Goto(d, "graph", "idle") /\ UNCHANGED plan
    /\ IF d = Worker /\ mode = "stream" THEN Append ELSE UNCHANGED events
    /\ UNCHANGED <<meta, control, lock, seen, seenControl, deferred, cursor,
                   mode, aged>>

Streams(d) == d = Worker /\ mode = "stream"

\* start_run and resume_approval: _record_response_events, then branch
RecordEvents(d) ==
    /\ ~Streams(d)
    /\ Append
    /\ \/ plan[d].status = "waiting_approval" /\ Goto(d, "ended", "wait")
       \/ plan[d].status # "waiting_approval" /\ Goto(d, "ended", "complete")
    /\ UNCHANGED <<meta, control, lock, seen, seenControl, plan, deferred,
                   cursor, mode, aged>>

\* stream_run: a delta event is appended while nothing asks to cancel
EmitEvent(d) ==
    /\ Streams(d) /\ pc[d] = "ended"
    /\ ~ShouldCancel
    /\ Append
    /\ UNCHANGED <<meta, control, lock, pc, seen, seenControl, plan, deferred,
                   cursor, mode, aged>>

\* mutant: the worker returns without defer_stream_finalization
SeesCancelAndReturns(d) ==
    /\ Streams(d)
    /\ ShouldCancel
    /\ Append
    /\ Goto(d, "ended", "idle") /\ plan' = [plan EXCEPT ![d] = NoPlan]
    /\ UNCHANGED <<meta, control, lock, seen, seenControl, deferred, cursor,
                   mode, aged>>

\* stream_run: a delta event finds the run cancelled; the answer is dropped
EmitSeesCancel(d) ==
    /\ Streams(d)
    /\ ShouldCancel
    /\ Append
    /\ Goto(d, "ended", "defer") /\ Intend(d, "cancelled", FALSE)
    /\ UNCHANGED <<meta, control, lock, seen, seenControl, deferred, cursor,
                   mode, aged>>

\* stream_run: final_message is appended without a cancellation check
EmitFinal(d) ==
    /\ Streams(d)
    /\ lock = Nobody
    /\ events' = [unread |-> TRUE, final |-> TRUE]
    /\ \/ plan[d].status = "waiting_approval" /\ Goto(d, "ended", "wait")
       \/ plan[d].status # "waiting_approval" /\ Goto(d, "ended", "decide")
    /\ UNCHANGED <<meta, control, lock, seen, seenControl, plan, deferred,
                   cursor, mode, aged>>

\* stream_run: a cancelled run is left to the generator, another is completed
DecideTerminal(d) ==
    /\ \/ /\ plan[d].status = "cancelled" \/ meta.status = "cancelling"
          /\ Goto(d, "decide", "defer") /\ Intend(d, "cancelled", plan[d].answer)
       \/ /\ plan[d].status # "cancelled" /\ meta.status # "cancelling"
          /\ Goto(d, "decide", "complete") /\ UNCHANGED plan
    /\ UNCHANGED <<meta, control, lock, seen, seenControl, deferred, events,
                   cursor, mode, aged>>

\* defer_stream_finalization
Defer(d) ==
    /\ Goto(d, "defer", "idle")
    /\ deferred' = plan[d]
    /\ plan' = [plan EXCEPT ![d] = NoPlan]
    /\ UNCHANGED <<meta, control, lock, seen, seenControl, events, cursor,
                   mode, aged>>

\* wait_for_approval, without the lock: read meta.json ...
WaitRead(d) ==
    /\ Goto(d, "wait", "waitWrite")
    /\ Remember(d, meta)
    /\ UNCHANGED <<meta, control, lock, seenControl, plan, deferred, events,
                   cursor, mode, aged>>

\* ... and write it back waiting, then append the approval_waiting event
WaitWrite(d) ==
    /\ Goto(d, "waitWrite", "event")
    /\ meta' = [seen[d] EXCEPT !.status = "waiting_approval", !.pending = TRUE]
    /\ Forget(d) /\ plan' = [plan EXCEPT ![d] = NoPlan]
    /\ UNCHANGED <<control, lock, seenControl, deferred, events, cursor, mode,
                   aged>>

\* the event a handler appends last
AppendLast(t) ==
    /\ Goto(t, "event", "idle")
    /\ Append
    /\ UNCHANGED <<meta, control, lock, seen, seenControl, plan, deferred,
                   cursor, mode, aged>>

(***************************************************************************)
(* complete_active_run, by a driver or by the generator.  It holds the     *)
(* lock from its read to its write, which keeps out other completions and  *)
(* appended events but none of the handlers that take no lock.             *)
(***************************************************************************)
CompleteRead(t) ==
    /\ Goto(t, "complete", "completeWrite")
    /\ lock = Nobody /\ lock' = t
    /\ Remember(t, meta)
    /\ UNCHANGED <<meta, control, seenControl, plan, deferred, events, cursor,
                   mode, aged>>

\* mutant: every run that did not fail is recorded as completed
AlwaysCompleted(m, p) == IF p.status = "failed" THEN "failed" ELSE "completed"

FinalStatus(m, p) ==
    IF m.status \in {"cancelled", "cancelling"} /\ p.status = "completed"
      THEN "cancelled" ELSE p.status

CompleteWrite(t) ==
    /\ Goto(t, "completeWrite", IF t = Stream THEN "done" ELSE "idle")
    /\ meta' = [seen[t] EXCEPT !.status = FinalStatus(seen[t], plan[t]),
                               !.answer = plan[t].answer]
    /\ lock' = Nobody
    /\ Forget(t) /\ plan' = [plan EXCEPT ![t] = NoPlan]
    /\ UNCHANGED <<control, seenControl, deferred, events, cursor, mode, aged>>

(***************************************************************************)
(* The generator of stream_run                                             *)
(***************************************************************************)
StreamRead ==
    /\ Goto(Stream, "read", "settled")
    /\ cursor' = [final |-> cursor.final \/ (events.unread /\ events.final),
                  any   |-> events.unread]
    /\ events' = [events EXCEPT !.unread = FALSE]
    /\ UNCHANGED <<meta, control, lock, seen, seenControl, plan, deferred,
                   mode, aged>>

\* the client goes away while the generator is suspended at a yield
ClientLeaves ==
    /\ ClientMayLeave
    /\ cursor.any /\ Goto(Stream, "settled", "gone")
    /\ UNCHANGED <<meta, control, lock, seen, seenControl, plan, deferred,
                   events, cursor, mode, aged>>

\* mutant: only an ended run closes the stream, a waiting one does not
SettledOnlyWhenEnded ==
    /\ IF cursor.final /\ meta.status \notin Active
         THEN Goto(Stream, "settled", "done")
         ELSE Goto(Stream, "settled", "take")
    /\ UNCHANGED <<meta, control, lock, seen, seenControl, plan, deferred,
                   events, cursor, mode, aged>>

\* the final message was delivered: close once the run waits or has ended
StreamSettled ==
    /\ IF cursor.final /\ (meta.status = "waiting_approval" \/ meta.status \notin Active)
         THEN Goto(Stream, "settled", "done")
         ELSE Goto(Stream, "settled", "take")
    /\ UNCHANGED <<meta, control, lock, seen, seenControl, plan, deferred,
                   events, cursor, mode, aged>>

\* take_deferred_stream_finalization, when the last read was empty
StreamTake ==
    /\ IF ~cursor.any /\ deferred # NoPlan
         THEN /\ Goto(Stream, "take", "complete")
              /\ plan' = [plan EXCEPT ![Stream] = deferred]
              /\ deferred' = NoPlan
         ELSE Goto(Stream, "take", "status") /\ UNCHANGED <<plan, deferred>>
    /\ UNCHANGED <<meta, control, lock, seen, seenControl, events, cursor,
                   mode, aged>>

\* mutant: active_stream_statuses without "cancelling"
StatusWithoutCancelling ==
    /\ IF meta.status \notin {"running", "waiting_approval"} /\ ~cursor.any
         THEN Goto(Stream, "status", "done")
         ELSE Goto(Stream, "status", "read")
    /\ UNCHANGED <<meta, control, lock, seen, seenControl, plan, deferred,
                   events, cursor, mode, aged>>

\* no event and no active run: close; otherwise poll again
StreamStatus ==
    /\ IF meta.status \notin Active /\ ~cursor.any
         THEN Goto(Stream, "status", "done")
         ELSE Goto(Stream, "status", "read")
    /\ UNCHANGED <<meta, control, lock, seen, seenControl, plan, deferred,
                   events, cursor, mode, aged>>

(***************************************************************************)
(* cancel_run and request_run_cancellation                                 *)
(***************************************************************************)
CancelCheck(c) ==
    /\ Goto(c, "idle", "control")
    /\ meta.status \in Active
    /\ UNCHANGED <<meta, control, lock, seen, seenControl, plan, deferred,
                   events, cursor, mode, aged>>

\* _set_control_flag and _append_steering read control.json ...
ControlRead(t) ==
    /\ Goto(t, "control", "controlWrite")
    /\ seenControl' = [seenControl EXCEPT ![t] = control]
    /\ UNCHANGED <<meta, control, lock, seen, plan, deferred, events, cursor,
                   mode, aged>>

\* ... and write it back with the flag set
CancelFlag(c) ==
    /\ Goto(c, "controlWrite", "cancel")
    /\ control' = [seenControl[c] EXCEPT !.cancel = TRUE]
    /\ seenControl' = [seenControl EXCEPT ![c] = NoControl]
    /\ UNCHANGED <<meta, lock, seen, plan, deferred, events, cursor, mode, aged>>

CancelRead(c) ==
    /\ \/ meta.status \in Terminal /\ Goto(c, "cancel", "idle") /\ UNCHANGED seen
       \/ meta.status \notin Terminal /\ Goto(c, "cancel", "cancelWrite") /\ Remember(c, meta)
    /\ UNCHANGED <<meta, control, lock, seenControl, plan, deferred, events,
                   cursor, mode, aged>>

CancelWrite(c) ==
    /\ Goto(c, "cancelWrite", "event")
    /\ meta' = [seen[c] EXCEPT !.status = "cancelling"]
    /\ Forget(c)
    /\ UNCHANGED <<control, lock, seenControl, plan, deferred, events, cursor,
                   mode, aged>>

(***************************************************************************)
(* steer_run                                                               *)
(***************************************************************************)
SteerCheck(s) ==
    /\ Goto(s, "idle", "control")
    /\ meta.status \in {"running", "cancelling"}
    /\ UNCHANGED <<meta, control, lock, seen, seenControl, plan, deferred,
                   events, cursor, mode, aged>>

SteerWrite(s) ==
    /\ Goto(s, "controlWrite", "event")
    /\ control' = [seenControl[s] EXCEPT !.steering = TRUE]
    /\ seenControl' = [seenControl EXCEPT ![s] = NoControl]
    /\ UNCHANGED <<meta, lock, seen, plan, deferred, events, cursor, mode, aged>>

(***************************************************************************)
(* get_active_runs: _expire_stale_waiting_run measures the age of the RUN  *)
(***************************************************************************)
\* mutant: every active run expires
ExpireAnyActive(p) ==
    /\ Goto(p, "idle", "expire")
    /\ meta.status \in Active /\ aged
    /\ Remember(p, meta)
    /\ UNCHANGED <<meta, control, lock, seenControl, plan, deferred, events,
                   cursor, mode, aged>>

ExpireRead(p) ==
    /\ Goto(p, "idle", "expire")
    /\ meta.status = "waiting_approval" /\ aged
    /\ Remember(p, meta)
    /\ UNCHANGED <<meta, control, lock, seenControl, plan, deferred, events,
                   cursor, mode, aged>>

ExpireWrite(p) ==
    /\ Goto(p, "expire", "idle")
    /\ meta' = [seen[p] EXCEPT !.status = "cancelled"]
    /\ Forget(p)
    /\ UNCHANGED <<control, lock, seenControl, plan, deferred, events, cursor,
                   mode, aged>>

\* the run grows older than the TTL, whatever it does meanwhile
TimePasses ==
    /\ meta.status # "none" /\ ~aged
    /\ aged' = TRUE
    /\ UNCHANGED <<meta, control, lock, pc, seen, seenControl, plan, deferred,
                   events, cursor, mode>>

(***************************************************************************)
(* The worker process stops and starts again: threads, lock and deferred   *)
(* finalization are gone, the files stay; reap_orphaned_runs fails a run   *)
(* that was in flight.  The client's stream is broken.                     *)
(***************************************************************************)
Reaped(m) ==
    IF m.status \in {"running", "cancelling"} THEN [m EXCEPT !.status = "failed"] ELSE m

Restart ==
    /\ meta.status # "none"
    /\ meta' = Reaped(meta)
    /\ pc' = [t \in Threads |-> IF t # Stream \/ mode = "sync" THEN "idle"
                                  ELSE IF pc[t] = "done" THEN "done" ELSE "gone"]
    /\ lock' = Nobody
    /\ seen' = [t \in Threads |-> NoMeta]
    /\ seenControl' = [t \in Threads |-> NoControl]
    /\ plan' = [t \in Threads |-> NoPlan]
    /\ deferred' = NoPlan
    /\ UNCHANGED <<control, events, cursor, mode, aged>>

DriverStep(d) ==
    \/ ConsumeRead(d) \/ ConsumeWrite(d) \/ GraphEnds(d) \/ GraphRaises(d)
    \/ RecordEvents(d) \/ EmitEvent(d) \/ EmitSeesCancel(d) \/ EmitFinal(d)
    \/ DecideTerminal(d) \/ Defer(d) \/ WaitRead(d) \/ WaitWrite(d)
    \/ AppendLast(d) \/ CompleteRead(d) \/ CompleteWrite(d)

StreamStep ==
    \/ StreamRead \/ StreamSettled \/ StreamTake \/ StreamStatus
    \/ CompleteRead(Stream) \/ CompleteWrite(Stream)

\* what a canceller does once its request has been accepted
CancelStep(c) ==
    \/ ControlRead(c) \/ CancelFlag(c) \/ CancelRead(c) \/ CancelWrite(c)
    \/ AppendLast(c)

SteerStep(s) == ControlRead(s) \/ SteerWrite(s) \/ AppendLast(s)

Next ==
    \/ StartRun \/ StreamStep \/ ClientLeaves \/ TimePasses \/ Restart
    \/ \E d \in Drivers : DriverStep(d)
    \/ \E r \in Resumers : ResumeApproval(r)
    \/ \E c \in Cancellers : CancelCheck(c) \/ CancelStep(c)
    \/ \E s \in Steerers : SteerCheck(s) \/ SteerStep(s)
    \/ \E p \in Pollers : ExpireRead(p) \/ ExpireWrite(p)

Spec == Init /\ [][Next]_vars

(***************************************************************************)
(* Fairness: an accepted request and an executing thread go on; restarts   *)
(* and the clock promise nothing.  The graph ends because its loop and     *)
(* time budgets are finite (SF: steering may keep interrupting it), and it *)
(* yields finitely many delta events.  Users send finitely many requests   *)
(* to one run: the generator takes a deferred finalization only after a    *)
(* read that found no event, and every request appends one.                *)
(***************************************************************************)
UserActs ==
    \/ \E c \in Cancellers : CancelCheck(c)
    \/ \E s \in Steerers : SteerCheck(s)
    \/ \E r \in Resumers : ResumeApproval(r)

UsersRest == <>[][~UserActs]_vars

Fairness ==
    /\ UsersRest
    /\ WF_vars(StreamStep)
    /\ \A d \in Drivers :
          WF_vars(DriverStep(d)) /\ SF_vars(GraphEnds(d)) /\ WF_vars(EmitFinal(d))
    /\ \A c \in Cancellers : WF_vars(CancelStep(c))
    /\ \A s \in Steerers : WF_vars(SteerStep(s))
    /\ \A p \in Pollers : WF_vars(ExpireWrite(p))

FairSpec == Spec /\ Fairness

(***************************************************************************)
(* Properties                                                              *)
(***************************************************************************)
PCs == {"idle", "graph", "consume", "ended", "decide", "defer", "wait",
        "waitWrite", "event", "complete", "completeWrite", "read", "settled",
        "take", "status", "done", "gone", "control", "controlWrite", "cancel",
        "cancelWrite", "expire"}

\* The files, the lock and the threads' locals keep their shape.
TypeOK ==
    /\ meta \in Metas
    /\ control \in Controls
    /\ lock \in Threads \cup {Nobody}
    /\ pc \in [Threads -> PCs]
    /\ seen \in [Threads -> Metas]
    /\ seenControl \in [Threads -> Controls]
    /\ plan \in [Threads -> Plans]
    /\ deferred \in Plans
    /\ events \in [unread : BOOLEAN, final : BOOLEAN]
    /\ cursor \in [final : BOOLEAN, any : BOOLEAN]
    /\ mode \in {"sync", "stream"}
    /\ aged \in BOOLEAN

\* the worker thread has not handed the run over yet
WorkerHolds == pc[Worker] \notin {"idle", "event"}
StreamFinalizes == pc[Stream] \in {"complete", "completeWrite"}

\* From start_active_run until the run's own threads have recorded its end
\* (or that it waits), nobody else ends it: whatever requests race with the
\* worker, the status stays running or cancelling.
OwnThreadsEndTheRun ==
    WorkerHolds \/ deferred # NoPlan \/ StreamFinalizes
        => meta.status \in {"running", "cancelling"}

\* The hand-over of a cancelled stream is exclusive: the run's end is owed by
\* the worker, by the deferred finalization, or by the generator, never by two
\* of them, so stream_run completes a run at most once.
OneFinalizer ==
    /\ ~(WorkerHolds /\ deferred # NoPlan)
    /\ ~(WorkerHolds /\ StreamFinalizes)
    /\ ~(deferred # NoPlan /\ StreamFinalizes)

\* When the generator sends [DONE] no finalization is owed any more: the
\* worker has handed over and what it deferred has been recorded.
DoneOwesNothing == pc[Stream] = "done" => ~WorkerHolds /\ deferred = NoPlan

\* The end of a run is owed by one thread at most, and by none once the stream
\* has ended with [DONE].
EndIsOwedOnce == OneFinalizer /\ DoneOwesNothing

\* meta.json always carries what its status promises the UI: an approval to
\* answer while waiting, an answer when completed, whatever stale snapshot was
\* written last.
StatusHasPayload ==
    /\ meta.status = "waiting_approval" => meta.pending
    /\ meta.status = "completed" => meta.answer

\* A streamed or synchronous run that is executing reaches a terminal status
\* or waits for the user; also one that is cancelled while its worker executes it:
\* the worker, or the generator it hands the run to, records an end.
RunSettles ==
    meta.status = "running" \/ (meta.status = "cancelling" /\ WorkerHolds)
        ~> meta.status \in Terminal \cup {"waiting_approval"}

\* A client that stays connected gets the end of the stream of a run that
\* nobody cancels.
StreamEnds ==
    pc[Stream] = "read" ~> pc[Stream] \in {"done", "gone"} \/ control.cancel

\* "Close the stream once the run settles": the generator that delivered the
\* final message of a settled run closes.
SettledStreamCloses ==
    cursor.final /\ meta.status \in Terminal \cup {"waiting_approval"}
        ~> pc[Stream] \in {"done", "gone"}

(***************************************************************************)
(* What the handlers promise together: see RunPromise                      *)
(***************************************************************************)
Busy ==
    \/ \E t \in Threads \ {Stream} : pc[t] # "idle"
    \/ pc[Stream] \notin {"idle", "done", "gone"}

Promise == INSTANCE RunPromise WITH status <- meta.status, busy <- Busy
PromiseSpec == Promise!Spec
=============================================================================
