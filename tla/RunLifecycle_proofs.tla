------------------------ MODULE RunLifecycle_proofs ------------------------
(***************************************************************************)
(* Proofs about RunLifecycle, for any sets of resuming, cancelling,        *)
(* steering and polling requests.                                          *)
(***************************************************************************)
EXTENDS RunLifecycle, TLAPS

\* Every thread named in a step is a thread, and the run's two own threads
\* are different from each other and from every request's.
LEMMA ThreadFacts ==
    /\ Worker \in Threads /\ Worker \in Drivers /\ Stream \in Threads
    /\ Stream # Worker /\ Stream \notin Drivers
    /\ \A d \in Drivers : d \in Threads /\ (d = Worker \/ d \in Resumers)
    /\ \A r \in Resumers : r \in Threads /\ r \in Drivers /\ r # Worker /\ r # Stream
    /\ \A c \in Cancellers : c \in Threads /\ c # Worker /\ c # Stream /\ c \notin Resumers \cup Pollers
    /\ \A s \in Steerers : s \in Threads /\ s # Worker /\ s # Stream /\ s \notin Resumers \cup Pollers
    /\ \A p \in Pollers : p \in Threads /\ p # Worker /\ p # Stream /\ p \notin Resumers
    /\ Nobody \notin Threads
BY ThreadsAssumption DEF Threads, Drivers

\* The types of the values the handlers write.
LEMMA ValueTypes ==
    /\ NoMeta \in Metas /\ NoControl \in Controls /\ NoPlan \in Plans
    /\ \A m \in Metas, s \in Statuses : [m EXCEPT !.status = s] \in Metas
    /\ \A m \in Metas : [m EXCEPT !.status = "waiting_approval", !.pending = TRUE] \in Metas
    /\ \A m \in Metas, s \in Statuses, a \in BOOLEAN :
          [m EXCEPT !.status = s, !.answer = a] \in Metas
    /\ \A c \in Controls : [c EXCEPT !.steering = FALSE] \in Controls
    /\ \A c \in Controls : [c EXCEPT !.steering = TRUE] \in Controls
    /\ \A c \in Controls : [c EXCEPT !.cancel = TRUE] \in Controls
    /\ \A s \in Terminal \cup {"waiting_approval", "none"}, a \in BOOLEAN : Outcome(s, a) \in Plans
BY DEF Metas, Controls, Plans, NoMeta, NoControl, NoPlan, Statuses, Active, Terminal, Outcome

\* What a thread intends to record is a plan.
LEMMA IntendType ==
    ASSUME plan \in [Threads -> Plans], NEW t \in Threads,
           NEW s \in {"completed", "failed", "cancelled", "waiting_approval"},
           NEW a \in BOOLEAN, Intend(t, s, a)
    PROVE  plan' \in [Threads -> Plans]
BY DEF Intend, Outcome, Plans, Terminal

\* complete_active_run records the status it was given, or "cancelled".
LEMMA FinalStatusType ==
    \A m \in Metas, p \in Plans :
        /\ FinalStatus(m, p) \in {p.status, "cancelled"}
        /\ FinalStatus(m, p) \in Statuses
        /\ p.answer \in BOOLEAN
        /\ p.status \in Statuses
BY DEF Metas, Plans, FinalStatus, Statuses, Active, Terminal

\* Type correctness: the files, the lock and the locals of the threads keep
\* their shape in every behaviour of the worker process.
THEOREM TypeCorrect == Spec => []TypeOK
<1>1. Init => TypeOK
  <2> SUFFICES ASSUME Init PROVE TypeOK
    OBVIOUS
  <2>1. /\ meta \in Metas /\ control \in Controls /\ lock \in Threads \cup {Nobody}
        /\ deferred \in Plans
    BY ValueTypes DEF Init
  <2>2. /\ seen \in [Threads -> Metas] /\ seenControl \in [Threads -> Controls]
        /\ plan \in [Threads -> Plans]
    BY ValueTypes DEF Init
  <2>3. /\ pc \in [Threads -> PCs] /\ mode \in {"sync", "stream"}
        /\ events \in [unread : BOOLEAN, final : BOOLEAN]
        /\ cursor \in [final : BOOLEAN, any : BOOLEAN]
        /\ aged \in BOOLEAN
    BY DEF Init, PCs
  <2> QED BY <2>1, <2>2, <2>3 DEF TypeOK
<1>2. TypeOK /\ [Next]_vars => TypeOK'
  <2> SUFFICES ASSUME TypeOK, [Next]_vars PROVE TypeOK'
    OBVIOUS
  <2> USE ThreadFacts
  <2>1. CASE StartRun
    BY <2>1, ValueTypes DEF StartRun, TypeOK, PCs, Statuses, Active
  <2>2. CASE StreamStep
    <3>1. CASE StreamRead
      BY <3>1 DEF StreamRead, TypeOK, Goto, PCs
    <3>2. CASE StreamSettled
      BY <3>2 DEF StreamSettled, TypeOK, Goto, PCs
    <3>3. CASE StreamTake
      <4>1. /\ plan' \in [Threads -> Plans]
            /\ deferred' \in Plans
        <5>1. \/ plan' = [plan EXCEPT ![Stream] = deferred] /\ deferred' = NoPlan
              \/ UNCHANGED <<plan, deferred>>
          BY <3>3 DEF StreamTake
        <5>2. plan \in [Threads -> Plans] /\ deferred \in Plans /\ NoPlan \in Plans
          BY ValueTypes DEF TypeOK
        <5> QED BY <5>1, <5>2
      <4>2. pc' \in [Threads -> PCs]
        BY <3>3 DEF StreamTake, TypeOK, Goto, PCs
      <4> QED BY <3>3, <4>1, <4>2 DEF StreamTake, TypeOK
    <3>4. CASE StreamStatus
      BY <3>4 DEF StreamStatus, TypeOK, Goto, PCs
    <3>5. CASE CompleteRead(Stream)
      BY <3>5 DEF CompleteRead, Remember, TypeOK, Goto, PCs
    <3>6. CASE CompleteWrite(Stream)
      BY <3>6, ValueTypes, FinalStatusType DEF CompleteWrite, Forget, TypeOK, Goto, PCs
    <3> QED BY <2>2, <3>1, <3>2, <3>3, <3>4, <3>5, <3>6 DEF StreamStep
  <2>3. CASE ClientLeaves
    BY <2>3 DEF ClientLeaves, TypeOK, Goto, PCs
  <2>4. CASE TimePasses
    BY <2>4 DEF TimePasses, TypeOK
  <2>5. CASE Restart
    BY <2>5, ValueTypes DEF Restart, Reaped, TypeOK, PCs, Statuses, Terminal
  <2>6. ASSUME NEW d \in Drivers, DriverStep(d) PROVE TypeOK'
    <3>1. CASE ConsumeRead(d)
      BY <3>1 DEF ConsumeRead, TypeOK, Goto, PCs
    <3>2. CASE ConsumeWrite(d)
      <4>1. plan' \in [Threads -> Plans]
        BY <3>2, IntendType DEF ConsumeWrite, TypeOK
      <4> QED BY <3>2, <4>1, ValueTypes DEF ConsumeWrite, TypeOK, Goto, PCs
    <3>3. CASE GraphEnds(d)
      <4>1. plan' \in [Threads -> Plans]
        BY <3>3, IntendType DEF GraphEnds, TypeOK
      <4> QED BY <3>3, <4>1 DEF GraphEnds, TypeOK, Goto, PCs
    <3>4. CASE GraphRaises(d)
      <4>1. plan' \in [Threads -> Plans]
        BY <3>4, IntendType DEF GraphRaises, TypeOK
      <4>2. pc' \in [Threads -> PCs]
        BY <3>4 DEF GraphRaises, TypeOK, Goto, PCs
      <4>3. events' \in [unread : BOOLEAN, final : BOOLEAN]
        BY <3>4 DEF GraphRaises, Append, Unread, TypeOK
      <4> QED BY <3>4, <4>1, <4>2, <4>3 DEF GraphRaises, TypeOK
    <3>5. CASE RecordEvents(d)
      BY <3>5 DEF RecordEvents, Append, Unread, TypeOK, Goto, PCs
    <3>6. CASE EmitEvent(d)
      BY <3>6 DEF EmitEvent, Append, Unread, TypeOK
    <3>7. CASE EmitSeesCancel(d)
      <4>1. plan' \in [Threads -> Plans]
        BY <3>7, IntendType DEF EmitSeesCancel, TypeOK
      <4> QED BY <3>7, <4>1 DEF EmitSeesCancel, Append, Unread, TypeOK, Goto, PCs
    <3>8. CASE EmitFinal(d)
      BY <3>8 DEF EmitFinal, TypeOK, Goto, PCs
    <3>9. CASE DecideTerminal(d)
      <4>1. plan[d].answer \in BOOLEAN
        BY DEF TypeOK, Plans
      <4>2. plan' \in [Threads -> Plans]
        BY <3>9, <4>1, IntendType DEF DecideTerminal, TypeOK
      <4> QED BY <3>9, <4>2 DEF DecideTerminal, TypeOK, Goto, PCs
    <3>10. CASE Defer(d)
      BY <3>10, ValueTypes DEF Defer, TypeOK, Goto, PCs
    <3>11. CASE WaitRead(d)
      BY <3>11 DEF WaitRead, Remember, TypeOK, Goto, PCs
    <3>12. CASE WaitWrite(d)
      BY <3>12, ValueTypes DEF WaitWrite, Forget, TypeOK, Goto, PCs
    <3>13. CASE AppendLast(d)
      BY <3>13 DEF AppendLast, Append, Unread, TypeOK, Goto, PCs
    <3>14. CASE CompleteRead(d)
      BY <3>14 DEF CompleteRead, Remember, TypeOK, Goto, PCs
    <3>15. CASE CompleteWrite(d)
      BY <3>15, ValueTypes, FinalStatusType DEF CompleteWrite, Forget, TypeOK, Goto, PCs
    <3> QED BY <2>6, <3>1, <3>2, <3>3, <3>4, <3>5, <3>6, <3>7, <3>8, <3>9, <3>10,
               <3>11, <3>12, <3>13, <3>14, <3>15 DEF DriverStep
  <2>7. ASSUME NEW r \in Resumers, ResumeApproval(r) PROVE TypeOK'
    BY <2>7 DEF ResumeApproval, TypeOK, Goto, PCs
  <2>8. ASSUME NEW c \in Cancellers, CancelCheck(c) \/ CancelStep(c) PROVE TypeOK'
    <3>1. CASE CancelCheck(c)
      BY <3>1 DEF CancelCheck, TypeOK, Goto, PCs
    <3>2. CASE ControlRead(c)
      BY <3>2 DEF ControlRead, TypeOK, Goto, PCs
    <3>3. CASE CancelFlag(c)
      BY <3>3, ValueTypes DEF CancelFlag, TypeOK, Goto, PCs
    <3>4. CASE CancelRead(c)
      BY <3>4 DEF CancelRead, Remember, TypeOK, Goto, PCs
    <3>5. CASE CancelWrite(c)
      BY <3>5, ValueTypes DEF CancelWrite, Forget, TypeOK, Goto, PCs, Statuses, Active
    <3>6. CASE AppendLast(c)
      BY <3>6 DEF AppendLast, Append, Unread, TypeOK, Goto, PCs
    <3> QED BY <2>8, <3>1, <3>2, <3>3, <3>4, <3>5, <3>6 DEF CancelStep
  <2>9. ASSUME NEW s \in Steerers, SteerCheck(s) \/ SteerStep(s) PROVE TypeOK'
    <3>1. CASE SteerCheck(s)
      BY <3>1 DEF SteerCheck, TypeOK, Goto, PCs
    <3>2. CASE ControlRead(s)
      BY <3>2 DEF ControlRead, TypeOK, Goto, PCs
    <3>3. CASE SteerWrite(s)
      BY <3>3, ValueTypes DEF SteerWrite, TypeOK, Goto, PCs
    <3>4. CASE AppendLast(s)
      BY <3>4 DEF AppendLast, Append, Unread, TypeOK, Goto, PCs
    <3> QED BY <2>9, <3>1, <3>2, <3>3, <3>4 DEF SteerStep
  <2>10. ASSUME NEW p \in Pollers, ExpireRead(p) \/ ExpireWrite(p) PROVE TypeOK'
    <3>1. CASE ExpireRead(p)
      BY <3>1 DEF ExpireRead, Remember, TypeOK, Goto, PCs
    <3>2. CASE ExpireWrite(p)
      BY <3>2, ValueTypes DEF ExpireWrite, Forget, TypeOK, Goto, PCs, Statuses, Terminal
    <3> QED BY <2>10, <3>1, <3>2
  <2>11. CASE UNCHANGED vars
    BY <2>11 DEF vars, TypeOK
  <2> QED BY <2>1, <2>2, <2>3, <2>4, <2>5, <2>6, <2>7, <2>8, <2>9, <2>10, <2>11 DEF Next
<1> QED BY <1>1, <1>2, PTL DEF Spec

(***************************************************************************)
(* The inductive invariant.  The hand-over of a run from its worker to its *)
(* generator is exclusive because nobody else can have the run before it:  *)
(* a run that never started has no thread at all, and while its own        *)
(* threads owe its end no request that could end it (an answered approval, *)
(* an expiry) is in flight, since those need a run that waits.             *)
(***************************************************************************)
Own == WorkerHolds \/ deferred # NoPlan \/ StreamFinalizes

FreshIdle ==
    meta.status = "none" => deferred = NoPlan /\ \A t \in Threads : pc[t] = "idle"

OwnedAlone == Own => \A t \in Resumers \cup Pollers : pc[t] = "idle"

\* what a thread is about to record fits the place it is at
PlanFits(t) ==
    /\ pc[t] = "ended" => plan[t].status \in Terminal \cup {"waiting_approval"}
    /\ pc[t] \in {"decide", "complete", "completeWrite"} => plan[t].status \in Terminal
    /\ pc[t] = "defer" => plan[t].status = "cancelled"
    /\ pc[t] \in {"decide", "defer"} => t = Worker
    /\ plan[t].status = "completed" => plan[t].answer

PlansFit ==
    /\ \A t \in Threads : PlanFits(t)
    /\ deferred # NoPlan => deferred.status = "cancelled"

HandOver ==
    /\ OwnThreadsEndTheRun /\ OneFinalizer /\ DoneOwesNothing
    /\ FreshIdle /\ OwnedAlone

Inv == PlansFit /\ HandOver

\* What a thread records always fits the place of the handler it is at; in
\* particular only terminal statuses reach complete_active_run.
LEMMA PlansStayFit == TypeOK /\ PlansFit /\ [Next]_vars => PlansFit'
  <1> SUFFICES ASSUME TypeOK, PlansFit, [Next]_vars PROVE PlansFit'
    OBVIOUS
  <1> USE ThreadFacts
  <1>1. CASE StartRun
    BY <1>1 DEF StartRun, Goto, PlansFit, PlanFits, TypeOK, Terminal
  <1>2. CASE StreamStep
    <2>1. CASE StreamRead
      BY <2>1 DEF StreamRead, Goto, PlansFit, PlanFits, TypeOK, Terminal
    <2>2. CASE StreamSettled
      BY <2>2 DEF StreamSettled, Goto, PlansFit, PlanFits, TypeOK, Terminal
    <2>3. CASE StreamTake
      BY <2>3 DEF StreamTake, NoPlan, Goto, PlansFit, PlanFits, TypeOK, Terminal
    <2>4. CASE StreamStatus
      BY <2>4 DEF StreamStatus, Goto, PlansFit, PlanFits, TypeOK, Terminal
    <2>5. CASE CompleteRead(Stream)
      BY <2>5 DEF CompleteRead, Goto, PlansFit, PlanFits, TypeOK, Terminal
    <2>6. CASE CompleteWrite(Stream)
      BY <2>6 DEF CompleteWrite, NoPlan, Goto, PlansFit, PlanFits, TypeOK, Terminal
    <2> QED BY <1>2, <2>1, <2>2, <2>3, <2>4, <2>5, <2>6 DEF StreamStep
  <1>3. CASE ClientLeaves
    BY <1>3 DEF ClientLeaves, Goto, PlansFit, PlanFits, TypeOK, Terminal
  <1>4. CASE TimePasses
    BY <1>4 DEF TimePasses, Goto, PlansFit, PlanFits, TypeOK, Terminal
  <1>5. CASE Restart
    BY <1>5 DEF Restart, NoPlan, Goto, PlansFit, PlanFits, TypeOK, Terminal
  <1>6. ASSUME NEW d \in Drivers, DriverStep(d) PROVE PlansFit'
    <2>1. CASE ConsumeRead(d)
      BY <2>1 DEF ConsumeRead, Goto, PlansFit, PlanFits, TypeOK, Terminal
    <2>2. CASE ConsumeWrite(d)
      BY <2>2 DEF ConsumeWrite, Intend, Outcome, Goto, PlansFit, PlanFits, TypeOK, Terminal
    <2>3. CASE GraphEnds(d)
      BY <2>3 DEF GraphEnds, Intend, Outcome, Goto, PlansFit, PlanFits, TypeOK, Terminal
    <2>4. CASE GraphRaises(d)
      BY <2>4 DEF GraphRaises, Intend, Outcome, Goto, PlansFit, PlanFits, TypeOK, Terminal
    <2>5. CASE RecordEvents(d)
      BY <2>5 DEF RecordEvents, Streams, Goto, PlansFit, PlanFits, TypeOK, Terminal
    <2>6. CASE EmitEvent(d)
      BY <2>6 DEF EmitEvent, Goto, PlansFit, PlanFits, TypeOK, Terminal
    <2>7. CASE EmitSeesCancel(d)
      BY <2>7 DEF EmitSeesCancel, Intend, Outcome, Streams, Goto, PlansFit, PlanFits, TypeOK, Terminal
    <2>8. CASE EmitFinal(d)
      BY <2>8 DEF EmitFinal, Streams, Goto, PlansFit, PlanFits, TypeOK, Terminal
    <2>9. CASE DecideTerminal(d)
      BY <2>9 DEF DecideTerminal, Intend, Outcome, Goto, PlansFit, PlanFits, TypeOK, Terminal
    <2>10. CASE Defer(d)
      BY <2>10 DEF Defer, NoPlan, Goto, PlansFit, PlanFits, TypeOK, Terminal
    <2>11. CASE WaitRead(d)
      BY <2>11 DEF WaitRead, Goto, PlansFit, PlanFits, TypeOK, Terminal
    <2>12. CASE WaitWrite(d)
      BY <2>12 DEF WaitWrite, NoPlan, Goto, PlansFit, PlanFits, TypeOK, Terminal
    <2>13. CASE AppendLast(d)
      BY <2>13 DEF AppendLast, Goto, PlansFit, PlanFits, TypeOK, Terminal
    <2>14. CASE CompleteRead(d)
      BY <2>14 DEF CompleteRead, Goto, PlansFit, PlanFits, TypeOK, Terminal
    <2>15. CASE CompleteWrite(d)
      BY <2>15 DEF CompleteWrite, NoPlan, Goto, PlansFit, PlanFits, TypeOK, Terminal
    <2> QED BY <1>6, <2>1, <2>2, <2>3, <2>4, <2>5, <2>6, <2>7, <2>8, <2>9, <2>10, <2>11, <2>12, <2>13, <2>14, <2>15
             DEF DriverStep
  <1>7. ASSUME NEW r \in Resumers, ResumeApproval(r) PROVE PlansFit'
    BY <1>7 DEF ResumeApproval, Goto, PlansFit, PlanFits, TypeOK, Terminal
  <1>8. ASSUME NEW c \in Cancellers, CancelCheck(c) \/ CancelStep(c) PROVE PlansFit'
    <2>1. CASE CancelCheck(c)
      BY <2>1 DEF CancelCheck, Goto, PlansFit, PlanFits, TypeOK, Terminal
    <2>2. CASE ControlRead(c)
      BY <2>2 DEF ControlRead, Goto, PlansFit, PlanFits, TypeOK, Terminal
    <2>3. CASE CancelFlag(c)
      BY <2>3 DEF CancelFlag, Goto, PlansFit, PlanFits, TypeOK, Terminal
    <2>4. CASE CancelRead(c)
      BY <2>4 DEF CancelRead, Goto, PlansFit, PlanFits, TypeOK, Terminal
    <2>5. CASE CancelWrite(c)
      BY <2>5 DEF CancelWrite, Goto, PlansFit, PlanFits, TypeOK, Terminal
    <2>6. CASE AppendLast(c)
      BY <2>6 DEF AppendLast, Goto, PlansFit, PlanFits, TypeOK, Terminal
    <2> QED BY <1>8, <2>1, <2>2, <2>3, <2>4, <2>5, <2>6 DEF CancelStep
  <1>9. ASSUME NEW s \in Steerers, SteerCheck(s) \/ SteerStep(s) PROVE PlansFit'
    <2>1. CASE SteerCheck(s)
      BY <2>1 DEF SteerCheck, Goto, PlansFit, PlanFits, TypeOK, Terminal
    <2>2. CASE ControlRead(s)
      BY <2>2 DEF ControlRead, Goto, PlansFit, PlanFits, TypeOK, Terminal
    <2>3. CASE SteerWrite(s)
      BY <2>3 DEF SteerWrite, Goto, PlansFit, PlanFits, TypeOK, Terminal
    <2>4. CASE AppendLast(s)
      BY <2>4 DEF AppendLast, Goto, PlansFit, PlanFits, TypeOK, Terminal
    <2> QED BY <1>9, <2>1, <2>2, <2>3, <2>4 DEF SteerStep
  <1>10. ASSUME NEW p \in Pollers, ExpireRead(p) \/ ExpireWrite(p) PROVE PlansFit'
    <2>1. CASE ExpireRead(p)
      BY <2>1 DEF ExpireRead, Goto, PlansFit, PlanFits, TypeOK, Terminal
    <2>2. CASE ExpireWrite(p)
      BY <2>2 DEF ExpireWrite, Goto, PlansFit, PlanFits, TypeOK, Terminal
    <2> QED BY <1>10, <2>1, <2>2
  <1>11. CASE UNCHANGED vars
    BY <1>11 DEF vars, Goto, PlansFit, PlanFits, TypeOK, Terminal
  <1> QED BY <1>1, <1>2, <1>3, <1>4, <1>5, <1>6, <1>7, <1>8, <1>9, <1>10, <1>11 DEF Next

\* Once nobody owes the end of a run that started, the hand-over is over.
LEMMA OverWhenNotOwned == ~Own' /\ meta'.status # "none" => HandOver'
BY DEF HandOver, OwnThreadsEndTheRun, OneFinalizer, DoneOwesNothing, FreshIdle,
       OwnedAlone, Own

\* The hand-over of a run is exclusive, whatever requests interleave.
LEMMA HandOverHolds == TypeOK /\ Inv /\ [Next]_vars => HandOver'
  <1> SUFFICES ASSUME TypeOK, PlansFit, HandOver, [Next]_vars PROVE HandOver'
    BY DEF Inv
  <1> USE ThreadFacts
  <1>1. CASE StartRun
    BY <1>1 DEF StartRun, NoMeta, Goto, HandOver, OwnThreadsEndTheRun, OneFinalizer, DoneOwesNothing, FreshIdle,
          OwnedAlone, Own, WorkerHolds, StreamFinalizes, TypeOK
  <1>2. CASE StreamStep
    <2>1. CASE StreamRead
      BY <2>1 DEF StreamRead, Goto, HandOver, OwnThreadsEndTheRun, OneFinalizer, DoneOwesNothing, FreshIdle,
          OwnedAlone, Own, WorkerHolds, StreamFinalizes, TypeOK
    <2>2. CASE StreamSettled
      BY <2>2 DEF StreamSettled, Active, Goto, HandOver, OwnThreadsEndTheRun, OneFinalizer, DoneOwesNothing, FreshIdle,
          OwnedAlone, Own, WorkerHolds, StreamFinalizes, TypeOK
    <2>3. CASE StreamTake
      BY <2>3 DEF StreamTake, NoPlan, Goto, HandOver, OwnThreadsEndTheRun, OneFinalizer, DoneOwesNothing, FreshIdle,
          OwnedAlone, Own, WorkerHolds, StreamFinalizes, TypeOK
    <2>4. CASE StreamStatus
      BY <2>4 DEF StreamStatus, Active, Goto, HandOver, OwnThreadsEndTheRun, OneFinalizer, DoneOwesNothing, FreshIdle,
          OwnedAlone, Own, WorkerHolds, StreamFinalizes, TypeOK
    <2>5. CASE CompleteRead(Stream)
      BY <2>5 DEF CompleteRead, Remember, Goto, HandOver, OwnThreadsEndTheRun, OneFinalizer, DoneOwesNothing, FreshIdle,
          OwnedAlone, Own, WorkerHolds, StreamFinalizes, TypeOK
    <2>6. CASE CompleteWrite(Stream)
      <3>1. meta'.status # "none"
        BY <2>6 DEF CompleteWrite, Goto, FinalStatus, PlansFit, PlanFits, TypeOK, Metas, Terminal
      <3>2. ~Own'
        BY <2>6 DEF CompleteWrite, Goto, TypeOK, HandOver, OneFinalizer, Own, WorkerHolds,
                    StreamFinalizes
      <3> QED BY <3>1, <3>2, OverWhenNotOwned
    <2> QED BY <1>2, <2>1, <2>2, <2>3, <2>4, <2>5, <2>6 DEF StreamStep
  <1>3. CASE ClientLeaves
    BY <1>3 DEF ClientLeaves, Goto, HandOver, OwnThreadsEndTheRun, OneFinalizer, DoneOwesNothing, FreshIdle,
          OwnedAlone, Own, WorkerHolds, StreamFinalizes, TypeOK
  <1>4. CASE TimePasses
    BY <1>4 DEF TimePasses, Goto, HandOver, OwnThreadsEndTheRun, OneFinalizer, DoneOwesNothing, FreshIdle,
          OwnedAlone, Own, WorkerHolds, StreamFinalizes, TypeOK
  <1>5. CASE Restart
    BY <1>5 DEF Restart, Reaped, NoPlan, Metas, Goto, HandOver, OwnThreadsEndTheRun, OneFinalizer, DoneOwesNothing, FreshIdle,
          OwnedAlone, Own, WorkerHolds, StreamFinalizes, TypeOK
  <1>6. ASSUME NEW d \in Drivers, DriverStep(d) PROVE HandOver'
    <2>1. CASE ConsumeRead(d)
      BY <2>1 DEF ConsumeRead, Goto, HandOver, OwnThreadsEndTheRun, OneFinalizer, DoneOwesNothing, FreshIdle,
          OwnedAlone, Own, WorkerHolds, StreamFinalizes, TypeOK
    <2>2. CASE ConsumeWrite(d)
      BY <2>2 DEF ConsumeWrite, Intend, Outcome, Goto, HandOver, OwnThreadsEndTheRun, OneFinalizer, DoneOwesNothing, FreshIdle,
          OwnedAlone, Own, WorkerHolds, StreamFinalizes, TypeOK
    <2>3. CASE GraphEnds(d)
      BY <2>3 DEF GraphEnds, Intend, Outcome, Goto, HandOver, OwnThreadsEndTheRun, OneFinalizer, DoneOwesNothing, FreshIdle,
          OwnedAlone, Own, WorkerHolds, StreamFinalizes, TypeOK
    <2>4. CASE GraphRaises(d)
      BY <2>4 DEF GraphRaises, Intend, Outcome, Goto, HandOver, OwnThreadsEndTheRun, OneFinalizer, DoneOwesNothing, FreshIdle,
          OwnedAlone, Own, WorkerHolds, StreamFinalizes, TypeOK
    <2>5. CASE RecordEvents(d)
      BY <2>5 DEF RecordEvents, Streams, Goto, HandOver, OwnThreadsEndTheRun, OneFinalizer, DoneOwesNothing, FreshIdle,
          OwnedAlone, Own, WorkerHolds, StreamFinalizes, TypeOK
    <2>6. CASE EmitEvent(d)
      BY <2>6 DEF EmitEvent, Goto, HandOver, OwnThreadsEndTheRun, OneFinalizer, DoneOwesNothing, FreshIdle,
          OwnedAlone, Own, WorkerHolds, StreamFinalizes, TypeOK
    <2>7. CASE EmitSeesCancel(d)
      BY <2>7 DEF EmitSeesCancel, Intend, Outcome, Streams, Goto, HandOver, OwnThreadsEndTheRun, OneFinalizer, DoneOwesNothing, FreshIdle,
          OwnedAlone, Own, WorkerHolds, StreamFinalizes, TypeOK
    <2>8. CASE EmitFinal(d)
      BY <2>8 DEF EmitFinal, Streams, Goto, HandOver, OwnThreadsEndTheRun, OneFinalizer, DoneOwesNothing, FreshIdle,
          OwnedAlone, Own, WorkerHolds, StreamFinalizes, TypeOK
    <2>9. CASE DecideTerminal(d)
      BY <2>9 DEF DecideTerminal, Intend, Outcome, Goto, HandOver, OwnThreadsEndTheRun, OneFinalizer, DoneOwesNothing, FreshIdle,
          OwnedAlone, Own, WorkerHolds, StreamFinalizes, TypeOK
    <2>10. CASE Defer(d)
      BY <2>10 DEF Defer, PlansFit, PlanFits, NoPlan, Goto, HandOver, OwnThreadsEndTheRun, OneFinalizer, DoneOwesNothing, FreshIdle,
          OwnedAlone, Own, WorkerHolds, StreamFinalizes, TypeOK
    <2>11. CASE WaitRead(d)
      BY <2>11 DEF WaitRead, Remember, Goto, HandOver, OwnThreadsEndTheRun, OneFinalizer, DoneOwesNothing, FreshIdle,
          OwnedAlone, Own, WorkerHolds, StreamFinalizes, TypeOK
    <2>12. CASE WaitWrite(d)
      <3>1. meta'.status # "none"
        BY <2>12 DEF WaitWrite, TypeOK, Metas
      <3>2. ~Own'
        BY <2>12 DEF WaitWrite, Goto, TypeOK, HandOver, OneFinalizer, OwnedAlone, Own,
                     WorkerHolds, StreamFinalizes
      <3> QED BY <3>1, <3>2, OverWhenNotOwned
    <2>13. CASE AppendLast(d)
      BY <2>13 DEF AppendLast, Goto, HandOver, OwnThreadsEndTheRun, OneFinalizer, DoneOwesNothing, FreshIdle,
          OwnedAlone, Own, WorkerHolds, StreamFinalizes, TypeOK
    <2>14. CASE CompleteRead(d)
      BY <2>14 DEF CompleteRead, Remember, Goto, HandOver, OwnThreadsEndTheRun, OneFinalizer, DoneOwesNothing, FreshIdle,
          OwnedAlone, Own, WorkerHolds, StreamFinalizes, TypeOK
    <2>15. CASE CompleteWrite(d)
      <3>1. meta'.status # "none"
        BY <2>15 DEF CompleteWrite, Goto, FinalStatus, PlansFit, PlanFits, TypeOK, Metas, Terminal
      <3>2. ~Own'
        BY <2>15 DEF CompleteWrite, Goto, TypeOK, HandOver, OneFinalizer, OwnedAlone, Own,
                     WorkerHolds, StreamFinalizes
      <3> QED BY <3>1, <3>2, OverWhenNotOwned
    <2> QED BY <1>6, <2>1, <2>2, <2>3, <2>4, <2>5, <2>6, <2>7, <2>8, <2>9, <2>10, <2>11, <2>12, <2>13, <2>14, <2>15
             DEF DriverStep
  <1>7. ASSUME NEW r \in Resumers, ResumeApproval(r) PROVE HandOver'
    BY <1>7 DEF ResumeApproval, Goto, HandOver, OwnThreadsEndTheRun, OneFinalizer, DoneOwesNothing, FreshIdle,
          OwnedAlone, Own, WorkerHolds, StreamFinalizes, TypeOK
  <1>8. ASSUME NEW c \in Cancellers, CancelCheck(c) \/ CancelStep(c) PROVE HandOver'
    <2>1. CASE CancelCheck(c)
      BY <2>1 DEF CancelCheck, Active, Goto, HandOver, OwnThreadsEndTheRun, OneFinalizer, DoneOwesNothing, FreshIdle,
          OwnedAlone, Own, WorkerHolds, StreamFinalizes, TypeOK
    <2>2. CASE ControlRead(c)
      BY <2>2 DEF ControlRead, Goto, HandOver, OwnThreadsEndTheRun, OneFinalizer, DoneOwesNothing, FreshIdle,
          OwnedAlone, Own, WorkerHolds, StreamFinalizes, TypeOK
    <2>3. CASE CancelFlag(c)
      BY <2>3 DEF CancelFlag, Goto, HandOver, OwnThreadsEndTheRun, OneFinalizer, DoneOwesNothing, FreshIdle,
          OwnedAlone, Own, WorkerHolds, StreamFinalizes, TypeOK
    <2>4. CASE CancelRead(c)
      BY <2>4 DEF CancelRead, Remember, Goto, HandOver, OwnThreadsEndTheRun, OneFinalizer, DoneOwesNothing, FreshIdle,
          OwnedAlone, Own, WorkerHolds, StreamFinalizes, TypeOK
    <2>5. CASE CancelWrite(c)
      BY <2>5 DEF CancelWrite, Forget, Metas, Goto, HandOver, OwnThreadsEndTheRun, OneFinalizer, DoneOwesNothing, FreshIdle,
          OwnedAlone, Own, WorkerHolds, StreamFinalizes, TypeOK
    <2>6. CASE AppendLast(c)
      BY <2>6 DEF AppendLast, Goto, HandOver, OwnThreadsEndTheRun, OneFinalizer, DoneOwesNothing, FreshIdle,
          OwnedAlone, Own, WorkerHolds, StreamFinalizes, TypeOK
    <2> QED BY <1>8, <2>1, <2>2, <2>3, <2>4, <2>5, <2>6 DEF CancelStep
  <1>9. ASSUME NEW s \in Steerers, SteerCheck(s) \/ SteerStep(s) PROVE HandOver'
    <2>1. CASE SteerCheck(s)
      BY <2>1 DEF SteerCheck, Goto, HandOver, OwnThreadsEndTheRun, OneFinalizer, DoneOwesNothing, FreshIdle,
          OwnedAlone, Own, WorkerHolds, StreamFinalizes, TypeOK
    <2>2. CASE ControlRead(s)
      BY <2>2 DEF ControlRead, Goto, HandOver, OwnThreadsEndTheRun, OneFinalizer, DoneOwesNothing, FreshIdle,
          OwnedAlone, Own, WorkerHolds, StreamFinalizes, TypeOK
    <2>3. CASE SteerWrite(s)
      BY <2>3 DEF SteerWrite, Goto, HandOver, OwnThreadsEndTheRun, OneFinalizer, DoneOwesNothing, FreshIdle,
          OwnedAlone, Own, WorkerHolds, StreamFinalizes, TypeOK
    <2>4. CASE AppendLast(s)
      BY <2>4 DEF AppendLast, Goto, HandOver, OwnThreadsEndTheRun, OneFinalizer, DoneOwesNothing, FreshIdle,
          OwnedAlone, Own, WorkerHolds, StreamFinalizes, TypeOK
    <2> QED BY <1>9, <2>1, <2>2, <2>3, <2>4 DEF SteerStep
  <1>10. ASSUME NEW p \in Pollers, ExpireRead(p) \/ ExpireWrite(p) PROVE HandOver'
    <2>1. CASE ExpireRead(p)
      BY <2>1 DEF ExpireRead, Remember, Goto, HandOver, OwnThreadsEndTheRun, OneFinalizer, DoneOwesNothing, FreshIdle,
          OwnedAlone, Own, WorkerHolds, StreamFinalizes, TypeOK
    <2>2. CASE ExpireWrite(p)
      BY <2>2 DEF ExpireWrite, Forget, Metas, Goto, HandOver, OwnThreadsEndTheRun, OneFinalizer, DoneOwesNothing, FreshIdle,
          OwnedAlone, Own, WorkerHolds, StreamFinalizes, TypeOK
    <2> QED BY <1>10, <2>1, <2>2
  <1>11. CASE UNCHANGED vars
    BY <1>11 DEF vars, Goto, HandOver, OwnThreadsEndTheRun, OneFinalizer, DoneOwesNothing, FreshIdle,
          OwnedAlone, Own, WorkerHolds, StreamFinalizes, TypeOK
  <1> QED BY <1>1, <1>2, <1>3, <1>4, <1>5, <1>6, <1>7, <1>8, <1>9, <1>10, <1>11 DEF Next

\* The inductive invariant holds in every behaviour.
THEOREM InvHolds == Spec => [](TypeOK /\ Inv)
<1>1. Init => Inv
  <2> SUFFICES ASSUME Init PROVE Inv
    OBVIOUS
  <2>1. \A t \in Threads : pc[t] = "idle" /\ plan[t] = NoPlan
    BY DEF Init
  <2>2. meta.status = "none" /\ deferred = NoPlan
    BY DEF Init, NoMeta
  <2>3. PlansFit
    BY <2>1, <2>2 DEF PlansFit, PlanFits, NoPlan
  <2>4. HandOver
    BY <2>1, <2>2, ThreadFacts DEF HandOver, OwnThreadsEndTheRun, OneFinalizer, DoneOwesNothing,
          FreshIdle, OwnedAlone, Own, WorkerHolds, StreamFinalizes
  <2> QED BY <2>3, <2>4 DEF Inv
<1>2. TypeOK /\ Inv /\ [Next]_vars => Inv'
  BY PlansStayFit, HandOverHolds DEF Inv
<1> QED BY <1>1, <1>2, TypeCorrect, PTL DEF Spec

\* The end of a run is owed by one thread at most, so stream_run's worker and
\* its generator never both complete it; and a stream that ended with [DONE]
\* left no finalization behind.
THEOREM ExclusiveEnd == Spec => []EndIsOwedOnce
<1>1. TypeOK /\ Inv => EndIsOwedOnce
  BY DEF Inv, HandOver, EndIsOwedOnce
<1> QED BY <1>1, InvHolds, PTL

\* Until its own threads have recorded the end of a run, no request ends it.
THEOREM OwnEnd == Spec => []OwnThreadsEndTheRun
<1>1. TypeOK /\ Inv => OwnThreadsEndTheRun
  BY DEF Inv, HandOver
<1> QED BY <1>1, InvHolds, PTL

(***************************************************************************)
(* meta.json: who writes it, and what it holds afterwards                  *)
(***************************************************************************)
MetaWrite(t) ==
    \/ WaitWrite(t) /\ t \in Drivers
    \/ CompleteWrite(t) /\ t \in Drivers \cup {Stream}
    \/ CancelWrite(t) /\ t \in Cancellers
    \/ ExpireWrite(t) /\ t \in Pollers

\* meta.json is written by the start of the run, by a restart, and by the four
\* handlers that record a status; everything else leaves it alone.
LEMMA MetaWriters ==
    [Next]_vars => \/ UNCHANGED meta \/ StartRun \/ Restart
                   \/ \E t \in Threads : MetaWrite(t)
  <1> SUFFICES ASSUME [Next]_vars, ~UNCHANGED meta
               PROVE  StartRun \/ Restart \/ \E t \in Threads : MetaWrite(t)
    OBVIOUS
  <1> USE ThreadFacts
  <1>1. CASE StreamStep
    BY <1>1 DEF StreamStep, StreamRead, StreamSettled, StreamTake, StreamStatus, CompleteRead,
                MetaWrite
  <1>2. ASSUME NEW d \in Drivers, DriverStep(d) PROVE MetaWrite(d)
    BY <1>2 DEF DriverStep, ConsumeRead, ConsumeWrite, GraphEnds, GraphRaises, RecordEvents,
                EmitEvent, EmitSeesCancel, EmitFinal, DecideTerminal, Defer, WaitRead, AppendLast,
                CompleteRead, MetaWrite
  <1>3. ASSUME NEW c \in Cancellers, CancelCheck(c) \/ CancelStep(c) PROVE MetaWrite(c)
    BY <1>3 DEF CancelCheck, CancelStep, ControlRead, CancelFlag, CancelRead, AppendLast, MetaWrite
  <1>4. ASSUME NEW q \in Steerers, SteerCheck(q) \/ SteerStep(q) PROVE FALSE
    BY <1>4 DEF SteerCheck, SteerStep, ControlRead, SteerWrite, AppendLast
  <1>5. ASSUME NEW p \in Pollers, ExpireRead(p) \/ ExpireWrite(p) PROVE MetaWrite(p)
    BY <1>5 DEF ExpireRead, MetaWrite
  <1>6. ASSUME NEW r \in Resumers, ResumeApproval(r) PROVE FALSE
    BY <1>6 DEF ResumeApproval
  <1>7. ~ClientLeaves /\ ~TimePasses /\ ~UNCHANGED vars
    BY DEF ClientLeaves, TimePasses, vars
  <1> QED BY <1>1, <1>2, <1>3, <1>4, <1>5, <1>6, <1>7 DEF Next

\* What is written: the status a handler decided on, with its payload.
LEMMA WrittenMeta ==
    ASSUME TypeOK, PlansFit, NEW t \in Threads, MetaWrite(t)
    PROVE  /\ meta'.status \in {"waiting_approval", "cancelling"} \cup Terminal
           /\ meta'.status = "waiting_approval" => meta'.pending
           /\ meta'.status = "completed" => meta'.answer
  <1>1. CASE WaitWrite(t)
    BY <1>1 DEF WaitWrite, TypeOK, Metas
  <1>2. CASE CompleteWrite(t)
    <2>1. /\ plan[t].status \in Terminal
          /\ plan[t].status = "completed" => plan[t].answer
      BY <1>2 DEF CompleteWrite, Goto, PlansFit, PlanFits
    <2>2. /\ meta'.status = FinalStatus(seen[t], plan[t])
          /\ meta'.answer = plan[t].answer
      BY <1>2 DEF CompleteWrite, TypeOK, Metas
    <2> QED BY <2>1, <2>2 DEF FinalStatus, Terminal
  <1>3. CASE CancelWrite(t)
    BY <1>3 DEF CancelWrite, TypeOK, Metas
  <1>4. CASE ExpireWrite(t)
    BY <1>4 DEF ExpireWrite, TypeOK, Metas, Terminal
  <1> QED BY <1>1, <1>2, <1>3, <1>4 DEF MetaWrite

\* The payload of the recorded status is always there: an approval to answer
\* while the run waits, an answer when it completed.
THEOREM PayloadHolds == Spec => []StatusHasPayload
<1>1. Init => StatusHasPayload
  BY DEF Init, NoMeta, StatusHasPayload
<1>2. (TypeOK /\ Inv) /\ StatusHasPayload /\ [Next]_vars => StatusHasPayload'
  <2> SUFFICES ASSUME TypeOK, Inv, StatusHasPayload, [Next]_vars PROVE StatusHasPayload'
    OBVIOUS
  <2>1. CASE UNCHANGED meta
    BY <2>1 DEF StatusHasPayload
  <2>2. CASE StartRun
    BY <2>2 DEF StartRun, NoMeta, StatusHasPayload
  <2>3. CASE Restart
    BY <2>3 DEF Restart, Reaped, TypeOK, Metas, StatusHasPayload
  <2>4. ASSUME NEW t \in Threads, MetaWrite(t) PROVE StatusHasPayload'
    BY <2>4, WrittenMeta DEF Inv, StatusHasPayload
  <2> QED BY <2>1, <2>2, <2>3, <2>4, MetaWriters
<1> QED BY <1>1, <1>2, InvHolds, PTL DEF Spec

(***************************************************************************)
(* Refinement: what the threads do to meta.json together implements        *)
(* RunPromise.                                                             *)
(***************************************************************************)
\* A handler that does not write meta.json acts on a run that some thread acts
\* on already, or that is active, or it changes nothing RunPromise sees.
LEMMA QuietSteps ==
    ASSUME TypeOK, [Next]_vars, ~StartRun, ~Restart
    PROVE  Busy \/ meta.status \in Active \/ pc' = pc
  <1> USE ThreadFacts
  <1>1. CASE StreamStep \/ ClientLeaves
    BY <1>1 DEF StreamStep, StreamRead, StreamSettled, StreamTake, StreamStatus, CompleteRead,
                CompleteWrite, ClientLeaves, Goto, Busy
  <1>2. ASSUME NEW d \in Drivers, DriverStep(d) PROVE Busy
    BY <1>2 DEF DriverStep, ConsumeRead, ConsumeWrite, GraphEnds, GraphRaises, RecordEvents,
                EmitEvent, EmitSeesCancel, EmitFinal, DecideTerminal, Defer, WaitRead, WaitWrite,
                AppendLast, CompleteRead, CompleteWrite, Goto, Busy
  <1>3. ASSUME NEW c \in Cancellers, CancelCheck(c) \/ CancelStep(c)
        PROVE  Busy \/ meta.status \in Active
    BY <1>3 DEF CancelCheck, CancelStep, ControlRead, CancelFlag, CancelRead, CancelWrite,
                AppendLast, Goto, Busy
  <1>4. ASSUME NEW q \in Steerers, SteerCheck(q) \/ SteerStep(q)
        PROVE  Busy \/ meta.status \in Active
    BY <1>4 DEF SteerCheck, SteerStep, ControlRead, SteerWrite, AppendLast, Goto, Busy, Active
  <1>5. ASSUME NEW p \in Pollers, ExpireRead(p) \/ ExpireWrite(p)
        PROVE  Busy \/ meta.status \in Active
    BY <1>5 DEF ExpireRead, ExpireWrite, Goto, Busy, Active
  <1>6. ASSUME NEW r \in Resumers, ResumeApproval(r) PROVE meta.status \in Active
    BY <1>6 DEF ResumeApproval, Active
  <1>7. CASE TimePasses \/ UNCHANGED vars
    BY <1>7 DEF TimePasses, vars
  <1> QED BY <1>1, <1>2, <1>3, <1>4, <1>5, <1>6, <1>7 DEF Next

\* The run store keeps its promise: once a run has ended and no thread acts on
\* it, nothing changes its status any more, not even a restart.
THEOREM KeepsPromise == Spec => PromiseSpec
<1>1. Init => Promise!Init
  <2> SUFFICES ASSUME Init PROVE Promise!Init
    OBVIOUS
  <2>1. ~Busy
    BY ThreadFacts DEF Init, Busy
  <2>2. meta.status = "none"
    BY DEF Init, NoMeta
  <2> QED BY <2>1, <2>2 DEF Promise!Init
<1>2. TypeOK /\ Inv /\ [Next]_vars => [Promise!Next]_<<meta.status, Busy>>
  <2> SUFFICES ASSUME TypeOK, Inv, [Next]_vars
               PROVE  Promise!Next \/ UNCHANGED <<meta.status, Busy>>
    OBVIOUS
  <2>1. Busy \in BOOLEAN /\ Busy' \in BOOLEAN
    BY DEF Busy
  <2>2. CASE StartRun
    <3>1. meta.status = "none" /\ meta'.status = "running"
      BY <2>2 DEF StartRun, NoMeta
    <3>2. Busy'
      BY <2>2, ThreadFacts DEF StartRun, Busy, TypeOK
    <3> QED BY <2>1, <3>1, <3>2 DEF Promise!Next, Promise!Begin
  <2>3. CASE Restart
    <3>1. /\ meta.status # "none"
          /\ meta'.status = IF meta.status \in {"running", "cancelling"} THEN "failed"
                                                                       ELSE meta.status
      BY <2>3 DEF Restart, Reaped, TypeOK, Metas
    <3>2. ~Busy'
      BY <2>3, ThreadFacts DEF Restart, Busy
    <3> QED BY <2>1, <3>1, <3>2 DEF Promise!Next, Promise!Restart
  <2>4. ASSUME NEW t \in Threads, MetaWrite(t) PROVE Promise!Next
    <3>1. Busy
      BY <2>4, ThreadFacts DEF MetaWrite, WaitWrite, CompleteWrite, CancelWrite, ExpireWrite,
                               Goto, Busy
    <3>2. meta'.status \in (Active \ {"running"}) \cup Terminal
      BY <2>4, WrittenMeta DEF Inv, Active
    <3> QED BY <2>1, <3>1, <3>2
            DEF Promise!Next, Promise!Act, Promise!Active, Promise!Terminal, Active, Terminal
  <2>5. CASE UNCHANGED meta /\ ~StartRun /\ ~Restart
    <3>1. CASE Busy
      BY <2>1, <2>5, <3>1 DEF Promise!Next, Promise!Act
    <3>2. CASE ~Busy /\ meta.status \in Active /\ Busy'
      BY <2>1, <2>5, <3>2 DEF Promise!Next, Promise!TakeUp, Promise!Active, Active
    <3>3. CASE ~Busy /\ ~Busy'
      BY <2>1, <2>5, <3>3
    <3>4. CASE pc' = pc
      BY <2>5, <3>4 DEF Busy
    <3> QED BY <2>5, <3>1, <3>2, <3>3, <3>4, QuietSteps
  <2> QED BY <2>2, <2>3, <2>4, <2>5, MetaWriters
<1> QED BY <1>1, <1>2, InvHolds, PTL DEF Spec, PromiseSpec, Promise!Spec
=============================================================================
