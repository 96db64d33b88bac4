---------------------------- MODULE MessageQueue ----------------------------
(***************************************************************************)
(* queue.json: the messages a user queues while the agent is busy, the     *)
(* runs that drain them, and the requests that withdraw or steer them.     *)
(*                                                                         *)
(* enqueue_message, cancel_queued_message, _mark_queue_item and the choice *)
(* in _drain_queue_after_run hold _COORDINATOR_LOCK from their read of the *)
(* file to their write, so each is one step.  steer_run looks the item up  *)
(* without the lock and marks it later.                                    *)
(*                                                                         *)
(* A drained message is run by start_run inside the drain of the run that  *)
(* ended, and drains in its turn: stack[d] holds the messages whose        *)
(* start_run is still on the call stack of thread d, innermost last.       *)
(***************************************************************************)
EXTENDS Naturals, Sequences, FiniteSets, SequencesExt

CONSTANTS
    Messages,     \* the messages users may queue, each once
    Drivers,      \* threads that start runs or resume them
    Steerers,     \* requests that steer a run with a queued message
    Accepts,      \* which driver's thread, repository and branch match a message
    NoMessage,    \* no message
    MaxWaiting    \* bound: runs left waiting for an approval at a time

ASSUME QueueAssumption ==
    /\ NoMessage \notin Messages
    /\ Accepts \subseteq Drivers \X Messages
    /\ MaxWaiting \in Nat

VARIABLES
    order,    \* the items of queue.json, oldest first (none is ever removed)
    status,   \* the status of each message
    stack,    \* per driver, the drained messages on its call stack
    phase,    \* per driver, where its innermost start_run is
    waiting,  \* how many runs wait for an approval
    target,   \* per steerer, the message it found queued
    started,  \* history: the drained messages in the order they were started
    withdrawn \* history: the messages whose cancellation was confirmed

queueVars == <<order, status, stack, phase, waiting, target, started, withdrawn>>

QueueInit ==
    /\ order = <<>>
    /\ status = [m \in Messages |-> "absent"]
    /\ stack = [d \in Drivers |-> <<>>]
    /\ phase = [d \in Drivers |-> "idle"]
    /\ waiting = 0
    /\ target = [s \in Steerers |-> NoMessage]
    /\ started = <<>>
    /\ withdrawn = {}

Enqueue(m) ==
    /\ status[m] = "absent"
    /\ order' = Append(order, m)
    /\ status' = [status EXCEPT ![m] = "queued"]
    /\ UNCHANGED <<stack, phase, waiting, target, started, withdrawn>>

\* mutant: any item may be withdrawn
WithdrawAny(m) ==
    /\ status[m] # "absent"
    /\ status' = [status EXCEPT ![m] = "cancelled"]
    /\ withdrawn' = withdrawn \cup {m}
    /\ UNCHANGED <<order, stack, phase, waiting, target, started>>

\* cancel_queued_message: only an item still queued, else an error
Withdraw(m) ==
    /\ status[m] = "queued"
    /\ status' = [status EXCEPT ![m] = "cancelled"]
    /\ withdrawn' = withdrawn \cup {m}
    /\ UNCHANGED <<order, stack, phase, waiting, target, started>>

\* steer_run finds the queued item while some run is running ...
SteerLookup(s, m) ==
    /\ target[s] = NoMessage
    /\ \E d \in Drivers : phase[d] = "running"
    /\ status[m] = "queued"
    /\ target' = [target EXCEPT ![s] = m]
    /\ UNCHANGED <<order, status, stack, phase, waiting, started, withdrawn>>

\* ... and marks it without looking at its status again
SteerMark(s) ==
    /\ target[s] # NoMessage
    /\ status' = [status EXCEPT ![target[s]] = "steered"]
    /\ target' = [target EXCEPT ![s] = NoMessage]
    /\ UNCHANGED <<order, stack, phase, waiting, started, withdrawn>>

\* a user starts a run ...
StartRun(d) ==
    /\ phase[d] = "idle"
    /\ phase' = [phase EXCEPT ![d] = "running"]
    /\ UNCHANGED <<order, status, stack, waiting, target, started, withdrawn>>

\* ... or answers the approval of a waiting one
ResumeRun(d) ==
    /\ phase[d] = "idle" /\ waiting > 0
    /\ phase' = [phase EXCEPT ![d] = "running"]
    /\ waiting' = waiting - 1
    /\ UNCHANGED <<order, status, stack, target, started, withdrawn>>

\* Only a completed run drains the queue; a cancelled or waiting one returns
\* to its caller, a failed one raises.
RunCompletes(d) ==
    /\ phase[d] = "running"
    /\ phase' = [phase EXCEPT ![d] = "drain"]
    /\ UNCHANGED <<order, status, stack, waiting, target, started, withdrawn>>

RunCancelled(d) ==
    /\ phase[d] = "running"
    /\ phase' = [phase EXCEPT ![d] = "return"]
    /\ UNCHANGED <<order, status, stack, waiting, target, started, withdrawn>>

RunWaits(d) ==
    /\ phase[d] = "running" /\ waiting < MaxWaiting
    /\ phase' = [phase EXCEPT ![d] = "return"]
    /\ waiting' = waiting + 1
    /\ UNCHANGED <<order, status, stack, target, started, withdrawn>>

RunFails(d) ==
    /\ phase[d] = "running"
    /\ phase' = [phase EXCEPT ![d] = "raise"]
    /\ UNCHANGED <<order, status, stack, waiting, target, started, withdrawn>>

\* the places in the file of the messages that match
Drainable(d) == {i \in DOMAIN order : status[order[i]] = "queued" /\ <<d, order[i]>> \in Accepts}

Take(d, m) ==
    /\ stack' = [stack EXCEPT ![d] = Append(@, m)]
    /\ started' = Append(started, m)
    /\ phase' = [phase EXCEPT ![d] = "running"]
    /\ UNCHANGED <<order, waiting, target, withdrawn>>

Mark(m) == status' = [status EXCEPT ![m] = "running"]

\* mutants: the item stays queued while it runs; the newest item goes first
DrainUnmarked(d) ==
    /\ phase[d] = "drain"
    /\ \E i \in Drainable(d) :
         (\A j \in Drainable(d) : i <= j) /\ Take(d, order[i]) /\ UNCHANGED status

DrainNewest(d) ==
    /\ phase[d] = "drain"
    /\ \E i \in Drainable(d) :
         (\A j \in Drainable(d) : j <= i) /\ Take(d, order[i]) /\ Mark(order[i])

\* _drain_queue_after_run: take the oldest matching message and run it
Drain(d) ==
    /\ phase[d] = "drain"
    /\ \E i \in Drainable(d) :
         (\A j \in Drainable(d) : i <= j) /\ Take(d, order[i]) /\ Mark(order[i])

\* mutant: with nothing left to run, the thread never returns to its caller
DrainEmptyLeaves(d) ==
    /\ phase[d] = "drain" /\ Drainable(d) = {}
    /\ phase' = [phase EXCEPT ![d] = "idle"]
    /\ UNCHANGED <<order, status, stack, waiting, target, started, withdrawn>>

DrainEmpty(d) ==
    /\ phase[d] = "drain" /\ Drainable(d) = {}
    /\ phase' = [phase EXCEPT ![d] = "return"]
    /\ UNCHANGED <<order, status, stack, waiting, target, started, withdrawn>>

\* the nested start_run comes back: mark its message, and return further
MarkDone(d, result) ==
    /\ stack[d] # <<>>
    /\ status' = [status EXCEPT ![Last(stack[d])] = result]
    /\ stack' = [stack EXCEPT ![d] = Front(@)]
    /\ phase' = [phase EXCEPT ![d] = "return"]
    /\ UNCHANGED <<order, waiting, target, started, withdrawn>>

MarkCompleted(d) == phase[d] = "return" /\ MarkDone(d, "completed")

MarkFailed(d) == phase[d] = "raise" /\ MarkDone(d, "failed")

\* the outermost start_run returns, or raises, to the HTTP request
Leave(d) ==
    /\ phase[d] \in {"return", "raise"} /\ stack[d] = <<>>
    /\ phase' = [phase EXCEPT ![d] = "idle"]
    /\ UNCHANGED <<order, status, stack, waiting, target, started, withdrawn>>

\* the worker process restarts: threads are gone, queue.json is not reaped
QueueRestart ==
    /\ stack' = [d \in Drivers |-> <<>>]
    /\ phase' = [d \in Drivers |-> "idle"]
    /\ target' = [s \in Steerers |-> NoMessage]
    /\ UNCHANGED <<order, status, waiting, started, withdrawn>>

\* what a driver does by itself once it has a run
DriverStep(d) ==
    \/ RunCompletes(d) \/ RunCancelled(d) \/ RunFails(d) \/ RunWaits(d)
    \/ Drain(d) \/ DrainEmpty(d) \/ MarkCompleted(d) \/ MarkFailed(d) \/ Leave(d)

QueueNext ==
    \/ \E m \in Messages : Enqueue(m) \/ Withdraw(m)
    \/ \E s \in Steerers : SteerMark(s) \/ \E m \in Messages : SteerLookup(s, m)
    \/ \E d \in Drivers : StartRun(d) \/ ResumeRun(d) \/ DriverStep(d)
    \/ QueueRestart

QueueSpec == QueueInit /\ [][QueueNext]_queueVars

\* A run ends (its budgets are finite) and its thread goes on; what users do,
\* and whether the process restarts, is up to them.
FairQueueSpec == QueueSpec /\ \A d \in Drivers : WF_queueVars(DriverStep(d))

(***************************************************************************)
(* Properties                                                              *)
(***************************************************************************)
Occurs(m, s) == \E i \in DOMAIN s : s[i] = m

\* However many runs end at once, and across restarts, no queued message is
\* run twice.
RunsAtMostOnce == \A i, j \in DOMAIN started : started[i] = started[j] => i = j

\* A message whose cancellation was confirmed is never run, not even when a
\* steering request overwrites its status afterwards.
WithdrawnNeverRuns == \A m \in withdrawn : ~Occurs(m, started)

\* Messages for the same context are run in the order they were queued.
SameContext(m, n) == \A d \in Drivers : <<d, m>> \in Accepts <=> <<d, n>> \in Accepts

StartedInOrder ==
    \A i, j \in DOMAIN started : i < j /\ SameContext(started[i], started[j])
        => \E a, b \in DOMAIN order :
              a < b /\ order[a] = started[i] /\ order[b] = started[j]

Owned(m) == \E d \in Drivers : Occurs(m, stack[d])

\* A message that was started gets its outcome, however many nested runs have
\* to unwind above it, unless a restart orphans it.
StartedSettles ==
    \A m \in Messages :
        status[m] = "running" ~> status[m] \in {"completed", "failed", "steered"} \/ ~Owned(m)
=============================================================================
