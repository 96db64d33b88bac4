---------------------------- MODULE Services_proofs ----------------------------
(***************************************************************************)
(* The safety of two services that several requests use at once: the queue *)
(* of messages and the repositories.  They share nothing, and no theorem   *)
(* is about both.                                                          *)
(*                                                                         *)
(* The queue, for any messages, threads and steering requests, and any     *)
(* number of restarts.  The invariant: a message that was started or       *)
(* withdrawn is never queued again, queue.json holds a message once, and a *)
(* message that was started stands before every message of its context     *)
(* that is still queued (Ordered): that is why the next one to start comes *)
(* after it.                                                               *)
(*                                                                         *)
(* The repositories, for any requests, branches and commits: which open    *)
(* the active repository is of, that no branch loses a commit, and that a  *)
(* request nobody disturbs answers what git has.                           *)
(***************************************************************************)
EXTENDS MessageQueue, Repositories, SequenceTheorems, TLAPS

(***************************************************************************)
(* The queue of messages                                                   *)
(***************************************************************************)
Statuses == {"absent", "queued", "running", "cancelled", "steered", "completed", "failed"}

Typed ==
    /\ order \in Seq(Messages) /\ started \in Seq(Messages)
    /\ status \in [Messages -> Statuses]
    /\ withdrawn \subseteq Messages

\* may the message still be started?
Ahead(m) == status[m] \in {"absent", "queued"}

\* what is ahead of a message is not behind it
NeverBack ==
    /\ \A i \in DOMAIN started : ~Ahead(started[i])
    /\ \A m \in withdrawn : ~Ahead(m) /\ ~Occurs(m, started)

\* the file holds a message once, from the time it was queued
FileKeeps ==
    /\ \A a \in DOMAIN order : status[order[a]] # "absent"
    /\ \A m \in Messages : status[m] # "absent" => Occurs(m, order)
    /\ \A a, b \in DOMAIN order : order[a] = order[b] => a = b

Ordered ==
    \A i \in DOMAIN started, b \in DOMAIN order :
        status[order[b]] = "queued" /\ SameContext(started[i], order[b])
            => \E a \in DOMAIN order : a < b /\ order[a] = started[i]

\* what a steering request or a thread holds has been queued
Held ==
    /\ stack \in [Drivers -> Seq(Messages)] /\ target \in [Steerers -> Messages \cup {NoMessage}]
    /\ \A s \in Steerers : target[s] # NoMessage => status[target[s]] # "absent"
    /\ \A d \in Drivers : \A i \in DOMAIN stack[d] : status[stack[d][i]] # "absent"

QueueInv == Typed /\ NeverBack /\ FileKeeps /\ Ordered /\ RunsAtMostOnce /\ StartedInOrder

----------------------------------------------------------------------------
\* what is appended stands at the end
LEMMA AppendKeeps ==
    ASSUME NEW S, NEW s \in Seq(S), NEW e \in S
    PROVE  /\ Append(s, e) \in Seq(S) /\ Len(s) \in Nat /\ DOMAIN s = 1 .. Len(s)
           /\ DOMAIN Append(s, e) = 1 .. Len(s) + 1
           /\ \A i \in DOMAIN s : i \in DOMAIN Append(s, e) /\ Append(s, e)[i] = s[i] /\ i < Len(s) + 1
           /\ Append(s, e)[Len(s) + 1] = e /\ Len(s) + 1 \in DOMAIN Append(s, e)
           /\ \A i \in DOMAIN Append(s, e) : i \in DOMAIN s \/ i = Len(s) + 1
<1>1. Len(s) \in Nat /\ DOMAIN s = 1 .. Len(s)
  BY LenProperties
<1>2. /\ Append(s, e) \in Seq(S) /\ Len(Append(s, e)) = Len(s) + 1
      /\ \A i \in 1 .. Len(s) : Append(s, e)[i] = s[i]
      /\ Append(s, e)[Len(s) + 1] = e
  BY AppendProperties
<1>3. DOMAIN Append(s, e) = 1 .. Len(s) + 1
  BY <1>2, LenProperties
<1>4. \A i \in 1 .. Len(s) + 1 : i \in 1 .. Len(s) \/ i = Len(s) + 1
  BY <1>1
<1>5. \A i \in 1 .. Len(s) : i \in 1 .. Len(s) + 1 /\ i < Len(s) + 1
  BY <1>1
<1>6. Len(s) + 1 \in 1 .. Len(s) + 1
  BY <1>1
<1> QED BY <1>1, <1>2, <1>3, <1>4, <1>5, <1>6, Zenon

\* the invariant holds at first
LEMMA QueueStarts == QueueInit => QueueInv
<1> SUFFICES ASSUME QueueInit PROVE QueueInv
  OBVIOUS
<1>1. order = <<>> /\ started = <<>> /\ <<>> \in Seq(Messages)
  BY EmptySeq DEF QueueInit
<1>2. \A i \in DOMAIN order : FALSE
  BY <1>1
<1>3. \A i \in DOMAIN started : FALSE
  BY <1>1
<1>4. Typed /\ NeverBack
  BY <1>1, <1>3 DEF QueueInit, Typed, Statuses, NeverBack
<1>5. FileKeeps /\ Ordered /\ RunsAtMostOnce /\ StartedInOrder
  BY <1>2, <1>3 DEF QueueInit, FileKeeps, Ordered, RunsAtMostOnce, StartedInOrder
<1> QED BY <1>4, <1>5 DEF QueueInv

\* a step that moves one message on, or none, and starts and queues nothing
LEMMA MovingOnKeeps ==
    ASSUME QueueInv, UNCHANGED <<order, started>>, status' \in [Messages -> Statuses],
           withdrawn' \subseteq withdrawn \cup {m \in Messages : status[m] = "queued" /\ ~Ahead(m)'},
           \A m \in Messages : status'[m] = status[m] \/ (status[m] # "absent" /\ ~Ahead(m)')
    PROVE  QueueInv'
<1> USE DEF QueueInv
<1>1. \A s \in Seq(Messages) : \A i \in DOMAIN s : s[i] \in Messages
  BY LenProperties, ElementOfSeq
<1>2. Typed'
  BY DEF Typed
<1>3. NeverBack'
  BY <1>1 DEF NeverBack, Ahead, Typed, Occurs
<1>4. FileKeeps'
  BY <1>1 DEF FileKeeps, Ahead, Typed, Occurs
<1>5. Ordered'
  BY <1>1 DEF Ordered, Ahead, Typed, SameContext
<1>6. RunsAtMostOnce' /\ StartedInOrder'
  BY DEF RunsAtMostOnce, StartedInOrder, SameContext
<1> QED BY <1>2, <1>3, <1>4, <1>5, <1>6

\* a message is queued
LEMMA EnqueueKeeps ==
    ASSUME QueueInv, NEW m \in Messages, Enqueue(m)
    PROVE  QueueInv'
<1> USE DEF QueueInv
<1> DEFINE n == Len(order) + 1
<1>1. \A s \in Seq(Messages) : \A i \in DOMAIN s : s[i] \in Messages
  BY LenProperties, ElementOfSeq
<1>2. /\ order \in Seq(Messages) /\ started' = started /\ order' = Append(order, m)
      /\ status[m] = "absent" /\ status' = [status EXCEPT ![m] = "queued"]
      /\ withdrawn' = withdrawn /\ status \in [Messages -> Statuses]
  BY DEF Enqueue, Typed
<1>3. /\ order' \in Seq(Messages) /\ n \in DOMAIN order' /\ order'[n] = m
      /\ \A a \in DOMAIN order : a \in DOMAIN order' /\ order'[a] = order[a] /\ a < n
      /\ \A a \in DOMAIN order' : a \in DOMAIN order \/ a = n
  BY <1>2, AppendKeeps
<1>4. \A a \in DOMAIN order : order[a] # m
  BY <1>2 DEF FileKeeps
<1>5. \A i \in DOMAIN started : started[i] # m /\ \E a \in DOMAIN order : order[a] = started[i]
  BY <1>1, <1>2 DEF NeverBack, Ahead, FileKeeps, Occurs, Typed
<1>6. Typed'
  BY <1>2, <1>3 DEF Typed, Statuses
<1>7. NeverBack'
  BY <1>1, <1>2 DEF NeverBack, Ahead, Occurs, Typed
<1>8. FileKeeps'
  BY <1>1, <1>2, <1>3, <1>4 DEF FileKeeps, Occurs, Typed
<1>9. Ordered'
  <2>1. SUFFICES ASSUME NEW i \in DOMAIN started, NEW b \in DOMAIN order',
                        status'[order'[b]] = "queued", SameContext(started[i], order'[b])
                 PROVE  \E a \in DOMAIN order' : a < b /\ order'[a] = started[i]
    BY <1>2 DEF Ordered, SameContext
  <2>2. CASE b = n
    BY <1>3, <1>5, <2>2
  <2>3. CASE b \in DOMAIN order
    <3>1. order[b] # m /\ order'[b] = order[b] /\ order[b] \in Messages
      BY <1>1, <1>2, <1>3, <1>4, <2>3
    <3>2. status[order[b]] = "queued"
      BY <1>2, <2>1, <3>1
    <3>3. PICK a \in DOMAIN order : a < b /\ order[a] = started[i]
      BY <2>1, <2>3, <3>1, <3>2 DEF Ordered
    <3> QED BY <1>3, <3>3
  <2> QED BY <1>3, <2>2, <2>3
<1>10. RunsAtMostOnce'
  BY <1>2 DEF RunsAtMostOnce
<1>11. StartedInOrder'
  <2>1. SUFFICES ASSUME NEW i \in DOMAIN started, NEW j \in DOMAIN started, i < j,
                        SameContext(started[i], started[j])
                 PROVE  \E a, b \in DOMAIN order' : a < b /\ order'[a] = started[i] /\ order'[b] = started[j]
    BY <1>2 DEF StartedInOrder, SameContext
  <2>2. PICK a \in DOMAIN order, b \in DOMAIN order : a < b /\ order[a] = started[i] /\ order[b] = started[j]
    BY <2>1 DEF StartedInOrder
  <2> QED BY <1>3, <2>2
<1> QED BY <1>6, <1>7, <1>8, <1>9, <1>10, <1>11

\* a message is started
LEMMA DrainKeeps ==
    ASSUME QueueInv, NEW d \in Drivers, Drain(d)
    PROVE  QueueInv'
<1> USE DEF QueueInv
<1> DEFINE n == Len(started) + 1
<1>1. \A s \in Seq(Messages) : \A i \in DOMAIN s : s[i] \in Messages
  BY LenProperties, ElementOfSeq
<1>2. PICK p \in Drainable(d) : (\A j \in Drainable(d) : p <= j) /\ Take(d, order[p]) /\ Mark(order[p])
  BY DEF Drain
<1> DEFINE m == order[p]
<1>3. /\ order \in Seq(Messages) /\ order' = order /\ started \in Seq(Messages) /\ started' = Append(started, m)
      /\ withdrawn' = withdrawn /\ status \in [Messages -> Statuses]
      /\ status' = [status EXCEPT ![m] = "running"]
  BY <1>2 DEF Typed, Take, Mark
<1>4. p \in DOMAIN order /\ m \in Messages /\ status[m] = "queued" /\ <<d, m>> \in Accepts
  BY <1>1, <1>2, <1>3 DEF Drainable
<1>5. \A b \in DOMAIN order : b \in Int
  BY <1>3, LenProperties
<1>6. /\ started' \in Seq(Messages) /\ n \in DOMAIN started' /\ started'[n] = m
      /\ \A i \in DOMAIN started : i \in DOMAIN started' /\ started'[i] = started[i] /\ i < n
      /\ \A i \in DOMAIN started' : i \in DOMAIN started \/ i = n
      /\ n \in Int /\ \A i \in DOMAIN started : i \in Int
  BY <1>3, <1>4, AppendKeeps
<1>7. \A i \in DOMAIN started : started[i] # m
  BY <1>4 DEF NeverBack, Ahead
<1>8. Typed'
  BY <1>3, <1>6 DEF Typed, Statuses
<1>9. NeverBack'
  <2> DEFINE gone(q) == status'[q] \notin {"absent", "queued"}
  <2>1. \A q \in Messages : ~Ahead(q) => gone(q)
    BY <1>3 DEF Ahead
  <2>2. gone(m)
    BY <1>3, <1>4
  <2>3. \A i \in DOMAIN started' : gone(started'[i])
    BY <1>1, <1>3, <1>6, <2>1, <2>2 DEF NeverBack
  <2>4. ASSUME NEW q \in withdrawn PROVE gone(q) /\ ~Occurs(q, started')
    <3>1. q \in Messages /\ ~Ahead(q) /\ ~Occurs(q, started) /\ q # m
      BY <1>4 DEF NeverBack, Ahead, Typed
    <3> QED BY <1>6, <2>1, <3>1 DEF Occurs
  <2> QED BY <1>3, <2>3, <2>4 DEF NeverBack, Ahead
<1>10. FileKeeps'
  BY <1>1, <1>3, <1>4 DEF FileKeeps, Occurs
<1>11. Ordered'
  <2>1. SUFFICES ASSUME NEW i \in DOMAIN started', NEW b \in DOMAIN order,
                        status'[order[b]] = "queued", SameContext(started'[i], order[b])
                 PROVE  \E a \in DOMAIN order : a < b /\ order[a] = started'[i]
    BY <1>3 DEF Ordered, SameContext
  <2>2. order[b] # m /\ status[order[b]] = "queued" /\ b # p
    BY <1>1, <1>3, <1>4, <2>1
  <2>3. CASE i = n
    <3>1. <<d, order[b]>> \in Accepts
      BY <1>4, <1>6, <2>1, <2>3 DEF SameContext
    <3>2. b \in Drainable(d)
      BY <2>2, <3>1 DEF Drainable
    <3>3. p < b
      BY <1>2, <1>4, <1>5, <2>2, <3>2
    <3> QED BY <1>4, <1>6, <2>3, <3>3
  <2>4. CASE i \in DOMAIN started
    BY <1>6, <2>1, <2>2, <2>4 DEF Ordered
  <2> QED BY <1>6, <2>3, <2>4
<1>12. RunsAtMostOnce'
  <2>1. SUFFICES ASSUME NEW i \in DOMAIN started', NEW j \in DOMAIN started', started'[i] = started'[j]
                 PROVE  i = j
    BY DEF RunsAtMostOnce
  <2>2. CASE i = n \/ j = n
    BY <1>6, <1>7, <2>1, <2>2
  <2>3. CASE i \in DOMAIN started /\ j \in DOMAIN started
    BY <1>6, <2>1, <2>3 DEF RunsAtMostOnce
  <2> QED BY <1>6, <2>2, <2>3
<1>13. StartedInOrder'
  <2>1. SUFFICES ASSUME NEW i \in DOMAIN started', NEW j \in DOMAIN started', i < j,
                        SameContext(started'[i], started'[j])
                 PROVE  \E a, b \in DOMAIN order : a < b /\ order[a] = started'[i] /\ order[b] = started'[j]
    BY <1>3 DEF StartedInOrder, SameContext
  <2>2. i \in DOMAIN started
    BY <1>6, <2>1
  <2>3. CASE j = n
    <3>1. started'[i] = started[i] /\ started'[j] = m
      BY <1>6, <2>2, <2>3
    <3>2. PICK a \in DOMAIN order : a < p /\ order[a] = started[i]
      BY <1>4, <2>1, <2>2, <3>1 DEF Ordered
    <3> QED BY <1>4, <3>1, <3>2
  <2>4. CASE j \in DOMAIN started
    BY <1>6, <2>1, <2>2, <2>4 DEF StartedInOrder
  <2> QED BY <1>6, <2>3, <2>4
<1> QED BY <1>8, <1>9, <1>10, <1>11, <1>12, <1>13

\* what is held stays held, but for a message taken from a stack or put on one
LEMMA HoldingKeeps ==
    ASSUME Held, Typed, target' \in [Steerers -> Messages \cup {NoMessage}],
           \A m \in Messages : status[m] # "absent" => status'[m] # "absent",
           \A s \in Steerers : target'[s] \in {target[s], NoMessage} \/ status'[target'[s]] # "absent",
           stack' \in [Drivers -> Seq(Messages)],
           \A d \in Drivers : \A i \in DOMAIN stack'[d] :
               (i \in DOMAIN stack[d] /\ stack'[d][i] = stack[d][i]) \/ status'[stack'[d][i]] # "absent"
    PROVE  Held'
<1>1. \A s \in Seq(Messages) : \A i \in DOMAIN s : s[i] \in Messages
  BY LenProperties, ElementOfSeq
<1>2. ASSUME NEW s \in Steerers, target'[s] # NoMessage PROVE status'[target'[s]] # "absent"
  BY <1>2 DEF Held
<1>3. ASSUME NEW d \in Drivers, NEW i \in DOMAIN stack'[d] PROVE status'[stack'[d][i]] # "absent"
  <2>1. CASE i \in DOMAIN stack[d] /\ stack'[d][i] = stack[d][i]
    <3>1. stack[d] \in Seq(Messages) /\ stack[d][i] \in Messages
      BY <1>1, <2>1 DEF Held
    <3> QED BY <1>3, <2>1, <3>1 DEF Held
  <2> QED BY <1>3, <2>1
<1> QED BY <1>2, <1>3 DEF Held

\* a started message gets its outcome
LEMMA MarkDoneKeeps ==
    ASSUME QueueInv, Held, NEW d \in Drivers, NEW result \in {"completed", "failed"}, MarkDone(d, result)
    PROVE  QueueInv' /\ Held'
<1>1. /\ status \in [Messages -> Statuses] /\ stack \in [Drivers -> Seq(Messages)] /\ stack[d] # <<>>
      /\ stack[d] \in Seq(Messages)
  BY DEF QueueInv, Typed, Held, MarkDone
<1>2. Len(stack[d]) \in Nat \ {0} /\ DOMAIN stack[d] = 1 .. Len(stack[d])
  BY <1>1, EmptySeq, LenProperties
<1>3. Last(stack[d]) = stack[d][Len(stack[d])] /\ Len(stack[d]) \in DOMAIN stack[d]
  BY <1>2 DEF Last
<1>4. Last(stack[d]) \in Messages /\ status[Last(stack[d])] # "absent"
  BY <1>1, <1>2, <1>3, ElementOfSeq DEF Held
<1>5. /\ status' = [status EXCEPT ![Last(stack[d])] = result] /\ stack' = [stack EXCEPT ![d] = Front(@)]
      /\ UNCHANGED <<order, target, started, withdrawn>>
  BY DEF MarkDone
<1>6. QueueInv'
  <2>1. status' \in [Messages -> Statuses]
    BY <1>1, <1>5 DEF Statuses
  <2>2. \A m \in Messages : status'[m] = status[m] \/ (status[m] # "absent" /\ ~Ahead(m)')
    BY <1>1, <1>4, <1>5 DEF Ahead
  <2> QED BY <1>5, <2>1, <2>2, MovingOnKeeps
<1>7. /\ Front(stack[d]) \in Seq(Messages)
      /\ \A i \in DOMAIN Front(stack[d]) : i \in DOMAIN stack[d] /\ Front(stack[d])[i] = stack[d][i]
  <2>1. Front(stack[d]) = SubSeq(stack[d], 1, Len(stack[d]) - 1)
    BY DEF Front
  <2>2. /\ Front(stack[d]) \in Seq(Messages) /\ Len(Front(stack[d])) = Len(stack[d]) - 1
        /\ \A i \in 1 .. Len(stack[d]) - 1 : Front(stack[d])[i] = stack[d][i]
    BY <1>1, <1>2, <2>1, SubSeqProperties
  <2>3. DOMAIN Front(stack[d]) = 1 .. Len(stack[d]) - 1
    BY <2>2, LenProperties
  <2>4. \A i \in 1 .. Len(stack[d]) - 1 : i \in 1 .. Len(stack[d])
    BY <1>2
  <2> QED BY <1>2, <2>2, <2>3, <2>4
<1>8. Held'
  <2>1. \A m \in Messages : status[m] # "absent" => status'[m] # "absent"
    BY <1>1, <1>5
  <2>2. stack' \in [Drivers -> Seq(Messages)]
    BY <1>1, <1>5, <1>7
  <2>3. \A e \in Drivers : \A i \in DOMAIN stack'[e] : i \in DOMAIN stack[e] /\ stack'[e][i] = stack[e][i]
    BY <1>1, <1>5, <1>7
  <2> QED BY <1>5, <2>1, <2>2, <2>3, HoldingKeeps DEF QueueInv, Held
<1> QED BY <1>6, <1>8

\* every step keeps the invariant
LEMMA QueueSteps == QueueInv /\ Held /\ [QueueNext]_queueVars => QueueInv' /\ Held'
<1> SUFFICES ASSUME QueueInv, Held, [QueueNext]_queueVars PROVE QueueInv' /\ Held'
  OBVIOUS
<1>0. Typed /\ status \in [Messages -> Statuses]
  BY DEF QueueInv, Typed
<1>1. ASSUME NEW m \in Messages, Enqueue(m) PROVE QueueInv' /\ Held'
  <2>1. QueueInv'
    BY <1>1, EnqueueKeeps
  <2>2. Held'
    BY <1>0, <1>1, HoldingKeeps DEF Enqueue, Held
  <2> QED BY <2>1, <2>2
<1>2. ASSUME NEW m \in Messages, Withdraw(m) PROVE QueueInv' /\ Held'
  <2>1. QueueInv'
    BY <1>0, <1>2, MovingOnKeeps DEF Withdraw, Ahead, Statuses
  <2>2. Held'
    BY <1>0, <1>2, HoldingKeeps DEF Withdraw, Held
  <2> QED BY <2>1, <2>2
<1>3. ASSUME NEW s \in Steerers, SteerMark(s) PROVE QueueInv' /\ Held'
  <2>0. target[s] \in Messages /\ status[target[s]] # "absent"
    BY <1>3 DEF SteerMark, Held
  <2>1. QueueInv'
    BY <1>0, <1>3, <2>0, MovingOnKeeps DEF SteerMark, Ahead, Statuses
  <2>2. Held'
    BY <1>0, <1>3, HoldingKeeps DEF SteerMark, Held
  <2> QED BY <2>1, <2>2
<1>4. ASSUME NEW s \in Steerers, NEW m \in Messages, SteerLookup(s, m) PROVE QueueInv' /\ Held'
  <2>1. QueueInv'
    BY <1>0, <1>4, MovingOnKeeps DEF SteerLookup
  <2>2. Held'
    BY <1>0, <1>4, HoldingKeeps DEF SteerLookup, Held
  <2> QED BY <2>1, <2>2
<1>5. ASSUME NEW d \in Drivers, Drain(d) PROVE QueueInv' /\ Held'
  <2>1. QueueInv'
    BY <1>5, DrainKeeps
  <2>2. PICK p \in Drainable(d) : Take(d, order[p]) /\ Mark(order[p])
    BY <1>5 DEF Drain
  <2> DEFINE m == order[p]
  <2>3. m \in Messages
    BY <1>0, <2>2, LenProperties, ElementOfSeq DEF Drainable, Typed
  <2>4. /\ stack' = [stack EXCEPT ![d] = Append(@, m)] /\ status' = [status EXCEPT ![m] = "running"]
        /\ target' = target /\ stack \in [Drivers -> Seq(Messages)]
    BY <2>2 DEF Take, Mark, Held
  <2>5. /\ Append(stack[d], m) \in Seq(Messages)
        /\ \A i \in DOMAIN Append(stack[d], m) :
             (i \in DOMAIN stack[d] /\ Append(stack[d], m)[i] = stack[d][i]) \/ Append(stack[d], m)[i] = m
    BY <2>3, <2>4, AppendKeeps
  <2>6. stack' \in [Drivers -> Seq(Messages)]
    BY <2>4, <2>5
  <2>7. \A e \in Drivers : \A i \in DOMAIN stack'[e] :
          (i \in DOMAIN stack[e] /\ stack'[e][i] = stack[e][i]) \/ stack'[e][i] = m
    BY <2>4, <2>5
  <2>8. status'[m] # "absent" /\ \A q \in Messages : status[q] # "absent" => status'[q] # "absent"
    BY <1>0, <2>3, <2>4
  <2>9. Held'
    BY <1>0, <2>4, <2>6, <2>7, <2>8, HoldingKeeps DEF Held
  <2> QED BY <2>1, <2>9
<1>6. ASSUME NEW d \in Drivers, MarkCompleted(d) \/ MarkFailed(d) PROVE QueueInv' /\ Held'
  BY <1>6, MarkDoneKeeps DEF MarkCompleted, MarkFailed
\* the other steps of the threads touch neither the file nor the stacks
<1>7. ASSUME UNCHANGED <<order, status, started, withdrawn, stack, target>> PROVE QueueInv' /\ Held'
  BY <1>0, <1>7, MovingOnKeeps, HoldingKeeps DEF Held
<1>8. ASSUME NEW d \in Drivers, StartRun(d) \/ ResumeRun(d) \/ RunCompletes(d) \/ RunCancelled(d) \/ RunFails(d)
                                  \/ RunWaits(d) \/ DrainEmpty(d) \/ Leave(d)
      PROVE  QueueInv' /\ Held'
  BY <1>7, <1>8 DEF StartRun, ResumeRun, RunCompletes, RunCancelled, RunFails, RunWaits, DrainEmpty, Leave
<1>9. CASE QueueRestart
  <2>1. QueueInv'
    BY <1>0, <1>9, MovingOnKeeps DEF QueueRestart
  <2>2. /\ stack' = [d \in Drivers |-> <<>>] /\ target' = [s \in Steerers |-> NoMessage] /\ status' = status
        /\ <<>> \in Seq(Messages)
    BY <1>9, EmptySeq DEF QueueRestart
  <2>3. \A d \in Drivers : \A i \in DOMAIN stack'[d] : FALSE
    BY <2>2
  <2>4. Held'
    BY <2>2, <2>3 DEF Held
  <2> QED BY <2>1, <2>4
<1>10. CASE UNCHANGED queueVars
  BY <1>7, <1>10 DEF queueVars
<1> QED
  BY <1>1, <1>2, <1>3, <1>4, <1>5, <1>6, <1>8, <1>9, <1>10 DEF QueueNext, DriverStep

----------------------------------------------------------------------------
(* Every state of the queue satisfies the invariant, for any messages,        *)
(* threads, steering requests and restarts.                                  *)
THEOREM QueueInvHolds == QueueSpec => [](QueueInv /\ Held)
<1>1. QueueInit => QueueInv /\ Held
  <2>1. ASSUME QueueInit PROVE Held
    <3>1. /\ stack = [d \in Drivers |-> <<>>] /\ target = [s \in Steerers |-> NoMessage]
          /\ <<>> \in Seq(Messages)
      BY <2>1, EmptySeq DEF QueueInit
    <3>2. \A d \in Drivers : \A i \in DOMAIN stack[d] : FALSE
      BY <3>1
    <3> QED BY <3>1, <3>2 DEF Held
  <2> QED BY <2>1, QueueStarts
<1> QED BY <1>1, QueueSteps, PTL DEF QueueSpec

(* No queued message is run twice, however many runs end at once.             *)
THEOREM RunsOnce == QueueSpec => []RunsAtMostOnce
<1>1. QueueInv => RunsAtMostOnce
  BY DEF QueueInv
<1> QED BY <1>1, QueueInvHolds, PTL

(* A message whose cancellation was confirmed never runs, whatever a steering  *)
(* request writes over its status.                                           *)
THEOREM WithdrawnIsFinal == QueueSpec => []WithdrawnNeverRuns
<1>1. QueueInv => WithdrawnNeverRuns
  BY DEF QueueInv, NeverBack, WithdrawnNeverRuns
<1> QED BY <1>1, QueueInvHolds, PTL

(* Messages of one context start in the order in which they were queued.      *)
THEOREM OrderIsKept == QueueSpec => []StartedInOrder
<1>1. QueueInv => StartedInOrder
  BY DEF QueueInv
<1> QED BY <1>1, QueueInvHolds, PTL

(***************************************************************************)
(* The repositories                                                        *)
(***************************************************************************)
Places == {"start", "find", "clone", "fetch", "verify", "lsRemote", "checkout", "force", "head", "name",
           "check", "write", "clear", "create", "commit", "done"}

Shape(a) == DOMAIN a = {"ok", "branch", "commits"} /\ a.ok \in BOOLEAN

Shaped ==
    /\ pc \in [Requests -> Places]
    /\ DOMAIN answer = Requests
    /\ \A r \in Requests : Shape(answer[r])

\* the mark is the newest open's or nobody's; while that open is at work it has
\* the mark, nobody else writes, and once it has written its answer stands
Leads ==
    /\ current \in {None, newest}
    /\ newest # None => newest \in Requests /\ Asks(newest, Opens) /\ pc[newest] # "start"
    /\ newest # None /\ ~late =>
         /\ pc[newest] \notin {"clear", "done"} => current = newest
         /\ \A q \in Requests : pc[q] = "write" => q = newest
         /\ pc[newest] \in {"clear", "done"} /\ answer[newest].ok => active = answer[newest]

OpenInv == Shaped /\ Leads

----------------------------------------------------------------------------
\* at first nobody has asked for anything
LEMMA OpenStarts == Init => OpenInv
<1> SUFFICES ASSUME Init PROVE OpenInv
  OBVIOUS
<1>1. pc = [r \in Requests |-> "start"] /\ answer = [r \in Requests |-> NoAnswer] /\ current = None /\ newest = None
  BY DEF Init
<1>2. Shape(NoAnswer) /\ NoAnswer.ok = FALSE
  BY DEF NoAnswer, Shape
<1>3. Shaped
  BY <1>1, <1>2 DEF Shaped, Shape, Places
<1>4. Leads
  BY <1>1 DEF Leads
<1> QED BY <1>3, <1>4 DEF OpenInv

\* an answer that changes for one request
LEMMA OneAnswers ==
    ASSUME Shaped, NEW r \in Requests, DOMAIN answer' = Requests, Shape(answer'[r]),
           \A q \in Requests \ {r} : answer'[q] = answer[q], pc' \in [Requests -> Places]
    PROVE  Shaped'
BY DEF Shaped, Shape

\* a step of a request that neither opens, checks, writes nor clears, and that
\* ends no open with success
LEMMA OtherSteps ==
    ASSUME OpenInv, NEW r \in Requests, NEW to \in Places \ {"start", "write"},
           pc' = [pc EXCEPT ![r] = to], pc[r] \notin {"clear", "done"},
           UNCHANGED <<job, current, active, newest, late>>, Shaped',
           \A q \in Requests \ {r} : answer'[q] = answer[q],
           to \in {"clear", "done"} /\ Asks(r, Opens) /\ pc[r] # "start" => ~answer'[r].ok
    PROVE  OpenInv'
<1>1. pc \in [Requests -> Places] /\ pc'[r] = to /\ \A q \in Requests \ {r} : pc'[q] = pc[q]
  BY DEF OpenInv, Shaped
<1>2. CASE newest = r
  BY <1>1, <1>2 DEF OpenInv, Leads, Asks
<1>3. CASE newest # r
  BY <1>1, <1>3 DEF OpenInv, Leads, Asks
<1> QED BY <1>2, <1>3

\* a new open takes the mark from whoever has it
LEMMA OpenKeeps ==
    ASSUME OpenInv, NEW r \in Requests, Open(r)
    PROVE  OpenInv'
<1>1. /\ pc[r] = "start" /\ pc' = [pc EXCEPT ![r] = pc'[r]] /\ pc'[r] \in {"find", "verify", "name", "check"}
      /\ newest' = r /\ current' = r /\ late' = (\E q \in Requests : pc[q] = "write")
      /\ answer' = answer /\ job' = job /\ Asks(r, Opens) /\ r # None
  <2>1. /\ pc[r] = "start"
        /\ pc' = [pc EXCEPT ![r] = CASE Asks(r, {"open_provider"}) -> "find"
                          [] Asks(r, {"open_local"}) /\ Branch(r) # "current" -> "verify"
                          [] Asks(r, {"open_local"}) /\ Branch(r) = "current" -> "name"
                          [] OTHER -> "check"]
    BY DEF Open, Goto
  <2>2. (CASE Asks(r, {"open_provider"}) -> "find"
                          [] Asks(r, {"open_local"}) /\ Branch(r) # "current" -> "verify"
                          [] Asks(r, {"open_local"}) /\ Branch(r) = "current" -> "name"
                          [] OTHER -> "check") \in {"find", "verify", "name", "check"}
    BY DEF Asks
  <2>3. pc \in [Requests -> Places]
    BY DEF OpenInv, Shaped
  <2> QED BY <2>1, <2>2, <2>3, RepositoriesAssumption DEF Open, None
<1>2. pc' \in [Requests -> Places] /\ \A q \in Requests \ {r} : pc'[q] = pc[q]
  BY <1>1 DEF OpenInv, Shaped, Places
<1>3. Shaped'
  BY <1>1, <1>2 DEF OpenInv, Shaped
<1>4. Leads'
  BY <1>1, <1>2 DEF Leads, Asks
<1> QED BY <1>3, <1>4 DEF OpenInv

\* the open that finds its mark goes on to write, any other one ends
LEMMA CheckKeeps ==
    ASSUME OpenInv, NEW r \in Requests, Check(r)
    PROVE  OpenInv'
<1>1. /\ pc[r] = "check" /\ pc' = [pc EXCEPT ![r] = IF current = r THEN "write" ELSE "clear"]
      /\ answer' = [answer EXCEPT ![r].ok = TRUE] /\ UNCHANGED <<job, current, active, newest, late>>
      /\ r # None
  BY RepositoriesAssumption DEF Check, Goto, opening, None
<1>2. Shaped' /\ \A q \in Requests \ {r} : answer'[q] = answer[q]
  <2>1. DOMAIN answer' = Requests /\ (\A q \in Requests \ {r} : answer'[q] = answer[q])
        /\ answer'[r] = [answer[r] EXCEPT !.ok = TRUE]
    BY <1>1 DEF OpenInv, Shaped
  <2>2. Shape(answer'[r])
    BY <2>1 DEF OpenInv, Shaped, Shape
  <2>3. pc' \in [Requests -> Places]
    BY <1>1 DEF OpenInv, Shaped, Places
  <2> QED BY <2>1, <2>2, <2>3, OneAnswers DEF OpenInv
<1>3. pc'[r] = (IF current = r THEN "write" ELSE "clear") /\ \A q \in Requests \ {r} : pc'[q] = pc[q]
  BY <1>1 DEF OpenInv, Shaped
<1>4. CASE newest = r
  BY <1>1, <1>2, <1>3, <1>4 DEF OpenInv, Leads, Asks
<1>5. CASE newest # r
  BY <1>1, <1>2, <1>3, <1>5 DEF OpenInv, Leads, Asks
<1> QED BY <1>4, <1>5

\* whoever writes is the newest, or the newest came late
LEMMA SetActiveKeeps ==
    ASSUME OpenInv, NEW r \in Requests, SetActive(r)
    PROVE  OpenInv'
<1>1. /\ pc[r] = "write" /\ pc' = [pc EXCEPT ![r] = "clear"] /\ active' = answer[r]
      /\ UNCHANGED <<job, answer, current, newest, late>>
  BY DEF SetActive, Goto
<1>2. Shaped'
  BY <1>1 DEF OpenInv, Shaped, Places
<1>3. pc'[r] = "clear" /\ \A q \in Requests \ {r} : pc'[q] = pc[q]
  BY <1>1 DEF OpenInv, Shaped
<1>4. Leads'
  BY <1>1, <1>3 DEF OpenInv, Leads, Asks
<1> QED BY <1>2, <1>4 DEF OpenInv

\* only the owner takes the mark away
LEMMA ClearKeeps ==
    ASSUME OpenInv, NEW r \in Requests, Clear(r)
    PROVE  OpenInv'
<1>1. /\ pc[r] = "clear" /\ pc' = [pc EXCEPT ![r] = "done"] /\ current' = IF current = r THEN None ELSE current
      /\ UNCHANGED <<job, answer, active, newest, late>> /\ r # None
  BY RepositoriesAssumption DEF Clear, Goto, None
<1>2. Shaped'
  BY <1>1 DEF OpenInv, Shaped, Places
<1>3. pc'[r] = "done" /\ \A q \in Requests \ {r} : pc'[q] = pc[q]
  BY <1>1 DEF OpenInv, Shaped
<1>4. Leads'
  BY <1>1, <1>3 DEF OpenInv, Leads, Asks
<1> QED BY <1>2, <1>4 DEF OpenInv

\* a restart loses the answers of the requests at work, and the mark
LEMMA RestartKeeps == OpenInv /\ Restart => OpenInv'
<1> SUFFICES ASSUME OpenInv, Restart PROVE OpenInv'
  OBVIOUS
<1>1. /\ pc' = [r \in Requests |-> IF pc[r] = "start" THEN "start" ELSE "done"]
      /\ answer' = [r \in Requests |-> IF pc[r] = "done" THEN answer[r] ELSE NoAnswer]
      /\ current' = None /\ UNCHANGED <<job, active, newest, late>>
  BY DEF Restart
<1>2. NoAnswer.ok = FALSE /\ Shape(NoAnswer)
  BY DEF NoAnswer, Shape
<1>3. pc' \in [Requests -> Places]
  BY <1>1 DEF OpenInv, Shaped, Places
<1>4. DOMAIN answer' = Requests /\ \A r \in Requests : Shape(answer'[r])
  BY <1>1, <1>2 DEF OpenInv, Shaped
<1>5. Shaped'
  BY <1>3, <1>4 DEF Shaped, Shape
<1>6. Leads'
  BY <1>1, <1>2 DEF OpenInv, Leads, Asks
<1> QED BY <1>5, <1>6 DEF OpenInv

\* every step of every request keeps the mark in order
LEMMA OpenSteps == OpenInv /\ [Next]_vars => OpenInv'
<1> SUFFICES ASSUME OpenInv, [Next]_vars PROVE OpenInv'
  OBVIOUS
<1>0. pc \in [Requests -> Places] /\ (\A r \in Requests : answer[r].ok \in BOOLEAN)
  BY DEF OpenInv, Shaped, Shape
\* the subprocesses that say nothing
<1>1. ASSUME NEW r \in Requests, NEW from \in Places \ {"clear", "done"},
             NEW to \in Places \ {"start", "write", "clear", "done"},
             Goto(r, from, to), UNCHANGED <<job, answer, current, active, newest, late>>
      PROVE  OpenInv'
  <2>1. pc' = [pc EXCEPT ![r] = to] /\ pc[r] = from
    BY <1>1 DEF Goto
  <2>2. Shaped'
    BY <1>1, <2>1 DEF OpenInv, Shaped
  <2> QED BY <1>1, <2>1, <2>2, OtherSteps
<1>2. ASSUME NEW r \in Requests, Find(r) \/ CloneRepository(r) \/ Fetch(r) \/ Verify(r) \/ LsRemote(r) PROVE OpenInv'
  BY <1>1, <1>2 DEF Find, CloneRepository, Fetch, Verify, LsRemote, opening, Places
<1>3. ASSUME NEW r \in Requests, Checkout(r) \/ CheckoutForced(r) PROVE OpenInv'
  BY <1>1, <1>3 DEF Checkout, CheckoutForced, AfterCheckout, opening, Places
<1>4. ASSUME NEW r \in Requests, GitCheckout(r) \/ CreateBranch(r) \/ Stage(r) \/ Commit(r) PROVE OpenInv'
  BY <1>1, <1>4 DEF GitCheckout, CreateBranch, Stage, Commit, opening, Places
\* those that put something in the answer
<1>5. ASSUME NEW r \in Requests, NEW from \in Places \ {"clear", "done"}, NEW to \in Places \ {"start", "write"},
             Goto(r, from, to), UNCHANGED <<job, current, active, newest, late>>,
             DOMAIN answer' = Requests, \A q \in Requests \ {r} : answer'[q] = answer[q], Shape(answer'[r]),
             to \in {"clear", "done"} /\ Asks(r, Opens) /\ from # "start" => ~answer'[r].ok
      PROVE  OpenInv'
  <2>1. pc' = [pc EXCEPT ![r] = to] /\ pc[r] = from
    BY <1>5 DEF Goto
  <2>2. pc' \in [Requests -> Places]
    BY <1>0, <2>1
  <2>3. Shaped'
    BY <1>5, <2>2, OneAnswers DEF OpenInv
  <2> QED BY <1>5, <2>1, <2>3, OtherSteps
<1>6. ASSUME NEW r \in Requests, ReadHead(r) PROVE OpenInv'
  <2>1. DOMAIN answer = Requests /\ DOMAIN answer[r] = {"ok", "branch", "commits"}
    BY DEF OpenInv, Shaped, Shape
  <2>2. /\ DOMAIN answer' = Requests /\ (\A q \in Requests \ {r} : answer'[q] = answer[q])
        /\ DOMAIN answer'[r] = {"ok", "branch", "commits"}
        /\ answer'[r].ok = Asks(r, {"branch", "checkout"})
    BY <1>6, <2>1 DEF ReadHead
  <2>3. Shape(answer'[r])
    BY <2>2 DEF Shape, Asks
  <2>4. Asks(r, Opens) => ~Asks(r, {"branch", "checkout"})
    BY DEF Asks, Opens
  <2>5. \E to \in {"name", "check", "done"} : Goto(r, "head", to)
    <3>1. (CASE Asks(r, {"open_provider", "commit"}) -> "name"
             [] Asks(r, {"open_local"}) -> "check"
             [] OTHER -> "done") \in {"name", "check", "done"}
      BY DEF Asks
    <3> QED BY <1>6, <3>1 DEF ReadHead
  <2> QED BY <1>5, <1>6, <2>2, <2>3, <2>4, <2>5 DEF ReadHead, opening, Places
<1>7. ASSUME NEW r \in Requests, Name(r) PROVE OpenInv'
  <2>1. DOMAIN answer = Requests /\ DOMAIN answer[r] = {"ok", "branch", "commits"}
    BY DEF OpenInv, Shaped, Shape
  <2>2. /\ DOMAIN answer' = Requests /\ (\A q \in Requests \ {r} : answer'[q] = answer[q])
        /\ DOMAIN answer'[r] = {"ok", "branch", "commits"}
        /\ answer'[r].ok = Asks(r, {"commit"})
    BY <1>7, <2>1 DEF Name
  <2>3. Shape(answer'[r])
    BY <2>2 DEF Shape, Asks
  <2>4. Asks(r, Opens) => ~Asks(r, {"commit"})
    BY DEF Asks, Opens
  <2>5. \E to \in {"head", "check", "done"} : Goto(r, "name", to)
    <3>1. (CASE Asks(r, {"open_provider"}) -> "check"
             [] Asks(r, {"open_local"}) -> "head"
             [] OTHER -> "done") \in {"head", "check", "done"}
      BY DEF Asks
    <3> QED BY <1>7, <3>1 DEF Name
  <2> QED BY <1>5, <1>7, <2>2, <2>3, <2>4, <2>5 DEF Name, opening, Places
<1>8. ASSUME NEW r \in Requests, Push(r) PROVE OpenInv'
  <2>1. DOMAIN answer = Requests
    BY DEF OpenInv, Shaped
  <2>2. /\ DOMAIN answer' = Requests /\ (\A q \in Requests \ {r} : answer'[q] = answer[q])
        /\ Shape(answer'[r]) /\ Goto(r, "start", "done")
    BY <1>8, <2>1 DEF Shape, Push
  <2> QED BY <1>5, <1>8, <2>2 DEF Push, opening, Places
<1>9. ASSUME NEW r \in Requests, Fail(r) PROVE OpenInv'
  <2>1. DOMAIN answer = Requests
    BY DEF OpenInv, Shaped
  <2>2. /\ DOMAIN answer' = Requests /\ (\A q \in Requests \ {r} : answer'[q] = answer[q])
        /\ Shape(answer'[r]) /\ ~answer'[r].ok
    BY <1>9, <2>1 DEF Shape, NoAnswer, Fail
  <2>3. \E to \in {"clear", "done"} : Goto(r, pc[r], to)
    BY <1>9 DEF Fail, Goto
  <2>4. pc[r] \in Places \ {"clear", "done"}
    BY <1>9 DEF Fail, Working, Places
  <2> QED BY <1>5, <1>9, <2>2, <2>3, <2>4 DEF Fail, opening, Places
<1>10. ASSUME NEW b \in Moving, OriginMoves(b) PROVE OpenInv'
  BY <1>10 DEF OriginMoves, opening, OpenInv, Shaped, Leads, Asks
<1>11. CASE UNCHANGED vars
  BY <1>11 DEF vars, OpenInv, Shaped, Leads, Asks
<1>12. ASSUME NEW r \in Requests, Step(r) PROVE OpenInv'
  BY <1>2, <1>3, <1>4, <1>6, <1>7, <1>8, <1>9, <1>12, OpenKeeps, CheckKeeps, SetActiveKeeps, ClearKeeps DEF Step
<1> QED BY <1>10, <1>11, <1>12, RestartKeeps DEF Next

(* When no open is at work, the active repository is the one the newest of     *)
(* them opened, for any number of opens, checkouts and restarts.             *)
THEOREM NewestIsActive == Spec => []ActiveIsNewest
<1>1. OpenInv => ActiveIsNewest
  BY DEF OpenInv, Shaped, Leads, ActiveIsNewest, Opening, Places
<1> QED BY <1>1, OpenStarts, OpenSteps, PTL DEF Spec
----------------------------------------------------------------------------
\* a checkout that is not there has no branches, nobody is past the clone
\* without one, and who looks for a branch on origin found it missing here
Fields == {"exists", "local", "tracking", "head", "edited", "staged"}

Grounded ==
    /\ DOMAIN repo = Fields /\ repo.exists \in BOOLEAN
    /\ ~repo.exists => DOMAIN repo.local = {}
    /\ DOMAIN pc = Requests /\ DOMAIN missed = Requests
    /\ \A r \in Requests :
         /\ pc[r] \in {"fetch", "verify", "lsRemote", "force"} => repo.exists
         /\ pc[r] \in {"lsRemote", "force"} => missed[r]

Kept == \A b \in DOMAIN repo.local : b \in DOMAIN repo'.local /\ repo.local[b] \subseteq repo'.local[b]

\* at first the checkout is there or it has no branches
LEMMA GroundedStarts == Init => Grounded
<1> SUFFICES ASSUME Init PROVE Grounded
  OBVIOUS
<1>1. CASE repo = NoRepo
  <2>1. DOMAIN NoRepo = Fields /\ NoRepo.exists = FALSE /\ NoRepo.local = <<>>
    BY DEF NoRepo, Fields
  <2>2. DOMAIN (<<>>) = {}
    OBVIOUS
  <2> QED BY <1>1, <2>1, <2>2 DEF Init, Grounded
<1>2. CASE repo = [Clone(Origin) EXCEPT !.edited = TRUE]
  <2>1. DOMAIN Clone(Origin) = Fields /\ Clone(Origin).exists = TRUE
    BY DEF Clone, Fields
  <2>2. DOMAIN repo = Fields /\ repo.exists = TRUE
    BY <1>2, <2>1
  <2> QED BY <2>2 DEF Init, Grounded
<1> QED BY <1>1, <1>2 DEF Init

\* a step of a request that leaves a checkout where there was one
LEMMA GroundedKept ==
    ASSUME Grounded, NEW r \in Requests, NEW to, pc' = [pc EXCEPT ![r] = to],
           DOMAIN repo' = Fields, repo'.exists = repo.exists, ~repo.exists => DOMAIN repo'.local = {},
           DOMAIN missed' = Requests, \A q \in Requests \ {r} : missed'[q] = missed[q],
           to \in {"fetch", "verify", "lsRemote", "force"} => repo.exists,
           to \in {"lsRemote", "force"} => missed'[r]
    PROVE  Grounded'
BY DEF Grounded

\* the steps that leave the checkout and what was missed alone
LEMMA ReadsKeep ==
    ASSUME Grounded, NEW r \in Requests, NEW to, pc' = [pc EXCEPT ![r] = to], UNCHANGED <<repo, missed>>,
           to \in {"fetch", "verify", "lsRemote", "force"} => repo.exists,
           to \in {"lsRemote", "force"} => missed[r]
    PROVE  Grounded' /\ Kept
BY GroundedKept DEF Grounded, Kept

\* every step but git checkout -B keeps the commits of every branch
LEMMA RepositorySteps ==
    ASSUME Grounded, [Next]_vars
    PROVE  Grounded' /\ (Kept \/ \E r \in Requests :
             /\ pc[r] = "force" /\ pc'[r] = "head" /\ missed[r]
             /\ \A b \in DOMAIN repo.local : b # Branch(r) =>
                  b \in DOMAIN repo'.local /\ repo.local[b] \subseteq repo'.local[b])
<1>1. ASSUME NEW r \in Requests, Open(r) PROVE Grounded' /\ Kept
  <2>1. pc' = [pc EXCEPT ![r] = CASE Asks(r, {"open_provider"}) -> "find"
                          [] Asks(r, {"open_local"}) /\ Branch(r) # "current" -> "verify"
                          [] Asks(r, {"open_local"}) /\ Branch(r) = "current" -> "name"
                          [] OTHER -> "check"]
        /\ (Asks(r, {"open_local"}) => repo.exists) /\ UNCHANGED <<repo, missed>>
    BY <1>1 DEF Open, Goto, git
  <2>2. \E to \in {"find", "verify", "name", "check"} :
           pc' = [pc EXCEPT ![r] = to] /\ (to = "verify" => Asks(r, {"open_local"}))
    <3>1. \E to \in {"find", "verify", "name", "check"} :
            /\ to = CASE Asks(r, {"open_provider"}) -> "find"
                      [] Asks(r, {"open_local"}) /\ Branch(r) # "current" -> "verify"
                      [] Asks(r, {"open_local"}) /\ Branch(r) = "current" -> "name"
                      [] OTHER -> "check"
            /\ to = "verify" => Asks(r, {"open_local"})
      BY DEF Asks
    <3> QED BY <2>1, <3>1
  <2> QED BY <2>1, <2>2, ReadsKeep
<1>2. ASSUME NEW r \in Requests, Find(r) \/ Check(r) \/ SetActive(r) \/ Clear(r) \/ GitCheckout(r)
      PROVE  Grounded' /\ Kept
  BY <1>2, ReadsKeep DEF Find, Check, SetActive, Clear, GitCheckout, Goto, git
<1>3. ASSUME NEW r \in Requests, LsRemote(r) PROVE Grounded' /\ Kept
  <2>1. pc[r] = "lsRemote" /\ pc' = [pc EXCEPT ![r] = "force"] /\ UNCHANGED <<repo, missed>>
    BY <1>3 DEF LsRemote, Goto, git
  <2> QED BY <2>1, ReadsKeep DEF Grounded
<1>4. ASSUME NEW r \in Requests, ReadHead(r) \/ Name(r) PROVE Grounded' /\ Kept
  <2>1. \E to \in {"head", "name", "check", "done"} : pc' = [pc EXCEPT ![r] = to]
    <3>1. (CASE Asks(r, {"open_provider", "commit"}) -> "name"
             [] Asks(r, {"open_local"}) -> "check"
             [] OTHER -> "done") \in {"name", "check", "done"}
      BY DEF Asks
    <3>2. (CASE Asks(r, {"open_provider"}) -> "check"
             [] Asks(r, {"open_local"}) -> "head"
             [] OTHER -> "done") \in {"head", "check", "done"}
      BY DEF Asks
    <3> QED BY <1>4, <3>1, <3>2 DEF ReadHead, Name, Goto
  <2>2. UNCHANGED <<repo, missed>>
    BY <1>4 DEF ReadHead, Name, git
  <2> QED BY <2>1, <2>2, ReadsKeep
<1>5. ASSUME NEW r \in Requests, CloneRepository(r) PROVE Grounded' /\ Kept
  <2>1. ~repo.exists /\ pc' = [pc EXCEPT ![r] = "fetch"] /\ repo' = Clone(remote) /\ missed' = missed
    BY <1>5 DEF CloneRepository, Goto, Writes
  <2>2. DOMAIN repo' = Fields /\ repo'.exists = TRUE
    BY <2>1 DEF Clone, Fields
  <2> QED BY <2>1, <2>2 DEF Grounded, Kept
<1>6. ASSUME NEW r \in Requests, Fetch(r) PROVE Grounded' /\ Kept
  <2>1. pc[r] = "fetch" /\ pc' = [pc EXCEPT ![r] = "verify"] /\ repo' = [repo EXCEPT !.tracking = remote]
        /\ missed' = missed
    BY <1>6 DEF Fetch, Goto, Writes
  <2>2. DOMAIN repo' = Fields /\ repo'.exists = repo.exists /\ repo'.local = repo.local
    BY <2>1 DEF Grounded, Fields
  <2> QED BY <2>1, <2>2, GroundedKept DEF Grounded, Kept
<1>7. ASSUME NEW r \in Requests, Verify(r) PROVE Grounded' /\ Kept
  <2>1. pc[r] = "verify" /\ missed' = [missed EXCEPT ![r] = Branch(r) \notin DOMAIN repo.local] /\ repo' = repo
    BY <1>7 DEF Verify, Goto, git
  <2>2. \E to \in {"checkout", "lsRemote"} :
           pc' = [pc EXCEPT ![r] = to] /\ (to = "lsRemote" => Branch(r) \notin DOMAIN repo.local)
    BY <1>7 DEF Verify, Goto, HasLocal
  <2>3. repo.exists
    BY <2>1 DEF Grounded
  <2> QED BY <2>1, <2>2, <2>3, GroundedKept DEF Grounded, Kept
<1>8. ASSUME NEW r \in Requests, Checkout(r) \/ Stage(r) \/ Push(r) PROVE Grounded' /\ Kept
  <2>1. \E to \in {"head", "name", "commit", "done"} : pc' = [pc EXCEPT ![r] = to]
    BY <1>8 DEF Checkout, AfterCheckout, Stage, Push, Goto
  <2>2. DOMAIN repo' = Fields /\ repo'.exists = repo.exists /\ repo'.local = repo.local
    BY <1>8 DEF Checkout, Stage, Push, Writes, Grounded, Fields
  <2>3. missed' = missed
    BY <1>8 DEF Checkout, Stage, Push
  <2> QED BY <2>1, <2>2, <2>3, GroundedKept DEF Grounded, Kept
<1>9. ASSUME NEW r \in Requests, CreateBranch(r) PROVE Grounded' /\ Kept
  <2>1. repo.exists /\ Branch(r) \notin DOMAIN repo.local /\ missed' = missed
    BY <1>9 DEF CreateBranch
  <2>2. \E to \in {"create", "head"} : pc' = [pc EXCEPT ![r] = to]
    BY <1>9 DEF CreateBranch, Goto
  <2>3. /\ DOMAIN repo' = Fields /\ repo'.exists = repo.exists
        /\ \A b \in DOMAIN repo.local : b \in DOMAIN repo'.local /\ repo'.local[b] = repo.local[b]
    <3>1. CASE UNCHANGED git
      BY <3>1 DEF git, Grounded
    <3>2. CASE Writes(r, [repo EXCEPT
                !.local = [b \in DOMAIN @ \cup {Branch(r)} |->
                             IF b = Branch(r) THEN @[job[r].from] ELSE @[b]],
                !.head = IF job[r].switch THEN Branch(r) ELSE @])
      <4> DEFINE new == [b \in DOMAIN repo.local \cup {Branch(r)} |->
                             IF b = Branch(r) THEN repo.local[job[r].from] ELSE repo.local[b]]
                 grown == [repo EXCEPT !.local = new]
      <4>1. DOMAIN grown = DOMAIN repo /\ grown.exists = repo.exists /\ grown.local = new
        BY DEF Grounded, Fields
      <4>2. repo' = [grown EXCEPT !.head = IF job[r].switch THEN Branch(r) ELSE repo.head]
        BY <3>2 DEF Writes, Grounded, Fields
      <4>3. \A b \in DOMAIN repo.local : b \in DOMAIN new /\ new[b] = repo.local[b]
        BY <2>1
      <4> HIDE DEF new, grown
      <4>4. DOMAIN repo' = Fields /\ repo'.exists = repo.exists /\ repo'.local = new
        BY <4>1, <4>2 DEF Grounded, Fields
      <4> QED BY <4>3, <4>4
    <3> QED BY <1>9, <3>1, <3>2 DEF CreateBranch
  <2>4. DOMAIN missed = Requests
    BY DEF Grounded
  <2>5. Grounded'
    BY <2>1, <2>2, <2>3, <2>4, GroundedKept
  <2> QED BY <2>3, <2>5 DEF Kept
<1>10. ASSUME NEW r \in Requests, Commit(r) PROVE Grounded' /\ Kept
  <2>1. pc' = [pc EXCEPT ![r] = "head"] /\ missed' = missed
        /\ repo' = [repo EXCEPT !.local[repo.head] = @ \cup {Fresh}, !.staged = FALSE]
    BY <1>10 DEF Commit, Goto, Writes
  <2>2. DOMAIN repo' = Fields /\ repo'.exists = repo.exists
        /\ repo'.local = [repo.local EXCEPT ![repo.head] = @ \cup {Fresh}]
    <3>1. {"local", "staged"} \subseteq DOMAIN repo
      BY DEF Grounded, Fields
    <3> DEFINE grown == [repo EXCEPT !.local[repo.head] = @ \cup {Fresh}]
    <3>2. DOMAIN grown = DOMAIN repo /\ grown.exists = repo.exists
          /\ grown.local = [repo.local EXCEPT ![repo.head] = @ \cup {Fresh}]
      BY <3>1 DEF Grounded, Fields
    <3>3. repo' = [grown EXCEPT !.staged = FALSE]
      BY <2>1
    <3> HIDE DEF grown
    <3> QED BY <3>2, <3>3 DEF Grounded, Fields
  <2>3. DOMAIN repo'.local = DOMAIN repo.local
    BY <2>2
  <2>4. \A b \in DOMAIN repo.local : repo.local[b] \subseteq repo'.local[b]
    BY <2>2
  <2>5. Kept
    BY <2>3, <2>4 DEF Kept
  <2> QED BY <2>1, <2>2, <2>3, <2>5, GroundedKept DEF Grounded
<1>11. ASSUME NEW r \in Requests, Fail(r) PROVE Grounded' /\ Kept
  <2>1. /\ \E to \in {"clear", "done"} : pc' = [pc EXCEPT ![r] = to]
        /\ repo' = repo /\ missed' = [missed EXCEPT ![r] = FALSE]
    BY <1>11 DEF Fail
  <2> QED BY <2>1, GroundedKept DEF Grounded, Kept
<1>12. ASSUME NEW r \in Requests, CheckoutForced(r)
       PROVE  /\ Grounded' /\ pc[r] = "force" /\ pc'[r] = "head" /\ missed[r]
              /\ \A b \in DOMAIN repo.local : b # Branch(r) =>
                   b \in DOMAIN repo'.local /\ repo.local[b] \subseteq repo'.local[b]
  <2>1. pc[r] = "force" /\ pc' = [pc EXCEPT ![r] = "head"] /\ missed' = [missed EXCEPT ![r] = FALSE]
    BY <1>12 DEF CheckoutForced, Goto
  <2>2. repo.exists /\ missed[r]
    BY <2>1 DEF Grounded
  <2>3. /\ DOMAIN repo' = Fields /\ repo'.exists = repo.exists
        /\ repo'.local = [c \in DOMAIN repo.local \cup {Branch(r)} |->
                            IF c = Branch(r) THEN repo.tracking[Branch(r)] ELSE repo.local[c]]
    BY <1>12 DEF CheckoutForced, Writes, Grounded, Fields
  <2> QED BY <2>1, <2>2, <2>3, GroundedKept DEF Grounded
<1>13. CASE Restart
  BY <1>13 DEF Restart, git, Grounded, Kept
<1>14. ASSUME NEW b \in Moving, OriginMoves(b) PROVE Grounded' /\ Kept
  BY <1>14 DEF OriginMoves, Grounded, Kept
<1>15. CASE UNCHANGED vars
  BY <1>15 DEF vars, Grounded, Kept
<1> QED BY <1>1, <1>2, <1>3, <1>4, <1>5, <1>6, <1>7, <1>8, <1>9, <1>10, <1>11, <1>12, <1>13, <1>14, <1>15
        DEF Next, Step

(* A branch loses a commit only to a git checkout -B of that branch by an open *)
(* that had found it missing, for any requests, branches and commits.         *)
THEOREM CommitsAreKept == Spec => KeepsCommits
<1>1. ASSUME Grounded, [Next]_vars
      PROVE  [\A b \in DOMAIN repo.local :
                \/ b \in DOMAIN repo'.local /\ repo.local[b] \subseteq repo'.local[b]
                \/ \E r \in Requests : pc[r] = "force" /\ pc'[r] = "head" /\ missed[r] /\ b = Branch(r)]_vars
  BY <1>1, RepositorySteps DEF Kept
<1>2. Grounded /\ [Next]_vars => Grounded'
  BY RepositorySteps
<1> QED BY <1>1, <1>2, GroundedStarts, PTL DEF Spec, KeepsCommits
----------------------------------------------------------------------------
\* where a request may be, by what it asks for
Fits(r) ==
    /\ job[r] \in JobSpace
    /\ pc[r] \in {"find", "clone", "fetch", "lsRemote", "force"} => Asks(r, {"open_provider"})
    /\ pc[r] \in {"verify", "checkout"} =>
         Asks(r, {"open_provider", "open_local", "checkout"}) /\ Branch(r) # "current"
    /\ pc[r] = "head" => Asks(r, {"open_provider", "open_local", "checkout", "branch", "commit"})
    /\ pc[r] = "name" => Asks(r, {"open_provider", "open_local", "commit"})
    /\ pc[r] = "create" => Asks(r, {"branch"})
    /\ pc[r] = "commit" => Asks(r, {"commit"})
    /\ pc[r] \in {"check", "write", "clear"} => Asks(r, Opens)

\* the branch a request is about
Wanted(r) == IF Branch(r) = "current" THEN repo.head ELSE Branch(r)

TellsBranch(r) == answer[r].branch = Wanted(r)
TellsCommits(r) == answer[r].commits = repo.local[Wanted(r)]

\* what a request that nobody disturbs has achieved and read when it gets there
Tells(r) == alone[r] /\ ~Asks(r, {"open_plain"}) =>
    /\ pc[r] \in {"head", "name"} /\ ~Asks(r, {"branch"}) => repo.head = Wanted(r)
    /\ pc[r] = "head" /\ Asks(r, {"open_local"}) => TellsBranch(r)
    /\ pc[r] = "name" /\ ~Asks(r, {"open_local"}) => TellsCommits(r)
    /\ pc[r] \in {"check", "write"} \/ (pc[r] \in {"clear", "done"} /\ answer[r].ok) =>
         TellsBranch(r) /\ TellsCommits(r)

Listed == DOMAIN repo = Fields /\ DOMAIN job = Requests /\ DOMAIN alone = Requests

TellInv == OpenInv /\ Listed /\ \A r \in Requests : Fits(r) /\ Tells(r)

\* what the space of jobs says of one job
LEMMA JobFacts ==
    ASSUME NEW r \in Requests, job[r] \in JobSpace
    PROVE  /\ job[r].op \in Opens \cup {"checkout", "push", "branch", "commit"}
           /\ job[r].op \in {"open_provider", "checkout", "push", "branch"} => Branch(r) # "current"
           /\ job[r].op = "commit" => Branch(r) = "current"
BY RepositoriesAssumption DEF JobSpace, Opens, Branch

\* nobody but the request that takes a step can lose what it told, and whoever
\* wrote to the checkout has disturbed the others
LEMMA OthersTell ==
    ASSUME TellInv, NEW r \in Requests, NEW to, pc' = [pc EXCEPT ![r] = to], job' = job,
           \A q \in Requests \ {r} : answer'[q] = answer[q],
           \/ repo' = repo /\ alone' = alone
           \/ repo' = repo /\ alone' = [alone EXCEPT ![r] = TRUE]
           \/ \E new : Writes(r, new),
           Fits(r)', Tells(r)'
    PROVE  \A q \in Requests : Fits(q)' /\ Tells(q)'
<1> SUFFICES ASSUME NEW q \in Requests, q # r PROVE Fits(q)' /\ Tells(q)'
  OBVIOUS
<1>1. pc'[q] = pc[q] /\ job'[q] = job[q] /\ answer'[q] = answer[q]
  BY DEF TellInv, OpenInv, Shaped
<1>2. Fits(q) /\ Tells(q)
  BY DEF TellInv
<1>3. Fits(q)'
  BY <1>1, <1>2 DEF Fits, Asks, Branch
<1>4. CASE repo' = repo /\ alone'[q] = alone[q]
  BY <1>1, <1>2, <1>3, <1>4 DEF Tells, TellsBranch, TellsCommits, Wanted, Asks, Branch
<1>5. CASE alone'[q] = (alone[q] /\ pc[q] = "start")
  BY <1>1, <1>3, <1>5 DEF Tells
<1> QED BY <1>3, <1>4, <1>5 DEF Writes, TellInv, Listed

\* what a step of a request needs to keep everything told
LEMMA RequestTells ==
    ASSUME TellInv, NEW r \in Requests, NEW to, pc' = [pc EXCEPT ![r] = to], job' = job, OpenInv',
           \A q \in Requests \ {r} : answer'[q] = answer[q], DOMAIN repo' = Fields,
           \/ repo' = repo /\ alone' = alone
           \/ repo' = repo /\ alone' = [alone EXCEPT ![r] = TRUE]
           \/ \E new : Writes(r, new),
           Fits(r)', Tells(r)'
    PROVE  TellInv'
<1>1. Listed'
  BY DEF TellInv, Listed, Writes
<1> QED BY <1>1, OthersTell DEF TellInv

\* the subprocesses that only look, and what an open does before git
LEMMA LooksTell ==
    ASSUME TellInv, OpenInv', NEW r \in Requests,
           Open(r) \/ Find(r) \/ Verify(r) \/ LsRemote(r) \/ GitCheckout(r)
    PROVE  TellInv'
<1>1. Fits(r) /\ Tells(r) /\ pc \in [Requests -> Places] /\ DOMAIN repo = Fields
  BY DEF TellInv, OpenInv, Shaped, Listed
<1>2. UNCHANGED <<repo, alone, job, answer>>
  BY DEF Open, Find, Verify, LsRemote, GitCheckout, git, opening
<1>3. Asks(r, {"open_provider", "checkout"}) => Branch(r) # "current"
  BY <1>1, JobFacts DEF Fits, Asks
<1>4. PICK to \in {"find", "verify", "name", "check", "fetch", "clone", "checkout", "lsRemote", "force"} :
        /\ pc' = [pc EXCEPT ![r] = to]
        /\ to \in {"find", "fetch", "clone", "lsRemote", "force"} => Asks(r, {"open_provider"})
        /\ to \in {"verify", "checkout"} =>
             Asks(r, {"open_provider", "open_local", "checkout"}) /\ Branch(r) # "current"
        /\ to = "name" => Asks(r, {"open_local"}) /\ Branch(r) = "current"
        /\ to = "check" => Asks(r, {"open_plain"})
  <2>1. CASE Open(r)
    <3>1. PICK to \in {"find", "verify", "name", "check"} :
             to = CASE Asks(r, {"open_provider"}) -> "find"
                    [] Asks(r, {"open_local"}) /\ Branch(r) # "current" -> "verify"
                    [] Asks(r, {"open_local"}) /\ Branch(r) = "current" -> "name"
                    [] OTHER -> "check"
      BY DEF Asks
    <3>2. /\ to = "find" => Asks(r, {"open_provider"})
          /\ to = "verify" => Asks(r, {"open_local"}) /\ Branch(r) # "current"
          /\ to = "name" => Asks(r, {"open_local"}) /\ Branch(r) = "current"
          /\ to = "check" => ~Asks(r, {"open_provider"}) /\ ~Asks(r, {"open_local"})
      BY <3>1 DEF Asks
    <3>3. Asks(r, Opens) /\ pc' = [pc EXCEPT ![r] = to]
      BY <2>1, <3>1 DEF Open, Goto
    <3>4. to = "check" => Asks(r, {"open_plain"})
      BY <3>3, <3>2 DEF Asks, Opens
    <3>5. Asks(r, {"open_local"}) => Asks(r, {"open_provider", "open_local", "checkout"})
      BY DEF Asks
    <3> QED BY <3>2, <3>3, <3>4, <3>5
  <2>2. CASE Find(r) \/ LsRemote(r)
    BY <1>1, <2>2 DEF Find, LsRemote, Goto, Fits
  <2>3. CASE Verify(r)
    BY <1>1, <2>3 DEF Verify, Goto, Fits
  <2>4. CASE GitCheckout(r)
    <3>1. Asks(r, {"checkout"}) => Asks(r, {"open_provider", "checkout"})
          /\ Asks(r, {"open_provider", "open_local", "checkout"})
      BY DEF Asks
    <3> QED BY <1>3, <2>4, <3>1 DEF GitCheckout, Goto
  <2> QED BY <2>1, <2>2, <2>3, <2>4
<1>5. pc'[r] = to /\ job'[r] = job[r] /\ answer'[r] = answer[r]
  BY <1>1, <1>2, <1>4
<1>6. Fits(r)'
  BY <1>1, <1>4, <1>5 DEF Fits, Asks, Branch, Opens
<1>7. Tells(r)'
  <2>1. CASE to \notin {"name", "check"}
    BY <1>4, <1>5, <2>1 DEF Tells
  <2>2. CASE to = "name"
    BY <1>2, <1>4, <1>5, <2>2 DEF Tells, Wanted, Asks, Branch
  <2>3. CASE to = "check"
    BY <1>2, <1>4, <1>5, <2>3 DEF Tells, Asks
  <2> QED BY <2>1, <2>2, <2>3
<1> QED BY <1>1, <1>2, <1>4, <1>6, <1>7, RequestTells

\* the subprocesses that change the checkout leave the branch that was asked for
LEMMA ChangesTell ==
    ASSUME TellInv, OpenInv', NEW r \in Requests,
           \/ CloneRepository(r) \/ Fetch(r) \/ Checkout(r) \/ CheckoutForced(r)
           \/ CreateBranch(r) \/ Stage(r) \/ Commit(r)
    PROVE  TellInv'
<1>1. Fits(r) /\ Tells(r) /\ pc \in [Requests -> Places] /\ DOMAIN repo = Fields
  BY DEF TellInv, OpenInv, Shaped, Listed
<1>2. job' = job /\ answer' = answer
  BY DEF CloneRepository, Fetch, Checkout, CheckoutForced, CreateBranch, Stage, Commit
<1>3. (repo' = repo /\ alone' = alone) \/ \E new : Writes(r, new)
  BY DEF CloneRepository, Fetch, Checkout, CheckoutForced, CreateBranch, Stage, Commit, git
<1>4. DOMAIN repo' = Fields
  <2>1. CASE CloneRepository(r)
    <3>1. DOMAIN Clone(remote) = Fields
      BY DEF Clone, Fields
    <3> QED BY <2>1, <3>1 DEF CloneRepository, Writes
  <2>2. CASE Fetch(r) \/ Checkout(r) \/ Stage(r)
    BY <1>1, <2>2 DEF Fetch, Checkout, Stage, Writes
  <2>3. CASE CheckoutForced(r) \/ Commit(r)
    BY <1>1, <2>3 DEF CheckoutForced, Commit, Writes
  <2>4. CASE CreateBranch(r)
    BY <1>1, <2>4 DEF CreateBranch, Writes, git
  <2> QED BY <2>1, <2>2, <2>3, <2>4
<1>5. PICK to \in {"fetch", "verify", "name", "head", "create", "commit"} :
        /\ pc' = [pc EXCEPT ![r] = to]
        /\ to = "fetch" => Asks(r, {"open_provider"})
        /\ to = "verify" => Asks(r, {"open_provider"})
        /\ to = "create" => Asks(r, {"branch"})
        /\ to = "commit" => Asks(r, {"commit"})
        /\ to = "name" => Asks(r, {"open_local"}) /\ Branch(r) # "current" /\ repo'.head = Branch(r)
        /\ to = "head" =>
             \/ Asks(r, {"branch"})
             \/ Asks(r, {"commit"}) /\ Branch(r) = "current"
             \/ Asks(r, {"open_provider", "checkout"}) /\ repo'.head = Branch(r)
  <2>1. CASE CloneRepository(r) \/ Fetch(r) \/ Stage(r)
    BY <1>1, <2>1 DEF CloneRepository, Fetch, Stage, Goto, Fits
  <2>2. CASE CreateBranch(r)
    BY <2>2 DEF CreateBranch, Goto
  <2>3. CASE Commit(r)
    BY <1>1, <2>3, JobFacts DEF Commit, Goto, Fits, Asks
  <2>4. CASE Checkout(r)
    <3>1. pc[r] = "checkout" /\ pc' = [pc EXCEPT ![r] = AfterCheckout(r)] /\ repo'.head = Branch(r)
      BY <1>1, <2>4 DEF Checkout, Goto, Writes, Fields
    <3>2. Asks(r, {"open_provider", "open_local", "checkout"}) /\ Branch(r) # "current"
      BY <1>1, <3>1 DEF Fits
    <3> QED BY <3>1, <3>2 DEF AfterCheckout, Asks
  <2>5. CASE CheckoutForced(r)
    <3>1. pc[r] = "force" /\ pc' = [pc EXCEPT ![r] = "head"]
      BY <2>5 DEF CheckoutForced, Goto
    <3> DEFINE b == Branch(r)
               moved == [repo EXCEPT !.head = b]
    <3>2. repo' = [moved EXCEPT !.local = [c \in DOMAIN moved.local \cup {b} |->
                                  IF c = b THEN repo.tracking[b] ELSE moved.local[c]]]
      BY <1>1, <2>5 DEF CheckoutForced, Writes, Fields
    <3>3. DOMAIN moved = Fields /\ moved.head = b
      BY <1>1 DEF Fields
    <3> HIDE DEF moved
    <3>4. repo'.head = b
      BY <3>2, <3>3 DEF Fields
    <3>5. Asks(r, {"open_provider", "checkout"})
      BY <1>1, <3>1 DEF Fits, Asks
    <3> QED BY <3>1, <3>4, <3>5
  <2> QED BY <2>1, <2>2, <2>3, <2>4, <2>5
<1>6. pc'[r] = to /\ job'[r] = job[r] /\ answer'[r] = answer[r]
  BY <1>1, <1>2, <1>5
<1>7. Asks(r, {"open_provider"}) => Branch(r) # "current"
  BY <1>1, JobFacts DEF Fits, Asks
<1>8. Fits(r)'
  BY <1>1, <1>5, <1>6, <1>7 DEF Fits, Asks, Branch
<1>9. Tells(r)'
  BY <1>5, <1>6 DEF Tells, Wanted, Asks, Branch
<1> QED BY <1>1, <1>2, <1>3, <1>4, <1>5, <1>8, <1>9, RequestTells

\* what git says of the commits and of the branch goes in the answer
LEMMA HeadTells ==
    ASSUME TellInv, OpenInv', NEW r \in Requests, ReadHead(r)
    PROVE  TellInv'
<1>1. Fits(r) /\ Tells(r) /\ pc \in [Requests -> Places] /\ DOMAIN repo = Fields /\ DOMAIN answer = Requests
      /\ Shape(answer[r])
  BY DEF TellInv, OpenInv, Shaped, Listed
<1>2. UNCHANGED <<repo, alone, job>> /\ pc[r] = "head" /\ \A q \in Requests \ {r} : answer'[q] = answer[q]
  BY <1>1 DEF ReadHead, git, Goto
<1>3. /\ answer'[r].commits = repo.local[IF Asks(r, {"branch"}) THEN Branch(r) ELSE repo.head]
      /\ answer'[r].branch = IF Asks(r, {"branch", "checkout"}) THEN Branch(r) ELSE answer[r].branch
      /\ answer'[r].ok = Asks(r, {"branch", "checkout"})
  BY <1>1 DEF ReadHead, Shape
<1>4. PICK to \in {"name", "check", "done"} :
        /\ pc' = [pc EXCEPT ![r] = to]
        /\ to = "name" => Asks(r, {"open_provider", "commit"})
        /\ to = "check" => Asks(r, {"open_local"})
        /\ to = "done" => Asks(r, {"branch", "checkout"})
  <2>1. PICK to \in {"name", "check", "done"} :
          /\ to = CASE Asks(r, {"open_provider", "commit"}) -> "name"
                    [] Asks(r, {"open_local"}) -> "check"
                    [] OTHER -> "done"
          /\ to = "name" => Asks(r, {"open_provider", "commit"})
          /\ to = "check" => Asks(r, {"open_local"})
          /\ to = "done" => ~Asks(r, {"open_provider", "commit"}) /\ ~Asks(r, {"open_local"})
    BY DEF Asks
  <2>2. pc' = [pc EXCEPT ![r] = to]
    BY <2>1 DEF ReadHead, Goto
  <2>3. to = "done" => Asks(r, {"branch", "checkout"})
    BY <1>1, <1>2, <2>1 DEF Fits, Asks
  <2> QED BY <2>1, <2>2, <2>3
<1>5. pc'[r] = to /\ job'[r] = job[r]
  BY <1>1, <1>2, <1>4
<1>6. Fits(r)'
  BY <1>1, <1>4, <1>5 DEF Fits, Asks, Branch, Opens
<1>7. Asks(r, {"branch", "checkout"}) => Wanted(r) = Branch(r)
  BY <1>1, JobFacts DEF Fits, Asks, Wanted
<1>8. Tells(r)'
  <2> SUFFICES ASSUME alone[r], ~Asks(r, {"open_plain"}) PROVE Tells(r)'
    BY <1>2, <1>5 DEF Tells, Asks
  <2>1. ~Asks(r, {"branch"}) => repo.head = Wanted(r)
    BY <1>1, <1>2 DEF Tells
  <2>2. answer'[r].commits = repo.local[Wanted(r)]
    BY <1>3, <1>7, <2>1 DEF Asks
  <2>3. CASE to = "name"
    BY <1>2, <1>4, <1>5, <2>1, <2>2, <2>3 DEF Tells, TellsCommits, Wanted, Asks, Branch
  <2>4. CASE to = "check"
    <3>1. answer'[r].branch = Wanted(r)
      BY <1>1, <1>2, <1>3, <1>4, <2>4 DEF Tells, TellsBranch, Asks
    <3> QED BY <1>2, <1>4, <1>5, <2>2, <2>4, <3>1 DEF Tells, TellsBranch, TellsCommits, Wanted, Asks, Branch
  <2>5. CASE to = "done"
    <3>1. answer'[r].branch = Wanted(r)
      BY <1>3, <1>4, <1>7, <2>5
    <3> QED BY <1>2, <1>4, <1>5, <2>2, <2>5, <3>1 DEF Tells, TellsBranch, TellsCommits, Wanted, Asks, Branch
  <2> QED BY <2>3, <2>4, <2>5
<1> QED BY <1>1, <1>2, <1>4, <1>6, <1>8, RequestTells

LEMMA NameTells ==
    ASSUME TellInv, OpenInv', NEW r \in Requests, Name(r)
    PROVE  TellInv'
<1>1. Fits(r) /\ Tells(r) /\ pc \in [Requests -> Places] /\ DOMAIN repo = Fields /\ DOMAIN answer = Requests
      /\ Shape(answer[r])
  BY DEF TellInv, OpenInv, Shaped, Listed
<1>2. UNCHANGED <<repo, alone, job>> /\ pc[r] = "name" /\ \A q \in Requests \ {r} : answer'[q] = answer[q]
  BY <1>1 DEF Name, git, Goto
<1>3. answer'[r].branch = repo.head /\ answer'[r].commits = answer[r].commits
  BY <1>1 DEF Name, Shape
<1>4. PICK to \in {"head", "check", "done"} :
        /\ pc' = [pc EXCEPT ![r] = to]
        /\ to = "check" => Asks(r, {"open_provider"})
        /\ to = "head" => Asks(r, {"open_local"})
        /\ to = "done" => Asks(r, {"commit"})
  <2>1. PICK to \in {"head", "check", "done"} :
          /\ to = CASE Asks(r, {"open_provider"}) -> "check"
                    [] Asks(r, {"open_local"}) -> "head"
                    [] OTHER -> "done"
          /\ to = "check" => Asks(r, {"open_provider"})
          /\ to = "head" => Asks(r, {"open_local"})
          /\ to = "done" => ~Asks(r, {"open_provider"}) /\ ~Asks(r, {"open_local"})
    BY DEF Asks
  <2>2. pc' = [pc EXCEPT ![r] = to]
    BY <2>1 DEF Name, Goto
  <2>3. to = "done" => Asks(r, {"commit"})
    BY <1>1, <1>2, <2>1 DEF Fits, Asks
  <2> QED BY <2>1, <2>2, <2>3
<1>5. pc'[r] = to /\ job'[r] = job[r]
  BY <1>1, <1>2, <1>4
<1>6. Fits(r)'
  BY <1>1, <1>4, <1>5 DEF Fits, Asks, Branch, Opens
<1>7. Tells(r)'
  <2> SUFFICES ASSUME alone[r], ~Asks(r, {"open_plain"}) PROVE Tells(r)'
    BY <1>2, <1>5 DEF Tells, Asks
  <2>1. repo.head = Wanted(r) /\ (~Asks(r, {"open_local"}) => answer'[r].commits = repo.local[Wanted(r)])
    BY <1>1, <1>2, <1>3 DEF Tells, TellsCommits, Fits, Asks
  <2>2. answer'[r].branch = Wanted(r)
    BY <1>3, <2>1
  <2>3. to # "head" => answer'[r].commits = repo.local[Wanted(r)]
    BY <1>4, <2>1 DEF Asks
  <2> QED BY <1>2, <1>4, <1>5, <2>1, <2>2, <2>3 DEF Tells, TellsBranch, TellsCommits, Wanted, Asks, Branch
<1> QED BY <1>1, <1>2, <1>4, <1>6, <1>7, RequestTells

\* the end of an open
LEMMA EndsTell ==
    ASSUME TellInv, OpenInv', NEW r \in Requests, Check(r) \/ SetActive(r) \/ Clear(r)
    PROVE  TellInv'
<1>1. Fits(r) /\ Tells(r) /\ pc \in [Requests -> Places] /\ DOMAIN repo = Fields /\ DOMAIN answer = Requests
      /\ Shape(answer[r])
  BY DEF TellInv, OpenInv, Shaped, Listed
<1>2. UNCHANGED <<repo, alone, job>> /\ \A q \in Requests \ {r} : answer'[q] = answer[q]
  BY <1>1 DEF Check, SetActive, Clear, git
<1>3. /\ answer'[r].branch = answer[r].branch /\ answer'[r].commits = answer[r].commits
      /\ pc[r] = "clear" => answer'[r].ok = answer[r].ok
  BY <1>1 DEF Check, SetActive, Clear, Goto, Shape
<1>4. PICK to \in {"write", "clear", "done"} :
        /\ pc' = [pc EXCEPT ![r] = to] /\ pc[r] \in {"check", "write", "clear"}
        /\ to \in {"write", "clear"} => pc[r] \in {"check", "write"}
  BY DEF Check, SetActive, Clear, Goto
<1>5. pc'[r] = to /\ job'[r] = job[r]
  BY <1>1, <1>2, <1>4
<1>6. Fits(r)'
  BY <1>1, <1>4, <1>5 DEF Fits, Asks, Branch
<1>7. Tells(r)'
  <2>1. pc[r] \in {"check", "write"} \/ (pc[r] = "clear" /\ answer'[r].ok = answer[r].ok)
    BY <1>3, <1>4
  <2> QED BY <1>1, <1>2, <1>3, <1>4, <1>5, <2>1 DEF Tells, TellsBranch, TellsCommits, Wanted, Asks, Branch
<1> QED BY <1>1, <1>2, <1>4, <1>6, <1>7, RequestTells

\* a push answers what it pushed, and a failure answers nothing
LEMMA PushTells ==
    ASSUME TellInv, OpenInv', NEW r \in Requests, Push(r)
    PROVE  TellInv'
<1>1. Fits(r) /\ Tells(r) /\ pc \in [Requests -> Places] /\ DOMAIN repo = Fields /\ DOMAIN answer = Requests
  BY DEF TellInv, OpenInv, Shaped, Listed
<1>2. job' = job /\ pc' = [pc EXCEPT ![r] = "done"] /\ (\A q \in Requests \ {r} : answer'[q] = answer[q])
      /\ \E new : Writes(r, new)
  BY DEF Push, Goto
<1>3. DOMAIN repo' = Fields /\ repo'.local = repo.local
  BY <1>1 DEF Push, Writes, Fields
<1>4. answer'[r].branch = Branch(r) /\ answer'[r].commits = repo.local[Branch(r)]
  BY <1>1 DEF Push
<1>5. pc'[r] = "done" /\ job'[r] = job[r] /\ Branch(r) # "current"
  BY <1>1, <1>2, JobFacts DEF Push, Fits, Asks
<1>6. Fits(r)'
  BY <1>1, <1>5 DEF Fits
<1>7. Tells(r)'
  BY <1>3, <1>4, <1>5 DEF Tells, TellsBranch, TellsCommits, Wanted, Branch
<1> QED BY <1>2, <1>3, <1>6, <1>7, RequestTells

LEMMA FailTells ==
    ASSUME TellInv, OpenInv', NEW r \in Requests, Fail(r)
    PROVE  TellInv'
<1>1. Fits(r) /\ pc \in [Requests -> Places] /\ DOMAIN repo = Fields /\ DOMAIN answer = Requests
  BY DEF TellInv, OpenInv, Shaped, Listed
<1>2. /\ job' = job /\ repo' = repo /\ alone' = [alone EXCEPT ![r] = TRUE]
      /\ \A q \in Requests \ {r} : answer'[q] = answer[q]
  BY DEF Fail
<1>3. answer'[r].ok = FALSE
  BY <1>1 DEF Fail, NoAnswer
<1>4. PICK to \in {"clear", "done"} : pc' = [pc EXCEPT ![r] = to] /\ (to = "clear" => Asks(r, Opens))
  BY DEF Fail
<1>5. pc'[r] = to /\ job'[r] = job[r]
  BY <1>1, <1>2, <1>4
<1>6. Fits(r)'
  BY <1>1, <1>4, <1>5 DEF Fits, Asks
<1>7. Tells(r)'
  BY <1>3, <1>4, <1>5 DEF Tells
<1> QED BY <1>1, <1>2, <1>4, <1>6, <1>7, RequestTells

\* the requests at work when the worker stops have no answer
LEMMA RestartTells == TellInv /\ OpenInv' /\ Restart => TellInv'
<1> SUFFICES ASSUME TellInv, OpenInv', Restart PROVE TellInv'
  OBVIOUS
<1>1. UNCHANGED <<repo, alone, job>>
  BY DEF Restart, git
<1>2. ASSUME NEW r \in Requests PROVE Fits(r)' /\ Tells(r)'
  <2>1. Fits(r) /\ Tells(r)
    BY DEF TellInv
  <2>2. job'[r] = job[r] /\ pc'[r] = (IF pc[r] = "start" THEN "start" ELSE "done")
        /\ answer'[r] = (IF pc[r] = "done" THEN answer[r] ELSE NoAnswer)
    BY <1>1 DEF Restart
  <2>3. Fits(r)'
    BY <2>1, <2>2 DEF Fits
  <2>4. NoAnswer.ok = FALSE
    BY DEF NoAnswer
  <2>5. Tells(r)'
    BY <1>1, <2>1, <2>2, <2>4 DEF Tells, TellsBranch, TellsCommits, Wanted, Asks, Branch
  <2> QED BY <2>3, <2>5
<1>3. Listed'
  BY <1>1 DEF TellInv, Listed
<1> QED BY <1>2, <1>3 DEF TellInv

LEMMA TellSteps == TellInv /\ [Next]_vars => TellInv'
<1> SUFFICES ASSUME TellInv, [Next]_vars PROVE TellInv'
  OBVIOUS
<1>1. OpenInv'
  BY OpenSteps DEF TellInv
<1>2. ASSUME NEW r \in Requests, Step(r) PROVE TellInv'
  BY <1>1, <1>2, LooksTell, ChangesTell, HeadTells, NameTells, EndsTell, PushTells, FailTells DEF Step
<1>3. CASE UNCHANGED <<repo, alone, job, pc, answer>>
  <2>1. \A r \in Requests : Fits(r) = Fits(r)' /\ Tells(r) = Tells(r)'
    BY <1>3 DEF Fits, Tells, TellsBranch, TellsCommits, Wanted, Asks, Branch
  <2> QED BY <1>1, <1>3, <2>1 DEF TellInv, Listed
<1>4. ASSUME NEW b \in Moving, OriginMoves(b) PROVE TellInv'
  BY <1>3, <1>4 DEF OriginMoves
<1>5. CASE UNCHANGED vars
  BY <1>3, <1>5 DEF vars
<1> QED BY <1>1, <1>2, <1>4, <1>5, RestartTells DEF Next

\* at first nobody has been told anything
LEMMA TellStarts == Init => TellInv
<1> SUFFICES ASSUME Init PROVE TellInv
  OBVIOUS
<1>1. pc = [r \in Requests |-> "start"] /\ alone = [r \in Requests |-> TRUE] /\ job \in [Requests -> JobSpace]
  BY RepositoriesAssumption DEF Init
<1>2. \A r \in Requests : Fits(r) /\ Tells(r)
  BY <1>1 DEF Fits, Tells
<1>3. DOMAIN repo = Fields
  BY GroundedStarts DEF Grounded
<1> QED BY <1>1, <1>2, <1>3, OpenStarts DEF TellInv, Listed

(* Whatever else opens, checks out, commits, pushes, fails or restarts, a     *)
(* request that nobody disturbed answers with the branch it asked for and the *)
(* commits that branch has, for any requests, branches and commits.           *)
THEOREM AnswersAreTrue == Spec => []AnswersTell
<1>1. TellInv => AnswersTell
  <2> SUFFICES ASSUME TellInv, NEW r \in Requests,
                      pc[r] = "done", answer[r].ok, alone[r], ~Asks(r, {"open_plain"})
               PROVE  /\ answer[r].branch = IF Branch(r) = "current" THEN repo.head ELSE Branch(r)
                      /\ answer[r].commits = repo.local[answer[r].branch]
    BY DEF AnswersTell
  <2> QED BY DEF TellInv, Tells, TellsBranch, TellsCommits, Wanted
<1> QED BY <1>1, TellStarts, TellSteps, PTL DEF Spec
=============================================================================
