------------------------ MODULE ApplyChangeSet_proofs ------------------------
(***************************************************************************)
(* What an apply may do to the files of the user, proved for any change    *)
(* sets, paths, links, number of answers, edits and restarts: what an      *)
(* original file was is never lost, and a change touches its own file only.*)
(***************************************************************************)
EXTENDS ApplyChangeSet, FiniteSetTheorems, WellFoundedInduction, TLAPS

Places == {"idle", "validate", "apply", "write", "complete", "end"}

OneEach(cs) == \A c, e \in cs : c.path = e.path => c = e

Typed ==
    /\ DOMAIN disk = Paths /\ disk = [p \in Paths |-> disk[p]]
    /\ proposal \subseteq Changes /\ OneEach(proposal)
    /\ pc \in [Answers -> Places]
    /\ todo \in [Answers -> SUBSET proposal]

\* a copy of the file is in a backup directory, or the user has replaced it
Kept(k) == k \in Originals => k \in saved \cup replaced

\* whoever is about to write has a change left, and the file it works on is kept
\* by then, whoever put it there since
Copied(a) == pc[a] = "write" => todo[a] # {} /\ Kept(disk[Resolved[First(todo[a]).path]])

ApplyInv == Typed /\ \A a \in Answers : Copied(a)

----------------------------------------------------------------------------
\* the natural numbers have a least one of each set of them
LEMMA Least ==
    ASSUME NEW T \in SUBSET Nat, T # {}
    PROVE  \E x \in T : \A y \in T : x <= y
<1> DEFINE R == OpToRel(<, Nat)
<1>1. IsWellFoundedOn(R, Nat)
  BY NatLessThanWellFounded
<1>2. PICK x \in T : \A y \in T : <<y, x>> \notin R
  <2> HIDE DEF R
  <2> QED BY <1>1, WFMin
<1>3. \A y \in T : ~(y < x)
  <2> SUFFICES ASSUME NEW y \in T, y < x PROVE FALSE
    OBVIOUS
  <2>1. <<y, x>> \in Nat \X Nat /\ <<y, x>>[1] < <<y, x>>[2]
    OBVIOUS
  <2>2. <<y, x>> \in R
    BY <2>1 DEF OpToRel
  <2> QED BY <1>2, <2>2
<1> QED BY <1>3

\* a change comes first: renames, deletes, modifications, creations, by path
LEMMA FirstExists ==
    ASSUME NEW cs \in SUBSET Changes, OneEach(cs), cs # {}
    PROVE  First(cs) \in cs
<1> DEFINE ranks == {Rank[c.op] : c \in cs}
<1>1. \A c \in cs : Rank[c.op] \in Nat /\ c.path \in Nat
  <2>1. \A op \in Operations : Rank[op] \in Nat
    BY DEF Operations, Rank
  <2>2. \A c \in cs : c.op \in Operations /\ c.path \in Paths
    BY DEF Changes
  <2> QED BY <2>1, <2>2, PathAssumption
<1>2. PICK r \in ranks : \A q \in ranks : r <= q
  <2>1. ranks \in SUBSET Nat /\ ranks # {}
    BY <1>1
  <2> HIDE DEF ranks
  <2> QED BY <2>1, Least
<1> DEFINE low == {c \in cs : Rank[c.op] = r}
           paths == {c.path : c \in low}
<1>3. PICK p \in paths : \A q \in paths : p <= q
  <2>1. paths \in SUBSET Nat /\ paths # {}
    BY <1>1
  <2> HIDE DEF paths
  <2> QED BY <2>1, Least
<1>4. PICK c \in low : c.path = p
  OBVIOUS
<1>5. ASSUME NEW e \in cs \ {c} PROVE Before(c, e)
  <2>1. Rank[c.op] <= Rank[e.op]
    BY <1>2, <1>4
  <2>2. CASE Rank[c.op] = Rank[e.op]
    <3>1. e \in low
      BY <1>4, <2>2
    <3>2. c.path <= e.path
      BY <1>3, <1>4, <3>1
    <3>3. c.path # e.path
      BY <1>4, <1>5 DEF OneEach
    <3>4. c.path < e.path
      BY <1>1, <1>4, <3>2, <3>3
    <3> QED BY <2>2, <3>4 DEF Before
  <2>3. CASE Rank[c.op] # Rank[e.op]
    BY <1>1, <1>4, <2>1, <2>3 DEF Before
  <2> QED BY <2>2, <2>3
<1> QED BY <1>4, <1>5 DEF First

----------------------------------------------------------------------------
\* a grounded change is a change
LEMMA GroundIsChange ==
    ASSUME NEW c \in Changes, NEW d
    PROVE  Ground(c, d) \in Changes
<1> DEFINE found == Candidates(c.path, d)
<1>1. CASE c.op # "create" /\ ~Exists(d, c.path) /\ Cardinality(found) = 1
  <2>1. found # {}
    BY <1>1, FS_EmptySet
  <2>2. found \subseteq Paths
    BY DEF Candidates
  <2>3. (CHOOSE q \in found : TRUE) \in Paths
    BY <2>1, <2>2
  <2>4. Ground(c, d) = [c EXCEPT !.path = CHOOSE q \in found : TRUE]
    BY <1>1 DEF Ground
  <2> HIDE DEF found
  <2> QED BY <2>3, <2>4 DEF Changes
<1>2. CASE ~(c.op # "create" /\ ~Exists(d, c.path) /\ Cardinality(found) = 1)
  BY <1>2 DEF Ground
<1> QED BY <1>1, <1>2

\* a valid proposal changes each path once
LEMMA ValidIsOneEach ==
    ASSUME NEW cs, NEW d, ValidationStatus(cs, d) = "valid"
    PROVE  OneEach(cs)
<1>1. Errors(cs, d) = {}
  BY DEF ValidationStatus
<1>2. \A c \in cs : ChangeErrors(c, cs, d) = {}
  BY <1>1 DEF Errors
<1>3. ASSUME NEW c \in cs, NEW e \in cs, e.path = c.path, c # e PROVE FALSE
  <2>1. ChangeErrors(c, cs, d) = {}
    BY <1>2
  <2>2. Kind[c.path] # "unsafe"
    BY <2>1 DEF ChangeErrors, ErrorIf
  <2>3. ErrorIf(\E f \in cs \ {c} : f.path = c.path, "invalid") = {}
    BY <2>1, <2>2 DEF ChangeErrors
  <2> QED BY <1>3, <2>3 DEF ErrorIf
<1> QED BY <1>3 DEF OneEach

\* nothing is written yet, and the proposal has been validated
LEMMA ApplyStarts == Init => ApplyInv
<1> SUFFICES ASSUME Init PROVE ApplyInv
  OBVIOUS
<1>1. disk \in [Paths -> Originals \cup {Absent}]
  BY ApplyAssumption DEF Init
<1>2. PICK drawn \in Proposals : proposal = {Ground(c, disk) : c \in drawn}
  BY DEF Init
<1>3. proposal \subseteq Changes
  BY <1>2, GroundIsChange, ApplyAssumption
<1>4. OneEach(proposal)
  <2>1. ValidationStatus(proposal, disk) = "valid"
    BY DEF Init
  <2> QED BY <2>1, ValidIsOneEach
<1>5. pc = [a \in Answers |-> "idle"] /\ todo = [a \in Answers |-> {}]
  BY DEF Init
<1>6. Typed
  BY <1>1, <1>3, <1>4, <1>5 DEF Typed, Places
<1>7. \A a \in Answers : Copied(a)
  BY <1>5 DEF Copied
<1> QED BY <1>6, <1>7 DEF ApplyInv

----------------------------------------------------------------------------
\* what a write does: its own file, and a destination that was free
LEMMA WriteTouches ==
    ASSUME ApplyInv, NEW a \in Answers, Write(a)
    PROVE  LET c == First(todo[a]) IN
           /\ c \in todo[a]
           /\ DOMAIN disk' = Paths /\ disk' = [p \in Paths |-> disk'[p]]
           /\ \A p \in Paths : disk'[p] # disk[p] =>
                 /\ p = Resolved[c.path] \/ (c.op = "rename" /\ p = Resolved[c.to] /\ disk[p] = Absent)
                 /\ disk'[p] \in Originals => disk'[p] = disk[Resolved[c.path]]
<1> DEFINE c == First(todo[a])
<1>1. pc[a] = "write" /\ Writable(c) /\ disk' = After(c)
  BY DEF Write, Goto
<1>2. todo[a] # {} /\ todo[a] \subseteq proposal
  BY <1>1 DEF ApplyInv, Typed, Copied
<1>3. todo[a] \in SUBSET Changes /\ OneEach(todo[a])
  BY <1>2 DEF ApplyInv, Typed, OneEach
<1>4. c \in todo[a] /\ c \in Changes
  BY <1>2, <1>3, FirstExists
<1>5. DOMAIN disk = Paths /\ disk = [p \in Paths |-> disk[p]]
  BY DEF ApplyInv, Typed
<1>6. Resolved[c.path] \in Paths /\ Resolved[c.to] \in Paths /\ c.op \in Operations
  BY <1>4, PathAssumption DEF Changes
<1> HIDE DEF c
<1>7. CASE c.op \in {"modify", "create"}
  <2>1. disk' = [disk EXCEPT ![Resolved[c.path]] = <<"new", c.path>>]
    BY <1>1, <1>7 DEF After
  <2>2. <<"new", c.path>> \notin Originals
    BY DEF Originals
  <2> QED BY <1>4, <1>5, <1>6, <2>1, <2>2 DEF c
<1>8. CASE c.op = "delete"
  <2>1. disk' = [disk EXCEPT ![Resolved[c.path]] = Absent]
    BY <1>1, <1>8 DEF After
  <2>2. Absent \notin Originals
    BY DEF Originals, Absent
  <2> QED BY <1>4, <1>5, <1>6, <2>1, <2>2 DEF c
<1>9. CASE c.op = "rename"
  <2>1. disk' = [disk EXCEPT ![Resolved[c.to]] = disk[Resolved[c.path]], ![Resolved[c.path]] = Absent]
    BY <1>1, <1>9 DEF After
  <2>2. disk[Resolved[c.to]] = Absent
    BY <1>1, <1>9 DEF Writable, DestinationFree, Exists
  <2>3. Absent \notin Originals
    BY DEF Originals, Absent
  <2> QED BY <1>4, <1>5, <1>6, <1>9, <2>1, <2>2, <2>3 DEF c
<1> QED BY <1>6, <1>7, <1>8, <1>9 DEF Operations

\* the user writes what is no original, and what was one counts as replaced
LEMMA EditTouches ==
    ASSUME ApplyInv, NEW q \in Edited, UserEdit(q)
    PROVE  /\ DOMAIN disk' = Paths /\ disk' = [p \in Paths |-> disk'[p]]
           /\ \A p \in Paths : disk'[p] # disk[p] =>
                 /\ disk[p] \in Originals => disk[p] \in replaced'
                 /\ disk'[p] \notin Originals
<1>1. PICK k \in {Absent, <<"edit", q>>} : disk' = [disk EXCEPT ![q] = k]
  BY DEF UserEdit
<1>2. k \notin Originals
  BY DEF Absent, Originals
<1>3. replaced' = replaced \cup ({disk[q]} \cap Originals)
  BY DEF UserEdit
<1>4. DOMAIN disk = Paths /\ disk = [p \in Paths |-> disk[p]]
  BY DEF ApplyInv, Typed
<1> QED BY <1>1, <1>2, <1>3, <1>4

----------------------------------------------------------------------------
\* a step that writes nothing and moves no answer to the writing of a file
LEMMA QuietStep ==
    ASSUME ApplyInv, UNCHANGED <<disk, proposal, saved, replaced>>,
           pc' \in [Answers -> Places], todo' \in [Answers -> SUBSET proposal],
           \A a \in Answers : pc'[a] = "write" => pc[a] = "write" /\ todo'[a] = todo[a]
    PROVE  ApplyInv'
<1>1. Typed'
  BY DEF ApplyInv, Typed, OneEach
<1>2. ASSUME NEW a \in Answers PROVE Copied(a)'
  BY <1>2 DEF ApplyInv, Copied, Kept
<1> QED BY <1>1, <1>2 DEF ApplyInv

\* what was kept stays so
LEMMA BackupKeeps ==
    ASSUME ApplyInv, NEW a \in Answers, Backup(a)
    PROVE  ApplyInv'
<1> DEFINE c == First(todo[a])
<1>1. UNCHANGED <<disk, proposal, todo, replaced>> /\ pc' = [pc EXCEPT ![a] = "write"] /\ todo[a] # {} /\ Appliable(c)
  BY DEF Backup, Goto
<1>2. saved' = IF c.op = "create" THEN saved ELSE saved \cup {disk[Resolved[c.path]]}
  BY DEF Backup
<1>3. disk[Resolved[c.path]] \in Originals => disk[Resolved[c.path]] \in saved'
  <2>1. CASE c.op = "create"
    <3>1. disk[Resolved[c.path]] = Absent
      BY <1>1, <2>1 DEF Appliable, Exists
    <3>2. Absent \notin Originals
      BY DEF Absent, Originals
    <3> HIDE DEF c
    <3> QED BY <3>1, <3>2
  <2>2. CASE c.op # "create"
    <3> HIDE DEF c
    <3> QED BY <1>2, <2>2
  <2> QED BY <2>1, <2>2
<1>4. saved \subseteq saved'
  <2> HIDE DEF c
  <2> QED BY <1>2
<1>5. Typed'
  BY <1>1 DEF ApplyInv, Typed, Places, OneEach
<1>6. ASSUME NEW b \in Answers PROVE Copied(b)'
  <2>1. CASE b = a
    BY <1>1, <1>3, <2>1 DEF Copied, Kept
  <2>2. CASE b # a
    <3>1. pc'[b] = pc[b] /\ todo'[b] = todo[b]
      BY <1>1, <2>2 DEF ApplyInv, Typed
    <3> QED BY <1>1, <1>4, <3>1 DEF ApplyInv, Copied, Kept
  <2> QED BY <2>1, <2>2
<1> QED BY <1>5, <1>6 DEF ApplyInv

\* an original that a rename moves was copied before
LEMMA WriteKeeps ==
    ASSUME ApplyInv, NEW a \in Answers, Write(a)
    PROVE  ApplyInv'
<1> DEFINE c == First(todo[a])
<1>1. /\ pc[a] = "write" /\ pc' = [pc EXCEPT ![a] = "apply"]
      /\ todo' = [todo EXCEPT ![a] = @ \ {c}]
      /\ UNCHANGED <<proposal, saved, replaced>>
  BY DEF Write, Goto
<1>2. /\ DOMAIN disk' = Paths /\ disk' = [p \in Paths |-> disk'[p]]
      /\ \A p \in Paths : disk'[p] # disk[p] /\ disk'[p] \in Originals => disk'[p] = disk[Resolved[c.path]]
  BY WriteTouches
<1>3. Kept(disk[Resolved[c.path]])
  BY <1>1 DEF ApplyInv, Copied
<1> HIDE DEF c
<1>4. todo' \in [Answers -> SUBSET proposal']
  BY <1>1 DEF ApplyInv, Typed
<1>5. Typed'
  BY <1>1, <1>2, <1>4 DEF ApplyInv, Typed, Places, OneEach
<1>6. ASSUME NEW b \in Answers, pc'[b] = "write" PROVE Copied(b)'
  <2>1. b # a /\ pc[b] = "write" /\ todo'[b] = todo[b]
    BY <1>1, <1>6 DEF ApplyInv, Typed
  <2>2. todo[b] # {} /\ Kept(disk[Resolved[First(todo[b]).path]])
    BY <2>1 DEF ApplyInv, Copied
  <2>3. todo[b] \in SUBSET Changes /\ OneEach(todo[b])
    BY DEF ApplyInv, Typed, OneEach
  <2>4. First(todo[b]) \in Changes
    BY <2>2, <2>3, FirstExists
  <2>5. PICK p \in Paths : p = Resolved[First(todo[b]).path]
    BY <2>4, PathAssumption DEF Changes
  <2>6. disk'[p] \in Originals => disk'[p] \in saved' \cup replaced'
    <3>1. CASE disk'[p] = disk[p]
      BY <1>1, <2>2, <2>5, <3>1 DEF Kept
    <3>2. CASE disk'[p] # disk[p]
      BY <1>1, <1>2, <1>3, <2>5, <3>2 DEF Kept
    <3> QED BY <3>1, <3>2
  <2> QED BY <2>1, <2>2, <2>5, <2>6 DEF Copied, Kept
<1> QED BY <1>5, <1>6 DEF ApplyInv, Copied

LEMMA EditKeeps ==
    ASSUME ApplyInv, NEW q \in Edited, UserEdit(q)
    PROVE  ApplyInv'
<1>1. UNCHANGED <<proposal, pc, todo, saved>> /\ replaced \subseteq replaced'
  BY DEF UserEdit
<1>2. Typed'
  BY <1>1, EditTouches DEF ApplyInv, Typed, OneEach
<1>3. ASSUME NEW b \in Answers, pc'[b] = "write" PROVE Copied(b)'
  <2>1. pc[b] = "write" /\ todo'[b] = todo[b]
    BY <1>1, <1>3
  <2>2. todo[b] # {} /\ Kept(disk[Resolved[First(todo[b]).path]])
    BY <2>1 DEF ApplyInv, Copied
  <2>3. todo[b] \in SUBSET Changes /\ OneEach(todo[b])
    BY DEF ApplyInv, Typed, OneEach
  <2>4. First(todo[b]) \in Changes
    BY <2>2, <2>3, FirstExists
  <2>5. PICK p \in Paths : p = Resolved[First(todo[b]).path]
    BY <2>4, PathAssumption DEF Changes
  <2>6. disk'[p] \in Originals => disk'[p] \in saved' \cup replaced'
    <3>1. CASE disk'[p] = disk[p]
      BY <1>1, <2>2, <2>5, <3>1 DEF Kept
    <3>2. CASE disk'[p] # disk[p]
      BY EditTouches, <2>5, <3>2 DEF Kept
    <3> QED BY <3>1, <3>2
  <2> QED BY <2>1, <2>2, <2>5, <2>6 DEF Copied, Kept
<1> QED BY <1>2, <1>3 DEF ApplyInv, Copied

\* every step keeps the invariant
LEMMA ApplyContinues == ApplyInv /\ [Next]_vars => ApplyInv'
<1> SUFFICES ASSUME ApplyInv, [Next]_vars PROVE ApplyInv'
  OBVIOUS
<1> USE DEF Goto
<1>0. pc \in [Answers -> Places] /\ todo \in [Answers -> SUBSET proposal]
  BY DEF ApplyInv, Typed
<1>1. CASE CreateWorktree \/ CheckInSandbox \/ AskApproval
  BY <1>0, <1>1, QuietStep DEF CreateWorktree, CheckInSandbox, AskApproval, answers
<1>2. ASSUME NEW a \in Answers, Step(a) PROVE ApplyInv'
  <2>1. CASE Allow(a)
    BY <1>0, <2>1, QuietStep DEF Allow, Places
  <2>2. CASE Deny(a)
    BY <1>0, <2>2, QuietStep DEF Deny, Places
  <2>3. CASE Validate(a)
    BY <1>0, <2>3, QuietStep DEF Validate, Places
  <2>4. CASE Backup(a)
    BY <2>4, BackupKeeps
  <2>5. CASE Write(a)
    BY <2>5, WriteKeeps
  <2>6. CASE Raise(a)
    BY <1>0, <2>6, QuietStep DEF Raise, Places
  <2>7. CASE Applied(a)
    BY <1>0, <2>7, QuietStep DEF Applied, Places
  <2>8. CASE Complete(a)
    BY <1>0, <2>8, QuietStep DEF Complete, Places
  <2> QED BY <1>2, <2>1, <2>2, <2>3, <2>4, <2>5, <2>6, <2>7, <2>8 DEF Step
<1>3. ASSUME NEW q \in Edited, UserEdit(q) PROVE ApplyInv'
  BY <1>3, EditKeeps
<1>4. CASE Restart
  BY <1>0, <1>4, QuietStep DEF Restart, Places
<1>5. CASE UNCHANGED vars
  BY <1>0, <1>5, QuietStep DEF vars, answers
<1> QED BY <1>1, <1>2, <1>3, <1>4, <1>5 DEF Next

\* The invariant of the answers that apply a proposal: nobody is about to write a
\* file whose original is not in a backup directory, or replaced by the user.
THEOREM ApplyInvHolds == Spec => []ApplyInv
BY ApplyStarts, ApplyContinues, PTL DEF Spec

----------------------------------------------------------------------------
\* a step that writes is a write or an edit
LEMMA OnlyThese ==
    ASSUME ApplyInv, [Next]_vars, disk' # disk
    PROVE  (\E a \in Answers : Write(a)) \/ (\E q \in Edited : UserEdit(q))
BY DEF Next, vars, answers, CreateWorktree, CheckInSandbox, AskApproval, Step, Allow, Deny,
       Validate, Backup, Raise, Applied, Complete, Restart

\* An original file disappears from the repository only if the user replaced it
\* or a copy of it is in a backup directory: OriginalsAreKept, for any proposal,
\* any answers, crashes and edits.
THEOREM NothingIsLost == Spec => OriginalsAreKept
<1>1. ASSUME ApplyInv, [Next]_vars, NEW k \in Originals, OnDisk(k, disk), ~OnDisk(k, disk')
      PROVE  k \in saved \cup replaced'
  <2>1. PICK p \in Paths : disk[p] = k /\ disk'[p] # k
    BY <1>1 DEF OnDisk
  <2>2. (\E a \in Answers : Write(a)) \/ (\E q \in Edited : UserEdit(q))
    BY <1>1, <2>1, OnlyThese
  <2>3. ASSUME NEW a \in Answers, Write(a) PROVE k \in saved \cup replaced'
    <3> DEFINE c == First(todo[a])
    <3>1. \A r \in Paths : disk'[r] # disk[r] =>
             r = Resolved[c.path] \/ (c.op = "rename" /\ r = Resolved[c.to] /\ disk[r] = Absent)
      BY <1>1, <2>3, WriteTouches
    <3>2. Kept(disk[Resolved[c.path]]) /\ replaced' = replaced
      BY <1>1, <2>3 DEF ApplyInv, Copied, Write, Goto
    <3>3. Absent \notin Originals
      BY DEF Absent, Originals
    <3> HIDE DEF c
    <3> QED BY <1>1, <2>1, <3>1, <3>2, <3>3 DEF Kept
  <2>4. ASSUME NEW q \in Edited, UserEdit(q) PROVE k \in saved \cup replaced'
    BY <1>1, <2>1, <2>4, EditTouches
  <2> QED BY <2>2, <2>3, <2>4
<1>2. ApplyInv /\ [Next]_vars =>
        [\A k \in Originals : OnDisk(k, disk) /\ ~OnDisk(k, disk') => k \in saved \cup replaced']_vars
  BY <1>1
<1> QED BY <1>2, ApplyInvHolds, PTL DEF Spec, OriginalsAreKept

\* A change writes its own file and, when it is a rename, a destination that did
\* not exist: Untouched, for any links between paths and incompatible changes.
THEOREM ChangesTouchTheirOwn == Spec => Untouched
<1>1. ASSUME ApplyInv, [Next]_vars, NEW a \in Answers, NEW p \in Paths,
             pc[a] = "write", pc'[a] = "apply", disk[p] # disk'[p]
      PROVE  \E c \in todo[a] : \/ p = Resolved[c.path]
                                \/ c.op = "rename" /\ p = Resolved[c.to] /\ disk[p] = Absent
  <2>1. (\E b \in Answers : Write(b)) \/ (\E q \in Edited : UserEdit(q))
    BY <1>1, OnlyThese
  <2>2. ASSUME NEW q \in Edited, UserEdit(q) PROVE FALSE
    BY <1>1, <2>2 DEF UserEdit
  <2>3. PICK b \in Answers : Write(b)
    BY <2>1, <2>2
  <2>4. pc' = [pc EXCEPT ![b] = "apply"]
    BY <2>3 DEF Write, Goto
  <2>5. b = a
    BY <1>1, <2>4 DEF ApplyInv, Typed
  <2> QED BY <1>1, <2>3, <2>5, WriteTouches
<1>2. ApplyInv /\ [Next]_vars =>
        [\A a \in Answers, p \in Paths :
          pc[a] = "write" /\ pc'[a] = "apply" /\ disk[p] # disk'[p]
            => \E c \in todo[a] : \/ p = Resolved[c.path]
                                  \/ c.op = "rename" /\ p = Resolved[c.to] /\ disk[p] = Absent]_vars
  BY <1>1
<1> QED BY <1>2, ApplyInvHolds, PTL DEF Spec, Untouched
----------------------------------------------------------------------------
\* renames go where none of the changes finds a file, as validation sees to
Apart(cs) ==
    \A c, e \in cs : c.op = "rename" /\ e.op # "create" => Resolved[c.to] # Resolved[e.path]

\* an answer that has not ended has reported nothing, and what is reported as
\* applied leaves no change to do
Reported(a) ==
    /\ pc[a] \in {"idle", "validate", "apply", "write"} => verdict[a] = "none"
    /\ verdict[a] = "applied" => todo[a] = {}

\* while nobody else writes the changes that are done can be seen
Showing(a) ==
    alone[a] # "no" /\ Compatible(proposal) => \A c \in proposal \ todo[a] : Shows(c)

\* a change as it can be seen on a disk
Seen(c, d) ==
    /\ c.op \in {"modify", "create"} => d[Resolved[c.path]] = <<"new", c.path>>
    /\ c.op \in {"delete", "rename"} => d[Resolved[c.path]] = Absent
    /\ c.op = "rename" => d[Resolved[c.to]] # Absent

ShownInv ==
    /\ Apart(proposal)
    /\ DOMAIN verdict = Answers /\ DOMAIN alone = Answers
    /\ \A a \in Answers : Reported(a) /\ Showing(a)

\* a valid proposal finds the files it changes, and no file where it renames to
LEMMA ValidIsApart ==
    ASSUME NEW cs \in SUBSET Changes, NEW d, ValidationStatus(cs, d) = "valid"
    PROVE  Apart(cs)
<1>1. Errors(cs, d) = {}
  BY DEF ValidationStatus
<1>2. ASSUME NEW c \in cs PROVE OperationErrors(c, d) = {}
  <2>1. ChangeErrors(c, cs, d) = {}
    BY <1>1 DEF Errors
  <2>2. Kind[c.path] \notin {"unsafe", "binary"}
    BY <2>1 DEF ChangeErrors, ErrorIf
  <2> QED BY <2>1, <2>2 DEF ChangeErrors
<1>3. ASSUME NEW c \in cs, c.op = "rename" PROVE Exists(d, c.path) /\ ~Exists(d, c.to)
  <2>1. OperationErrors(c, d) =
           ErrorIf(\/ ~Exists(d, c.path) \/ Exists(d, c.to)
                   \/ Kind[c.to] \in {"unsafe", "binary"}
                   \/ c.text = "stale_reference", "invalid")
    BY <1>3 DEF OperationErrors
  <2> QED BY <1>2, <2>1 DEF ErrorIf
<1>4. ASSUME NEW c \in cs, c.op = "delete" PROVE Exists(d, c.path)
  <2>1. ErrorIf(~Exists(d, c.path) \/ ~c.justified, "invalid") = {}
    BY <1>2, <1>4 DEF OperationErrors
  <2> QED BY <2>1 DEF ErrorIf
<1>5. ASSUME NEW c \in cs, c.op = "modify" PROVE Exists(d, c.path)
  BY <1>2, <1>5 DEF OperationErrors
<1>6. \A c \in cs : c.op # "create" => Exists(d, c.path)
  BY <1>3, <1>4, <1>5 DEF Changes, Operations
<1> QED BY <1>3, <1>6 DEF Apart, Exists

LEMMA ShownStarts == Init => ShownInv
<1> SUFFICES ASSUME Init PROVE ShownInv
  OBVIOUS
<1>1. proposal \in SUBSET Changes /\ ValidationStatus(proposal, disk) = "valid"
  BY ApplyStarts DEF Init, ApplyInv, Typed
<1>2. Apart(proposal)
  BY <1>1, ValidIsApart
<1>3. /\ verdict = [a \in Answers |-> "none"] /\ alone = [a \in Answers |-> "no"]
      /\ todo = [a \in Answers |-> {}]
  BY DEF Init
<1> QED BY <1>2, <1>3 DEF ShownInv, Reported, Showing

LEMMA ShowsIsSeen == \A c \in proposal : proposal \subseteq Changes => (Shows(c) <=> Seen(c, disk))
<1> SUFFICES ASSUME NEW c \in proposal, proposal \subseteq Changes PROVE Shows(c) <=> Seen(c, disk)
  OBVIOUS
<1>1. CASE c.op \in {"modify", "create"}
  BY <1>1 DEF Shows, Seen
<1>2. CASE c.op = "delete"
  BY <1>2 DEF Shows, Seen, Exists
<1>3. CASE c.op = "rename"
  BY <1>3 DEF Shows, Seen, Exists
<1> QED BY <1>1, <1>2, <1>3 DEF Changes, Operations

\* a write shows its change, and hides none that is done
LEMMA WriteShows ==
    ASSUME ApplyInv, ShownInv, NEW a \in Answers, Write(a), alone[a] # "no", Compatible(proposal)
    PROVE  \A e \in proposal \ todo'[a] : Seen(e, disk')
<1> DEFINE c == First(todo[a])
<1>1. Writable(c) /\ disk' = After(c) /\ todo' = [todo EXCEPT ![a] = @ \ {c}]
  BY DEF Write, Goto
<1>2. c \in todo[a] /\ c \in proposal
  BY WriteTouches DEF ApplyInv, Typed
<1>3. DOMAIN disk = Paths /\ disk = [p \in Paths |-> disk[p]]
  BY DEF ApplyInv, Typed
<1>4. \A e \in proposal : Resolved[e.path] \in Paths /\ Resolved[e.to] \in Paths /\ e.op \in Operations
  BY PathAssumption DEF ApplyInv, Typed, Changes
<1>5. Apart(proposal)
  BY DEF ShownInv
<1>6. \A e \in proposal \ todo[a] : Seen(e, disk)
  BY ShowsIsSeen DEF ShownInv, Showing, ApplyInv, Typed
<1>7. \A e \in proposal \ todo'[a] : e = c \/ e \in proposal \ todo[a]
  BY <1>1 DEF ApplyInv, Typed
<1> HIDE DEF c
<1>8. \A e \in proposal : e # c =>
         /\ Resolved[e.path] # Resolved[c.path]
         /\ c.op = "rename" => Resolved[e.path] # Resolved[c.to]
         /\ e.op = "rename" => Resolved[e.to] # Resolved[c.path]
         /\ e.op = "rename" /\ c.op = "rename" => Resolved[e.to] # Resolved[c.to]
  <2> SUFFICES ASSUME NEW e \in proposal, e # c
               PROVE  /\ Resolved[e.path] # Resolved[c.path]
                      /\ c.op = "rename" => Resolved[e.path] # Resolved[c.to]
                      /\ e.op = "rename" => Resolved[e.to] # Resolved[c.path]
                      /\ e.op = "rename" /\ c.op = "rename" => Resolved[e.to] # Resolved[c.to]
    OBVIOUS
  <2>1. Resolved[e.path] # Resolved[c.path]
    BY <1>2 DEF Compatible
  <2>2. ASSUME NEW f \in proposal, NEW g \in proposal, f # g, f.op = "rename"
        PROVE  Resolved[g.path] # Resolved[f.to]
    <3>1. CASE g.op = "create"
      BY <2>2, <3>1 DEF Compatible, Makes, Destination
    <3>2. CASE g.op # "create"
      BY <1>5, <2>2, <3>2 DEF Apart
    <3> QED BY <3>1, <3>2
  <2>3. e.op = "rename" /\ c.op = "rename" => Resolved[e.to] # Resolved[c.to]
    BY <1>2 DEF Compatible, Makes, Destination
  <2> QED BY <1>2, <2>1, <2>2, <2>3
<1>9. Seen(c, disk')
  <2>1. CASE c.op \in {"modify", "create"}
    <3>1. disk' = [disk EXCEPT ![Resolved[c.path]] = <<"new", c.path>>]
      BY <1>1, <2>1 DEF After
    <3>2. disk'[Resolved[c.path]] = <<"new", c.path>>
      BY <1>2, <1>3, <1>4, <3>1
    <3> QED BY <2>1, <3>2 DEF Seen
  <2>2. CASE c.op = "delete"
    <3>1. disk' = [disk EXCEPT ![Resolved[c.path]] = Absent]
      BY <1>1, <2>2 DEF After
    <3>2. disk'[Resolved[c.path]] = Absent
      BY <1>2, <1>3, <1>4, <3>1
    <3> QED BY <2>2, <3>2 DEF Seen
  <2>3. CASE c.op = "rename"
    <3>1. disk' = [disk EXCEPT ![Resolved[c.to]] = disk[Resolved[c.path]], ![Resolved[c.path]] = Absent]
      BY <1>1, <2>3 DEF After
    <3>2. Resolved[c.to] # Resolved[c.path] /\ disk[Resolved[c.path]] # Absent
      BY <1>1, <1>2, <1>5, <2>3 DEF Apart, Writable, Exists
    <3>3. disk'[Resolved[c.path]] = Absent /\ disk'[Resolved[c.to]] = disk[Resolved[c.path]]
      BY <1>2, <1>3, <1>4, <3>1, <3>2
    <3> QED BY <2>3, <3>2, <3>3 DEF Seen
  <2> QED BY <1>2, <1>4, <2>1, <2>2, <2>3 DEF Operations
<1>10. ASSUME NEW e \in proposal \ todo[a], e # c PROVE Seen(e, disk')
  <2>1. \A p \in Paths : disk'[p] # disk[p] => p = Resolved[c.path] \/ (c.op = "rename" /\ p = Resolved[c.to])
    BY WriteTouches DEF c
  <2>0. e \in proposal /\ e # c
    BY <1>10
  <2>4. Resolved[e.path] \in Paths /\ Resolved[e.to] \in Paths
    BY <1>4, <2>0
  <2>5. /\ Resolved[e.path] # Resolved[c.path]
        /\ c.op = "rename" => Resolved[e.path] # Resolved[c.to]
        /\ e.op = "rename" => Resolved[e.to] # Resolved[c.path]
        /\ e.op = "rename" /\ c.op = "rename" => Resolved[e.to] # Resolved[c.to]
    BY <1>8, <2>0
  <2>2. disk'[Resolved[e.path]] = disk[Resolved[e.path]]
    BY <2>1, <2>4, <2>5
  <2>3. e.op = "rename" => disk'[Resolved[e.to]] = disk[Resolved[e.to]]
    BY <2>1, <2>4, <2>5
  <2>6. Seen(e, disk)
    BY <1>6, <1>10
  <2> QED BY <2>2, <2>3, <2>6 DEF Seen
<1> QED BY <1>7, <1>9, <1>10

\* a step that neither writes nor starts an apply
LEMMA QuietShown ==
    ASSUME ApplyInv, ShownInv, UNCHANGED <<disk, proposal, todo, alone>>,
           DOMAIN verdict' = Answers, \A a \in Answers : Reported(a)'
    PROVE  ShownInv'
<1>1. Apart(proposal)' /\ DOMAIN alone' = Answers
  BY DEF ShownInv, Apart
<1>2. ASSUME NEW a \in Answers PROVE Showing(a)'
  BY <1>2 DEF ShownInv, Showing, Compatible, Shows, Exists
<1> QED BY <1>1, <1>2 DEF ShownInv

\* while nobody else writes, what an answer reports can be seen
LEMMA ShownContinues == ApplyInv /\ ShownInv /\ [Next]_vars => ShownInv'
<1> SUFFICES ASSUME ApplyInv, ShownInv, [Next]_vars PROVE ShownInv'
  OBVIOUS
<1> USE DEF Goto
<1>0. /\ pc \in [Answers -> Places] /\ todo \in [Answers -> SUBSET proposal]
      /\ DOMAIN verdict = Answers /\ DOMAIN alone = Answers
      /\ \A a \in Answers : Reported(a)
  BY DEF ApplyInv, Typed, ShownInv
<1>1. CASE CreateWorktree \/ CheckInSandbox \/ AskApproval \/ UNCHANGED vars
  BY <1>0, <1>1, QuietShown DEF CreateWorktree, CheckInSandbox, AskApproval, answers, vars, Reported
<1>2. ASSUME NEW a \in Answers, Step(a) PROVE ShownInv'
  <2>1. CASE Allow(a)
    BY <1>0, <2>1, QuietShown DEF Allow, Reported
  <2>2. CASE Deny(a)
    BY <1>0, <2>2, QuietShown DEF Deny, Report, Reported
  <2>3. CASE Validate(a)
    <3>1. CASE UNCHANGED <<todo, alone>>
      BY <1>0, <2>3, <3>1, QuietShown DEF Validate, Report, Reported
    <3>2. CASE /\ pc' = [pc EXCEPT ![a] = "apply"] /\ todo' = [todo EXCEPT ![a] = proposal] /\ verdict' = verdict
               /\ DOMAIN alone' = Answers /\ \A b \in Answers \ {a} : alone'[b] = alone[b]
      <4>1. UNCHANGED <<disk, proposal>> /\ pc[a] = "validate"
        BY <2>3 DEF Validate
      <4>2. Apart(proposal)'
        BY <4>1 DEF ShownInv, Apart
      <4>3. ASSUME NEW b \in Answers PROVE Reported(b)'
        BY <1>0, <3>2, <4>1, <4>3 DEF Reported
      <4>4. ASSUME NEW b \in Answers PROVE Showing(b)'
        BY <1>0, <3>2, <4>1, <4>4 DEF ShownInv, Showing, Compatible, Shows, Exists
      <4> QED BY <1>0, <3>2, <4>2, <4>3, <4>4 DEF ShownInv
    <3> QED BY <1>0, <2>3, <3>1, <3>2 DEF Validate
  <2>4. CASE Backup(a)
    BY <1>0, <2>4, QuietShown DEF Backup, Reported
  <2>5. CASE Write(a)
    <3>1. /\ pc[a] = "write" /\ pc' = [pc EXCEPT ![a] = "apply"] /\ UNCHANGED <<proposal, verdict>>
          /\ todo' = [todo EXCEPT ![a] = @ \ {First(todo[a])}]
          /\ alone' = [b \in Answers |-> IF b = a THEN alone[b] ELSE "no"]
      BY <2>5 DEF Write
    <3>2. Apart(proposal)'
      BY <3>1 DEF ShownInv, Apart
    <3>3. ASSUME NEW b \in Answers PROVE Reported(b)'
      BY <1>0, <3>1, <3>3 DEF Reported
    <3>4. proposal' \subseteq Changes /\ (Compatible(proposal)' => Compatible(proposal))
      BY <3>1 DEF ApplyInv, Typed, Compatible
    <3>5. ASSUME NEW b \in Answers, alone'[b] # "no", Compatible(proposal)', NEW c \in (proposal \ todo[b])' PROVE Shows(c)'
      <4>1. b = a /\ alone[a] # "no" /\ Compatible(proposal)
        BY <3>1, <3>4, <3>5
      <4>2. Seen(c, disk')
        BY <2>5, <3>1, <3>5, <4>1, WriteShows
      <4>3. c.op \in Operations
        BY <3>4, <3>5 DEF Changes
      <4>4. CASE c.op \in {"modify", "create"}
        BY <4>2, <4>4 DEF Shows, Seen
      <4>5. CASE c.op = "delete"
        BY <4>2, <4>5 DEF Shows, Seen, Exists
      <4>6. CASE c.op = "rename"
        BY <4>2, <4>6 DEF Shows, Seen, Exists
      <4> QED BY <4>3, <4>4, <4>5, <4>6 DEF Operations
    <3> QED BY <3>1, <3>2, <3>3, <3>5 DEF ShownInv, Showing
  <2>6. CASE Raise(a)
    BY <1>0, <2>6, QuietShown DEF Raise, Report, Reported
  <2>7. CASE Applied(a)
    BY <1>0, <2>7, QuietShown DEF Applied, Report, Reported
  <2>8. CASE Complete(a)
    BY <1>0, <2>8, QuietShown DEF Complete, Reported
  <2> QED BY <1>2, <2>1, <2>2, <2>3, <2>4, <2>5, <2>6, <2>7, <2>8 DEF Step
<1>3. ASSUME NEW q \in Edited, UserEdit(q) PROVE ShownInv'
  <2>1. UNCHANGED <<proposal, pc, todo, verdict>> /\ alone' = [a \in Answers |-> "no"]
    BY <1>3 DEF UserEdit
  <2> QED BY <1>0, <2>1 DEF ShownInv, Apart, Reported, Showing
<1>4. CASE Restart
  <2>1. /\ proposal' = proposal /\ alone' = [a \in Answers |-> "no"] /\ todo' = [a \in Answers |-> {}]
        /\ verdict' = [a \in Answers |-> IF pc[a] = "end" THEN verdict[a] ELSE "none"]
        /\ pc' = [a \in Answers |-> IF pc[a] = "end" THEN "end" ELSE "idle"]
    BY <1>4 DEF Restart
  <2> QED BY <1>0, <2>1 DEF ShownInv, Apart, Reported, Showing
<1> QED BY <1>1, <1>2, <1>3, <1>4 DEF Next

\* "applied" means that the repository shows every change of the proposal, unless
\* somebody else wrote since: AppliedShows, for any proposal whose changes are
\* compatible.
THEOREM AppliedIsSeen == Spec => []AppliedShows
<1>1. ShownInv => AppliedShows
  BY DEF ShownInv, Reported, Showing, AppliedShows
<1> QED BY <1>1, ApplyStarts, ApplyContinues, ShownStarts, ShownContinues, PTL DEF Spec
----------------------------------------------------------------------------
\* induction over the natural numbers, for a set of them
LEMMA NatIsReached ==
    ASSUME NEW T \in SUBSET Nat, 0 \in T, \A n \in T : n + 1 \in T
    PROVE  \A n \in Nat : n \in T
<1> SUFFICES ASSUME Nat \ T # {} PROVE FALSE
  OBVIOUS
<1>1. PICK x \in Nat \ T : \A y \in Nat \ T : x <= y
  <2>1. Nat \ T \in SUBSET Nat
    OBVIOUS
  <2> QED BY <2>1, Least
<1>2. x - 1 \in Nat /\ ~(x <= x - 1)
  BY <1>1
<1>3. x - 1 \in T
  BY <1>1, <1>2
<1> QED BY <1>1, <1>2, <1>3

\* change sets whose changes have an order
ChangeSets == {cs \in SUBSET Changes : IsFiniteSet(cs) /\ OneEach(cs)}

LEMMA RestIsSmaller ==
    ASSUME NEW cs \in ChangeSets, cs # {}
    PROVE  /\ First(cs) \in cs /\ cs \ {First(cs)} \in ChangeSets
           /\ Cardinality(cs) \in Nat /\ Cardinality(cs \ {First(cs)}) = Cardinality(cs) - 1
           /\ Cardinality(cs) - 1 \in Nat
<1>1. First(cs) \in cs
  BY FirstExists DEF ChangeSets
<1>2. Cardinality(cs) \in Nat /\ Cardinality(cs \ {First(cs)}) = Cardinality(cs) - 1 /\ IsFiniteSet(cs \ {First(cs)})
  BY <1>1, FS_CardinalityType, FS_RemoveElement DEF ChangeSets
<1>3. Cardinality(cs \ {First(cs)}) \in Nat
  BY <1>2, FS_CardinalityType
<1> QED BY <1>1, <1>2, <1>3 DEF ChangeSets, OneEach

LEMMA SomeAreChangeSet ==
    ASSUME NEW cs \in ChangeSets, NEW left \in SUBSET cs
    PROVE  left \in ChangeSets /\ Cardinality(left) \in Nat /\ Cardinality(left) <= Cardinality(cs)
BY FS_Subset, FS_CardinalityType DEF ChangeSets, OneEach

----------------------------------------------------------------------------
\* what the loop of the sandbox makes of the changes left, when rest says what
\* it makes of fewer
Loop(left, rest) ==
    [tree \in Trees |-> left = {} \/ (/\ SandboxTakes(First(left), tree)
                                      /\ rest[left \ {First(left)}][SandboxAfter(First(left), tree)])]

LEMMA LoopLooksAhead ==
    ASSUME NEW left, NEW f, NEW g, left # {} => f[left \ {First(left)}] = g[left \ {First(left)}]
    PROVE  Loop(left, f) = Loop(left, g)
<1>1. CASE left = {}
  BY <1>1 DEF Loop
<1>2. CASE left # {}
  BY <1>2 DEF Loop
<1> QED BY <1>1, <1>2

LEMMA LoopExists ==
    ASSUME NEW cs \in ChangeSets
    PROVE  \E f : f = [left \in SUBSET cs |-> Loop(left, f)]
<1> DEFINE Works(f, n) == /\ f = [left \in SUBSET cs |-> f[left]]
                          /\ \A left \in SUBSET cs : Cardinality(left) <= n => f[left] = Loop(left, f)
           T == {n \in Nat : \E f : Works(f, n)}
<1>1. 0 \in T
  <2> DEFINE f == [left \in SUBSET cs |-> Loop(left, <<>>)]
  <2>1. ASSUME NEW left \in SUBSET cs, Cardinality(left) <= 0 PROVE f[left] = Loop(left, f)
    <3>1. left = {}
      BY <2>1, SomeAreChangeSet, FS_EmptySet DEF ChangeSets
    <3>2. Loop(left, <<>>) = Loop(left, f)
      BY <3>1, LoopLooksAhead
    <3> QED BY <3>2
  <2>2. f = [left \in SUBSET cs |-> f[left]]
    OBVIOUS
  <2> HIDE DEF f
  <2>3. Works(f, 0)
    BY <2>1, <2>2
  <2> HIDE DEF Works
  <2> QED BY <2>3
<1>2. ASSUME NEW n \in T PROVE n + 1 \in T
  <2> HIDE DEF Works
  <2>1. n \in Nat /\ n + 1 \in Nat
    OBVIOUS
  <2>2. PICK f : Works(f, n)
    OBVIOUS
  <2> DEFINE g == [left \in SUBSET cs |-> Loop(left, f)]
  <2>3. ASSUME NEW left \in SUBSET cs, Cardinality(left) <= n + 1 PROVE g[left] = Loop(left, g)
    <3>1. ASSUME left # {} PROVE f[left \ {First(left)}] = g[left \ {First(left)}]
      <4>1. left \in ChangeSets
        BY SomeAreChangeSet
      <4>2. Cardinality(left) \in Nat /\ Cardinality(left \ {First(left)}) = Cardinality(left) - 1
        BY <3>1, <4>1, RestIsSmaller
      <4>3. Cardinality(left \ {First(left)}) <= n
        BY <2>1, <2>3, <4>2
      <4>4. left \ {First(left)} \in SUBSET cs
        OBVIOUS
      <4>5. f[left \ {First(left)}] = Loop(left \ {First(left)}, f)
        BY <2>2, <4>3, <4>4 DEF Works
      <4> QED BY <4>4, <4>5
    <3>2. Loop(left, f) = Loop(left, g)
      <4> HIDE DEF g
      <4> QED BY <3>1, LoopLooksAhead
    <3>3. g[left] = Loop(left, f)
      OBVIOUS
    <3> QED BY <3>2, <3>3
  <2>4. g = [left \in SUBSET cs |-> g[left]]
    OBVIOUS
  <2> HIDE DEF g
  <2>5. Works(g, n + 1)
    BY <2>3, <2>4 DEF Works
  <2> QED BY <2>1, <2>5
<1>3. Cardinality(cs) \in T
  <2> HIDE DEF T
  <2>1. T \in SUBSET Nat
    BY DEF T
  <2>2. Cardinality(cs) \in Nat
    BY SomeAreChangeSet
  <2> QED BY <1>1, <1>2, <2>1, <2>2, NatIsReached
<1>4. PICK f : Works(f, Cardinality(cs))
  <2> HIDE DEF Works
  <2> QED BY <1>3
<1>5. \A left \in SUBSET cs : f[left] = Loop(left, f)
  BY <1>4, SomeAreChangeSet
<1>6. f = [left \in SUBSET cs |-> Loop(left, f)]
  BY <1>4, <1>5
<1> QED BY <1>6

LEMMA LoopIsOne ==
    ASSUME NEW cs \in ChangeSets, NEW f, NEW g,
           \A left \in SUBSET cs : f[left] = Loop(left, f) /\ g[left] = Loop(left, g)
    PROVE  f[cs] = g[cs]
<1> DEFINE Same(n) == \A left \in SUBSET cs : Cardinality(left) = n => f[left] = g[left]
           T == {n \in Nat : Same(n)}
<1>1. 0 \in T
  <2>1. ASSUME NEW left \in SUBSET cs, Cardinality(left) = 0 PROVE f[left] = g[left]
    <3>1. left = {}
      BY <2>1, SomeAreChangeSet, FS_EmptySet DEF ChangeSets
    <3>2. Loop(left, f) = Loop(left, g)
      BY <3>1, LoopLooksAhead
    <3> QED BY <3>2
  <2> QED BY <2>1
<1>2. ASSUME NEW n \in T PROVE n + 1 \in T
  <2>1. n \in Nat /\ Same(n)
    <3> HIDE DEF Same
    <3> QED OBVIOUS
  <2>2. ASSUME NEW left \in SUBSET cs, Cardinality(left) = n + 1 PROVE f[left] = g[left]
    <3>1. left # {}
      <4>1. n + 1 # 0 /\ Cardinality({}) = 0
        BY FS_EmptySet
      <4> QED BY <2>2, <4>1
    <3>2. left \in ChangeSets
      BY SomeAreChangeSet
    <3>3. Cardinality(left \ {First(left)}) = n
      BY <2>1, <2>2, <3>1, <3>2, RestIsSmaller
    <3>4. f[left \ {First(left)}] = g[left \ {First(left)}]
      BY <2>1, <3>3
    <3>5. Loop(left, f) = Loop(left, g)
      BY <3>4, LoopLooksAhead
    <3> QED BY <3>5
  <2>3. Same(n + 1)
    BY <2>2
  <2> HIDE DEF Same
  <2> QED BY <2>1, <2>3
<1>3. Cardinality(cs) \in T
  <2> HIDE DEF T
  <2>1. T \in SUBSET Nat
    BY DEF T
  <2>2. Cardinality(cs) \in Nat
    BY SomeAreChangeSet
  <2> QED BY <1>1, <1>2, <2>1, <2>2, NatIsReached
<1> QED BY <1>3

\* what a change leaves is a tree
LEMMA AfterIsTree ==
    ASSUME NEW c \in Changes, NEW tree \in Trees
    PROVE  SandboxAfter(c, tree) \in Trees
<1>1. Resolved[c.path] \in Paths /\ Resolved[c.to] \in Paths /\ c.path \in Paths /\ c.op \in Operations
  BY PathAssumption DEF Changes
<1>2. <<"new", c.path>> \in Contents /\ Absent \in Contents
  BY <1>1 DEF Contents
<1>3. tree[Resolved[c.path]] \in Contents
  BY <1>1 DEF Trees
<1>4. CASE c.op \in {"modify", "create"}
  <2>1. SandboxAfter(c, tree) = [tree EXCEPT ![Resolved[c.path]] = <<"new", c.path>>]
    BY <1>4 DEF SandboxAfter
  <2> QED BY <1>1, <1>2, <2>1 DEF Trees
<1>5. CASE c.op = "delete"
  <2>1. SandboxAfter(c, tree) = [tree EXCEPT ![Resolved[c.path]] = Absent]
    BY <1>5 DEF SandboxAfter
  <2> QED BY <1>1, <1>2, <2>1 DEF Trees
<1>6. CASE c.op = "rename"
  <2>1. SandboxAfter(c, tree) = [tree EXCEPT ![Resolved[c.to]] = tree[Resolved[c.path]], ![Resolved[c.path]] = Absent]
    BY <1>6 DEF SandboxAfter
  <2> QED BY <1>1, <1>2, <1>3, <2>1 DEF Trees
<1> QED BY <1>1, <1>4, <1>5, <1>6 DEF Operations

\* the sandbox makes one change after another, the first first
LEMMA SandboxLoops ==
    ASSUME NEW cs \in ChangeSets, NEW tree \in Trees
    PROVE  /\ cs = {} => InSandbox(cs, tree)
           /\ cs # {} => (InSandbox(cs, tree) <=>
                /\ SandboxTakes(First(cs), tree)
                /\ InSandbox(cs \ {First(cs)}, SandboxAfter(First(cs), tree)))
<1> DEFINE LoopOf(s) == CHOOSE f : f = [left \in SUBSET s |-> Loop(left, f)]
<1>1. \A s, t : InSandbox(s, t) = LoopOf(s)[s][t]
  BY DEF InSandbox, Loop
<1>2. ASSUME NEW s \in ChangeSets PROVE \A left \in SUBSET s : LoopOf(s)[left] = Loop(left, LoopOf(s))
  <2>1. LoopOf(s) = [left \in SUBSET s |-> Loop(left, LoopOf(s))]
    BY LoopExists
  <2> HIDE DEF LoopOf
  <2> QED BY <2>1
<1> HIDE DEF LoopOf
<1>3. InSandbox(cs, tree) = Loop(cs, LoopOf(cs))[tree]
  BY <1>1, <1>2
<1>4. CASE cs = {}
  BY <1>3, <1>4 DEF Loop
<1>5. CASE cs # {}
  <2> DEFINE c == First(cs)
             rest == cs \ {c}
             after == SandboxAfter(c, tree)
  <2>1. c \in cs /\ rest \in ChangeSets /\ c \in Changes
    BY <1>5, RestIsSmaller DEF ChangeSets
  <2>2. after \in Trees
    BY <2>1, AfterIsTree
  <2>3. LoopOf(cs)[rest] = LoopOf(rest)[rest]
    <3>1. \A left \in SUBSET rest : left \in SUBSET cs
      OBVIOUS
    <3> HIDE DEF rest
    <3> QED BY <1>2, <2>1, <3>1, LoopIsOne
  <2>4. InSandbox(rest, after) = LoopOf(cs)[rest][after]
    <3> HIDE DEF rest, after
    <3> QED BY <1>1, <2>3
  <2>5. Loop(cs, LoopOf(cs))[tree] = (SandboxTakes(c, tree) /\ LoopOf(cs)[rest][after])
    BY <1>5 DEF Loop
  <2> HIDE DEF c, rest, after
  <2>6. InSandbox(cs, tree) <=> SandboxTakes(c, tree) /\ InSandbox(rest, after)
    BY <1>3, <2>4, <2>5
  <2> QED BY <1>5, <2>6 DEF c, rest, after
<1> QED BY <1>4, <1>5

----------------------------------------------------------------------------
\* a change of a compatible set takes nothing from another
LEMMA StillTakes ==
    ASSUME NEW cs \in SUBSET Changes, Compatible(cs), NEW c \in cs, NEW e \in cs, c # e,
           NEW tree \in Trees, SandboxTakes(c, tree), SandboxTakes(e, tree)
    PROVE  SandboxTakes(e, SandboxAfter(c, tree))
<1> DEFINE after == SandboxAfter(c, tree)
<1>1. /\ Resolved[c.path] \in Paths /\ Resolved[c.to] \in Paths /\ c.op \in Operations
      /\ Resolved[e.path] \in Paths /\ Resolved[e.to] \in Paths /\ e.op \in Operations
  BY PathAssumption DEF Changes
<1>2. \A p \in Paths : after[p] # tree[p] => p = Resolved[c.path] \/ (c.op = "rename" /\ p = Resolved[c.to])
  <2>1. CASE c.op \in {"modify", "create"}
    <3>1. after = [tree EXCEPT ![Resolved[c.path]] = <<"new", c.path>>]
      BY <2>1 DEF SandboxAfter
    <3> HIDE DEF after
    <3> QED BY <1>1, <3>1 DEF Trees
  <2>2. CASE c.op = "delete"
    <3>1. after = [tree EXCEPT ![Resolved[c.path]] = Absent]
      BY <2>2 DEF SandboxAfter
    <3> HIDE DEF after
    <3> QED BY <1>1, <3>1 DEF Trees
  <2>3. CASE c.op = "rename"
    <3>1. after = [tree EXCEPT ![Resolved[c.to]] = tree[Resolved[c.path]], ![Resolved[c.path]] = Absent]
      BY <2>3 DEF SandboxAfter
    <3> HIDE DEF after
    <3> QED BY <1>1, <2>3, <3>1 DEF Trees
  <2> QED BY <1>1, <2>1, <2>2, <2>3 DEF Operations
<1>3. Resolved[e.path] # Resolved[c.path]
  BY DEF Compatible
<1>4. c.op = "rename" => Resolved[e.path] # Resolved[c.to]
  <2>1. CASE e.op = "create"
    BY <2>1 DEF Compatible, Makes, Destination
  <2>2. CASE e.op # "create"
    BY <2>2 DEF SandboxTakes, Exists
  <2> QED BY <2>1, <2>2
<1>5. e.op = "rename" => Resolved[e.to] # Resolved[c.path]
  <2>1. CASE c.op = "create"
    BY <2>1 DEF Compatible, Makes, Destination
  <2>2. CASE c.op # "create"
    BY <2>2 DEF SandboxTakes, Exists
  <2> QED BY <2>1, <2>2
<1>6. e.op = "rename" /\ c.op = "rename" => Resolved[e.to] # Resolved[c.to]
  BY DEF Compatible, Makes, Destination
<1> HIDE DEF after
<1>7. after[Resolved[e.path]] = tree[Resolved[e.path]]
  BY <1>1, <1>2, <1>3, <1>4
<1>8. e.op = "rename" => after[Resolved[e.to]] = tree[Resolved[e.to]]
  BY <1>1, <1>2, <1>5, <1>6
<1>9. SandboxTakes(e, after)
  BY <1>7, <1>8 DEF SandboxTakes, Exists
<1> QED BY <1>9 DEF after

\* so that a compatible set whose changes can each be made can be made
LEMMA CompatibleIsMade ==
    ASSUME NEW all \in ChangeSets, Compatible(all), NEW tree \in Trees,
           \A c \in all : SandboxTakes(c, tree)
    PROVE  InSandbox(all, tree)
<1> DEFINE Made(n) == \A cs \in SUBSET all, t \in Trees :
              Cardinality(cs) = n /\ (\A c \in cs : SandboxTakes(c, t)) => InSandbox(cs, t)
           T == {n \in Nat : Made(n)}
<1>1. 0 \in T
  <2>1. ASSUME NEW cs \in SUBSET all, NEW t \in Trees, Cardinality(cs) = 0 PROVE InSandbox(cs, t)
    <3>1. cs \in ChangeSets /\ cs = {}
      BY <2>1, SomeAreChangeSet, FS_EmptySet DEF ChangeSets
    <3> QED BY <3>1, SandboxLoops
  <2> QED BY <2>1
<1>2. ASSUME NEW n \in T PROVE n + 1 \in T
  <2>1. n \in Nat /\ Made(n)
    <3> HIDE DEF Made
    <3> QED OBVIOUS
  <2>2. ASSUME NEW cs \in SUBSET all, NEW t \in Trees, Cardinality(cs) = n + 1,
               \A c \in cs : SandboxTakes(c, t)
        PROVE  InSandbox(cs, t)
    <3> DEFINE c == First(cs)
               rest == cs \ {c}
               after == SandboxAfter(c, t)
    <3>1. cs # {}
      <4>1. n + 1 # 0 /\ Cardinality({}) = 0
        BY FS_EmptySet
      <4> QED BY <2>2, <4>1
    <3>2. cs \in ChangeSets
      BY SomeAreChangeSet
    <3>3. c \in cs /\ Cardinality(rest) = n /\ c \in Changes
      <4>1. c \in cs /\ Cardinality(rest) = Cardinality(cs) - 1
        BY <3>1, <3>2, RestIsSmaller
      <4>2. c \in Changes
        BY <3>2, <4>1 DEF ChangeSets
      <4> HIDE DEF rest, c
      <4> QED BY <2>1, <2>2, <4>1, <4>2
    <3>4. after \in Trees
      BY <3>3, AfterIsTree
    <3>5. \A e \in rest : SandboxTakes(e, after)
      <4> SUFFICES ASSUME NEW e \in rest PROVE SandboxTakes(e, after)
        OBVIOUS
      <4>1. all \in SUBSET Changes /\ c \in all /\ e \in all /\ c # e
        BY <3>3 DEF ChangeSets
      <4>2. SandboxTakes(c, t) /\ SandboxTakes(e, t)
        BY <2>2, <3>3
      <4> HIDE DEF c, rest
      <4> QED BY <4>1, <4>2, StillTakes
    <3>6. InSandbox(rest, after)
      <4>1. rest \in SUBSET all
        OBVIOUS
      <4> HIDE DEF rest, after
      <4> QED BY <2>1, <3>3, <3>4, <3>5, <4>1
    <3> QED BY <2>2, <3>1, <3>2, <3>3, <3>6, SandboxLoops
  <2>3. Made(n + 1)
    BY <2>2
  <2> HIDE DEF Made
  <2> QED BY <2>1, <2>3
<1>3. Cardinality(all) \in T
  <2> HIDE DEF T
  <2>1. T \in SUBSET Nat
    BY DEF T
  <2>2. Cardinality(all) \in Nat
    BY SomeAreChangeSet
  <2> QED BY <1>1, <1>2, <2>1, <2>2, NatIsReached
<1> QED BY <1>3

\* and each change of a valid, compatible set can be made
LEMMA ValidIsTaken ==
    ASSUME NEW cs \in SUBSET Changes, NEW d, ValidationStatus(cs, d) = "valid", Compatible(cs)
    PROVE  \A c \in cs : SandboxTakes(c, d)
<1> SUFFICES ASSUME NEW c \in cs PROVE SandboxTakes(c, d)
  OBVIOUS
<1>1. ChangeErrors(c, cs, d) = {}
  BY DEF ValidationStatus, Errors
<1>2. Kind[c.path] \notin {"unsafe", "binary"}
  BY <1>1 DEF ChangeErrors, ErrorIf
<1>3. ErrorIf(Kind[c.path] = "git", "blocked") = {} /\ OperationErrors(c, d) = {}
  BY <1>1, <1>2 DEF ChangeErrors
<1>4. Kind[c.path] # "git"
  BY <1>3 DEF ErrorIf
<1>5. CASE c.op = "rename"
  <2>1. ErrorIf(\/ ~Exists(d, c.path) \/ Exists(d, c.to)
                \/ Kind[c.to] \in {"unsafe", "binary"}
                \/ c.text = "stale_reference", "invalid") = {}
    BY <1>3, <1>5 DEF OperationErrors
  <2>2. Exists(d, c.path) /\ ~Exists(d, c.to) /\ Kind[c.to] # "unsafe"
    BY <2>1 DEF ErrorIf
  <2>3. Kind[c.to] # "git"
    BY <1>5 DEF Compatible
  <2> QED BY <1>2, <1>4, <1>5, <2>2, <2>3 DEF SandboxTakes
<1>6. CASE c.op = "delete"
  <2>1. ErrorIf(~Exists(d, c.path) \/ ~c.justified, "invalid") = {}
    BY <1>3, <1>6 DEF OperationErrors
  <2>2. Exists(d, c.path)
    BY <2>1 DEF ErrorIf
  <2> QED BY <1>2, <1>4, <1>6, <2>2 DEF SandboxTakes
<1>7. CASE c.op = "modify"
  <2>1. Exists(d, c.path)
    BY <1>3, <1>7 DEF OperationErrors
  <2> QED BY <1>2, <1>4, <1>7, <2>1 DEF SandboxTakes
<1>8. CASE c.op = "create"
  <2>1. ErrorIf(Exists(d, c.path), "invalid") = {}
    BY <1>3, <1>8 DEF OperationErrors
  <2>2. ~Exists(d, c.path)
    BY <2>1 DEF ErrorIf
  <2> QED BY <1>2, <1>4, <1>8, <2>2 DEF SandboxTakes
<1> QED BY <1>5, <1>6, <1>7, <1>8 DEF Changes, Operations

----------------------------------------------------------------------------
\* while nobody else writes, the changes left can be made, and fail for nobody
Sure(a) ==
    /\ alone[a] # "no" /\ pc[a] \in {"apply", "write"} =>
         /\ Compatible(proposal) => \A c \in todo[a] : SandboxTakes(c, disk)
         /\ alone[a] = "foretold" => InSandbox(todo[a], disk)
    /\ alone[a] # "no" /\ verdict[a] = "failed" => ~Compatible(proposal) /\ alone[a] # "foretold"

\* what the sandbox found on the files of the checkout holds of them
Foretells ==
    sandbox.like =>
        IF sandbox.stage = "checked"
        THEN sandbox.status = "valid" <=> ValidationStatus(proposal, disk) = "valid" /\ InSandbox(proposal, disk)
        ELSE InSandbox(proposal, disk)

SandboxTyped ==
    /\ DOMAIN sandbox = {"stage", "tree", "status", "like"} /\ sandbox.like \in BOOLEAN
    /\ sandbox.stage = "made" => sandbox.tree \in Trees

\* nobody answers before the approval is asked for, nor when it never was
Unasked ==
    /\ DOMAIN meta = {"status", "applied"}
    /\ meta.status \in {"running", "failed"} => \A a \in Answers : pc[a] = "idle"
    /\ sandbox.stage = "checked" => meta.status \in {"running", "failed"}

SureInv ==
    /\ disk \in Trees /\ proposal \in ChangeSets
    /\ SandboxTyped /\ Unasked /\ Foretells
    /\ \A a \in Answers : Sure(a)

LEMMA SureStarts == Init => SureInv
<1> SUFFICES ASSUME Init PROVE SureInv
  OBVIOUS
<1>1. disk \in Trees
  BY ApplyAssumption DEF Init, Trees, Contents, Originals
<1>2. PICK drawn \in Proposals : proposal = {Ground(c, disk) : c \in drawn}
  BY DEF Init
<1>3. IsFiniteSet(proposal)
  <2> DEFINE ground == [c \in drawn |-> Ground(c, disk)]
  <2>1. ground \in Surjection(drawn, proposal)
    BY <1>2 DEF Surjection
  <2>2. IsFiniteSet(drawn)
    BY ApplyAssumption
  <2> HIDE DEF ground
  <2> QED BY <2>1, <2>2, FS_Surjection
<1>4. proposal \in ChangeSets
  BY <1>3, ApplyStarts DEF ApplyInv, Typed, ChangeSets
<1>5. SandboxTyped /\ Unasked /\ Foretells
  BY DEF Init, SandboxTyped, Unasked, Foretells
<1>6. \A a \in Answers : Sure(a)
  BY DEF Init, Sure
<1> QED BY <1>1, <1>4, <1>5, <1>6 DEF SureInv

\* the sandbox is made, checks, and is gone when the user is asked
LEMMA SandboxSure ==
    ASSUME ApplyInv, SureInv, CreateWorktree \/ CheckInSandbox \/ AskApproval
    PROVE  SureInv'
<1>1. UNCHANGED <<disk, proposal, pc, todo, verdict, alone>> /\ meta.status = "running"
  BY DEF CreateWorktree, CheckInSandbox, AskApproval, answers
<1>2. \A a \in Answers : Sure(a)'
  BY <1>1 DEF SureInv, Sure, Compatible, SandboxTakes, InSandbox, Exists
<1>3. CASE CreateWorktree
  <2>1. PICK head \in InitialDisks : sandbox' = [sandbox EXCEPT !.stage = "made", !.tree = head]
    BY <1>3 DEF CreateWorktree
  <2>2. head \in Trees
    BY ApplyAssumption DEF Trees, Contents, Originals
  <2>3. meta' = meta /\ sandbox.stage = "none"
    BY <1>3 DEF CreateWorktree
  <2>4. SandboxTyped'
    BY <2>1, <2>2 DEF SureInv, SandboxTyped
  <2>5. Unasked'
    BY <1>1, <2>1, <2>3 DEF SureInv, SandboxTyped, Unasked
  <2>6. Foretells'
    BY <1>1, <2>1, <2>3 DEF SureInv, SandboxTyped, Foretells
  <2> QED BY <1>1, <1>2, <2>4, <2>5, <2>6 DEF SureInv
<1>4. CASE CheckInSandbox
  <2> DEFINE ok == /\ ValidationStatus(proposal, sandbox.tree) = "valid"
                   /\ InSandbox(proposal, sandbox.tree)
  <2>1. /\ sandbox' = [sandbox EXCEPT !.stage = "checked", !.tree = NoTree,
                                      !.like = sandbox.tree = disk,
                                      !.status = IF ok THEN "valid" ELSE "failed"]
        /\ meta' = meta
    BY <1>4 DEF CheckInSandbox
  <2> HIDE DEF ok
  <2>2. /\ DOMAIN sandbox' = {"stage", "tree", "status", "like"} /\ sandbox'.stage = "checked"
        /\ sandbox'.like = (sandbox.tree = disk) /\ sandbox'.status = IF ok THEN "valid" ELSE "failed"
    BY <2>1 DEF SureInv, SandboxTyped
  <2>3. SandboxTyped' /\ Unasked'
    BY <1>1, <2>1, <2>2 DEF SureInv, SandboxTyped, Unasked
  <2>4. Foretells'
    BY <1>1, <2>2 DEF Foretells, ok
  <2> QED BY <1>1, <1>2, <2>3, <2>4 DEF SureInv
<1>5. CASE AskApproval
  <2>1. /\ sandbox' = [stage |-> "none", tree |-> NoTree, status |-> "shown",
                       like |-> sandbox.stage = "checked" /\ sandbox.status = "valid" /\ sandbox.like]
        /\ meta' = [meta EXCEPT !.status = "waiting_approval"]
    BY <1>5 DEF AskApproval
  <2>2. /\ DOMAIN sandbox' = {"stage", "tree", "status", "like"} /\ sandbox'.stage = "none"
        /\ sandbox'.like = (sandbox.stage = "checked" /\ sandbox.status = "valid" /\ sandbox.like)
    BY <2>1
  <2>3. SandboxTyped' /\ Unasked'
    BY <1>1, <2>1, <2>2 DEF SureInv, SandboxTyped, Unasked
  <2>4. Foretells'
    BY <1>1, <2>2 DEF SureInv, Foretells
  <2> QED BY <1>1, <1>2, <2>3, <2>4 DEF SureInv
<1> QED BY <1>3, <1>4, <1>5

\* a step of an answer that writes nothing
LEMMA QuietSure ==
    ASSUME SureInv, UNCHANGED <<disk, proposal, sandbox>>, Unasked', \A a \in Answers : Sure(a)'
    PROVE  SureInv'
BY DEF SureInv, SandboxTyped, Foretells, InSandbox, SandboxTakes, Exists

\* what can be made in the sandbox can be made
LEMMA TakenIsWritable ==
    ASSUME NEW c \in Changes, SandboxTakes(c, disk)
    PROVE  Appliable(c) /\ Writable(c)
BY DEF SandboxTakes, Appliable, Writable, DestinationFree

LEMMA FirstIsTaken ==
    ASSUME ApplyInv, SureInv, NEW a \in Answers, todo[a] # {}, pc[a] \in {"apply", "write"}, alone[a] # "no",
           Compatible(proposal) \/ alone[a] = "foretold"
    PROVE  /\ todo[a] \in ChangeSets /\ First(todo[a]) \in todo[a] /\ First(todo[a]) \in Changes
           /\ SandboxTakes(First(todo[a]), disk)
<1>1. todo[a] \in ChangeSets
  BY SomeAreChangeSet DEF ApplyInv, Typed, SureInv
<1>2. First(todo[a]) \in todo[a] /\ First(todo[a]) \in Changes
  BY <1>1, RestIsSmaller DEF ChangeSets
<1>3. /\ Compatible(proposal) => \A c \in todo[a] : SandboxTakes(c, disk)
      /\ alone[a] = "foretold" => InSandbox(todo[a], disk)
      /\ disk \in Trees
  <2>1. Sure(a) /\ disk \in Trees
    BY DEF SureInv
  <2> QED BY <2>1 DEF Sure
<1>4. CASE Compatible(proposal)
  BY <1>1, <1>2, <1>3, <1>4
<1>5. CASE alone[a] = "foretold"
  BY <1>1, <1>2, <1>3, <1>5, SandboxLoops
<1> QED BY <1>1, <1>2, <1>4, <1>5

\* a write leaves the rest as sure as they were
LEMMA WriteSure ==
    ASSUME ApplyInv, ShownInv, SureInv, NEW a \in Answers, Write(a)
    PROVE  SureInv'
<1> DEFINE c == First(todo[a])
           rest == todo[a] \ {c}
<1>1. /\ pc[a] = "write" /\ pc' = [pc EXCEPT ![a] = "apply"] /\ disk' = After(c) /\ UNCHANGED <<proposal, meta, verdict>>
      /\ todo' = [todo EXCEPT ![a] = rest]
      /\ alone' = [b \in Answers |-> IF b = a THEN alone[b] ELSE "no"]
      /\ sandbox' = [sandbox EXCEPT !.like = FALSE]
  BY DEF Write, Goto
<1>2. todo[a] # {} /\ todo[a] \in SUBSET proposal /\ proposal \in ChangeSets /\ disk \in Trees
  BY <1>1 DEF ApplyInv, Copied, Typed, SureInv
<1>3. todo[a] \in ChangeSets
  BY <1>2, SomeAreChangeSet
<1>4. c \in todo[a] /\ c \in Changes
  BY <1>2, <1>3, RestIsSmaller DEF ChangeSets
<1>5. disk' = SandboxAfter(c, disk)
  BY <1>1 DEF After, SandboxAfter
<1>6. disk' \in Trees
  <2> HIDE DEF c
  <2> QED BY <1>2, <1>4, <1>5, AfterIsTree
<1>7. /\ DOMAIN sandbox' = {"stage", "tree", "status", "like"} /\ sandbox'.like = FALSE
      /\ sandbox'.stage = sandbox.stage /\ sandbox'.tree = sandbox.tree
  <2> HIDE DEF c, rest
  <2> QED BY <1>1 DEF SureInv, SandboxTyped
<1>8. SandboxTyped' /\ Foretells'
  <2> HIDE DEF c, rest
  <2> QED BY <1>7 DEF SureInv, SandboxTyped, Foretells
<1>9. Unasked'
  <2> HIDE DEF c, rest
  <2> QED BY <1>1, <1>7 DEF SureInv, Unasked
<1>10. pc'[a] = "apply" /\ todo'[a] = rest /\ alone'[a] = alone[a] /\ verdict[a] = "none"
  <2> HIDE DEF c, rest
  <2> QED BY <1>1 DEF ApplyInv, Typed, ShownInv, Reported
<1>11. ASSUME alone[a] # "no", Compatible(proposal) PROVE \A e \in rest : SandboxTakes(e, disk')
  <2> SUFFICES ASSUME NEW e \in rest PROVE SandboxTakes(e, disk')
    OBVIOUS
  <2>1. Sure(a)
    BY DEF SureInv
  <2>2. SandboxTakes(c, disk) /\ SandboxTakes(e, disk)
    BY <1>1, <1>4, <1>11, <2>1 DEF Sure
  <2>3. c \in proposal /\ e \in proposal /\ c # e /\ proposal \in SUBSET Changes
    BY <1>2, <1>4 DEF ChangeSets
  <2> HIDE DEF c, rest
  <2> QED BY <1>2, <1>5, <1>11, <2>2, <2>3, StillTakes
<1>12. ASSUME alone[a] = "foretold" PROVE InSandbox(rest, disk')
  <2>1. Sure(a)
    BY DEF SureInv
  <2>2. InSandbox(todo[a], disk)
    BY <1>1, <1>12, <2>1 DEF Sure
  <2> QED BY <1>2, <1>3, <1>5, <2>2, SandboxLoops
<1> HIDE DEF c, rest
<1>13. Sure(a)'
  <2>1. \A s : InSandbox(s, disk)' = InSandbox(s, disk')
    BY DEF InSandbox, SandboxTakes, SandboxAfter, Exists
  <2> QED BY <1>1, <1>10, <1>11, <1>12, <2>1 DEF Sure, Compatible, SandboxTakes, Exists
<1>14. ASSUME NEW b \in Answers PROVE Sure(b)'
  <2>1. CASE b = a
    BY <1>13, <2>1
  <2>2. CASE b # a
    BY <1>1, <2>2 DEF Sure
  <2> QED BY <2>1, <2>2
<1> QED BY <1>1, <1>2, <1>6, <1>8, <1>9, <1>14 DEF SureInv

\* an apply raises only when it was not sure, or somebody else wrote
LEMMA RaiseSure ==
    ASSUME ApplyInv, ShownInv, SureInv, NEW a \in Answers, Raise(a)
    PROVE  SureInv'
<1>1. /\ pc[a] \in {"apply", "write"} /\ pc' = [pc EXCEPT ![a] = "complete"] /\ verdict' = [verdict EXCEPT ![a] = "failed"]
      /\ UNCHANGED <<disk, proposal, sandbox, meta, todo, alone>>
      /\ todo[a] # {} /\ (~Appliable(First(todo[a])) \/ ~Writable(First(todo[a])))
  BY DEF Raise, Goto, Report, ApplyInv, Copied
<1>2. alone[a] # "no" => ~Compatible(proposal) /\ alone[a] # "foretold"
  <2> SUFFICES ASSUME alone[a] # "no", Compatible(proposal) \/ alone[a] = "foretold" PROVE FALSE
    OBVIOUS
  <2>1. First(todo[a]) \in Changes /\ SandboxTakes(First(todo[a]), disk)
    BY <1>1, FirstIsTaken
  <2> QED BY <1>1, <2>1, TakenIsWritable
<1>3. pc \in [Answers -> Places] /\ DOMAIN verdict = Answers
  BY DEF ApplyInv, Typed, ShownInv
<1>4. Unasked'
  BY <1>1, <1>3 DEF SureInv, Unasked
<1>5. ASSUME NEW b \in Answers PROVE Sure(b)'
  <2>1. CASE b = a
    BY <1>1, <1>2, <1>3, <2>1 DEF Sure, Compatible
  <2>2. CASE b # a
    <3>1. pc'[b] = pc[b] /\ verdict'[b] = verdict[b] /\ Sure(b)
      BY <1>1, <1>3, <2>2 DEF SureInv
    <3> QED BY <1>1, <3>1 DEF Sure, Compatible, InSandbox, SandboxTakes, Exists
  <2> QED BY <2>1, <2>2
<1> QED BY <1>1, <1>4, <1>5, QuietSure

\* what validated can be made, if it is compatible or the sandbox made it
LEMMA ValidateSure ==
    ASSUME ApplyInv, ShownInv, SureInv, NEW a \in Answers, Validate(a)
    PROVE  SureInv'
<1>1. UNCHANGED <<disk, proposal, sandbox, meta>> /\ pc[a] = "validate"
  BY DEF Validate, Goto
<1>2. /\ pc \in [Answers -> Places] /\ todo \in [Answers -> SUBSET proposal]
      /\ DOMAIN verdict = Answers /\ DOMAIN alone = Answers /\ verdict[a] = "none"
  BY <1>1 DEF ApplyInv, Typed, ShownInv, Reported
<1>3. Unasked /\ meta.status \notin {"running", "failed"} /\ sandbox.stage # "checked"
  BY <1>1 DEF SureInv, Unasked
<1>4. Unasked'
  BY <1>1, <1>3 DEF Unasked
<1>5. ASSUME NEW b \in Answers \ {a}, pc'[b] = pc[b], verdict'[b] = verdict[b],
             todo'[b] = todo[b], alone'[b] = alone[b]
      PROVE  Sure(b)'
  <2>1. Sure(b)
    BY DEF SureInv
  <2> QED BY <1>1, <1>5, <2>1 DEF Sure, Compatible, InSandbox, SandboxTakes, Exists
<1>6. CASE meta.applied \/ ValidationStatus(proposal, disk) # "valid"
  <2>1. pc' = [pc EXCEPT ![a] = "complete"] /\ verdict' = [verdict EXCEPT ![a] = "refused"] /\ UNCHANGED <<todo, alone>>
    BY <1>6 DEF Validate, Goto, Report
  <2>2. Sure(a)'
    BY <1>2, <2>1 DEF Sure
  <2> QED BY <1>1, <1>2, <1>4, <1>5, <2>1, <2>2, QuietSure
<1>7. CASE ~(meta.applied \/ ValidationStatus(proposal, disk) # "valid")
  <2>1. /\ pc' = [pc EXCEPT ![a] = "apply"] /\ verdict' = verdict /\ todo' = [todo EXCEPT ![a] = proposal]
        /\ alone' = [alone EXCEPT ![a] = IF sandbox.like THEN "foretold" ELSE "yes"]
    BY <1>7 DEF Validate, Goto
  <2>2. ValidationStatus(proposal, disk) = "valid" /\ proposal \in SUBSET Changes
    BY <1>7 DEF SureInv, ChangeSets
  <2>3. Compatible(proposal) => \A c \in proposal : SandboxTakes(c, disk)
    BY <2>2, ValidIsTaken
  <2>4. sandbox.like => InSandbox(proposal, disk)
    BY <1>3 DEF SureInv, Foretells
  <2>5. pc'[a] = "apply" /\ verdict'[a] = "none" /\ todo'[a] = proposal /\ (alone'[a] = "foretold" => sandbox.like)
    BY <1>2, <2>1
  <2>6. Sure(a)'
    BY <1>1, <2>3, <2>4, <2>5 DEF Sure, Compatible, InSandbox, SandboxTakes, Exists
  <2> QED BY <1>1, <1>2, <1>4, <1>5, <2>1, <2>6, QuietSure
<1> QED BY <1>6, <1>7

LEMMA SureContinues == ApplyInv /\ ShownInv /\ SureInv /\ [Next]_vars => SureInv'
<1> SUFFICES ASSUME ApplyInv, ShownInv, SureInv, [Next]_vars PROVE SureInv'
  OBVIOUS
<1>0. /\ pc \in [Answers -> Places] /\ todo \in [Answers -> SUBSET proposal]
      /\ DOMAIN verdict = Answers /\ DOMAIN meta = {"status", "applied"}
  BY DEF ApplyInv, Typed, ShownInv, SureInv, Unasked
\* a step that leaves the answers as sure as they were
<1>1. ASSUME NEW a \in Answers, UNCHANGED <<disk, proposal, todo, alone>>,
             pc'[a] \in {"apply", "write"} => pc[a] \in {"apply", "write"},
             verdict'[a] = "failed" => verdict[a] = "failed"
      PROVE  Sure(a)'
  <2>1. Sure(a)
    BY DEF SureInv
  <2> QED BY <1>1, <2>1 DEF Sure, Compatible, InSandbox, SandboxTakes, Exists
<1>2. CASE CreateWorktree \/ CheckInSandbox \/ AskApproval
  BY <1>2, SandboxSure
<1>3. ASSUME NEW a \in Answers, Step(a) PROVE SureInv'
  <2>1. CASE Allow(a)
    <3>1. /\ UNCHANGED <<disk, proposal, sandbox, todo, alone, verdict, meta>> /\ meta.status = "waiting_approval"
          /\ pc' = [pc EXCEPT ![a] = "validate"]
      BY <2>1 DEF Allow, Goto
    <3>2. Unasked'
      BY <3>1 DEF SureInv, Unasked
    <3>3. \A b \in Answers : Sure(b)'
      BY <1>0, <1>1, <3>1
    <3> QED BY <3>1, <3>2, <3>3, QuietSure
  <2>2. CASE Deny(a)
    <3>1. /\ UNCHANGED <<disk, proposal, sandbox, todo, alone, meta>> /\ meta.status = "waiting_approval"
          /\ pc' = [pc EXCEPT ![a] = "complete"] /\ verdict' = [verdict EXCEPT ![a] = "denied"]
      BY <2>2 DEF Deny, Goto, Report
    <3>2. Unasked'
      BY <3>1 DEF SureInv, Unasked
    <3>3. \A b \in Answers : Sure(b)'
      BY <1>0, <1>1, <3>1
    <3> QED BY <3>1, <3>2, <3>3, QuietSure
  <2>3. CASE Validate(a)
    BY <2>3, ValidateSure
  <2>4. CASE Backup(a)
    <3>1. /\ UNCHANGED <<disk, proposal, sandbox, todo, alone, verdict, meta>> /\ pc[a] = "apply"
          /\ pc' = [pc EXCEPT ![a] = "write"]
      BY <2>4 DEF Backup, Goto
    <3>2. Unasked'
      BY <1>0, <3>1 DEF SureInv, Unasked
    <3>3. \A b \in Answers : Sure(b)'
      BY <1>0, <1>1, <3>1
    <3> QED BY <3>1, <3>2, <3>3, QuietSure
  <2>5. CASE Write(a)
    BY <2>5, WriteSure
  <2>6. CASE Raise(a)
    BY <2>6, RaiseSure
  <2>7. CASE Applied(a)
    <3>1. /\ UNCHANGED <<disk, proposal, sandbox, todo, alone, meta>> /\ pc[a] = "apply"
          /\ pc' = [pc EXCEPT ![a] = "complete"] /\ verdict' = [verdict EXCEPT ![a] = "applied"]
      BY <2>7 DEF Applied, Goto, Report
    <3>2. Unasked'
      BY <1>0, <3>1 DEF SureInv, Unasked
    <3>3. \A b \in Answers : Sure(b)'
      BY <1>0, <1>1, <3>1
    <3> QED BY <3>1, <3>2, <3>3, QuietSure
  <2>8. CASE Complete(a)
    <3>1. /\ UNCHANGED <<disk, proposal, sandbox, todo, alone, verdict>> /\ pc[a] = "complete"
          /\ pc' = [pc EXCEPT ![a] = "end"] /\ meta' = [meta EXCEPT !.status = "completed"]
      BY <2>8 DEF Complete, Goto
    <3>2. DOMAIN meta' = {"status", "applied"} /\ meta'.status = "completed" /\ meta.status \notin {"running", "failed"}
      BY <1>0, <3>1 DEF SureInv, Unasked
    <3>3. Unasked'
      BY <3>1, <3>2 DEF SureInv, Unasked
    <3>4. \A b \in Answers : Sure(b)'
      BY <1>0, <1>1, <3>1
    <3> QED BY <3>1, <3>3, <3>4, QuietSure
  <2> QED BY <1>3, <2>1, <2>2, <2>3, <2>4, <2>5, <2>6, <2>7, <2>8 DEF Step
<1>4. ASSUME NEW q \in Edited, UserEdit(q) PROVE SureInv'
  <2>1. PICK k \in {Absent, <<"edit", q>>} : disk' = [disk EXCEPT ![q] = k]
    BY <1>4 DEF UserEdit
  <2>2. /\ alone' = [a \in Answers |-> "no"] /\ sandbox' = [sandbox EXCEPT !.like = FALSE]
        /\ UNCHANGED <<meta, proposal, pc, todo, verdict>>
    BY <1>4 DEF UserEdit
  <2>3. disk' \in Trees
    <3>1. q \in Paths /\ k \in Contents
      BY ApplyAssumption DEF Contents
    <3>2. disk \in Trees
      BY DEF SureInv
    <3> QED BY <2>1, <3>1, <3>2 DEF Trees
  <2>4. SandboxTyped' /\ Foretells' /\ Unasked'
    BY <2>2 DEF SureInv, SandboxTyped, Foretells, Unasked
  <2>5. \A a \in Answers : Sure(a)'
    BY <2>2 DEF Sure
  <2> QED BY <2>2, <2>3, <2>4, <2>5 DEF SureInv
<1>5. CASE Restart
  <2>1. /\ UNCHANGED <<disk, proposal, sandbox>> /\ alone' = [a \in Answers |-> "no"]
        /\ pc' = [a \in Answers |-> IF pc[a] = "end" THEN "end" ELSE "idle"]
        /\ meta' = [meta EXCEPT !.status = IF @ = "running" THEN "failed" ELSE @]
    BY <1>5 DEF Restart
  <2>2. \A a \in Answers : Sure(a)'
    BY <2>1 DEF Sure
  <2>3. DOMAIN meta' = {"status", "applied"} /\ meta'.status = IF meta.status = "running" THEN "failed" ELSE meta.status
    BY <1>0, <2>1
  <2>4. Unasked'
    BY <2>1, <2>3 DEF SureInv, Unasked
  <2> QED BY <2>1, <2>2, <2>4, QuietSure
<1>6. CASE UNCHANGED vars
  <2>1. UNCHANGED <<disk, proposal, sandbox, todo, alone, verdict, meta, pc>>
    BY <1>6 DEF vars, answers
  <2>2. Unasked'
    BY <2>1 DEF SureInv, Unasked
  <2>3. \A b \in Answers : Sure(b)'
    BY <1>1, <2>1
  <2> QED BY <2>1, <2>2, <2>3, QuietSure
<1> QED BY <1>2, <1>3, <1>4, <1>5, <1>6 DEF Next

\* Validation, the sandbox and the apply agree: a proposal that validated is
\* applied to the end unless somebody else wrote meanwhile or its changes are
\* incompatible, what the sandbox made is applied whatever its changes, and the
\* sandbox finds fault with no compatible proposal that validates.
THEOREM ValidationIsKept == Spec => []ValidatedApplies
<1>1. SureInv => ValidatedApplies
  <2> SUFFICES ASSUME SureInv PROVE ValidatedApplies
    OBVIOUS
  <2>1. \A a \in Answers : verdict[a] = "failed" /\ alone[a] # "no" => ~Compatible(proposal) /\ alone[a] # "foretold"
    BY DEF SureInv, Sure
  <2>2. ASSUME sandbox.stage = "checked", sandbox.like, Compatible(proposal), ValidationStatus(proposal, disk) = "valid"
        PROVE  sandbox.status = "valid"
    <3>1. proposal \in ChangeSets /\ proposal \in SUBSET Changes /\ disk \in Trees
      BY DEF SureInv, ChangeSets
    <3>2. InSandbox(proposal, disk)
      BY <2>2, <3>1, ValidIsTaken, CompatibleIsMade
    <3> QED BY <2>2, <3>2 DEF SureInv, Foretells
  <2> QED BY <2>1, <2>2 DEF ValidatedApplies
<1> QED BY <1>1, ApplyStarts, ApplyContinues, ShownStarts, ShownContinues, SureStarts, SureContinues, PTL DEF Spec
=============================================================================
