--------------------------- MODULE ApplyChangeSet ---------------------------
(***************************************************************************)
(* A valid change set, from its proposal on: the check in a worktree of    *)
(* its own (validate_proposal_in_sandbox), the requests that answer a run's*)
(* pending change_set_apply approval (resume_approval, await_approval_node)*)
(* and apply_change_set_for_run, which writes one file after another while *)
(* the user, another answer of the same approval, or a crash may interfere.*)
(*                                                                         *)
(* Answers are the threads of POST .../approve requests.  A thread that    *)
(* applies validates, then for each change copies the file to its own      *)
(* backup directory and writes; nothing is rolled back.  An answer resumes  *)
(* the graph from its checkpoint (LangGraph, external): two answers that    *)
(* load it before either has saved a step both find the approval pending.   *)
(***************************************************************************)
EXTENDS ChangeSet

CONSTANTS
    Answers,      \* requests that answer the approval
    Proposals,    \* the change sets that may be proposed
    InitialDisks, \* what the repository may hold when the proposal is made
    Edited,       \* bound: the files the user edits meanwhile
    MayCrash      \* may the worker process stop and restart?

\* the files as they are before anybody writes
Originals == {"old"} \X Paths

ASSUME ApplyAssumption ==
    /\ Proposals \subseteq SUBSET Changes /\ \A cs \in Proposals : IsFiniteSet(cs)
    /\ InitialDisks \subseteq [Paths -> Originals \cup {Absent}]
    /\ Edited \subseteq {p \in Paths : Kind[p] = "text" /\ Resolved[p] = p}
    /\ MayCrash \in BOOLEAN

VARIABLES
    disk,      \* the content of each file, Absent when there is none
    meta,      \* the run's status, and the applied flag of the proposal that
               \* meta.json keeps under pending_approval
    proposal,  \* the approved change set
    pc, todo,  \* per answer: where it is, the changes still to apply
    saved,     \* the contents kept in the backup directories
    done,      \* per answer: the changes its result reports
    verdict,   \* per answer: what it reported
    sandbox,   \* the worktree of the check, what it holds, what the check says, and
               \* (history) whether the checkout still holds the same
    alone,     \* history: per answer, has nobody else written since its validation,
               \* and did the sandbox check the same files?
    replaced   \* history: the original files the user has overwritten or removed

answers == <<pc, todo, done, verdict, alone>>
vars == <<disk, meta, proposal, answers, saved, sandbox, replaced>>

\* what the paths of the repository, or of a worktree, may hold
Contents == ({"old", "edit", "new"} \X Paths) \cup {Absent}
Trees == [Paths -> Contents]

\* no worktree
NoTree == <<>>

Init ==
    /\ disk \in InitialDisks
    /\ proposal \in {cs \in {{Ground(c, disk) : c \in drawn} : drawn \in Proposals} :
                       ValidationStatus(cs, disk) = "valid"}
    /\ meta = [status |-> "running", applied |-> FALSE]
    /\ sandbox = [stage |-> "none", tree |-> NoTree, status |-> "not_run", like |-> FALSE]
    /\ pc = [a \in Answers |-> "idle"]
    /\ todo = [a \in Answers |-> {}]
    /\ saved = {}
    /\ done = [a \in Answers |-> {}]
    /\ verdict = [a \in Answers |-> "none"]
    /\ alone = [a \in Answers |-> "no"]
    /\ replaced = {}

Goto(a, from, to) == pc[a] = from /\ pc' = [pc EXCEPT ![a] = to]
Report(a, v) == verdict' = [verdict EXCEPT ![a] = v]

(***************************************************************************)
(* The sandbox                                                             *)
(***************************************************************************)
\* git worktree add --detach, of what HEAD holds; the checkout may differ
CreateWorktree ==
    /\ meta.status = "running" /\ sandbox.stage = "none"
    /\ \E head \in InitialDisks :
          sandbox' = [sandbox EXCEPT !.stage = "made", !.tree = head]
    /\ UNCHANGED <<disk, meta, proposal, answers, saved, replaced>>

\* _apply_sandbox_change: its checks, and what it does
SandboxTakes(c, tree) ==
    /\ Kind[c.path] \notin {"git", "unsafe"}
    /\ IF c.op = "create" THEN ~Exists(tree, c.path) ELSE Exists(tree, c.path)
    /\ c.op = "rename" => Kind[c.to] \notin {"git", "unsafe"} /\ ~Exists(tree, c.to)

SandboxAfter(c, tree) ==
    LET p == Resolved[c.path] IN
    CASE c.op \in {"modify", "create"} -> [tree EXCEPT ![p] = <<"new", c.path>>]
      [] c.op = "delete" -> [tree EXCEPT ![p] = Absent]
      [] c.op = "rename" -> [tree EXCEPT ![Resolved[c.to]] = tree[p], ![p] = Absent]

\* each change works on what those before it made of the tree; one that fails
\* ends the loop
InSandbox(cs, head) ==
    LET applies[left \in SUBSET cs] ==
            [tree \in Trees |-> left = {} \/ LET c == First(left) IN
                SandboxTakes(c, tree) /\ applies[left \ {c}][SandboxAfter(c, tree)]]
    IN  applies[cs][head]

\* apply_change_set_to_worktree: nobody else knows of the worktree
CheckInSandbox ==
    /\ meta.status = "running" /\ sandbox.stage = "made"
    /\ LET ok == /\ ValidationStatus(proposal, sandbox.tree) = "valid"
                 /\ InSandbox(proposal, sandbox.tree)
       IN sandbox' = [sandbox EXCEPT !.stage = "checked", !.tree = NoTree,
                                     !.like = sandbox.tree = disk,
                                     !.status = IF ok THEN "valid" ELSE "failed"]
    /\ UNCHANGED <<disk, meta, proposal, answers, saved, replaced>>

\* cleanup_worktree, in the finally clause; the checkout may be no repository,
\* and git may fail: neither keeps the proposal from the user
AskApproval ==
    /\ meta.status = "running"
    /\ meta' = [meta EXCEPT !.status = "waiting_approval"]
    /\ sandbox' = [stage |-> "none", tree |-> NoTree, status |-> "shown",
                   like |-> sandbox.stage = "checked" /\ sandbox.status = "valid" /\ sandbox.like]
    /\ UNCHANGED <<disk, proposal, answers, saved, replaced>>

(***************************************************************************)
(* The answers                                                             *)
(***************************************************************************)
\* resume_approval accepts an answer as long as the run waits ...
Allow(a) ==
    /\ Goto(a, "idle", "validate") /\ meta.status = "waiting_approval"
    /\ UNCHANGED <<disk, meta, proposal, todo, saved, done, verdict, sandbox, alone, replaced>>

\* ... and a denial ends the graph with "No files were modified."
Deny(a) ==
    /\ Goto(a, "idle", "complete") /\ meta.status = "waiting_approval"
    /\ Report(a, "denied")
    /\ UNCHANGED <<disk, meta, proposal, todo, saved, done, sandbox, alone, replaced>>

\* the proposal is loaded from meta.json and validated against the disk
Validate(a) ==
    /\ IF meta.applied \/ ValidationStatus(proposal, disk) # "valid"
         THEN Goto(a, "validate", "complete") /\ Report(a, "refused") /\ UNCHANGED <<todo, alone>>
         ELSE /\ Goto(a, "validate", "apply")
              /\ todo' = [todo EXCEPT ![a] = proposal]
              /\ alone' = [alone EXCEPT ![a] = IF sandbox.like THEN "foretold" ELSE "yes"]
              /\ UNCHANGED verdict
    /\ done' = [done EXCEPT ![a] = {}]
    /\ UNCHANGED <<disk, meta, proposal, saved, sandbox, replaced>>

\* the checks of _apply_one_change before it writes
Appliable(c) ==
    /\ Kind[c.path] \notin {"git", "unsafe"}
    /\ c.op # "create" => Exists(disk, c.path)
    /\ c.op = "create" => ~Exists(disk, c.path)

\* mutant: the destination of a rename is overwritten
DestinationIgnored(c) == c.op = "rename" => Kind[c.to] \notin {"git", "unsafe"}

DestinationFree(c) ==
    c.op = "rename" => Kind[c.to] \notin {"git", "unsafe"} /\ ~Exists(disk, c.to)

\* mutant: only a modified file is copied
BackupModifiedOnly(a) ==
    /\ Goto(a, "apply", "write")
    /\ todo[a] # {} /\ Appliable(First(todo[a]))
    /\ LET c == First(todo[a]) IN
       saved' = IF c.op # "modify" THEN saved ELSE saved \cup {disk[Resolved[c.path]]}
    /\ UNCHANGED <<disk, meta, proposal, todo, done, verdict, sandbox, alone, replaced>>

\* copy the file to the backup directory (a created file has no copy)
Backup(a) ==
    /\ Goto(a, "apply", "write")
    /\ todo[a] # {} /\ Appliable(First(todo[a]))
    /\ LET c == First(todo[a]) IN
       saved' = IF c.op = "create" THEN saved ELSE saved \cup {disk[Resolved[c.path]]}
    /\ UNCHANGED <<disk, meta, proposal, todo, done, verdict, sandbox, alone, replaced>>

\* mutant: a rename copies the file
RenameCopies(c) ==
    LET p == Resolved[c.path] IN
    CASE c.op \in {"modify", "create"} -> [disk EXCEPT ![p] = <<"new", c.path>>]
      [] c.op = "delete" -> [disk EXCEPT ![p] = Absent]
      [] c.op = "rename" -> [disk EXCEPT ![Resolved[c.to]] = disk[p]]

\* the path a change works on is resolved before it is used
After(c) ==
    LET p == Resolved[c.path] IN
    CASE c.op \in {"modify", "create"} -> [disk EXCEPT ![p] = <<"new", c.path>>]
      [] c.op = "delete" -> [disk EXCEPT ![p] = Absent]
      [] c.op = "rename" -> [disk EXCEPT ![Resolved[c.to]] = disk[p], ![p] = Absent]

\* the file may have gone since the copy: then unlink or rename raises
Writable(c) == DestinationFree(c) /\ (c.op \in {"delete", "rename"} => Exists(disk, c.path))

Write(a) ==
    /\ Goto(a, "write", "apply")
    /\ Writable(First(todo[a]))
    /\ LET c == First(todo[a]) IN
         /\ disk' = After(c)
         /\ todo' = [todo EXCEPT ![a] = @ \ {c}]
         /\ done' = [done EXCEPT ![a] = @ \cup {c}]
    /\ alone' = [b \in Answers |-> IF b = a THEN alone[b] ELSE "no"]
    /\ sandbox' = [sandbox EXCEPT !.like = FALSE]
    /\ UNCHANGED <<meta, proposal, saved, verdict, replaced>>

\* an exception ends the apply; what was written stays
Raise(a) ==
    /\ \/ todo[a] # {} /\ ~Appliable(First(todo[a])) /\ Goto(a, "apply", "complete")
       \/ pc[a] = "write" /\ ~Writable(First(todo[a])) /\ Goto(a, "write", "complete")
    /\ Report(a, "failed")
    /\ UNCHANGED <<disk, meta, proposal, todo, saved, done, sandbox, alone, replaced>>

Applied(a) ==
    /\ todo[a] = {} /\ Goto(a, "apply", "complete")
    /\ Report(a, "applied")
    /\ UNCHANGED <<disk, meta, proposal, todo, saved, done, sandbox, alone, replaced>>

\* complete_active_run keeps pending_approval, and its applied flag, as it was
Complete(a) ==
    /\ Goto(a, "complete", "end")
    /\ meta' = [meta EXCEPT !.status = "completed"]
    /\ UNCHANGED <<disk, proposal, todo, saved, done, verdict, sandbox, alone, replaced>>

\* the user edits, creates or removes a file
UserEdit(p) ==
    /\ \E k \in {Absent, <<"edit", p>>} : k # disk[p] /\ disk' = [disk EXCEPT ![p] = k]
    /\ replaced' = replaced \cup ({disk[p]} \cap Originals)
    /\ alone' = [a \in Answers |-> "no"]
    /\ sandbox' = [sandbox EXCEPT !.like = FALSE]
    /\ UNCHANGED <<meta, proposal, pc, todo, saved, done, verdict>>

\* a restart ends every thread, and a run that has not asked yet, whose
\* worktree stays; a waiting run still waits, and a request may answer it again
Restart ==
    /\ MayCrash /\ (meta.status = "running" \/ \E a \in Answers : pc[a] \notin {"idle", "end"})
    /\ meta' = [meta EXCEPT !.status = IF @ = "running" THEN "failed" ELSE @]
    /\ pc' = [a \in Answers |-> IF pc[a] = "end" THEN "end" ELSE "idle"]
    /\ todo' = [a \in Answers |-> {}]
    /\ alone' = [a \in Answers |-> "no"]
    /\ verdict' = [a \in Answers |-> IF pc[a] = "end" THEN verdict[a] ELSE "none"]
    /\ UNCHANGED <<disk, proposal, saved, done, sandbox, replaced>>

Step(a) ==
    \/ Allow(a) \/ Deny(a) \/ Validate(a) \/ Backup(a) \/ Write(a) \/ Raise(a)
    \/ Applied(a) \/ Complete(a)

Next ==
    \/ CreateWorktree \/ CheckInSandbox \/ AskApproval
    \/ (\E a \in Answers : Step(a)) \/ (\E p \in Edited : UserEdit(p)) \/ Restart

Spec == Init /\ [][Next]_vars

(***************************************************************************)
(* Properties                                                              *)
(***************************************************************************)
OnDisk(k, d) == \E p \in Paths : d[p] = k

\* An original file disappears from the repository only if the user replaced
\* it or a copy of it is in a backup directory: not by a failed apply, a second
\* answer, or a crash between the copy and the write.
OriginalsAreKept ==
    [][\A k \in Originals : OnDisk(k, disk) /\ ~OnDisk(k, disk')
          => k \in saved \cup replaced']_vars

\* A proposal that validated is applied to the end unless somebody else wrote
\* meanwhile or two of its changes are incompatible: validation and apply
\* agree on everything else.
\* The sandbox agrees with both: what it found valid is applied, however its
\* changes relate, and what would apply is not called risky.
ValidatedApplies ==
    /\ \A a \in Answers : verdict[a] = "failed" /\ alone[a] # "no" =>
          ~Compatible(proposal) /\ alone[a] # "foretold"
    /\ sandbox.stage = "checked" /\ sandbox.like /\ Compatible(proposal)
         /\ ValidationStatus(proposal, disk) = "valid" => sandbox.status = "valid"

\* "applied" means that the repository shows every change of the proposal,
\* unless somebody else wrote since.
Shows(c) ==
    CASE c.op \in {"modify", "create"} -> disk[Resolved[c.path]] = <<"new", c.path>>
      [] c.op = "delete" -> ~Exists(disk, c.path)
      [] c.op = "rename" -> ~Exists(disk, c.path) /\ Exists(disk, c.to)

AppliedShows ==
    \A a \in Answers : verdict[a] = "applied" /\ alone[a] # "no" /\ Compatible(proposal)
        => \A c \in proposal : Shows(c)

\* No apply overwrites a file it should create: whatever interleaves, a change
\* other than a modification leaves every other existing file in place.
Untouched ==
    [][\A a \in Answers, p \in Paths :
          pc[a] = "write" /\ pc'[a] = "apply" /\ disk[p] # disk'[p]
            => \E c \in todo[a] : \/ p = Resolved[c.path]
                                  \/ c.op = "rename" /\ p = Resolved[c.to] /\ disk[p] = Absent]_vars

\* A proposal is applied at most once ("This proposal has already been
\* applied.").
AppliedOnce == \A a, b \in Answers : verdict[a] = "applied" /\ verdict[b] = "applied" => a = b

=============================================================================
