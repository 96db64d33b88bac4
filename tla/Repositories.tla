---------------------------- MODULE Repositories ----------------------------
(***************************************************************************)
(* The requests that open a repository (POST /repo/open) or write to it    *)
(* (POST /git/checkout, /git/branch, /git/commit, /git/push), each in a    *)
(* thread of its own: the subprocesses of git they start one after another *)
(* on one checkout, the id of the open that is current, and the file       *)
(* active-repository.json.  Nothing locks the checkout: another request    *)
(* may run between two of its subprocesses.                                *)
(*                                                                         *)
(* git is external: a branch is the set of the commits it contains, and    *)
(* one subprocess is one step.  The same checkout may be opened through    *)
(* its provider or by its path; "plain" is a directory without git.        *)
(***************************************************************************)
EXTENDS Naturals, FiniteSets, Functions

CONSTANTS
    Requests,    \* the requests, each of which does one job
    Branches,    \* names of branches
    Plans,       \* what the requests may ask for: a job each, see JobSpace
    Origin,      \* what origin holds at first: a set of commits per branch
    Moving,      \* bound: the branches others push to
    MaxCommits   \* bound: the commits ever made

Opens == {"open_provider", "open_local", "open_plain"}
JobSpace ==
    [op : {"open_provider", "checkout", "push"}, branch : Branches]
      \cup [op : {"open_local"}, branch : Branches \cup {"current"}]
      \cup {[op |-> "open_plain", branch |-> "none"]}
      \cup [op : {"branch"}, branch : Branches, from : Branches, switch : BOOLEAN]
      \cup {[op |-> "commit", branch |-> "current"]}

ASSUME RepositoriesAssumption ==
    /\ Plans \subseteq [Requests -> JobSpace] /\ "none" \notin Requests
    /\ "current" \notin Branches   \* it stands for no branch given
    /\ "main" \in DOMAIN Origin /\ DOMAIN Origin \subseteq Branches
    /\ \A b \in DOMAIN Origin : Origin[b] \subseteq 1..MaxCommits
    /\ Moving \subseteq DOMAIN Origin
    /\ MaxCommits \in Nat

VARIABLES
    remote,    \* the branches of origin
    repo,      \* the checkout: its branches, what it knows of origin's, the one
               \* that is checked out, and whether there are edits and staged edits
    pc, job,   \* per request: the subprocess or call it is at, and what it asks for
    answer,    \* per request: what its response says
    current,   \* _active_request_id
    active,    \* active-repository.json
    newest,    \* history: the last request that asked to open a repository
    late,      \* history: did it ask while another was writing the active one?
    missed,    \* history: per request, was its branch missing when it looked?
    alone      \* history: per request, has nobody else written to the checkout since it began?

vars == <<remote, repo, pc, job, answer, current, active, newest, late, missed, alone>>

None == "none"
NoAnswer == [ok |-> FALSE, branch |-> None, commits |-> {}]
NoRepo == [exists |-> FALSE, local |-> <<>>, tracking |-> <<>>, head |-> None,
           edited |-> FALSE, staged |-> FALSE]

Clone(from) == [exists |-> TRUE, local |-> [b \in {"main"} |-> from[b]], tracking |-> from,
                head |-> "main", edited |-> FALSE, staged |-> FALSE]

Init ==
    /\ remote = Origin
    /\ repo \in {NoRepo, [Clone(Origin) EXCEPT !.edited = TRUE]}
    /\ pc = [r \in Requests |-> "start"]
    /\ job \in Plans
    /\ answer = [r \in Requests |-> NoAnswer]
    /\ current = None /\ active = NoAnswer
    /\ newest = None /\ late = FALSE
    /\ missed = [r \in Requests |-> FALSE]
    /\ alone = [r \in Requests |-> TRUE]

Goto(r, from, to) == pc[r] = from /\ pc' = [pc EXCEPT ![r] = to]
Branch(r) == job[r].branch
Asks(r, ops) == job[r].op \in ops

git == <<remote, repo, alone>>
opening == <<current, active, newest, late>>

\* a subprocess that changes the checkout disturbs every other request at work
Writes(r, new) ==
    /\ repo' = new
    /\ alone' = [q \in Requests |-> alone[q] /\ (q = r \/ pc[q] = "start")]

(***************************************************************************)
(* Opening                                                                 *)
(***************************************************************************)
\* open_repository: mark_repository_open_request_current comes first
Open(r) ==
    /\ Asks(r, Opens)
    /\ Goto(r, "start", CASE Asks(r, {"open_provider"}) -> "find"
                          [] Asks(r, {"open_local"}) /\ Branch(r) # "current" -> "verify"
                          [] Asks(r, {"open_local"}) /\ Branch(r) = "current" -> "name"
                          [] OTHER -> "check")
    /\ Asks(r, {"open_local"}) => repo.exists
    /\ current' = r
    /\ newest' = r
    /\ late' = \E q \in Requests : pc[q] = "write"
    /\ UNCHANGED <<git, job, answer, active, missed>>

Find(r) ==
    /\ Goto(r, "find", IF repo.exists THEN "fetch" ELSE "clone")
    /\ UNCHANGED <<git, job, answer, opening, missed>>

\* the second of two clones finds the directory and fails
CloneRepository(r) ==
    /\ Goto(r, "clone", "fetch") /\ ~repo.exists
    /\ Writes(r, Clone(remote))
    /\ UNCHANGED <<remote, job, answer, opening, missed>>

\* git fetch --all --prune
Fetch(r) ==
    /\ Goto(r, "fetch", "verify")
    /\ Writes(r, [repo EXCEPT !.tracking = remote])
    /\ UNCHANGED <<remote, job, answer, opening, missed>>

\* mutant: a branch counts as existing only when it is the one checked out
OnlyCurrentCounts(b) == b = repo.head

HasLocal(b) == b \in DOMAIN repo.local

\* a branch that is missing here is looked for on origin by _checkout_branch,
\* and is an error to _checkout_local_branch and to checkout_branch
Verify(r) ==
    /\ \/ HasLocal(Branch(r)) /\ Goto(r, "verify", "checkout")
       \/ ~HasLocal(Branch(r)) /\ Asks(r, {"open_provider"}) /\ Goto(r, "verify", "lsRemote")
    /\ missed' = [missed EXCEPT ![r] = Branch(r) \notin DOMAIN repo.local]
    /\ UNCHANGED <<git, job, answer, opening>>

LsRemote(r) ==
    /\ Goto(r, "lsRemote", "force") /\ Branch(r) \in DOMAIN remote
    /\ UNCHANGED <<git, job, answer, opening, missed>>

AfterCheckout(r) == IF Asks(r, {"open_local"}) THEN "name" ELSE "head"

\* mutant: the exit status of git checkout is not looked at
CheckoutUnchecked(r) ==
    /\ Goto(r, "checkout", AfterCheckout(r))
    /\ \E b \in {repo.head, Branch(r)} : Writes(r, [repo EXCEPT !.head = b])
    /\ UNCHANGED <<remote, job, answer, opening, missed>>

\* git checkout: edits are carried over, or git refuses
Checkout(r) ==
    /\ Goto(r, "checkout", AfterCheckout(r))
    /\ Writes(r, [repo EXCEPT !.head = Branch(r)])
    /\ UNCHANGED <<remote, job, answer, opening, missed>>

\* git show-ref, and git checkout -B branch origin/branch: the branch is made,
\* or moved if it exists by now
CheckoutForced(r) ==
    /\ Goto(r, "force", "head") /\ Branch(r) \in DOMAIN repo.tracking
    /\ LET b == Branch(r) IN
       Writes(r, [repo EXCEPT !.head = b,
                     !.local = [c \in DOMAIN @ \cup {b} |->
                                  IF c = b THEN repo.tracking[b] ELSE @[c]]])
    /\ missed' = [missed EXCEPT ![r] = FALSE]
    /\ UNCHANGED <<remote, job, answer, opening>>

\* git rev-parse of HEAD (or of the new branch), git branch --show-current: an
\* open by path reads the name first, the others the commit
ReadHead(r) ==
    /\ Goto(r, "head", CASE Asks(r, {"open_provider", "commit"}) -> "name"
                         [] Asks(r, {"open_local"}) -> "check"
                         [] OTHER -> "done")
    /\ answer' = [answer EXCEPT
          ![r].commits = repo.local[IF Asks(r, {"branch"}) THEN Branch(r) ELSE repo.head],
          ![r].branch = IF Asks(r, {"branch", "checkout"}) THEN Branch(r) ELSE @,
          ![r].ok = Asks(r, {"branch", "checkout"})]
    /\ UNCHANGED <<git, job, opening, missed>>

Name(r) ==
    /\ Goto(r, "name", CASE Asks(r, {"open_provider"}) -> "check"
                         [] Asks(r, {"open_local"}) -> "head"
                         [] OTHER -> "done")
    /\ answer' = [answer EXCEPT ![r].branch = repo.head, ![r].ok = Asks(r, {"commit"})]
    /\ UNCHANGED <<git, job, opening, missed>>

(***************************************************************************)
(* The active repository                                                   *)
(***************************************************************************)
\* _set_active_from_response: an open that is not current any more is skipped
Check(r) ==
    /\ Goto(r, "check", IF current = r THEN "write" ELSE "clear")
    /\ answer' = [answer EXCEPT ![r].ok = TRUE]
    /\ UNCHANGED <<git, job, opening, missed>>

\* set_active_repository
SetActive(r) ==
    /\ Goto(r, "write", "clear")
    /\ active' = answer[r]
    /\ UNCHANGED <<git, job, answer, current, newest, late, missed>>

\* mutant: whoever ends clears the request that is current
ClearAnyway(r) ==
    /\ Goto(r, "clear", "done")
    /\ current' = None
    /\ UNCHANGED <<git, job, answer, active, newest, late, missed>>

\* clear_repository_open_request, in the finally clause
Clear(r) ==
    /\ Goto(r, "clear", "done")
    /\ current' = IF current = r THEN None ELSE current
    /\ UNCHANGED <<git, job, answer, active, newest, late, missed>>

(***************************************************************************)
(* The other writes                                                        *)
(***************************************************************************)
GitCheckout(r) ==
    /\ Asks(r, {"checkout"}) /\ repo.exists
    /\ Goto(r, "start", "verify")
    /\ UNCHANGED <<git, job, answer, opening, missed>>

\* create_branch: git refuses a branch that was made since it looked
CreateBranch(r) ==
    /\ Asks(r, {"branch"}) /\ repo.exists
    /\ Branch(r) \notin DOMAIN repo.local
    /\ \/ Goto(r, "start", "create") /\ UNCHANGED git
       \/ /\ Goto(r, "create", "head") /\ job[r].from \in DOMAIN repo.local
          /\ Writes(r, [repo EXCEPT
                !.local = [b \in DOMAIN @ \cup {Branch(r)} |->
                             IF b = Branch(r) THEN @[job[r].from] ELSE @[b]],
                !.head = IF job[r].switch THEN Branch(r) ELSE @])
          /\ UNCHANGED remote
    /\ UNCHANGED <<job, answer, opening, missed>>

\* commit_changes: git add --all, if it is wanted; a commit needs something staged
Stage(r) ==
    /\ Asks(r, {"commit"}) /\ repo.exists
    /\ Goto(r, "start", "commit")
    /\ \/ Writes(r, [repo EXCEPT !.staged = @ \/ repo.edited, !.edited = FALSE])
       \/ UNCHANGED <<repo, alone>>
    /\ UNCHANGED <<remote, job, answer, opening, missed>>

Made == UNION (Range(repo.local) \cup Range(repo.tracking) \cup Range(remote))
Fresh == CHOOSE c \in (1..MaxCommits) \ Made : TRUE

Commit(r) ==
    /\ Goto(r, "commit", "head") /\ repo.staged
    /\ (1..MaxCommits) \ Made # {}
    /\ Writes(r, [repo EXCEPT !.local[repo.head] = @ \cup {Fresh}, !.staged = FALSE])
    /\ UNCHANGED <<remote, job, answer, opening, missed>>

\* git push: origin takes a branch only when it holds what origin has
Push(r) ==
    /\ Asks(r, {"push"}) /\ repo.exists /\ Branch(r) \in DOMAIN repo.local
    /\ Goto(r, "start", "done")
    /\ LET b == Branch(r) IN
         /\ b \in DOMAIN remote => remote[b] \subseteq repo.local[b]
         /\ remote' = [c \in DOMAIN remote \cup {b} |-> IF c = b THEN repo.local[b] ELSE remote[c]]
         /\ Writes(r, [repo EXCEPT !.tracking = [c \in DOMAIN @ \cup {b} |->
                                                    IF c = b THEN repo.local[b] ELSE @[c]]])
         /\ answer' = [answer EXCEPT ![r] = [ok |-> TRUE, branch |-> b, commits |-> repo.local[b]]]
    /\ UNCHANGED <<job, opening, missed>>

(***************************************************************************)
(* Failures, and what happens outside the requests                         *)
(***************************************************************************)
\* a subprocess fails, is refused, lacks its approval or times out: an open
\* still clears its mark
Working == {"find", "clone", "fetch", "verify", "lsRemote", "checkout", "force", "head",
            "name", "create", "commit", "start", "check", "write"}

Fail(r) ==
    /\ pc[r] \in Working /\ ~(pc[r] = "start" /\ Asks(r, Opens))
    /\ pc' = [pc EXCEPT ![r] = IF Asks(r, Opens) THEN "clear" ELSE "done"]
    /\ answer' = [answer EXCEPT ![r] = NoAnswer]
    /\ missed' = [missed EXCEPT ![r] = FALSE]
    /\ alone' = [alone EXCEPT ![r] = TRUE]
    /\ UNCHANGED <<remote, repo, job, opening>>

\* somebody pushes a commit to origin
OriginMoves(b) ==
    /\ (1..MaxCommits) \ Made # {}
    /\ remote' = [remote EXCEPT ![b] = @ \cup {Fresh}]
    /\ UNCHANGED <<repo, pc, job, answer, opening, missed, alone>>

\* the worker stops: every request at work is lost, and so is the mark
Restart ==
    /\ \E r \in Requests : pc[r] \notin {"start", "done"}
    /\ pc' = [r \in Requests |-> IF pc[r] = "start" THEN "start" ELSE "done"]
    /\ answer' = [r \in Requests |-> IF pc[r] = "done" THEN answer[r] ELSE NoAnswer]
    /\ current' = None
    /\ UNCHANGED <<git, job, active, newest, late, missed>>

Step(r) ==
    \/ Open(r) \/ Find(r) \/ CloneRepository(r) \/ Fetch(r) \/ Verify(r) \/ LsRemote(r)
    \/ Checkout(r) \/ CheckoutForced(r) \/ ReadHead(r) \/ Name(r)
    \/ Check(r) \/ SetActive(r) \/ Clear(r)
    \/ GitCheckout(r) \/ CreateBranch(r) \/ Stage(r) \/ Commit(r) \/ Push(r)
    \/ Fail(r)

Next ==
    \/ \E r \in Requests : Step(r)
    \/ Restart
    \/ \E b \in Moving : OriginMoves(b)

Spec == Init /\ [][Next]_vars

(***************************************************************************)
(* Properties                                                              *)
(***************************************************************************)
\* When no open is at work, the active repository is what the newest of them
\* opened, if it succeeded: an older one that ends later does not take it back
\* ("Skipping active repository update for stale open request"), and does not
\* take the mark away either; except when the newest began while the other,
\* already found current, was writing the file.
Opening(r) == Asks(r, Opens) /\ pc[r] \notin {"start", "done"}

ActiveIsNewest ==
    (newest # None /\ ~late /\ (\A r \in Requests : ~Opening(r)))
      => (answer[newest].ok => active = answer[newest])

\* A branch of the checkout never loses a commit: only git checkout -B moves
\* one, and _checkout_branch gives it only a branch that was missing; except
\* when another request makes that branch between the look and the checkout.
KeepsCommits ==
    [][\A b \in DOMAIN repo.local :
          \/ b \in DOMAIN repo'.local /\ repo.local[b] \subseteq repo'.local[b]
          \/ \E r \in Requests : pc[r] = "force" /\ pc'[r] = "head" /\ missed[r] /\ b = Branch(r)]_vars

\* A request that nobody disturbs answers with the branch that was asked for,
\* and with the commits it really has.
AnswersTell ==
    \A r \in Requests : pc[r] = "done" /\ answer[r].ok /\ alone[r] /\ ~Asks(r, {"open_plain"}) =>
        /\ answer[r].branch = IF Branch(r) = "current" THEN repo.head ELSE Branch(r)
        /\ answer[r].commits = repo.local[answer[r].branch]
=============================================================================
