---------------------------- MODULE ThreadContext ----------------------------
(***************************************************************************)
(* What one conversation remembers, and what a run of it is shown.         *)
(*                                                                         *)
(* start_run and stream_run (services/agent_run_coordinator.py) expand a   *)
(* request from the sidecar file of its thread, remember its task there,   *)
(* let the graph load and pack a context, and save the thread context when *)
(* the run ends or waits.  The sidecar is read and rewritten in place with *)
(* no lock, by every run of the conversation; the context service keeps    *)
(* one cache for all runs of the worker.                                   *)
(*                                                                         *)
(* A request carries no history of its own (the client of the API does not *)
(* send one), makes at most one kind of reference to earlier turns, and    *)
(* asks about one repository.  The text of a file is the stamp of the      *)
(* write that left it; stamps only grow, and no file of high signal is     *)
(* deleted.                                                                *)
(***************************************************************************)
EXTENDS ContextPacker

CONSTANTS
    Drivers,    \* threads that run requests of the conversation
    RepoFiles,  \* per repository the conversation is about, its paths
    HighSignal, \* paths the context service always reads
    Requests,   \* [task, repo, refers, names, edit, web, broad, open]
    Models,     \* profiles the user may configure
    Size(_, _), \* length of a path's text as a write left it
    MaxRuns,    \* bound: requests made
    MaxUpsets,  \* bound: writes of the user, deletions of the thread and restarts
    MaxStamp,   \* bound: per path, the writes of it
    ToRead      \* bound: per repository, the paths a run reads, in order

Paths == Range(PathOrder)
NoTask == "no task"

ASSUME ThreadContextAssumption ==
    /\ Requests # {}
    /\ \A q \in Requests : q.repo \in DOMAIN RepoFiles /\ q.task # NoTask
    /\ \A r \in DOMAIN RepoFiles : RepoFiles[r] \subseteq Paths /\ ToRead[r] \in Seq(RepoFiles[r])
    /\ MaxStamp \in [Paths -> Nat \ {0}]
    /\ \A p \in Paths : \A stamp \in 1..MaxStamp[p] : Size(p, stamp) \in Nat
    /\ \A m \in Models : m.window \in Nat /\ m.output \in Nat

VARIABLES
    disk,       \* per path, the stamp of its text
    sidecar,    \* the thread's context file
    cache,      \* the packets the context service keeps
    run,        \* per driver, the run it has in hand
    asked,      \* the tasks and repositories asked for, in order
    left,       \* bound: requests still to come
    upsets,     \* bound: upsets still to come
    quiet       \* no two runs overlapped and no crash cut one short

vars == <<disk, sidecar, cache, run, asked, left, upsets, quiet>>

Nothing == [task |-> NoTask, files |-> <<>>]

\* the sidecar: absent, truncated by a write under way, or kept
Missing == [state |-> "missing"]
Torn == [state |-> "torn"]
Kept(repo, first, last, recent) ==
    [state |-> "kept", repo |-> repo, first |-> first, last |-> last, recent |-> recent]

HighFiles(repo) == RepoFiles[repo] \cap HighSignal
StampsOf(paths) == [p \in paths |-> disk[p]]

NoRun ==
    [at |-> "idle", ask |-> CHOOSE q \in Requests : TRUE, given |-> Nothing, draft |-> Missing,
     key |-> <<>>, since |-> <<>>, texts |-> <<>>,
     seen |-> <<>>, read |-> <<>>, target |-> {}, proposal |-> "none", errors |-> {},
     resumed |-> FALSE]

At(d, phase) == run[d].at = phase
Repo(d) == run[d].ask.repo

(***************************************************************************)
(* reading the sidecar                                                     *)
(***************************************************************************)
Readable == sidecar.state = "kept"

\* mutant: the repository the sidecar is about is not compared
AnyRepo(repo) == Readable

\* _load_durable_context: only what was kept about this repository
Durable(repo) == Readable /\ sidecar.repo = repo

Recent(repo) == IF Durable(repo) THEN sidecar.recent ELSE <<>>

FirstOf(files, n) == SubSeq(files, 1, Least(n, Len(files)))

\* expand_anaphoric_task
SameTask(q) == IF Durable(q.repo) /\ sidecar.last # q.task THEN sidecar.last ELSE NoTask

\* expand_referent_task
ReferredFiles(q) == IF q.names = {} THEN FirstOf(Recent(q.repo), 4) ELSE <<>>

\* expand_implicit_edit_target
WorkingFiles(q) == IF q.names = {} /\ q.edit THEN FirstOf(Recent(q.repo), 2) ELSE <<>>

\* expand_first_turn_recall
FirstTask(q) == IF Readable /\ sidecar.first # q.task THEN sidecar.first ELSE NoTask

\* what the request is given of the conversation
Given(q) ==
    [task |-> CASE q.refers = "same" -> SameTask(q) [] q.refers = "first" -> FirstTask(q) [] OTHER -> NoTask,
     files |-> IF q.refers = "recent" THEN ReferredFiles(q) ELSE WorkingFiles(q)]

(***************************************************************************)
(* writing the sidecar                                                     *)
(***************************************************************************)
\* remember_last_user_task keeps the other fields, when it can read them
Remembered(q) ==
    IF Readable
    THEN [sidecar EXCEPT !.first = IF @ = NoTask THEN q.task ELSE @, !.last = q.task]
    ELSE Kept(q.repo, q.task, q.task, <<>>)

\* _add_recent_file: the newest first, each file once
AddRecent(recent, path) == IF Contains(recent, path) THEN recent ELSE FirstOf(<<path>> \o recent, 12)

\* build_thread_context and update_thread_context: what was kept about this
\* repository, with the files the run read and proposed to change
Updated(d) ==
    Kept(Repo(d), NoTask,
         IF Durable(Repo(d)) THEN sidecar.last ELSE NoTask,
         FoldLeft(AddRecent, Recent(Repo(d)), run[d].read \o SetToSeq(run[d].target)))

\* mutant: the first task is a field of the context like the others
DropsFirst(draft) == draft

\* _save_durable_context: the first task is taken over from the file
WithFirst(draft) == [draft EXCEPT !.first = IF Readable THEN sidecar.first ELSE NoTask]

(***************************************************************************)
(* a run begins: start_run up to the graph                                 *)
(***************************************************************************)
Alone(d) == \A e \in Drivers \ {d} : run[e].at \in {"idle", "waiting"}

\* the references are read, one after another, from a file nobody locks
Understands(d) == \E q \in Requests :
    /\ At(d, "idle") /\ left > 0
    /\ run' = [run EXCEPT ![d] = [NoRun EXCEPT !.at = "understood", !.ask = q, !.given = Given(q)]]
    /\ asked' = Append(asked, [task |-> q.task, repo |-> q.repo]) /\ left' = left - 1
    /\ quiet' = (quiet /\ Alone(d))
    /\ UNCHANGED <<disk, sidecar, cache, upsets>>

RemembersRead(d) ==
    /\ At(d, "understood")
    /\ run' = [run EXCEPT ![d].at = "remembering", ![d].given = Nothing,
                          ![d].draft = Remembered(run[d].ask)]
    /\ UNCHANGED <<disk, sidecar, cache, asked, left, upsets, quiet>>

\* write_text: opening the file for writing empties it
Truncates(d, before, after) ==
    /\ At(d, before)
    /\ sidecar' = Torn
    /\ run' = [run EXCEPT ![d].at = after]
    /\ UNCHANGED <<disk, cache, asked, left, upsets, quiet>>

Remembers(d) ==
    /\ At(d, "remembers")
    /\ sidecar' = run[d].draft
    /\ run' = [run EXCEPT ![d].at = "started", ![d].draft = Missing]
    /\ UNCHANGED <<disk, cache, asked, left, upsets, quiet>>

(***************************************************************************)
(* ContextService.collect                                                  *)
(***************************************************************************)
\* mutant: a packet is kept for the repository, whatever its files hold now
NoFingerprint(repo) == <<>>

\* _high_signal_fingerprint
Fingerprint(repo) == StampsOf(HighFiles(repo))

\* the key of the cache
Keys(d) ==
    /\ At(d, "started")
    /\ run' = [run EXCEPT ![d].at = "keyed", ![d].key = Fingerprint(Repo(d)),
                          ![d].since = StampsOf(HighFiles(Repo(d)))]
    /\ UNCHANGED <<disk, sidecar, cache, asked, left, upsets, quiet>>

Hits(d) == {e \in cache : e.repo = Repo(d) /\ e.key = run[d].key}

\* _with_fresh_thread_scope: the files of the packet, and Recent(Repo(d)) of now
CollectHit(d) == \E e \in Hits(d) :
    /\ At(d, "keyed")
    /\ run' = [run EXCEPT ![d].at = "working", ![d].texts = e.texts,
                          ![d].key = <<>>, ![d].since = <<>>]
    /\ UNCHANGED <<disk, sidecar, cache, asked, left, upsets, quiet>>

\* no entry, one older than ttl_seconds, a refresh asked for, or an active
\* repository that changed since another run collected: always possible
CollectMiss(d) ==
    /\ At(d, "keyed")
    /\ run' = [run EXCEPT ![d].at = "collecting"]
    /\ UNCHANGED <<disk, sidecar, cache, asked, left, upsets, quiet>>

\* _read_named_files, one file after another
ReadsNamed(d) == \E p \in HighFiles(Repo(d)) \ DOMAIN run[d].texts :
    /\ At(d, "collecting")
    /\ run' = [run EXCEPT ![d].texts = WithText(@, p, disk[p])]
    /\ UNCHANGED <<disk, sidecar, cache, asked, left, upsets, quiet>>

Collected(d) ==
    /\ At(d, "collecting") /\ DOMAIN run[d].texts = HighFiles(Repo(d))
    /\ cache' = {e \in cache : e.repo # Repo(d) \/ e.key # run[d].key}
                \cup {[repo |-> Repo(d), key |-> run[d].key, texts |-> run[d].texts]}
    /\ run' = [run EXCEPT ![d].at = "working", ![d].key = <<>>, ![d].since = <<>>]
    /\ UNCHANGED <<disk, sidecar, asked, left, upsets, quiet>>

(***************************************************************************)
(* the work of the run, as far as the context sees it                      *)
(***************************************************************************)
\* read_file: its text is evidence of the run
Reads(d) ==
    LET next == Len(run[d].read) + 1
        path == ToRead[Repo(d)][next]
    IN  /\ At(d, "working") /\ run[d].proposal = "none" /\ next <= Len(ToRead[Repo(d)])
        /\ run' = [run EXCEPT ![d].read = Append(@, path), ![d].seen = WithText(@, path, disk[path])]
        /\ UNCHANGED <<disk, sidecar, cache, asked, left, upsets, quiet>>

Proposes(d) == \E p \in Range(run[d].read) :
    /\ At(d, "working") /\ run[d].ask.edit /\ run[d].proposal = "none"
    /\ run' = [run EXCEPT ![d].proposal = "proposed", ![d].target = {p}]
    /\ UNCHANGED <<disk, sidecar, cache, asked, left, upsets, quiet>>

Stale(d) == \E p \in run[d].target : disk[p] # run[d].seen[p]

\* apply_change_set: a target written since it was read is refused
Applies(d) == \E p \in run[d].target :
    /\ At(d, "working") /\ run[d].proposal = "proposed" /\ ~Stale(d) /\ disk[p] < MaxStamp[p]
    /\ disk' = [disk EXCEPT ![p] = @ + 1]
    /\ run' = [run EXCEPT ![d].proposal = "applied"]
    /\ UNCHANGED <<sidecar, cache, asked, left, upsets, quiet>>

Refused(d) ==
    /\ At(d, "working") /\ run[d].proposal = "proposed" /\ Stale(d)
    /\ run' = [run EXCEPT ![d].errors = {"stale"}]
    /\ UNCHANGED <<disk, sidecar, cache, asked, left, upsets, quiet>>

\* what the packer reads of the run, and the length of every text it collects:
\* what the run read replaces what the context service had
PackState(d) ==
    [repairs |-> 0, errors |-> run[d].errors, validated |-> run[d].errors # {},
     proposal |-> run[d].proposal, task |-> run[d].ask, supervised |-> FALSE, git |-> FALSE,
     read |-> Range(run[d].read), proposed |-> run[d].target, active |-> {}, open |-> run[d].ask.open,
     changed |-> IF run[d].proposal = "applied" THEN run[d].target ELSE {},
     waiting |-> run[d].resumed]

Evidence(d) ==
    [p \in DOMAIN run[d].seen \cup DOMAIN run[d].texts |->
        IF p \in DOMAIN run[d].seen THEN run[d].seen[p] ELSE run[d].texts[p]]
Sizes(d) == [p \in DOMAIN Evidence(d) |-> Size(p, Evidence(d)[p])]

\* refresh_context_pack_update and refresh_context_pack_for_core pack after every
\* step of the run: what they would show a model now
Shown(d, model) == Packet(PackState(d), KindOf(PackState(d)), Sizes(d), model)

(***************************************************************************)
(* the run ends, or waits: update_thread_context                           *)
(***************************************************************************)
UpdateLoads(d) ==
    /\ At(d, "working") /\ ~(run[d].resumed /\ run[d].proposal = "proposed")
    /\ run' = [run EXCEPT ![d].at = "updating", ![d].draft = Updated(d)]
    /\ UNCHANGED <<disk, sidecar, cache, asked, left, upsets, quiet>>

UpdateReadsFirst(d) ==
    /\ At(d, "updating")
    /\ run' = [run EXCEPT ![d].at = "saving", ![d].draft = WithFirst(@)]
    /\ UNCHANGED <<disk, sidecar, cache, asked, left, upsets, quiet>>

\* wait_for_approval for a proposal not applied yet, else the end of the run
Rests(d) ==
    IF run[d].proposal = "proposed" /\ run[d].errors = {}
    THEN [run[d] EXCEPT !.at = "waiting", !.draft = Missing] ELSE NoRun

UpdateSaves(d) ==
    /\ At(d, "saves")
    /\ sidecar' = run[d].draft
    /\ run' = [run EXCEPT ![d] = Rests(d)]
    /\ UNCHANGED <<disk, cache, asked, left, upsets, quiet>>

\* resume_approval: the graph goes on with the context it had
Resumes(d) ==
    /\ At(d, "waiting")
    /\ run' = [run EXCEPT ![d].at = "working", ![d].resumed = TRUE]
    /\ quiet' = (quiet /\ Alone(d))
    /\ UNCHANGED <<disk, sidecar, cache, asked, left, upsets>>

\* a resumed run that waits again saves nothing
WaitsAgain(d) ==
    /\ At(d, "working") /\ run[d].resumed /\ run[d].proposal = "proposed" /\ run[d].errors = {}
    /\ run' = [run EXCEPT ![d].at = "waiting"]
    /\ UNCHANGED <<disk, sidecar, cache, asked, left, upsets, quiet>>

\* a run that raises, and a resumed run that was cancelled, save nothing
Fails(d) ==
    /\ run[d].at \in {"keyed", "collecting", "working"}
    /\ run' = [run EXCEPT ![d] = NoRun]
    /\ UNCHANGED <<disk, sidecar, cache, asked, left, upsets, quiet>>

(***************************************************************************)
(* around the runs                                                         *)
(***************************************************************************)
Upset == upsets > 0 /\ upsets' = upsets - 1

UserWrites == \E p \in Paths :
    /\ disk[p] < MaxStamp[p]
    /\ disk' = [disk EXCEPT ![p] = @ + 1] /\ Upset
    /\ UNCHANGED <<sidecar, cache, run, asked, left, quiet>>

\* delete_thread removes the sidecar too
DeletesThread ==
    /\ sidecar # Missing
    /\ sidecar' = Missing /\ asked' = <<>> /\ Upset
    /\ quiet' = (quiet /\ \A d \in Drivers : At(d, "idle"))
    /\ UNCHANGED <<disk, cache, run, left>>

\* the worker dies and starts again: waiting runs and the files remain
Restarts ==
    /\ \E d \in Drivers : ~At(d, "idle")
    /\ run' = [d \in Drivers |-> IF At(d, "waiting") THEN run[d] ELSE NoRun]
    /\ cache' = {} /\ Upset
    /\ quiet' = FALSE
    /\ UNCHANGED <<disk, sidecar, asked, left>>

Init ==
    /\ disk = [p \in Paths |-> 1]
    /\ sidecar = Missing /\ cache = {}
    /\ run = [d \in Drivers |-> NoRun] /\ asked = <<>> /\ left = MaxRuns /\ upsets = MaxUpsets /\ quiet = TRUE

StartStep(d) ==
    \/ Understands(d) \/ RemembersRead(d)
    \/ Truncates(d, "remembering", "remembers") \/ Remembers(d)
CollectStep(d) == Keys(d) \/ CollectHit(d) \/ CollectMiss(d) \/ ReadsNamed(d) \/ Collected(d)
WorkStep(d) == Reads(d) \/ Proposes(d) \/ Applies(d) \/ Refused(d)
EndStep(d) ==
    \/ UpdateLoads(d) \/ UpdateReadsFirst(d) \/ Truncates(d, "saving", "saves") \/ UpdateSaves(d)
    \/ Resumes(d) \/ WaitsAgain(d) \/ Fails(d)

Next ==
    \/ \E d \in Drivers : StartStep(d) \/ CollectStep(d) \/ WorkStep(d) \/ EndStep(d)
    \/ UserWrites \/ DeletesThread \/ Restarts

Spec == Init /\ [][Next]_vars

(***************************************************************************)
(* Properties                                                              *)
(***************************************************************************)
\* No run is handed files of a repository it is not about, whatever runs of
\* other repositories wrote into the sidecar of the conversation meanwhile.
OnlyOwnFiles == \A d \in Drivers :
    /\ Range(run[d].given.files) \subseteq RepoFiles[Repo(d)]
    /\ At(d, "keyed") => Range(Recent(Repo(d))) \subseteq RepoFiles[Repo(d)]

\* nobody has the sidecar open, or has read it and not yet written it back
AtRest == \A d \in Drivers : run[d].at \notin
    {"understood", "remembering", "remembers", "updating", "saving", "saves"}

\* A conversation whose runs never overlapped, and that no crash cut short,
\* remembers its first task and, unless it changed the repository, its last.
RemembersTheConversation ==
    quiet /\ AtRest /\ asked # <<>> =>
        /\ sidecar.first = asked[1].task
        /\ (\A i \in DOMAIN asked : asked[i].repo = asked[1].repo) => sidecar.last = Last(asked).task

\* A text of high signal is never older than the collecting of the context,
\* though files change while they are read and packets come from the cache.
PacketIsFresh == [][
    \A d \in Drivers : run[d].at \in {"keyed", "collecting"} /\ run'[d].at = "working" =>
        \A p \in HighFiles(Repo(d)) : run'[d].texts[p] >= run[d].since[p]]_vars

IsWhole(files, p, size) == p \in DOMAIN files.text /\ files.text[p] = size

\* The texts of a packet fit the budget of the model, a file whose text is cut
\* or left out is reported as omitted and summarised, and a file the run is
\* about, a readme or an entry file that is left without any text leaves none to
\* the files that come after it.
PackFits == \A d \in Drivers, model \in Models : At(d, "working") =>
    LET shown == Shown(d, model)
        files == shown.files
    IN  /\ MapThenSumSet(LAMBDA p : files.text[p], DOMAIN files.text) <= Available(model, shown.kind)
        /\ \A p \in shown.collected :
             IsWhole(files, p, Sizes(d)[p]) \/ p \in files.omitted \cap files.summaries
        /\ \A p \in shown.collected \ DOMAIN files.text :
             HighPriority(p, shown.explicit) =>
                 \A q \in DOMAIN files.text : Precedes(q, p, shown.explicit)
=============================================================================
