------------------------- MODULE ThreadContext_proofs -------------------------
(***************************************************************************)
(* What is proved of a conversation for any drivers, repositories, files,   *)
(* requests, writes and restarts: the context a run is given is no older    *)
(* than its collecting, the files it is handed are of its repository, and a *)
(* conversation whose runs do not overlap remembers what was asked.         *)
(***************************************************************************)
EXTENDS ThreadContext, TLAPS, WellFoundedInduction, FiniteSetTheorems, SequenceTheorems

RunFields == {"at", "ask", "given", "draft", "key", "since", "texts", "seen", "read", "target",
              "proposal", "errors", "resumed"}

Shaped ==
    /\ DOMAIN run = Drivers
    /\ \A d \in Drivers : DOMAIN run[d] = RunFields /\ run[d].ask \in Requests

\* the step is one of this driver's run
Turn(d) ==
    /\ DOMAIN run' = Drivers /\ DOMAIN run'[d] = RunFields /\ run'[d].ask \in Requests
    /\ \A e \in Drivers \ {d} : run'[e] = run[e]

\* and leaves what the run collects, and the files it is about, alone
KeepsTexts(d) == /\ run'[d].key = run[d].key /\ run'[d].since = run[d].since
                 /\ run'[d].texts = run[d].texts
KeepsFiles(d) == run'[d].read = run[d].read /\ run'[d].target = run[d].target
KeepsDraft(d) == run'[d].given = run[d].given /\ run'[d].draft = run[d].draft

\* nothing is collected, read or proposed yet, or any more
Blank(r) ==
    /\ r.given = Nothing /\ r.draft = Missing /\ r.texts = <<>> /\ r.read = <<>> /\ r.target = {}

----------------------------------------------------------------------------
\* what each step does to the run it is a step of
LEMMA NoRunIsBlank == DOMAIN NoRun = RunFields /\ NoRun.at = "idle" /\ NoRun.ask \in Requests /\ Blank(NoRun)
<1>1. (CHOOSE q \in Requests : TRUE) \in Requests
  BY ThreadContextAssumption
<1> QED BY <1>1 DEF NoRun, RunFields, Blank

LEMMA UnderstandsMoves ==
    ASSUME Shaped, NEW d \in Drivers, Understands(d)
    PROVE  \E q \in Requests :
             /\ Turn(d) /\ run'[d].at = "understood" /\ run'[d].ask = q /\ run'[d].given = Given(q)
             /\ Blank([run'[d] EXCEPT !.given = Nothing])
             /\ asked' = Append(asked, [task |-> q.task, repo |-> q.repo])
<1>1. PICK q \in Requests :
        /\ run' = [run EXCEPT ![d] = [NoRun EXCEPT !.at = "understood", !.ask = q, !.given = Given(q)]]
        /\ asked' = Append(asked, [task |-> q.task, repo |-> q.repo])
  BY DEF Understands
<1> DEFINE new == [NoRun EXCEPT !.at = "understood", !.ask = q, !.given = Given(q)]
<1>2. /\ DOMAIN new = RunFields /\ new.at = "understood" /\ new.ask = q /\ new.given = Given(q)
      /\ new.draft = NoRun.draft /\ new.texts = NoRun.texts /\ new.read = NoRun.read
      /\ new.target = NoRun.target
  BY NoRunIsBlank DEF RunFields
<1>3. run' = [run EXCEPT ![d] = new]
  BY <1>1
<1> HIDE DEF new
<1>4. Turn(d) /\ run'[d] = new
  BY <1>2, <1>3 DEF Shaped, Turn
<1>5. Blank([run'[d] EXCEPT !.given = Nothing])
  BY <1>2, <1>4, NoRunIsBlank DEF Blank, RunFields
<1> QED BY <1>1, <1>2, <1>4, <1>5

LEMMA StartMoves ==
    ASSUME Shaped, NEW d \in Drivers
    PROVE  /\ RemembersRead(d) => /\ Turn(d) /\ At(d, "understood") /\ run'[d].at = "remembering"
                                  /\ run'[d].ask = run[d].ask /\ run'[d].given = Nothing
                                  /\ run'[d].draft = Remembered(run[d].ask)
                                  /\ KeepsTexts(d) /\ KeepsFiles(d)
           /\ Remembers(d) => /\ Turn(d) /\ At(d, "remembers") /\ run'[d].at = "started"
                              /\ run'[d].ask = run[d].ask /\ run'[d].given = run[d].given
                              /\ run'[d].draft = Missing /\ KeepsTexts(d) /\ KeepsFiles(d)
           /\ \A before, after : Truncates(d, before, after) =>
                /\ Turn(d) /\ At(d, before) /\ run'[d].at = after /\ run'[d].ask = run[d].ask
                /\ KeepsDraft(d) /\ KeepsTexts(d) /\ KeepsFiles(d)
<1>1. ASSUME RemembersRead(d)
      PROVE  /\ Turn(d) /\ At(d, "understood") /\ run'[d].at = "remembering"
             /\ run'[d].ask = run[d].ask /\ run'[d].given = Nothing
             /\ run'[d].draft = Remembered(run[d].ask) /\ KeepsTexts(d) /\ KeepsFiles(d)
  BY <1>1 DEF RemembersRead, Shaped, Turn, RunFields, KeepsTexts, KeepsFiles
<1>2. ASSUME Remembers(d)
      PROVE  /\ Turn(d) /\ At(d, "remembers") /\ run'[d].at = "started"
             /\ run'[d].ask = run[d].ask /\ run'[d].given = run[d].given
             /\ run'[d].draft = Missing /\ KeepsTexts(d) /\ KeepsFiles(d)
  BY <1>2 DEF Remembers, Shaped, Turn, RunFields, KeepsTexts, KeepsFiles
<1>3. ASSUME NEW before, NEW after, Truncates(d, before, after)
      PROVE  /\ Turn(d) /\ At(d, before) /\ run'[d].at = after /\ run'[d].ask = run[d].ask
             /\ KeepsDraft(d) /\ KeepsTexts(d) /\ KeepsFiles(d)
  BY <1>3 DEF Truncates, Shaped, Turn, RunFields, KeepsDraft, KeepsTexts, KeepsFiles
<1> QED BY <1>1, <1>2, <1>3

LEMMA CollectMoves ==
    ASSUME Shaped, NEW d \in Drivers
    PROVE  /\ CollectStep(d) => /\ Turn(d) /\ run'[d].ask = run[d].ask
                                /\ KeepsDraft(d) /\ KeepsFiles(d)
                                /\ run[d].at \in {"started", "keyed", "collecting"}
                                /\ run'[d].at \in {"keyed", "collecting", "working"}
           /\ Keys(d) => /\ At(d, "started") /\ run'[d].at = "keyed" /\ run'[d].texts = run[d].texts
                         /\ run'[d].key = Fingerprint(Repo(d))
                         /\ run'[d].since = StampsOf(HighFiles(Repo(d)))
           /\ CollectHit(d) => /\ run'[d].at = "working" /\ At(d, "keyed")
                               /\ \E e \in Hits(d) : run'[d].texts = e.texts
           /\ CollectMiss(d) => At(d, "keyed") /\ run'[d].at = "collecting" /\ KeepsTexts(d)
           /\ ReadsNamed(d) => /\ At(d, "collecting") /\ run'[d].at = "collecting"
                               /\ run'[d].key = run[d].key /\ run'[d].since = run[d].since
                               /\ \E p \in HighFiles(Repo(d)) \ DOMAIN run[d].texts :
                                    run'[d].texts = WithText(run[d].texts, p, disk[p])
           /\ Collected(d) => At(d, "collecting") /\ run'[d].at = "working" /\ run'[d].texts = run[d].texts
<1>1. ASSUME Keys(d)
      PROVE  /\ Turn(d) /\ run'[d].ask = run[d].ask /\ KeepsDraft(d) /\ KeepsFiles(d)
             /\ At(d, "started") /\ run'[d].at = "keyed" /\ run'[d].texts = run[d].texts
             /\ run'[d].key = Fingerprint(Repo(d)) /\ run'[d].since = StampsOf(HighFiles(Repo(d)))
  BY <1>1 DEF Keys, Shaped, Turn, RunFields, KeepsDraft, KeepsFiles
<1>2. ASSUME CollectHit(d)
      PROVE  /\ Turn(d) /\ run'[d].ask = run[d].ask /\ KeepsDraft(d) /\ KeepsFiles(d)
             /\ At(d, "keyed") /\ run'[d].at = "working" /\ \E e \in Hits(d) : run'[d].texts = e.texts
  BY <1>2 DEF CollectHit, Shaped, Turn, RunFields, KeepsDraft, KeepsFiles
<1>3. ASSUME CollectMiss(d)
      PROVE  /\ Turn(d) /\ run'[d].ask = run[d].ask /\ KeepsDraft(d) /\ KeepsFiles(d)
             /\ At(d, "keyed") /\ run'[d].at = "collecting" /\ KeepsTexts(d)
  BY <1>3 DEF CollectMiss, Shaped, Turn, RunFields, KeepsDraft, KeepsFiles, KeepsTexts
<1>4. ASSUME ReadsNamed(d)
      PROVE  /\ Turn(d) /\ run'[d].ask = run[d].ask /\ KeepsDraft(d) /\ KeepsFiles(d)
             /\ At(d, "collecting") /\ run'[d].at = "collecting"
             /\ run'[d].key = run[d].key /\ run'[d].since = run[d].since
             /\ \E p \in HighFiles(Repo(d)) \ DOMAIN run[d].texts :
                  run'[d].texts = WithText(run[d].texts, p, disk[p])
  BY <1>4 DEF ReadsNamed, Shaped, Turn, RunFields, KeepsDraft, KeepsFiles, At
<1>5. ASSUME Collected(d)
      PROVE  /\ Turn(d) /\ run'[d].ask = run[d].ask /\ KeepsDraft(d) /\ KeepsFiles(d)
             /\ At(d, "collecting") /\ run'[d].at = "working" /\ run'[d].texts = run[d].texts
  BY <1>5 DEF Collected, Shaped, Turn, RunFields, KeepsDraft, KeepsFiles
<1>6. CollectStep(d) => /\ Turn(d) /\ run'[d].ask = run[d].ask /\ KeepsDraft(d) /\ KeepsFiles(d)
                        /\ run[d].at \in {"started", "keyed", "collecting"}
                        /\ run'[d].at \in {"keyed", "collecting", "working"}
  BY <1>1, <1>2, <1>3, <1>4, <1>5 DEF CollectStep, At
<1> QED BY <1>1, <1>2, <1>3, <1>4, <1>5, <1>6

LEMMA WorkMoves ==
    ASSUME Shaped, NEW d \in Drivers, WorkStep(d)
    PROVE  /\ Turn(d) /\ At(d, "working") /\ run'[d].at = "working" /\ run'[d].ask = run[d].ask
           /\ KeepsDraft(d)
           /\ \/ KeepsFiles(d)
              \/ /\ Len(run[d].read) + 1 <= Len(ToRead[Repo(d)]) /\ run'[d].target = run[d].target
                 /\ run'[d].read = Append(run[d].read, ToRead[Repo(d)][Len(run[d].read) + 1])
              \/ run'[d].read = run[d].read /\ \E p \in Range(run[d].read) : run'[d].target = {p}
<1>1. CASE Reads(d)
  BY <1>1 DEF Reads, Shaped, Turn, RunFields, KeepsDraft, At
<1>2. CASE Proposes(d)
  BY <1>2 DEF Proposes, Shaped, Turn, RunFields, KeepsDraft, At
<1>3. CASE Applies(d)
  BY <1>3 DEF Applies, Shaped, Turn, RunFields, KeepsDraft, KeepsFiles, At
<1>4. CASE Refused(d)
  BY <1>4 DEF Refused, Shaped, Turn, RunFields, KeepsDraft, KeepsFiles, At
<1> QED BY <1>1, <1>2, <1>3, <1>4 DEF WorkStep

\* a run that is over leaves nothing
Over(d) == Turn(d) /\ run'[d].at = "idle" /\ Blank(run'[d])

LEMMA EndMoves ==
    ASSUME Shaped, NEW d \in Drivers
    PROVE  /\ UpdateLoads(d) => /\ Turn(d) /\ At(d, "working") /\ run'[d].at = "updating"
                                /\ run'[d].ask = run[d].ask /\ run'[d].given = run[d].given
                                /\ run'[d].draft = Updated(d) /\ KeepsFiles(d)
           /\ UpdateReadsFirst(d) => /\ Turn(d) /\ At(d, "updating") /\ run'[d].at = "saving"
                                     /\ run'[d].ask = run[d].ask /\ run'[d].given = run[d].given
                                     /\ run'[d].draft = WithFirst(run[d].draft) /\ KeepsFiles(d)
           /\ UpdateSaves(d) => /\ At(d, "saves")
                                /\ \/ /\ Turn(d) /\ run'[d].at = "waiting" /\ run'[d].ask = run[d].ask
                                      /\ run'[d].given = run[d].given /\ run'[d].draft = Missing
                                      /\ KeepsFiles(d)
                                   \/ Over(d)
           /\ Resumes(d) \/ WaitsAgain(d) =>
                /\ Turn(d) /\ run[d].at \in {"waiting", "working"} /\ run'[d].at \in {"waiting", "working"}
                /\ run'[d].ask = run[d].ask /\ KeepsDraft(d) /\ KeepsFiles(d)
           /\ Fails(d) => Over(d) /\ run[d].at \in {"keyed", "collecting", "working"}
<1>1. ASSUME run' = [run EXCEPT ![d] = NoRun] PROVE Over(d)
  BY <1>1, NoRunIsBlank DEF Shaped, Turn, Over
<1>2. ASSUME UpdateLoads(d)
      PROVE  /\ Turn(d) /\ At(d, "working") /\ run'[d].at = "updating"
             /\ run'[d].ask = run[d].ask /\ run'[d].given = run[d].given
             /\ run'[d].draft = Updated(d) /\ KeepsFiles(d)
  BY <1>2 DEF UpdateLoads, Shaped, Turn, RunFields, KeepsFiles
<1>3. ASSUME UpdateReadsFirst(d)
      PROVE  /\ Turn(d) /\ At(d, "updating") /\ run'[d].at = "saving"
             /\ run'[d].ask = run[d].ask /\ run'[d].given = run[d].given
             /\ run'[d].draft = WithFirst(run[d].draft) /\ KeepsFiles(d)
  BY <1>3 DEF UpdateReadsFirst, Shaped, Turn, RunFields, KeepsFiles
<1>4. ASSUME UpdateSaves(d)
      PROVE  /\ At(d, "saves")
             /\ \/ /\ Turn(d) /\ run'[d].at = "waiting" /\ run'[d].ask = run[d].ask
                   /\ run'[d].given = run[d].given /\ run'[d].draft = Missing
                   /\ KeepsFiles(d)
                \/ Over(d)
  <2>1. CASE Rests(d) = NoRun
    BY <1>1, <1>4, <2>1 DEF UpdateSaves
  <2>2. CASE Rests(d) = [run[d] EXCEPT !.at = "waiting", !.draft = Missing]
    <3>1. /\ DOMAIN Rests(d) = RunFields /\ Rests(d).at = "waiting" /\ Rests(d).ask = run[d].ask
          /\ Rests(d).given = run[d].given /\ Rests(d).draft = Missing
          /\ Rests(d).read = run[d].read /\ Rests(d).target = run[d].target
      BY <2>2 DEF Shaped, RunFields
    <3>2. run' = [run EXCEPT ![d] = Rests(d)] /\ At(d, "saves")
      BY <1>4 DEF UpdateSaves
    <3>3. run'[d] = Rests(d) /\ DOMAIN run' = Drivers /\ \A e \in Drivers \ {d} : run'[e] = run[e]
      BY <3>2 DEF Shaped
    <3> QED BY <3>1, <3>2, <3>3 DEF Turn, KeepsFiles, Shaped
  <2> QED BY <2>1, <2>2 DEF Rests
<1>5. ASSUME Resumes(d) \/ WaitsAgain(d)
      PROVE  /\ Turn(d) /\ run[d].at \in {"waiting", "working"} /\ run'[d].at \in {"waiting", "working"}
             /\ run'[d].ask = run[d].ask /\ KeepsDraft(d) /\ KeepsFiles(d)
  BY <1>5 DEF Resumes, WaitsAgain, At, Shaped, Turn, RunFields, KeepsFiles, KeepsDraft
<1>6. ASSUME Fails(d) PROVE Over(d) /\ run[d].at \in {"keyed", "collecting", "working"}
  BY <1>1, <1>6 DEF Fails
<1> QED BY <1>2, <1>3, <1>4, <1>5, <1>6

\* a step is one of a run, of the user, of the conversation or of the worker
LEMMA RunStepMoves ==
    ASSUME Shaped, NEW d \in Drivers, StartStep(d) \/ CollectStep(d) \/ WorkStep(d) \/ EndStep(d)
    PROVE  Turn(d)
BY UnderstandsMoves, StartMoves, CollectMoves, WorkMoves, EndMoves DEF StartStep, EndStep, Over

LEMMA ShapedStarts == Init => Shaped
BY NoRunIsBlank DEF Init, Shaped

LEMMA RestartMoves ==
    ASSUME Shaped, Restarts
    PROVE  DOMAIN run' = Drivers /\ \A d \in Drivers : (run'[d] = run[d] /\ At(d, "waiting")) \/ run'[d] = NoRun
BY DEF Restarts, Shaped

LEMMA ShapedSteps == Shaped /\ [Next]_vars => Shaped'
<1> SUFFICES ASSUME Shaped, [Next]_vars PROVE Shaped'
  OBVIOUS
<1>1. ASSUME NEW d \in Drivers, Turn(d) PROVE Shaped'
  BY <1>1 DEF Shaped, Turn
<1>2. CASE Restarts
  BY <1>2, RestartMoves, NoRunIsBlank DEF Shaped
<1>3. CASE run' = run
  BY <1>3 DEF Shaped
<1> QED BY <1>1, <1>2, <1>3, RunStepMoves DEF Next, UserWrites, DeletesThread, vars

----------------------------------------------------------------------------
\* what was read for a context: the stamps its key was made of, which the files
\* still had or have left behind, and texts no older than they
Collecting(r, stamps) ==
    LET high == HighFiles(r.ask.repo)
    IN  /\ r.at \in {"understood", "remembering", "remembers", "started", "keyed"} => r.texts = <<>>
        /\ r.at \in {"keyed", "collecting"} =>
             /\ r.key = r.since /\ r.since \in [high -> Nat]
             /\ \A p \in high : r.since[p] <= stamps[p]
        /\ r.at = "collecting" =>
             /\ DOMAIN r.texts \subseteq high
             /\ \A p \in DOMAIN r.texts : r.texts[p] >= r.since[p]

\* a packet of the cache is no older than its key
Packed(e) == \A p \in HighFiles(e.repo) : e.texts[p] >= e.key[p]

FreshInv ==
    /\ Shaped
    /\ disk \in [Paths -> Nat]
    /\ \A e \in cache : Packed(e)
    /\ \A d \in Drivers : Collecting(run[d], disk)

LEMMA HighIsPath == ASSUME NEW q \in Requests PROVE HighFiles(q.repo) \subseteq Paths
BY ThreadContextAssumption DEF HighFiles

\* texts and keys keep their meaning while stamps grow
LEMMA OthersCollect ==
    ASSUME FreshInv, NEW d \in Drivers, Turn(d), disk' \in [Paths -> Nat], \A p \in Paths : disk[p] <= disk'[p],
           \A e \in cache' : Packed(e), Collecting(run'[d], disk')
    PROVE  FreshInv'
<1>1. Shaped'
  BY DEF FreshInv, Shaped, Turn
<1>2. ASSUME NEW e \in Drivers \ {d} PROVE Collecting(run'[e], disk')
  <2>1. run'[e] = run[e] /\ HighFiles(run[e].ask.repo) \subseteq Paths /\ Collecting(run[e], disk)
    BY HighIsPath DEF FreshInv, Shaped, Turn
  <2>2. ASSUME NEW p \in HighFiles(run[e].ask.repo), run[e].since \in [HighFiles(run[e].ask.repo) -> Nat],
               run[e].since[p] <= disk[p]
        PROVE  run[e].since[p] <= disk'[p]
    BY <2>1, <2>2 DEF FreshInv
  <2> QED BY <2>1, <2>2 DEF Collecting
<1>3. \A e \in Drivers : Collecting(run'[e], disk')
  BY <1>2
<1> QED BY <1>1, <1>3 DEF FreshInv

LEMMA FreshStarts == Init => FreshInv
<1> SUFFICES ASSUME Init PROVE FreshInv
  OBVIOUS
<1>1. Shaped /\ cache = {} /\ disk \in [Paths -> Nat]
  BY ShapedStarts DEF Init
<1>2. \A d \in Drivers : run[d].at = "idle"
  BY NoRunIsBlank DEF Init
<1> QED BY <1>1, <1>2 DEF FreshInv, Collecting

\* the steps of a run that collect nothing
LEMMA OtherStepsFresh ==
    ASSUME FreshInv, NEW d \in Drivers, StartStep(d) \/ WorkStep(d) \/ EndStep(d)
    PROVE  FreshInv' /\ ~(run[d].at \in {"keyed", "collecting"} /\ run'[d].at = "working")
<1>1. Shaped
  BY DEF FreshInv
<1>2. Turn(d) /\ UNCHANGED cache
  BY <1>1, RunStepMoves DEF StartStep, WorkStep, EndStep, Understands, RemembersRead, Truncates, Remembers,
        Reads, Proposes, Applies, Refused, UpdateLoads, UpdateReadsFirst, UpdateSaves, Resumes, WaitsAgain, Fails
<1>3. disk' \in [Paths -> Nat] /\ \A p \in Paths : disk[p] <= disk'[p]
  <2>1. CASE Applies(d)
    <3>1. PICK p : disk' = [disk EXCEPT ![p] = @ + 1]
      BY <2>1 DEF Applies
    <3>2. disk' = [q \in Paths |-> IF q = p THEN disk[q] + 1 ELSE disk[q]]
      BY <3>1 DEF FreshInv
    <3> QED BY <3>2 DEF FreshInv
  <2>2. CASE disk' = disk
    BY <2>2 DEF FreshInv
  <2> QED BY <2>1, <2>2 DEF StartStep, WorkStep, EndStep, Understands, RemembersRead, Truncates, Remembers,
        Reads, Proposes, Refused, UpdateLoads, UpdateReadsFirst, UpdateSaves, Resumes, WaitsAgain, Fails
<1>4. \/ run'[d].at \in {"understood", "remembering", "remembers", "started"} /\ run'[d].texts = <<>>
      \/ run'[d].at \notin {"understood", "remembering", "remembers", "started", "keyed", "collecting"}
  <2>1. CASE StartStep(d)
    <3>1. CASE Understands(d)
      <4>1. PICK q : run'[d].at = "understood" /\ DOMAIN run'[d] = RunFields
                     /\ Blank([run'[d] EXCEPT !.given = Nothing])
        BY <1>1, <3>1, UnderstandsMoves DEF Turn
      <4> QED BY <4>1 DEF Blank, RunFields
    <3>2. CASE ~Understands(d)
      <4>1. run[d].at \in {"understood", "remembering", "remembers"}
            /\ run'[d].at \in {"remembering", "remembers", "started"} /\ KeepsTexts(d)
        BY <1>1, <2>1, <3>2, StartMoves DEF StartStep, At
      <4> QED BY <4>1 DEF KeepsTexts, FreshInv, Collecting
    <3> QED BY <3>1, <3>2
  <2>2. CASE WorkStep(d)
    BY <1>1, <2>2, WorkMoves
  <2>3. CASE EndStep(d)
    <3>1. CASE Truncates(d, "saving", "saves")
      BY <1>1, <3>1, StartMoves
    <3>2. CASE ~Truncates(d, "saving", "saves")
      BY <1>1, <2>3, <3>2, EndMoves DEF EndStep, Over
    <3> QED BY <3>1, <3>2
  <2> QED BY <2>1, <2>2, <2>3
<1>5. Collecting(run'[d], disk')
  BY <1>4 DEF Collecting
<1>6. FreshInv'
  BY <1>2, <1>3, <1>5, OthersCollect DEF FreshInv
<1>7. ~(run[d].at \in {"keyed", "collecting"} /\ run'[d].at = "working")
  <2>1. CASE StartStep(d)
    <3>1. CASE Understands(d)
      BY <1>1, <3>1, UnderstandsMoves
    <3>2. CASE ~Understands(d)
      BY <1>1, <2>1, <3>2, StartMoves DEF StartStep
    <3> QED BY <3>1, <3>2
  <2>2. CASE WorkStep(d)
    BY <1>1, <2>2, WorkMoves DEF At
  <2>3. CASE EndStep(d)
    <3>1. CASE Truncates(d, "saving", "saves")
      BY <1>1, <3>1, StartMoves
    <3>2. CASE ~Truncates(d, "saving", "saves")
      BY <1>1, <2>3, <3>2, EndMoves DEF EndStep, Over, At
    <3> QED BY <3>1, <3>2
  <2> QED BY <2>1, <2>2, <2>3
<1> QED BY <1>6, <1>7

\* collecting: from the stamps of the key to the texts
LEMMA CollectStepsFresh ==
    ASSUME FreshInv, NEW d \in Drivers, CollectStep(d)
    PROVE  /\ FreshInv'
           /\ run[d].at \in {"keyed", "collecting"} /\ run'[d].at = "working" =>
                \A p \in HighFiles(Repo(d)) : run'[d].texts[p] >= run[d].since[p]
<1> DEFINE high == HighFiles(Repo(d))
<1>1. Shaped /\ disk \in [Paths -> Nat] /\ Collecting(run[d], disk) /\ \A e \in cache : Packed(e)
  BY DEF FreshInv
<1>2. Turn(d) /\ run'[d].ask = run[d].ask /\ disk' = disk /\ high \subseteq Paths
  BY <1>1, CollectMoves, HighIsPath
     DEF CollectStep, Keys, CollectHit, CollectMiss, ReadsNamed, Collected, Shaped, Repo
<1>3. \A p \in Paths : disk[p] <= disk'[p]
  BY <1>1, <1>2
<1>4. CASE Keys(d)
  <2>1. At(d, "started") /\ run'[d].at = "keyed" /\ run'[d].texts = run[d].texts
        /\ run'[d].key = StampsOf(high) /\ run'[d].since = StampsOf(high) /\ cache' = cache
    BY <1>1, <1>4, CollectMoves DEF Fingerprint, Keys
  <2>2. StampsOf(high) \in [high -> Nat] /\ \A p \in high : StampsOf(high)[p] <= disk[p]
    BY <1>1, <1>2 DEF StampsOf
  <2>3. Collecting(run'[d], disk')
    BY <1>1, <1>2, <2>1, <2>2 DEF Collecting, Repo, At
  <2> QED BY <1>1, <1>2, <1>3, <2>1, <2>3, OthersCollect
<1>5. CASE CollectHit(d)
  <2>1. PICK e \in Hits(d) : run'[d].texts = e.texts
    BY <1>1, <1>5, CollectMoves
  <2>2. run'[d].at = "working" /\ At(d, "keyed") /\ cache' = cache
    BY <1>1, <1>5, CollectMoves DEF CollectHit
  <2>3. e \in cache /\ e.repo = Repo(d) /\ e.key = run[d].since
    BY <1>1, <2>2 DEF Hits, Collecting, At
  <2>4. \A p \in high : run'[d].texts[p] >= run[d].since[p]
    BY <1>1, <2>1, <2>3 DEF Packed
  <2>5. Collecting(run'[d], disk')
    BY <2>2 DEF Collecting
  <2> QED BY <1>1, <1>2, <1>3, <2>2, <2>4, <2>5, OthersCollect
<1>6. CASE CollectMiss(d)
  <2>1. At(d, "keyed") /\ run'[d].at = "collecting" /\ KeepsTexts(d) /\ cache' = cache
    BY <1>1, <1>6, CollectMoves DEF CollectMiss
  <2>2. DOMAIN (<<>>) = {}
    OBVIOUS
  <2>3. Collecting(run'[d], disk')
    BY <1>1, <1>2, <2>1, <2>2 DEF Collecting, KeepsTexts, At
  <2> QED BY <1>1, <1>2, <1>3, <2>1, <2>3, OthersCollect
<1>7. CASE ReadsNamed(d)
  <2>1. /\ At(d, "collecting") /\ run'[d].at = "collecting" /\ cache' = cache
        /\ run'[d].key = run[d].key /\ run'[d].since = run[d].since
    BY <1>1, <1>7, CollectMoves DEF ReadsNamed
  <2>2. PICK p \in high \ DOMAIN run[d].texts : run'[d].texts = WithText(run[d].texts, p, disk[p])
    BY <1>1, <1>7, CollectMoves
  <2>3. /\ DOMAIN run'[d].texts = DOMAIN run[d].texts \cup {p} /\ run'[d].texts[p] = disk[p]
        /\ \A q \in DOMAIN run[d].texts : run'[d].texts[q] = run[d].texts[q]
    BY <2>2 DEF WithText
  <2>4. run[d].since \in [high -> Nat] /\ run[d].since[p] <= disk[p] /\ disk[p] \in Nat
    BY <1>1, <1>2, <2>1, <2>2 DEF Collecting, At, Repo
  <2>5. DOMAIN run'[d].texts \subseteq high /\ \A q \in DOMAIN run'[d].texts : run'[d].texts[q] >= run'[d].since[q]
    BY <1>1, <2>1, <2>2, <2>3, <2>4 DEF Collecting, At, Repo
  <2>6. Collecting(run'[d], disk')
    BY <1>1, <1>2, <2>1, <2>5 DEF Collecting, At, Repo
  <2> QED BY <1>1, <1>2, <1>3, <2>1, <2>6, OthersCollect
<1>8. CASE Collected(d)
  <2>1. At(d, "collecting") /\ run'[d].at = "working" /\ run'[d].texts = run[d].texts
    BY <1>1, <1>8, CollectMoves
  <2>2. /\ DOMAIN run[d].texts = high
        /\ cache' = {e \in cache : e.repo # Repo(d) \/ e.key # run[d].key}
                      \cup {[repo |-> Repo(d), key |-> run[d].key, texts |-> run[d].texts]}
    BY <1>8 DEF Collected
  <2>3. run[d].key = run[d].since /\ \A p \in high : run[d].texts[p] >= run[d].since[p]
    BY <1>1, <2>1, <2>2 DEF Collecting, At
  <2>4. Packed([repo |-> Repo(d), key |-> run[d].key, texts |-> run[d].texts])
    BY <2>3 DEF Packed
  <2>5. \A e \in cache' : Packed(e)
    BY <1>1, <2>2, <2>4
  <2>6. Collecting(run'[d], disk')
    BY <2>1 DEF Collecting
  <2> QED BY <1>1, <1>2, <1>3, <2>1, <2>3, <2>5, <2>6, OthersCollect
<1> QED BY <1>4, <1>5, <1>6, <1>7, <1>8 DEF CollectStep, At

LEMMA FreshSteps ==
    ASSUME FreshInv, [Next]_vars
    PROVE  /\ FreshInv'
           /\ \A d \in Drivers : run[d].at \in {"keyed", "collecting"} /\ run'[d].at = "working" =>
                \A p \in HighFiles(Repo(d)) : run'[d].texts[p] >= run[d].since[p]
<1>1. Shaped /\ disk \in [Paths -> Nat] /\ Shaped'
  BY ShapedSteps DEF FreshInv
<1>2. ASSUME NEW d \in Drivers, StartStep(d) \/ CollectStep(d) \/ WorkStep(d) \/ EndStep(d)
      PROVE  /\ FreshInv'
             /\ \A e \in Drivers : run[e].at \in {"keyed", "collecting"} /\ run'[e].at = "working" =>
                  \A p \in HighFiles(Repo(e)) : run'[e].texts[p] >= run[e].since[p]
  BY <1>1, <1>2, RunStepMoves, OtherStepsFresh, CollectStepsFresh DEF Turn
<1>3. ASSUME UserWrites
      PROVE  FreshInv' /\ run' = run
  <2>1. PICK p \in Paths : disk' = [disk EXCEPT ![p] = @ + 1]
    BY <1>3 DEF UserWrites
  <2>2. disk' \in [Paths -> Nat] /\ \A q \in Paths : disk[q] <= disk'[q]
    BY <1>1, <2>1
  <2>3. run' = run /\ cache' = cache
    BY <1>3 DEF UserWrites
  <2>4. ASSUME NEW d \in Drivers PROVE Turn(d) /\ Collecting(run'[d], disk')
    <3>1. HighFiles(run[d].ask.repo) \subseteq Paths /\ Collecting(run[d], disk)
      BY HighIsPath DEF FreshInv, Shaped
    <3>2. ASSUME NEW q \in HighFiles(run[d].ask.repo), run[d].since \in [HighFiles(run[d].ask.repo) -> Nat],
                 run[d].since[q] <= disk[q]
          PROVE  run[d].since[q] <= disk'[q]
      BY <1>1, <2>2, <3>1, <3>2
    <3> QED BY <1>1, <2>3, <3>1, <3>2 DEF Collecting, Shaped, Turn
  <2> QED BY <1>1, <2>2, <2>3, <2>4 DEF FreshInv
<1>4. ASSUME DeletesThread \/ UNCHANGED vars PROVE FreshInv' /\ run' = run
  <2>1. run' = run /\ disk' = disk /\ cache' = cache
    BY <1>4 DEF DeletesThread, vars
  <2> QED BY <1>1, <2>1 DEF FreshInv
<1>5. ASSUME Restarts
      PROVE  FreshInv' /\ \A d \in Drivers : run'[d].at # "working"
  <2>1. cache' = {} /\ disk' = disk
    BY <1>5 DEF Restarts
  <2>2. \A d \in Drivers : run'[d].at \in {"waiting", "idle"}
    BY <1>1, <1>5, RestartMoves, NoRunIsBlank DEF At
  <2>3. \A d \in Drivers : Collecting(run'[d], disk')
    BY <2>2 DEF Collecting
  <2> QED BY <1>1, <2>1, <2>2, <2>3 DEF FreshInv
<1> QED BY <1>2, <1>3, <1>4, <1>5 DEF Next

(* Whatever is written, deleted or restarted meanwhile, and whether the packet *)
(* comes from the cache or is read, the texts a run gets are no older than    *)
(* the stamps its collecting began with.                                      *)
THEOREM ContextIsFresh == Spec => PacketIsFresh
<1>1. ASSUME FreshInv, [Next]_vars
      PROVE  [\A d \in Drivers : run[d].at \in {"keyed", "collecting"} /\ run'[d].at = "working" =>
                \A p \in HighFiles(Repo(d)) : run'[d].texts[p] >= run[d].since[p]]_vars
  BY <1>1, FreshSteps
<1>2. FreshInv /\ [Next]_vars => FreshInv'
  BY FreshSteps
<1> QED BY <1>1, <1>2, FreshStarts, PTL DEF Spec, PacketIsFresh
----------------------------------------------------------------------------
\* a sidecar that remembers a conversation: its first task and, while it is
\* about one repository, that repository and the last task
OneRepo(said) == \A i \in DOMAIN said : said[i].repo = said[1].repo

Remembering(s, said) ==
    /\ s = Kept(s.repo, s.first, s.last, s.recent)
    /\ s.first = said[1].task
    /\ OneRepo(said) => s.repo = said[1].repo /\ s.last = said[Len(said)].task

Asked == {[task |-> q.task, repo |-> q.repo] : q \in Requests}

Resting(r) == r.at \in {"idle", "waiting"}
Midway(r) == r.at \in {"understood", "remembering", "remembers", "updating", "saving", "saves"}

\* whoever has the sidecar in hand will leave one that remembers
Talks(d) ==
    /\ At(d, "understood") => Remembering(Remembered(run[d].ask), asked)
    /\ run[d].at \in {"remembering", "remembers", "saving", "saves"} => Remembering(run[d].draft, asked)
    /\ At(d, "updating") => Remembering(WithFirst(run[d].draft), asked)
    /\ ~Midway(run[d]) /\ ~Resting(run[d]) => Remembering(sidecar, asked)

Known(d) == ~At(d, "idle") => \E i \in DOMAIN asked : asked[i].repo = Repo(d)

TalkInv ==
    /\ Shaped
    /\ asked \in Seq(Asked)
    /\ quiet =>
         /\ \A d, e \in Drivers : d # e => Resting(run[d]) \/ Resting(run[e])
         /\ asked = <<>> => sidecar = Missing /\ \A d \in Drivers : At(d, "idle")
         /\ \A d \in Drivers : Known(d) /\ Talks(d)
         /\ asked # <<>> /\ (\A d \in Drivers : Resting(run[d])) => Remembering(sidecar, asked)

LEMMA TalkStarts == Init => TalkInv
<1> SUFFICES ASSUME Init PROVE TalkInv
  OBVIOUS
<1>1. Shaped /\ asked = <<>> /\ sidecar = Missing /\ \A d \in Drivers : run[d].at = "idle"
  BY ShapedStarts, NoRunIsBlank DEF Init
<1> QED BY <1>1 DEF TalkInv, Talks, Known, At, Midway, Resting

\* a step of a run in hand, while everybody else rests
LEMMA TalkKept ==
    ASSUME TalkInv, NEW d \in Drivers, Turn(d), ~At(d, "idle"), UNCHANGED asked,
           quiet' => quiet /\ \A e \in Drivers \ {d} : Resting(run[e]),
           run'[d].ask = run[d].ask \/ run'[d].at = "idle",
           quiet' /\ asked # <<>> => Talks(d)' /\ (Resting(run'[d]) => Remembering(sidecar', asked))
    PROVE  TalkInv'
<1>1. Shaped' /\ asked' \in Seq(Asked)
  BY DEF TalkInv, Shaped, Turn
<1> SUFFICES ASSUME quiet'
             PROVE  /\ \A e, f \in Drivers : e # f => Resting(run'[e]) \/ Resting(run'[f])
                    /\ asked' = <<>> => sidecar' = Missing /\ \A e \in Drivers : At(e, "idle")'
                    /\ \A e \in Drivers : Known(e)' /\ Talks(e)'
                    /\ asked' # <<>> /\ (\A e \in Drivers : Resting(run'[e])) => Remembering(sidecar', asked')
  BY <1>1 DEF TalkInv
<1>2. quiet /\ \A e \in Drivers \ {d} : Resting(run[e]) /\ run'[e] = run[e]
  BY DEF Turn
<1>3. asked # <<>> /\ \A e \in Drivers : Known(e)
  BY <1>2 DEF TalkInv
<1>4. \A e \in Drivers : Known(e)'
  BY <1>2, <1>3 DEF Known, At, Repo
<1>5. \A e \in Drivers \ {d} : Talks(e)'
  BY <1>2 DEF Talks, Resting, Midway, At
<1> QED BY <1>2, <1>3, <1>4, <1>5

\* a request is put down: what will be remembered has it as its last
LEMMA RememberedIsRight ==
    ASSUME asked \in Seq(Asked), NEW q \in Requests,
           IF asked = <<>> THEN sidecar = Missing ELSE Remembering(sidecar, asked)
    PROVE  LET said == Append(asked, [task |-> q.task, repo |-> q.repo])
           IN  said \in Seq(Asked) /\ said # <<>> /\ said[Len(said)].repo = q.repo
               /\ Remembering(Remembered(q), said)
<1> DEFINE a == [task |-> q.task, repo |-> q.repo]
           said == Append(asked, a)
<1>1. a \in Asked /\ a.task = q.task /\ a.repo = q.repo
  BY DEF Asked
<1>2. /\ said \in Seq(Asked) /\ Len(said) = Len(asked) + 1 /\ said[Len(said)] = a
      /\ Len(asked) \in Nat /\ DOMAIN asked = 1..Len(asked) /\ DOMAIN said = 1..(Len(asked) + 1)
      /\ \A i \in 1..Len(asked) : said[i] = asked[i]
  BY <1>1
<1>3. CASE asked = <<>>
  <2>1. ~Readable
    BY <1>3 DEF Readable, Missing
  <2>2. Remembered(q) = Kept(q.repo, q.task, q.task, <<>>)
    BY <2>1 DEF Remembered
  <2>3. Len(said) = 1 /\ said[1] = a
    BY <1>2, <1>3
  <2> HIDE DEF said, a
  <2>4. Remembering(Remembered(q), said)
    BY <1>1, <2>2, <2>3 DEF Remembering, Kept
  <2>5. said # <<>>
    BY <1>2
  <2> QED BY <1>1, <1>2, <2>4, <2>5 DEF said, a
<1>4. CASE asked # <<>>
  <2>1. Remembering(sidecar, asked) /\ Len(asked) >= 1
    BY <1>2, <1>4
  <2>2. Readable /\ asked[1] \in Asked /\ said[1] = asked[1]
    BY <1>2, <2>1 DEF Remembering, Kept, Readable
  <2>3. sidecar.first # NoTask
    BY <2>1, <2>2, ThreadContextAssumption DEF Remembering, Asked
  <2>4. Remembered(q) = Kept(sidecar.repo, sidecar.first, q.task, sidecar.recent)
    <3> DEFINE repo == sidecar.repo first == sidecar.first last == sidecar.last recent == sidecar.recent
    <3>1. sidecar = Kept(repo, first, last, recent)
      BY <2>1 DEF Remembering
    <3>2. Remembered(q) = [[sidecar EXCEPT !.first = first] EXCEPT !.last = q.task]
      BY <2>2, <2>3 DEF Remembered
    <3> HIDE DEF repo, first, last, recent
    <3>3. [Kept(repo, first, last, recent) EXCEPT !.first = first] = Kept(repo, first, last, recent)
      BY DEF Kept
    <3>4. [Kept(repo, first, last, recent) EXCEPT !.last = q.task] = Kept(repo, first, q.task, recent)
      BY DEF Kept
    <3> QED BY <3>1, <3>2, <3>3, <3>4 DEF repo, first, last, recent
  <2>5. OneRepo(said) => OneRepo(asked)
    BY <1>2, <2>1, <2>2 DEF OneRepo
  <2> HIDE DEF said, a
  <2>6. OneRepo(said) => sidecar.repo = said[1].repo
    BY <2>1, <2>2, <2>5 DEF Remembering
  <2>7. Remembering(Remembered(q), said)
    BY <1>1, <1>2, <2>1, <2>2, <2>4, <2>6 DEF Remembering, Kept
  <2>8. said # <<>>
    BY <1>2
  <2> QED BY <1>1, <1>2, <2>7, <2>8 DEF said, a
<1> QED BY <1>3, <1>4

LEMMA UnderstandsTalks == ASSUME TalkInv, NEW d \in Drivers, Understands(d) PROVE TalkInv'
<1>1. Shaped /\ asked \in Seq(Asked) /\ sidecar' = sidecar /\ quiet' = (quiet /\ Alone(d)) /\ At(d, "idle")
  BY DEF TalkInv, Understands
<1>2. PICK q \in Requests :
        /\ Turn(d) /\ run'[d].at = "understood" /\ run'[d].ask = q
        /\ asked' = Append(asked, [task |-> q.task, repo |-> q.repo])
  BY <1>1, UnderstandsMoves
<1>3. Shaped'
  BY <1>1, <1>2 DEF Shaped, Turn
<1>4. asked' \in Seq(Asked)
  BY <1>1, <1>2 DEF Asked
<1>5. ASSUME quiet'
      PROVE  /\ \A e, f \in Drivers : e # f => Resting(run'[e]) \/ Resting(run'[f])
             /\ asked' = <<>> => sidecar' = Missing /\ \A e \in Drivers : At(e, "idle")'
             /\ \A e \in Drivers : Known(e)' /\ Talks(e)'
             /\ asked' # <<>> /\ (\A e \in Drivers : Resting(run'[e])) => Remembering(sidecar', asked')
  <2>1. quiet /\ \A e \in Drivers \ {d} : Resting(run[e]) /\ run'[e] = run[e]
    BY <1>1, <1>2, <1>5 DEF Alone, Resting, Turn
  <2>2. \A e \in Drivers : Resting(run[e])
    BY <1>1, <2>1 DEF Resting, At
  <2>3. IF asked = <<>> THEN sidecar = Missing ELSE Remembering(sidecar, asked)
    BY <2>1, <2>2 DEF TalkInv
  <2>4. asked' # <<>> /\ asked'[Len(asked')].repo = q.repo /\ Remembering(Remembered(q), asked')
    BY <1>1, <1>2, <2>3, RememberedIsRight
  <2>5. Remembered(q)' = Remembered(q)
    BY <1>1 DEF Remembered, Readable
  <2>6. Talks(d)'
    BY <1>1, <1>2, <2>4, <2>5 DEF Talks, At, Midway, Resting, Remembered, Readable
  <2>7. \A e \in Drivers \ {d} : Talks(e)'
    BY <2>1 DEF Talks, Resting, Midway, At
  <2>8. Len(asked') \in DOMAIN asked' /\ (\A i \in DOMAIN asked : i \in DOMAIN asked' /\ asked'[i] = asked[i])
    BY <1>1, <1>2, <1>4, <2>4
  <2>9. \A e \in Drivers : Known(e)'
    BY <1>2, <2>1, <2>4, <2>8 DEF Known, At, Repo, TalkInv
  <2>10. ~Resting(run'[d])
    BY <1>2 DEF Resting
  <2> QED BY <2>1, <2>4, <2>6, <2>7, <2>9, <2>10
<1> QED BY <1>3, <1>4, <1>5 DEF TalkInv

\* the sidecar before anybody takes it in hand
LEMMA AtRestRemembers ==
    ASSUME TalkInv, NEW d \in Drivers, quiet, ~At(d, "idle"), ~Midway(run[d])
    PROVE  /\ asked # <<>>
           /\ ~Resting(run[d]) \/ (\A e \in Drivers \ {d} : Resting(run[e])) => Remembering(sidecar, asked)
BY DEF TalkInv, Talks, Resting

LEMMA OthersRest ==
    ASSUME TalkInv, NEW d \in Drivers, quiet, ~Resting(run[d])
    PROVE  \A e \in Drivers \ {d} : Resting(run[e])
BY DEF TalkInv

\* remembering a task: read, change, empty, write
LEMMA StartTalks ==
    ASSUME TalkInv, NEW d \in Drivers, StartStep(d)
    PROVE  TalkInv'
<1>1. Shaped /\ (quiet /\ asked # <<>> => Talks(d))
  BY DEF TalkInv
<1>2. CASE RemembersRead(d)
  <2>1. /\ Turn(d) /\ At(d, "understood") /\ run'[d].at = "remembering" /\ run'[d].ask = run[d].ask
        /\ run'[d].draft = Remembered(run[d].ask) /\ UNCHANGED <<asked, quiet, sidecar>>
    BY <1>1, <1>2, StartMoves DEF RemembersRead
  <2>2. ~Resting(run[d]) /\ ~Resting(run'[d]) /\ ~At(d, "idle")
    BY <2>1 DEF Resting, At
  <2>3. quiet /\ asked # <<>> => Talks(d)'
    BY <1>1, <2>1 DEF Talks, At, Midway
  <2> QED BY <2>1, <2>2, <2>3, OthersRest, TalkKept
<1>3. CASE Truncates(d, "remembering", "remembers")
  <2>1. /\ Turn(d) /\ At(d, "remembering") /\ run'[d].at = "remembers" /\ run'[d].ask = run[d].ask
        /\ run'[d].draft = run[d].draft /\ UNCHANGED <<asked, quiet>>
    BY <1>1, <1>3, StartMoves DEF Truncates, KeepsDraft
  <2>2. ~Resting(run[d]) /\ ~Resting(run'[d]) /\ ~At(d, "idle")
    BY <2>1 DEF Resting, At
  <2>3. quiet /\ asked # <<>> => Talks(d)'
    BY <1>1, <2>1 DEF Talks, At, Midway
  <2> QED BY <2>1, <2>2, <2>3, OthersRest, TalkKept
<1>4. CASE Remembers(d)
  <2>1. /\ Turn(d) /\ At(d, "remembers") /\ run'[d].at = "started" /\ run'[d].ask = run[d].ask
        /\ sidecar' = run[d].draft /\ UNCHANGED <<asked, quiet>>
    BY <1>1, <1>4, StartMoves DEF Remembers
  <2>2. ~Resting(run[d]) /\ ~Resting(run'[d]) /\ ~At(d, "idle")
    BY <2>1 DEF Resting, At
  <2>3. quiet /\ asked # <<>> => Talks(d)'
    BY <1>1, <2>1 DEF Talks, At, Midway
  <2> QED BY <2>1, <2>2, <2>3, OthersRest, TalkKept
<1> QED BY <1>2, <1>3, <1>4, UnderstandsTalks DEF StartStep

\* the run collects and works without the sidecar
LEMMA WorkTalks ==
    ASSUME TalkInv, NEW d \in Drivers, CollectStep(d) \/ WorkStep(d)
    PROVE  TalkInv'
<1>1. Shaped /\ (quiet /\ asked # <<>> => Talks(d))
  BY DEF TalkInv
<1>2. /\ Turn(d) /\ run'[d].ask = run[d].ask
      /\ run[d].at \in {"started", "keyed", "collecting", "working"}
      /\ run'[d].at \in {"keyed", "collecting", "working"}
  BY <1>1, CollectMoves, WorkMoves DEF At
<1>3. UNCHANGED <<asked, quiet, sidecar>>
  BY DEF CollectStep, Keys, CollectHit, CollectMiss, ReadsNamed, Collected,
         WorkStep, Reads, Proposes, Applies, Refused
<1>4. ~Resting(run[d]) /\ ~Resting(run'[d]) /\ ~At(d, "idle")
  BY <1>2 DEF Resting, At
<1>5. quiet /\ asked # <<>> => Talks(d)'
  BY <1>1, <1>2, <1>3 DEF Talks, At, Midway, Resting
<1> QED BY <1>2, <1>3, <1>4, <1>5, OthersRest, TalkKept

\* what the end of a run will save remembers what the sidecar did
LEMMA UpdatedIsRight ==
    ASSUME asked # <<>>, Remembering(sidecar, asked), NEW d \in Drivers, Known(d), ~At(d, "idle")
    PROVE  Remembering(WithFirst(Updated(d)), asked)
<1>1. Readable
  BY DEF Remembering, Kept, Readable
<1>2. PICK recent : Updated(d) = Kept(Repo(d), NoTask, IF Durable(Repo(d)) THEN sidecar.last ELSE NoTask, recent)
  BY DEF Updated
<1> DEFINE last == IF Durable(Repo(d)) THEN sidecar.last ELSE NoTask
<1>3. WithFirst(Updated(d)) = Kept(Repo(d), sidecar.first, last, recent)
  BY <1>1, <1>2 DEF WithFirst, Kept
<1>4. OneRepo(asked) => Repo(d) = asked[1].repo
  BY DEF Known, OneRepo
<1>5. OneRepo(asked) => last = sidecar.last
  BY <1>1, <1>4 DEF Durable, Remembering
<1> HIDE DEF last
<1> QED BY <1>3, <1>4, <1>5 DEF Remembering, Kept

LEMMA EndTalks ==
    ASSUME TalkInv, NEW d \in Drivers, EndStep(d)
    PROVE  TalkInv'
<1>1. Shaped /\ (quiet /\ asked # <<>> => Talks(d) /\ Known(d))
  BY DEF TalkInv
<1>2. CASE UpdateLoads(d)
  <2>1. /\ Turn(d) /\ At(d, "working") /\ run'[d].at = "updating" /\ run'[d].ask = run[d].ask
        /\ run'[d].draft = Updated(d) /\ UNCHANGED <<asked, quiet, sidecar>>
    BY <1>1, <1>2, EndMoves DEF UpdateLoads
  <2>2. ~Resting(run[d]) /\ ~Resting(run'[d]) /\ ~At(d, "idle") /\ ~Midway(run[d])
    BY <2>1 DEF Resting, Midway, At
  <2>3. quiet /\ asked # <<>> => Remembering(WithFirst(Updated(d)), asked)
    BY <1>1, <2>2, AtRestRemembers, UpdatedIsRight
  <2>4. quiet /\ asked # <<>> => Talks(d)'
    BY <2>1, <2>3 DEF Talks, At, Midway, WithFirst, Readable
  <2> QED BY <2>1, <2>2, <2>4, OthersRest, TalkKept
<1>3. CASE UpdateReadsFirst(d)
  <2>1. /\ Turn(d) /\ At(d, "updating") /\ run'[d].at = "saving" /\ run'[d].ask = run[d].ask
        /\ run'[d].draft = WithFirst(run[d].draft) /\ UNCHANGED <<asked, quiet, sidecar>>
    BY <1>1, <1>3, EndMoves DEF UpdateReadsFirst
  <2>2. ~Resting(run[d]) /\ ~Resting(run'[d]) /\ ~At(d, "idle")
    BY <2>1 DEF Resting, At
  <2>3. quiet /\ asked # <<>> => Talks(d)'
    BY <1>1, <2>1 DEF Talks, At, Midway
  <2> QED BY <2>1, <2>2, <2>3, OthersRest, TalkKept
<1>4. CASE Truncates(d, "saving", "saves")
  <2>1. /\ Turn(d) /\ At(d, "saving") /\ run'[d].at = "saves" /\ run'[d].ask = run[d].ask
        /\ run'[d].draft = run[d].draft /\ UNCHANGED <<asked, quiet>>
    BY <1>1, <1>4, StartMoves DEF Truncates, KeepsDraft
  <2>2. ~Resting(run[d]) /\ ~Resting(run'[d]) /\ ~At(d, "idle")
    BY <2>1 DEF Resting, At
  <2>3. quiet /\ asked # <<>> => Talks(d)'
    BY <1>1, <2>1 DEF Talks, At, Midway
  <2> QED BY <2>1, <2>2, <2>3, OthersRest, TalkKept
<1>5. CASE UpdateSaves(d)
  <2>1. /\ Turn(d) /\ At(d, "saves") /\ sidecar' = run[d].draft /\ UNCHANGED <<asked, quiet>>
        /\ Resting(run'[d]) /\ (run'[d].ask = run[d].ask \/ run'[d].at = "idle")
    BY <1>1, <1>5, EndMoves DEF UpdateSaves, Over, Resting
  <2>2. ~Resting(run[d]) /\ ~At(d, "idle")
    BY <2>1 DEF Resting, At
  <2>3. quiet /\ asked # <<>> => Talks(d)' /\ Remembering(sidecar', asked)
    BY <1>1, <2>1 DEF Talks, At, Midway, Resting
  <2> QED BY <2>1, <2>2, <2>3, OthersRest, TalkKept
<1>6. CASE Resumes(d)
  <2>1. /\ Turn(d) /\ At(d, "waiting") /\ run'[d].at = "working" /\ run'[d].ask = run[d].ask
        /\ UNCHANGED <<asked, sidecar>> /\ quiet' = (quiet /\ Alone(d))
    BY <1>1, <1>6 DEF Resumes, Turn, Shaped, RunFields
  <2>2. ~At(d, "idle") /\ ~Midway(run[d]) /\ ~Resting(run'[d])
    BY <2>1 DEF Midway, Resting, At
  <2>3. quiet' => quiet /\ \A e \in Drivers \ {d} : Resting(run[e])
    BY <2>1 DEF Alone, Resting
  <2>4. quiet' => Remembering(sidecar, asked)
    BY <2>2, <2>3, AtRestRemembers
  <2>5. quiet' => Talks(d)'
    BY <2>1, <2>4 DEF Talks, At, Midway, Resting
  <2> QED BY <2>1, <2>2, <2>3, <2>5, TalkKept
<1>7. CASE WaitsAgain(d) \/ Fails(d)
  <2>1. /\ Turn(d) /\ run[d].at \in {"keyed", "collecting", "working"} /\ Resting(run'[d])
        /\ (run'[d].ask = run[d].ask \/ run'[d].at = "idle") /\ UNCHANGED <<asked, quiet, sidecar>>
    <3>1. CASE WaitsAgain(d)
      BY <1>1, <3>1 DEF WaitsAgain, At, Turn, Shaped, RunFields, Resting
    <3>2. CASE Fails(d)
      BY <1>1, <3>2, EndMoves DEF Fails, Over, Resting
    <3> QED BY <1>7, <3>1, <3>2
  <2>2. ~Resting(run[d]) /\ ~At(d, "idle") /\ ~Midway(run[d])
    BY <2>1 DEF Resting, Midway, At
  <2>3. quiet /\ asked # <<>> => Talks(d)' /\ Remembering(sidecar', asked)
    BY <1>1, <2>1, <2>2 DEF Talks, At, Midway, Resting
  <2> QED BY <2>1, <2>2, <2>3, OthersRest, TalkKept
<1> QED BY <1>2, <1>3, <1>4, <1>5, <1>6, <1>7 DEF EndStep

LEMMA TalkSteps == TalkInv /\ [Next]_vars => TalkInv'
<1> SUFFICES ASSUME TalkInv, [Next]_vars PROVE TalkInv'
  OBVIOUS
<1>1. Shaped'
  BY ShapedSteps DEF TalkInv
<1>2. CASE UserWrites \/ UNCHANGED vars
  <2>1. UNCHANGED <<run, sidecar, asked, quiet>>
    BY <1>2 DEF UserWrites, vars
  <2>2. \A d \in Drivers : Known(d)' = Known(d) /\ Talks(d)' = Talks(d) /\ At(d, "idle")' = At(d, "idle")
    BY <2>1 DEF Known, Talks, At, Repo, Remembered, Readable, WithFirst
  <2> QED BY <1>1, <2>1, <2>2 DEF TalkInv
<1>3. CASE DeletesThread
  <2>1. run' = run /\ sidecar' = Missing /\ asked' = <<>> /\ quiet' = (quiet /\ \A d \in Drivers : At(d, "idle"))
    BY <1>3 DEF DeletesThread
  <2>2. asked' \in Seq(Asked)
    BY <2>1
  <2> QED BY <1>1, <2>1, <2>2 DEF TalkInv, Known, Talks, At, Midway, Resting
<1>4. CASE Restarts
  <2>1. quiet' = FALSE /\ asked' = asked
    BY <1>4 DEF Restarts
  <2> QED BY <1>1, <2>1 DEF TalkInv
<1> QED BY <1>2, <1>3, <1>4, StartTalks, WorkTalks, EndTalks DEF Next

(* A conversation whose runs never overlapped and that no crash cut short      *)
(* remembers its first task and, within one repository, its last, whatever    *)
(* its runs collect, read, propose, apply and fail at.                        *)
THEOREM ConversationIsRemembered == Spec => []RemembersTheConversation
<1>1. TalkInv => RemembersTheConversation
  <2> SUFFICES ASSUME TalkInv, quiet, AtRest, asked # <<>>
               PROVE  /\ sidecar.first = asked[1].task
                      /\ (\A i \in DOMAIN asked : asked[i].repo = asked[1].repo) =>
                           sidecar.last = Last(asked).task
    BY DEF RemembersTheConversation
  <2>1. Remembering(sidecar, asked)
    <3>1. CASE \A d \in Drivers : Resting(run[d])
      BY <3>1 DEF TalkInv
    <3>2. CASE \E d \in Drivers : ~Resting(run[d])
      BY <3>2 DEF TalkInv, Talks, AtRest, Midway
    <3> QED BY <3>1, <3>2
  <2> QED BY <2>1 DEF Remembering, OneRepo, Last
<1> QED BY <1>1, TalkStarts, TalkSteps, PTL DEF Spec
----------------------------------------------------------------------------
\* the natural numbers have a least one of each set of them
LEMMA LeastElement ==
    ASSUME NEW T \in SUBSET Nat, T # {}
    PROVE  \E x \in T : \A y \in T : x <= y
<1> DEFINE R == OpToRel(<, Nat)
<1>1. IsWellFoundedOn(R, Nat)
  BY NatLessThanWellFounded
<1>2. PICK x \in T : \A y \in T : <<y, x>> \notin R
  <2> HIDE DEF R
  <2> QED BY <1>1, WFMin
<1>3. \A y \in T : ~(y < x)
  <2> SUFFICES ASSUME NEW y \in T, y < x PROVE FALSE
    OBVIOUS
  <2>1. <<y, x>> \in Nat \X Nat /\ <<y, x>>[1] < <<y, x>>[2]
    OBVIOUS
  <2>2. <<y, x>> \in R
    BY <2>1 DEF OpToRel
  <2> QED BY <1>2, <2>2
<1> QED BY <1>3

\* induction over the natural numbers, for a set of them
LEMMA NatIsReached ==
    ASSUME NEW T \in SUBSET Nat, 0 \in T, \A n \in T : n + 1 \in T
    PROVE  \A n \in Nat : n \in T
<1> SUFFICES ASSUME Nat \ T # {} PROVE FALSE
  OBVIOUS
<1>1. PICK x \in Nat \ T : \A y \in Nat \ T : x <= y
  <2>1. Nat \ T \in SUBSET Nat
    OBVIOUS
  <2> QED BY <2>1, LeastElement
<1>2. x - 1 \in Nat /\ ~(x <= x - 1)
  BY <1>1
<1>3. x - 1 \in T
  BY <1>1, <1>2
<1> QED BY <1>1, <1>2, <1>3

LEMMA MaxOf ==
    ASSUME NEW n \in Nat, NEW s \in SUBSET (1..n), s # {}
    PROVE  Max(s) \in s /\ \A x \in s : x <= Max(s)
<1> DEFINE T == {n - x : x \in s}
<1>1. PICK t \in T : \A u \in T : t <= u
  <2>1. \A x \in s : n - x \in Nat
    OBVIOUS
  <2>2. T \in SUBSET Nat /\ T # {}
    BY <2>1
  <2> HIDE DEF T
  <2> QED BY <2>2, LeastElement
<1>2. PICK x \in s : t = n - x
  OBVIOUS
<1>3. \A y \in s : n - y \in T /\ y \in Int
  OBVIOUS
<1> HIDE DEF T
<1>4. \A y \in s : x >= y
  BY <1>1, <1>2, <1>3
<1>5. Max(s) \in s /\ \A y \in s : Max(s) >= y
  BY <1>2, <1>4 DEF Max
<1>6. Max(s) \in Int
  BY <1>3, <1>5
<1> QED BY <1>3, <1>5, <1>6

\* h folds g over 1..n from base, the last index last
IsFold(h, base, g, n) == \A s \in SUBSET (1..n) :
    h[s] = IF s = {} THEN base ELSE g[<<h[s \ {Max(s)}], Max(s)>>]

\* there is such a fold, whose values are those of its operation
LEMMA FoldIsDefined ==
    ASSUME NEW V, NEW base \in V, NEW n \in Nat, NEW g \in [V \X (1..n) -> V]
    PROVE  \E h \in [SUBSET (1..n) -> V] : IsFold(h, base, g, n)
<1> DEFINE Defined(k) == \E h \in [SUBSET (1..k) -> V] : \A s \in SUBSET (1..k) :
                           h[s] = IF s = {} THEN base ELSE g[<<h[s \ {Max(s)}], Max(s)>>]
           T == {k \in Nat : k <= n => Defined(k)}
<1>1. 0 \in T
  <2> DEFINE h == [s \in SUBSET (1..0) |-> base]
  <2>1. h \in [SUBSET (1..0) -> V] /\ \A s \in SUBSET (1..0) : s = {}
    OBVIOUS
  <2>2. \A s \in SUBSET (1..0) : h[s] = IF s = {} THEN base ELSE g[<<h[s \ {Max(s)}], Max(s)>>]
    BY <2>1
  <2> HIDE DEF h
  <2> QED BY <2>1, <2>2
<1>2. ASSUME NEW k \in T PROVE k + 1 \in T
  <2> HIDE DEF Defined
  <2>0. k \in Nat /\ k + 1 \in Nat /\ (k <= n => Defined(k))
    OBVIOUS
  <2> SUFFICES ASSUME k + 1 <= n PROVE Defined(k + 1)
    BY <2>0
  <2>1a. Defined(k)
    BY <2>0
  <2>1. PICK h \in [SUBSET (1..k) -> V] : \A s \in SUBSET (1..k) :
          h[s] = IF s = {} THEN base ELSE g[<<h[s \ {Max(s)}], Max(s)>>]
    BY <2>1a DEF Defined
  <2> DEFINE m == k + 1
             f == [s \in SUBSET (1..m) |-> IF m \in s THEN g[<<h[s \ {m}], m>>] ELSE h[s]]
  <2>2. \A s \in SUBSET (1..m) : (m \in s => s \ {m} \in SUBSET (1..k)) /\ (m \notin s => s \in SUBSET (1..k))
    BY <2>0
  <2>3. m \in 1..n
    BY <2>0
  <2>4. f \in [SUBSET (1..m) -> V]
    <3> SUFFICES ASSUME NEW s \in SUBSET (1..m) PROVE (IF m \in s THEN g[<<h[s \ {m}], m>>] ELSE h[s]) \in V
      OBVIOUS
    <3> HIDE DEF m
    <3>1. CASE m \in s
      <4>1. h[s \ {m}] \in V
        BY <2>1, <2>2, <3>1
      <4>2. <<h[s \ {m}], m>> \in V \X (1..n)
        BY <2>3, <4>1
      <4> QED BY <3>1, <4>2
    <3>2. CASE m \notin s
      BY <2>1, <2>2, <3>2
    <3> QED BY <3>1, <3>2
  <2>5. ASSUME NEW s \in SUBSET (1..m)
        PROVE  f[s] = IF s = {} THEN base ELSE g[<<f[s \ {Max(s)}], Max(s)>>]
    <3>1. CASE m \in s
      <4>1. Max(s) \in s /\ m <= Max(s) /\ m \in Nat
        BY <2>0, <3>1, MaxOf
      <4>2. Max(s) \in 1..m
        BY <4>1
      <4>3. Max(s) = m
        BY <4>1, <4>2
      <4>4. f[s] = g[<<h[s \ {m}], m>>] /\ f[s \ {m}] = h[s \ {m}]
        BY <3>1
      <4> QED BY <3>1, <4>3, <4>4
    <3>2. CASE m \notin s /\ s # {}
      <4>1. s \in SUBSET (1..k)
        BY <2>2, <3>2
      <4>2. s \ {Max(s)} \in SUBSET (1..m) /\ m \notin s \ {Max(s)}
        BY <3>2
      <4>3. f[s] = h[s] /\ f[s \ {Max(s)}] = h[s \ {Max(s)}]
        BY <3>2, <4>2
      <4> HIDE DEF f, m
      <4> QED BY <2>1, <3>2, <4>1, <4>3
    <3>3. CASE m \notin s /\ s = {}
      BY <2>1, <2>2, <3>3
    <3> QED BY <3>1, <3>2, <3>3
  <2> HIDE DEF f
  <2> QED BY <2>4, <2>5 DEF Defined
<1>3. n \in T
  <2> HIDE DEF T
  <2>1. T \in SUBSET Nat
    BY DEF T
  <2> QED BY <1>1, <1>2, <2>1, NatIsReached
<1>4. Defined(n)
  <2> HIDE DEF Defined
  <2> QED BY <1>3
<1> QED BY <1>4 DEF IsFold

\* and has every value its operator keeps
LEMMA FoldStays ==
    ASSUME NEW V, NEW n \in Nat, NEW h, h[{}] \in V,
           \A s \in SUBSET (1..n) : s # {} /\ h[s \ {Max(s)}] \in V => h[s] \in V
    PROVE  h[1..n] \in V
<1> DEFINE T == {k \in Nat : k <= n => h[1..k] \in V}
<1>1. 0 \in T
  OBVIOUS
<1>2. ASSUME NEW k \in T PROVE k + 1 \in T
  <2> SUFFICES ASSUME k + 1 <= n PROVE h[1..(k + 1)] \in V
    OBVIOUS
  <2> DEFINE s == 1..(k + 1)
  <2>1. k \in Nat /\ s \in SUBSET (1..n) /\ k + 1 \in s
    OBVIOUS
  <2>2. Max(s) \in s /\ k + 1 <= Max(s)
    <3> HIDE DEF s
    <3> QED BY <2>1, MaxOf
  <2>3. Max(s) = k + 1
    BY <2>1, <2>2
  <2>4. s \ {k + 1} = 1..k
    BY <2>1
  <2>5. h[1..k] \in V
    BY <2>1
  <2> QED BY <2>1, <2>3, <2>4, <2>5
<1>3. n \in T
  <2> HIDE DEF T
  <2>1. T \in SUBSET Nat
    BY DEF T
  <2> QED BY <1>1, <1>2, <2>1, NatIsReached
<1> QED BY <1>3

\* the first of some files
LEMMA FirstKeeps ==
    ASSUME NEW F, NEW files \in Seq(F), NEW n \in Nat
    PROVE  FirstOf(files, n) \in Seq(F)
<1> DEFINE upto == Least(n, Len(files))
<1>1. Len(files) \in Nat /\ \A i \in 1..Len(files) : files[i] \in F
  BY ElementOfSeq
<1>2. upto \in Nat /\ upto <= Len(files)
  BY <1>1 DEF Least
<1> HIDE DEF upto
<1>3. \A i \in 1..upto : files[i] \in F
  BY <1>1, <1>2
<1>4. SubSeq(files, 1, upto) \in Seq(F)
  BY <1>2, <1>3, SubSeqProperties
<1> QED BY <1>4 DEF FirstOf, upto

\* a file is added to the recent ones
LEMMA AddKeeps ==
    ASSUME NEW F, NEW recent \in Seq(F), NEW p \in F
    PROVE  AddRecent(recent, p) \in Seq(F)
<1>1. <<p>> \in Seq(F)
  OBVIOUS
<1>2. <<p>> \o recent \in Seq(F)
  BY <1>1, ConcatProperties
<1>3. FirstOf(<<p>> \o recent, 12) \in Seq(F)
  BY <1>2, FirstKeeps
<1> QED BY <1>3 DEF AddRecent

\* and so are all of a sequence of them
LEMMA AddingKeeps ==
    ASSUME NEW F, NEW recent \in Seq(F), NEW files \in Seq(F)
    PROVE  FoldLeft(AddRecent, recent, files) \in Seq(F)
<1> DEFINE V == Seq(F)
           n == Len(files)
           g == [a \in V \X (1..n) |-> AddRecent(a[1], files[a[2]])]
           next(h) == [s \in SUBSET (DOMAIN files) |->
                         IF s = {} THEN recent ELSE AddRecent(h[s \ {Max(s)}], files[Max(s)])]
           fold == CHOOSE h : h = next(h)
<1>1. n \in Nat /\ DOMAIN files = 1..n /\ \A i \in 1..n : files[i] \in F
  BY LenProperties, ElementOfSeq
<1>2. \A v \in V, i \in 1..n : AddRecent(v, files[i]) \in V
  BY <1>1, AddKeeps
<1>3. g \in [V \X (1..n) -> V] /\ \A v \in V, i \in 1..n : g[<<v, i>>] = AddRecent(v, files[i])
  BY <1>2
<1>4. FoldLeft(AddRecent, recent, files) = fold[DOMAIN files]
  BY DEF FoldLeft, MapThenFoldSet
<1>5. PICK f \in [SUBSET (1..n) -> V] : IsFold(f, recent, g, n)
  <2> HIDE DEF g, V, n
  <2>1. recent \in V
    BY DEF V
  <2> QED BY <1>1, <1>3, <2>1, FoldIsDefined
<1>6. ASSUME NEW s \in SUBSET (1..n), s # {}
      PROVE  Max(s) \in 1..n /\ s \ {Max(s)} \in SUBSET (1..n)
  <2> HIDE DEF n
  <2> QED BY <1>1, <1>6, MaxOf
<1>7. \A s \in SUBSET (1..n) : s # {} =>
        g[<<f[s \ {Max(s)}], Max(s)>>] = AddRecent(f[s \ {Max(s)}], files[Max(s)])
  <2> HIDE DEF g, V, n
  <2> QED BY <1>3, <1>6
<1>8. f = next(f)
  <2> HIDE DEF g, V, n
  <2>1. f = [s \in SUBSET (1..n) |-> f[s]] /\ \A s \in SUBSET (1..n) : next(f)[s] = f[s]
    BY <1>1, <1>5, <1>7 DEF IsFold
  <2> QED BY <1>1, <2>1
<1>9. fold = next(fold)
  <2> HIDE DEF next
  <2> QED BY <1>8
<1> HIDE DEF fold
<1>10. fold[{}] = recent /\ \A s \in SUBSET (1..n) :
         s # {} => fold[s] = AddRecent(fold[s \ {Max(s)}], files[Max(s)])
  BY <1>1, <1>9
<1>11. \A s \in SUBSET (1..n) : s # {} /\ fold[s \ {Max(s)}] \in V => fold[s] \in V
  <2> HIDE DEF n, V
  <2> SUFFICES ASSUME NEW s \in SUBSET (1..n), s # {}, fold[s \ {Max(s)}] \in V PROVE fold[s] \in V
    OBVIOUS
  <2> QED BY <1>2, <1>6, <1>10
<1>12. fold[1..n] \in V
  <2> HIDE DEF V, n
  <2>1. fold[{}] \in V
    BY <1>10 DEF V
  <2> QED BY <1>1, <1>11, <2>1, FoldStays
<1> QED BY <1>1, <1>4, <1>12

\* a set of at most one file is a sequence of it
LEMMA OneIsASequence ==
    ASSUME NEW F, NEW S \in SUBSET F, S = {} \/ \E p \in F : S = {p}
    PROVE  SetToSeq(S) \in Seq(F)
<1>1. CASE S = {}
  <2>1. Cardinality(S) = 0
    BY <1>1, FS_EmptySet
  <2>2. \E f \in [1..0 -> S] : IsInjective(f)
    <3> DEFINE f == [i \in 1..0 |-> i]
    <3>1. f \in [1..0 -> S] /\ DOMAIN f = {}
      OBVIOUS
    <3> HIDE DEF f
    <3> QED BY <3>1 DEF IsInjective
  <2>3. SetToSeq(S) \in [1..0 -> S]
    BY <2>1, <2>2 DEF SetToSeq
  <2>4. \A f \in [1..0 -> S] : f \in Seq(F)
    OBVIOUS
  <2> QED BY <2>3, <2>4
<1>2. ASSUME NEW p \in F, S = {p} PROVE SetToSeq(S) \in Seq(F)
  <2>1. Cardinality(S) = 1
    BY <1>2, FS_Singleton
  <2>2. \E f \in [1..1 -> S] : IsInjective(f)
    <3> DEFINE f == [i \in 1..1 |-> p]
    <3>1. f \in [1..1 -> S] /\ DOMAIN f = {1}
      BY <1>2
    <3> HIDE DEF f
    <3> QED BY <3>1 DEF IsInjective
  <2>3. SetToSeq(S) \in [1..1 -> S]
    BY <2>1, <2>2 DEF SetToSeq
  <2>4. \A f \in [1..1 -> S] : f \in Seq(F)
    BY <1>2
  <2> QED BY <2>3, <2>4
<1> QED BY <1>1, <1>2

----------------------------------------------------------------------------
\* the files a sidecar, or what will be one, lists are of its repository
KeepsOwn(s) == s.state = "kept" => s.repo \in DOMAIN RepoFiles /\ s.recent \in Seq(RepoFiles[s.repo])

\* and those of a run of the repository it is about
OwnFiles(r) ==
    /\ Range(r.given.files) \subseteq RepoFiles[r.ask.repo]
    /\ KeepsOwn(r.draft)
    /\ r.read \in Seq(RepoFiles[r.ask.repo])
    /\ r.target = {} \/ \E p \in RepoFiles[r.ask.repo] : r.target = {p}

OwnInv == Shaped /\ KeepsOwn(sidecar) /\ \A d \in Drivers : OwnFiles(run[d])

LEMMA BlankIsOwn ==
    ASSUME NEW r, Blank(r)
    PROVE  OwnFiles(r)
<1>1. Range(<<>>) = {} /\ <<>> \in Seq(RepoFiles[r.ask.repo])
  BY DEF Range
<1> QED BY <1>1 DEF Blank, Nothing, Missing, OwnFiles, KeepsOwn

\* whatever other repositories' runs left in the sidecar
LEMMA RecentIsOwn ==
    ASSUME KeepsOwn(sidecar), NEW q \in Requests
    PROVE  Recent(q.repo) \in Seq(RepoFiles[q.repo])
<1>1. CASE Durable(q.repo)
  BY <1>1 DEF Recent, Durable, Readable, KeepsOwn
<1>2. CASE ~Durable(q.repo)
  BY <1>2 DEF Recent
<1> QED BY <1>1, <1>2

LEMMA GivenIsOwn ==
    ASSUME KeepsOwn(sidecar), NEW q \in Requests
    PROVE  Range(Given(q).files) \subseteq RepoFiles[q.repo]
<1> DEFINE F == RepoFiles[q.repo]
<1>1. Recent(q.repo) \in Seq(F)
  BY RecentIsOwn
<1>2. FirstOf(Recent(q.repo), 4) \in Seq(F) /\ FirstOf(Recent(q.repo), 2) \in Seq(F) /\ <<>> \in Seq(F)
  BY <1>1, FirstKeeps
<1>3. Given(q).files \in Seq(F)
  BY <1>2 DEF Given, ReferredFiles, WorkingFiles
<1> HIDE DEF F
<1>4. \A files \in Seq(F) : Range(files) \subseteq F
  BY DEF Range
<1> QED BY <1>3, <1>4 DEF F

LEMMA RememberedIsOwn ==
    ASSUME KeepsOwn(sidecar), NEW q \in Requests
    PROVE  KeepsOwn(Remembered(q))
<1>1. CASE Readable
  BY <1>1 DEF Readable, Remembered, KeepsOwn
<1>2. CASE ~Readable
  BY <1>2, ThreadContextAssumption DEF Remembered, KeepsOwn, Kept
<1> QED BY <1>1, <1>2

LEMMA UpdatedIsOwn ==
    ASSUME OwnInv, NEW d \in Drivers
    PROVE  KeepsOwn(Updated(d))
<1> DEFINE F == RepoFiles[Repo(d)]
           files == run[d].read \o SetToSeq(run[d].target)
           recent == FoldLeft(AddRecent, Recent(Repo(d)), files)
<1>1. run[d].ask \in Requests /\ Repo(d) = run[d].ask.repo /\ KeepsOwn(sidecar) /\ OwnFiles(run[d])
  BY DEF OwnInv, Shaped, Repo
<1>2. Repo(d) \in DOMAIN RepoFiles
  BY <1>1, ThreadContextAssumption
<1>3. Recent(Repo(d)) \in Seq(F)
  BY <1>1, RecentIsOwn
<1>4. SetToSeq(run[d].target) \in Seq(F)
  BY <1>1, OneIsASequence DEF OwnFiles
<1>5. files \in Seq(F)
  BY <1>1, <1>4, ConcatProperties DEF OwnFiles
<1>6. recent \in Seq(F)
  <2> HIDE DEF F, files
  <2> QED BY <1>3, <1>5, AddingKeeps
<1> DEFINE last == IF Durable(Repo(d)) THEN sidecar.last ELSE NoTask
<1>7. Updated(d) = Kept(Repo(d), NoTask, last, recent)
  BY DEF Updated
<1> HIDE DEF recent, last
<1> QED BY <1>2, <1>6, <1>7 DEF KeepsOwn, Kept

\* a step of a run that leaves it, and the sidecar, with such files
LEMMA OwnKept ==
    ASSUME OwnInv, NEW d \in Drivers, Turn(d), OwnFiles(run'[d]), KeepsOwn(sidecar')
    PROVE  OwnInv'
BY DEF OwnInv, OwnFiles, KeepsOwn, Turn, Shaped

LEMMA StartsOwn ==
    ASSUME OwnInv, NEW d \in Drivers, StartStep(d)
    PROVE  OwnInv'
<1>1. Shaped /\ KeepsOwn(sidecar) /\ OwnFiles(run[d]) /\ run[d].ask \in Requests
  BY DEF OwnInv, Shaped
<1>2. KeepsOwn(Torn) /\ KeepsOwn(Missing) /\ Range(Nothing.files) = {}
  BY DEF KeepsOwn, Torn, Missing, Nothing, Range
<1>3. CASE Understands(d)
  <2>1. PICK q \in Requests :
          /\ Turn(d) /\ run'[d].ask = q /\ run'[d].given = Given(q)
          /\ Blank([run'[d] EXCEPT !.given = Nothing])
    BY <1>1, <1>3, UnderstandsMoves
  <2>2. run'[d].draft = Missing /\ run'[d].read = <<>> /\ run'[d].target = {}
    BY <2>1 DEF Blank
  <2>3. OwnFiles(run'[d])
    BY <1>1, <1>2, <2>1, <2>2, GivenIsOwn DEF OwnFiles
  <2>4. sidecar' = sidecar
    BY <1>3 DEF Understands
  <2> QED BY <1>1, <2>1, <2>3, <2>4, OwnKept
<1>4. CASE RemembersRead(d)
  <2>1. /\ Turn(d) /\ run'[d].ask = run[d].ask /\ run'[d].given = Nothing
        /\ run'[d].draft = Remembered(run[d].ask) /\ KeepsFiles(d) /\ sidecar' = sidecar
    BY <1>1, <1>4, StartMoves DEF RemembersRead
  <2>2. OwnFiles(run'[d])
    BY <1>1, <1>2, <2>1, RememberedIsOwn DEF OwnFiles, KeepsFiles
  <2> QED BY <1>1, <2>1, <2>2, OwnKept
<1>5. CASE Truncates(d, "remembering", "remembers")
  <2>1. /\ Turn(d) /\ run'[d].ask = run[d].ask /\ KeepsDraft(d) /\ KeepsFiles(d) /\ sidecar' = Torn
    BY <1>1, <1>5, StartMoves DEF Truncates
  <2>2. OwnFiles(run'[d])
    BY <1>1, <2>1 DEF OwnFiles, KeepsFiles, KeepsDraft
  <2> QED BY <1>2, <2>1, <2>2, OwnKept
<1>6. CASE Remembers(d)
  <2>1. /\ Turn(d) /\ run'[d].ask = run[d].ask /\ run'[d].given = run[d].given
        /\ run'[d].draft = Missing /\ KeepsFiles(d) /\ sidecar' = run[d].draft
    BY <1>1, <1>6, StartMoves DEF Remembers
  <2>2. OwnFiles(run'[d]) /\ KeepsOwn(sidecar')
    BY <1>1, <1>2, <2>1 DEF OwnFiles, KeepsFiles
  <2> QED BY <2>1, <2>2, OwnKept
<1> QED BY <1>3, <1>4, <1>5, <1>6 DEF StartStep

LEMMA WorksOwn ==
    ASSUME OwnInv, NEW d \in Drivers, CollectStep(d) \/ WorkStep(d)
    PROVE  OwnInv'
<1> DEFINE F == RepoFiles[Repo(d)]
<1>1. /\ Shaped /\ KeepsOwn(sidecar) /\ OwnFiles(run[d]) /\ run[d].ask \in Requests
      /\ Repo(d) = run[d].ask.repo /\ Repo(d) \in DOMAIN RepoFiles
  BY ThreadContextAssumption DEF OwnInv, Shaped, Repo
<1>2. sidecar' = sidecar
  BY DEF CollectStep, Keys, CollectHit, CollectMiss, ReadsNamed, Collected,
         WorkStep, Reads, Proposes, Applies, Refused
<1>3. Turn(d) /\ run'[d].ask = run[d].ask /\ KeepsDraft(d)
  BY <1>1, CollectMoves, WorkMoves
<1>4. CASE KeepsFiles(d)
  <2>1. OwnFiles(run'[d])
    BY <1>1, <1>3, <1>4 DEF OwnFiles, KeepsFiles, KeepsDraft
  <2> QED BY <1>1, <1>2, <1>3, <2>1, OwnKept
<1>5. CASE /\ Len(run[d].read) + 1 <= Len(ToRead[Repo(d)]) /\ run'[d].target = run[d].target
           /\ run'[d].read = Append(run[d].read, ToRead[Repo(d)][Len(run[d].read) + 1])
  <2>1. ToRead[Repo(d)] \in Seq(F) /\ run[d].read \in Seq(F)
    BY <1>1, ThreadContextAssumption DEF OwnFiles
  <2>2. ToRead[Repo(d)][Len(run[d].read) + 1] \in F
    <3>1. Len(run[d].read) + 1 \in 1..Len(ToRead[Repo(d)])
      BY <1>5, <2>1
    <3> QED BY <2>1, <3>1, ElementOfSeq
  <2>3. run'[d].read \in Seq(F)
    <3> HIDE DEF F
    <3>1. Append(run[d].read, ToRead[Repo(d)][Len(run[d].read) + 1]) \in Seq(F)
      BY <2>1, <2>2, AppendProperties
    <3> QED BY <1>5, <3>1
  <2>4. OwnFiles(run'[d])
    BY <1>1, <1>3, <1>5, <2>3 DEF OwnFiles, KeepsDraft
  <2> QED BY <1>1, <1>2, <1>3, <2>4, OwnKept
<1>6. CASE run'[d].read = run[d].read /\ \E p \in Range(run[d].read) : run'[d].target = {p}
  <2>1. Range(run[d].read) \subseteq F
    BY <1>1 DEF OwnFiles, Range
  <2>2. OwnFiles(run'[d])
    BY <1>1, <1>3, <1>6, <2>1 DEF OwnFiles, KeepsDraft
  <2> QED BY <1>1, <1>2, <1>3, <2>2, OwnKept
<1> QED BY <1>1, <1>4, <1>5, <1>6, CollectMoves, WorkMoves

LEMMA EndsOwn ==
    ASSUME OwnInv, NEW d \in Drivers, EndStep(d)
    PROVE  OwnInv'
<1>1. Shaped /\ KeepsOwn(sidecar) /\ OwnFiles(run[d]) /\ run[d].ask \in Requests
  BY DEF OwnInv, Shaped
<1>2. KeepsOwn(Torn) /\ KeepsOwn(Missing)
  BY DEF KeepsOwn, Torn, Missing
<1>3. CASE UpdateLoads(d)
  <2>1. /\ Turn(d) /\ run'[d].ask = run[d].ask /\ run'[d].given = run[d].given
        /\ run'[d].draft = Updated(d) /\ KeepsFiles(d) /\ sidecar' = sidecar
    BY <1>1, <1>3, EndMoves DEF UpdateLoads
  <2>2. OwnFiles(run'[d])
    BY <1>1, <2>1, UpdatedIsOwn DEF OwnFiles, KeepsFiles
  <2> QED BY <1>1, <2>1, <2>2, OwnKept
<1>4. CASE UpdateReadsFirst(d)
  <2>1. /\ Turn(d) /\ run'[d].ask = run[d].ask /\ run'[d].given = run[d].given
        /\ run'[d].draft = WithFirst(run[d].draft) /\ KeepsFiles(d) /\ sidecar' = sidecar
    BY <1>1, <1>4, EndMoves DEF UpdateReadsFirst
  <2>2. KeepsOwn(WithFirst(run[d].draft))
    BY <1>1 DEF OwnFiles, KeepsOwn, WithFirst
  <2>3. OwnFiles(run'[d])
    BY <1>1, <2>1, <2>2 DEF OwnFiles, KeepsFiles
  <2> QED BY <1>1, <2>1, <2>3, OwnKept
<1>5. CASE Truncates(d, "saving", "saves")
  <2>1. /\ Turn(d) /\ run'[d].ask = run[d].ask /\ KeepsDraft(d) /\ KeepsFiles(d) /\ sidecar' = Torn
    BY <1>1, <1>5, StartMoves DEF Truncates
  <2>2. OwnFiles(run'[d])
    BY <1>1, <2>1 DEF OwnFiles, KeepsFiles, KeepsDraft
  <2> QED BY <1>2, <2>1, <2>2, OwnKept
<1>6. ASSUME Over(d) PROVE Turn(d) /\ OwnFiles(run'[d])
  BY <1>6, BlankIsOwn DEF Over
<1>7. CASE UpdateSaves(d)
  <2>1. sidecar' = run[d].draft /\ KeepsOwn(sidecar')
    BY <1>1, <1>7 DEF UpdateSaves, OwnFiles
  <2>2. Turn(d) /\ OwnFiles(run'[d])
    BY <1>1, <1>2, <1>6, <1>7, EndMoves DEF OwnFiles, KeepsFiles
  <2> QED BY <2>1, <2>2, OwnKept
<1>8. CASE Resumes(d) \/ WaitsAgain(d)
  <2>1. Turn(d) /\ run'[d].ask = run[d].ask /\ KeepsDraft(d) /\ KeepsFiles(d) /\ sidecar' = sidecar
    BY <1>1, <1>8, EndMoves DEF Resumes, WaitsAgain
  <2>2. OwnFiles(run'[d])
    BY <1>1, <2>1 DEF OwnFiles, KeepsFiles, KeepsDraft
  <2> QED BY <1>1, <2>1, <2>2, OwnKept
<1>9. CASE Fails(d)
  <2>1. Over(d) /\ sidecar' = sidecar
    BY <1>1, <1>9, EndMoves DEF Fails
  <2> QED BY <1>1, <1>6, <2>1, OwnKept
<1> QED BY <1>3, <1>4, <1>5, <1>7, <1>8, <1>9 DEF EndStep

LEMMA OwnSteps == OwnInv /\ [Next]_vars => OwnInv'
<1> SUFFICES ASSUME OwnInv, [Next]_vars PROVE OwnInv'
  OBVIOUS
<1>1. Shaped'
  BY ShapedSteps DEF OwnInv
<1>2. CASE run' = run /\ (sidecar' = sidecar \/ sidecar' = Missing)
  BY <1>1, <1>2 DEF OwnInv, OwnFiles, KeepsOwn, Missing
<1>3. CASE Restarts
  <2>1. sidecar' = sidecar /\ \A d \in Drivers : run'[d] = run[d] \/ run'[d] = NoRun
    BY <1>3, RestartMoves DEF Restarts, OwnInv
  <2>2. OwnFiles(NoRun)
    BY NoRunIsBlank, BlankIsOwn
  <2>3. \A d \in Drivers : OwnFiles(run'[d])
    BY <2>1, <2>2 DEF OwnInv
  <2> QED BY <1>1, <2>1, <2>3 DEF OwnInv, OwnFiles, KeepsOwn
<1> QED BY <1>2, <1>3, StartsOwn, WorksOwn, EndsOwn DEF Next, UserWrites, DeletesThread, vars

(* No run is handed files of a repository it is not about, however runs of    *)
(* several repositories interleave on the sidecar of one conversation.        *)
THEOREM FilesAreOwn == Spec => []OnlyOwnFiles
<1>1. Init => OwnInv
  <2> SUFFICES ASSUME Init PROVE OwnInv
    OBVIOUS
  <2>1. OwnFiles(NoRun) /\ Shaped
    BY NoRunIsBlank, BlankIsOwn, ShapedStarts
  <2> QED BY <2>1 DEF Init, OwnInv, KeepsOwn, Missing
<1>2. OwnInv => OnlyOwnFiles
  <2> SUFFICES ASSUME OwnInv, NEW d \in Drivers
               PROVE  /\ Range(run[d].given.files) \subseteq RepoFiles[Repo(d)]
                      /\ Range(Recent(Repo(d))) \subseteq RepoFiles[Repo(d)]
    BY DEF OnlyOwnFiles
  <2> DEFINE F == RepoFiles[Repo(d)]
  <2>1. run[d].ask \in Requests /\ Repo(d) = run[d].ask.repo /\ KeepsOwn(sidecar) /\ OwnFiles(run[d])
    BY DEF OwnInv, Shaped, Repo
  <2>2. Recent(Repo(d)) \in Seq(F)
    BY <2>1, RecentIsOwn
  <2> HIDE DEF F
  <2>3. \A files \in Seq(F) : Range(files) \subseteq F
    BY DEF Range
  <2> QED BY <2>1, <2>2, <2>3 DEF OwnFiles, F
<1> QED BY <1>1, <1>2, OwnSteps, PTL DEF Spec

----------------------------------------------------------------------------

\* whatever holds of the empty set, and of a set when it does without the
\* element that is picked of it, holds of every part of a finite set
LEMMA PartsAreReached ==
    ASSUME NEW S, IsFiniteSet(S), NEW pick, \A s \in SUBSET S : s # {} => pick[s] \in s,
           NEW T \in SUBSET SUBSET S, {} \in T,
           \A s \in SUBSET S : s # {} /\ s \ {pick[s]} \in T => s \in T
    PROVE  \A s \in SUBSET S : s \in T
<1> DEFINE K == {k \in Nat : \A s \in SUBSET S : Cardinality(s) = k => s \in T}
<1>0. \A s \in SUBSET S : IsFiniteSet(s) /\ Cardinality(s) \in Nat
  BY FS_Subset, FS_CardinalityType
<1>1. 0 \in K
  BY <1>0, FS_EmptySet
<1>2. ASSUME NEW k \in K PROVE k + 1 \in K
  <2>0. k \in Nat /\ \A s \in SUBSET S : Cardinality(s) = k => s \in T
    OBVIOUS
  <2>a. Cardinality({}) = 0
    BY FS_EmptySet
  <2>1. ASSUME NEW s \in SUBSET S, Cardinality(s) = k + 1 PROVE s \in T
    <3>1. s # {}
      BY <2>0, <2>1, <2>a
    <3>2. pick[s] \in s
      BY <3>1
    <3>3. Cardinality(s \ {pick[s]}) = k
      <4>1. Cardinality(s \ {pick[s]}) = Cardinality(s) - 1
        BY <1>0, <3>2, FS_RemoveElement
      <4> QED BY <2>0, <2>1, <4>1
    <3>4. s \ {pick[s]} \in T
      BY <2>0, <3>3
    <3> QED BY <3>1, <3>4
  <2> QED BY <2>0, <2>1
<1>3. \A k \in Nat : k \in K
  <2>1. K \in SUBSET Nat
    OBVIOUS
  <2> HIDE DEF K
  <2> QED BY <1>1, <1>2, <2>1, NatIsReached
<1> QED BY <1>0, <1>3

\* of every part of S an element is picked
Picks(pick, S) == \A s \in SUBSET S : s # {} => pick[s] \in s

\* h runs over the parts of S, the element that is picked of a part last
Gathers(h, base, g, pick, S) == \A s \in SUBSET S :
    h[s] = IF s = {} THEN base ELSE g[<<h[s \ {pick[s]}], pick[s]>>]

LEMMA GatheringIsDefined ==
    ASSUME NEW S, IsFiniteSet(S), NEW V, NEW base \in V, NEW g \in [V \X S -> V],
           NEW pick, Picks(pick, S)
    PROVE  \E h \in [SUBSET S -> V] : Gathers(h, base, g, pick, S)
<1> DEFINE Upto(h, k) == \A s \in SUBSET S : Cardinality(s) <= k =>
             h[s] = IF s = {} THEN base ELSE g[<<h[s \ {pick[s]}], pick[s]>>]
           Defined(k) == \E h \in [SUBSET S -> V] : Upto(h, k)
           K == {k \in Nat : Defined(k)}
<1> USE DEF Picks
<1>0. \A s \in SUBSET S : IsFiniteSet(s) /\ Cardinality(s) \in Nat
  BY FS_Subset, FS_CardinalityType
<1>a. \A s \in SUBSET S : s # {} => Cardinality(s \ {pick[s]}) = Cardinality(s) - 1 /\ Cardinality(s) # 0
  BY <1>0, FS_RemoveElement, FS_EmptySet
<1>1. 0 \in K
  <2> DEFINE h == [s \in SUBSET S |-> base]
  <2>1. h \in [SUBSET S -> V]
    OBVIOUS
  <2>2. Upto(h, 0)
    <3> SUFFICES ASSUME NEW s \in SUBSET S, Cardinality(s) <= 0 PROVE s = {} /\ h[s] = base
      OBVIOUS
    <3> QED BY <1>0, FS_EmptySet
  <2> HIDE DEF h, Upto
  <2> QED BY <2>1, <2>2
<1>2. ASSUME NEW k \in K PROVE k + 1 \in K
  <2>0. k \in Nat /\ k + 1 # 0 /\ Cardinality({}) = 0
    BY FS_EmptySet
  <2>1. PICK h \in [SUBSET S -> V] : Upto(h, k)
    OBVIOUS
  <2> DEFINE f == [s \in SUBSET S |-> IF Cardinality(s) = k + 1
                                        THEN g[<<h[s \ {pick[s]}], pick[s]>>] ELSE h[s]]
  <2>2. f \in [SUBSET S -> V]
    <3> SUFFICES ASSUME NEW s \in SUBSET S, Cardinality(s) = k + 1
                 PROVE  g[<<h[s \ {pick[s]}], pick[s]>>] \in V
      OBVIOUS
    <3>1. s # {}
      BY <2>0
    <3>2. pick[s] \in S /\ h[s \ {pick[s]}] \in V
      BY <1>0, <3>1
    <3> QED BY <3>2
  <2>3. Upto(f, k + 1)
    <3> SUFFICES ASSUME NEW s \in SUBSET S, Cardinality(s) <= k + 1
                 PROVE  f[s] = IF s = {} THEN base ELSE g[<<f[s \ {pick[s]}], pick[s]>>]
      OBVIOUS
    <3>1. s # {} => f[s \ {pick[s]}] = h[s \ {pick[s]}]
      <4> SUFFICES ASSUME s # {} PROVE f[s \ {pick[s]}] = h[s \ {pick[s]}]
        OBVIOUS
      <4>1. s \ {pick[s]} \in SUBSET S /\ Cardinality(s \ {pick[s]}) # k + 1
        BY <1>0, <1>a
      <4> QED BY <4>1
    <3>2. CASE Cardinality(s) = k + 1
      <4>1. s # {}
        BY <2>0, <3>2
      <4> QED BY <3>1, <3>2, <4>1
    <3>3. CASE Cardinality(s) # k + 1
      <4>1. Cardinality(s) <= k
        BY <1>0, <3>3
      <4>2. f[s] = h[s]
        BY <3>3
      <4> HIDE DEF f
      <4> QED BY <2>1, <3>1, <4>1, <4>2
    <3> QED BY <3>2, <3>3
  <2> HIDE DEF f, Upto
  <2> QED BY <2>2, <2>3
<1>3. Cardinality(S) \in K
  <2>1. K \in SUBSET Nat
    OBVIOUS
  <2> HIDE DEF K
  <2> QED BY <1>0, <1>1, <1>2, <2>1, NatIsReached
<1>4. PICK h \in [SUBSET S -> V] : Upto(h, Cardinality(S))
  <2> HIDE DEF Upto
  <2> QED BY <1>3
<1>5. \A s \in SUBSET S : Cardinality(s) <= Cardinality(S)
  BY FS_Subset
<1>6. Gathers(h, base, g, pick, S)
  BY <1>4, <1>5 DEF Gathers
<1> QED BY <1>6

----------------------------------------------------------------------------
\* the sum of the values of f, as the community modules define it
SumOver(f, S) == MapThenSumSet(LAMBDA p : f[p], S)
Chosen(s) == CHOOSE x \in s : TRUE

\* h is the sum of the values of f on each part of S
IsSum(h, f, S) ==
    /\ h \in [SUBSET S -> Nat]
    /\ h[{}] = 0
    /\ \A s \in SUBSET S : s # {} => h[s] = f[Chosen(s)] + h[s \ {Chosen(s)}]

LEMMA SumIsDefined ==
    ASSUME NEW S, IsFiniteSet(S), NEW f \in [S -> Nat]
    PROVE  \E h : IsSum(h, f, S) /\ SumOver(f, S) = h[S]
<1> DEFINE pick == [s \in SUBSET S |-> Chosen(s)]
           g == [a \in Nat \X S |-> f[a[2]] + a[1]]
           next(h) == [s \in SUBSET S |-> IF s = {} THEN 0 ELSE f[Chosen(s)] + h[s \ {Chosen(s)}]]
           sum == CHOOSE h : h = next(h)
<1>1. ASSUME NEW s \in SUBSET S, s # {}
      PROVE  Chosen(s) \in s /\ pick[s] = Chosen(s)
  BY <1>1 DEF Chosen
<1>2. g \in [Nat \X S -> Nat] /\ \A n \in Nat, x \in S : g[<<n, x>>] = f[x] + n
  OBVIOUS
<1>3. SumOver(f, S) = sum[S]
  BY DEF SumOver, MapThenSumSet, MapThenFoldSet, Chosen
<1>4. PICK h \in [SUBSET S -> Nat] : Gathers(h, 0, g, pick, S)
  <2> DEFINE V == Nat
             zero == 0
  <2>1. Picks(pick, S)
    BY <1>1 DEF Picks
  <2>2. zero \in V /\ g \in [V \X S -> V]
    BY <1>2
  <2>3. \E h \in [SUBSET S -> V] : Gathers(h, zero, g, pick, S)
    <3> HIDE DEF pick, g, V, zero
    <3> QED BY <2>1, <2>2, GatheringIsDefined
  <2> QED BY <2>3
<1>5. ASSUME NEW s \in SUBSET S, s # {}
      PROVE  g[<<h[s \ {pick[s]}], pick[s]>>] = f[Chosen(s)] + h[s \ {Chosen(s)}]
  <2> HIDE DEF pick, g
  <2>1. Chosen(s) \in S /\ h[s \ {Chosen(s)}] \in Nat
    BY <1>1, <1>5
  <2> QED BY <1>1, <1>2, <1>5, <2>1
<1>6. h = next(h)
  <2> HIDE DEF pick, g
  <2>1. h = [s \in SUBSET S |-> h[s]] /\ \A s \in SUBSET S : next(h)[s] = h[s]
    BY <1>4, <1>5 DEF Gathers
  <2> QED BY <2>1
<1>7. sum = next(sum)
  <2> HIDE DEF next
  <2> QED BY <1>6
<1> HIDE DEF sum
<1>8. sum[{}] = 0 /\ \A s \in SUBSET S : s # {} => sum[s] = f[Chosen(s)] + sum[s \ {Chosen(s)}]
  BY <1>7
<1>9. \A s \in SUBSET S : sum[s] \in Nat
  <2> DEFINE T == {s \in SUBSET S : sum[s] \in Nat}
  <2>1. {} \in T
    BY <1>8
  <2>2. ASSUME NEW s \in SUBSET S, s # {}, s \ {pick[s]} \in T PROVE s \in T
    <3>1. Chosen(s) \in S /\ sum[s \ {Chosen(s)}] \in Nat
      BY <1>1, <2>2
    <3>2. f[Chosen(s)] \in Nat /\ sum[s] = f[Chosen(s)] + sum[s \ {Chosen(s)}]
      BY <1>8, <2>2, <3>1
    <3> QED BY <3>1, <3>2
  <2>3. \A s \in SUBSET S : s # {} => pick[s] \in s
    BY <1>1
  <2>4. T \in SUBSET SUBSET S
    OBVIOUS
  <2>5. \A s \in SUBSET S : s \in T
    <3> HIDE DEF T, pick
    <3> QED BY <2>1, <2>2, <2>3, <2>4, PartsAreReached
  <2> QED BY <2>5
<1>10. sum \in [SUBSET S -> Nat]
  <2>1. sum = [s \in SUBSET S |-> next(sum)[s]]
    BY <1>7
  <2>2. \A s \in SUBSET S : next(sum)[s] \in Nat
    BY <1>7, <1>9
  <2> HIDE DEF next
  <2> QED BY <2>1, <2>2
<1> QED BY <1>3, <1>8, <1>10 DEF IsSum

\* sums of functions that agree are equal on the parts both have
LEMMA SumsAgree ==
    ASSUME NEW S, IsFiniteSet(S), NEW R \in SUBSET S, NEW f, NEW h, NEW e, NEW k,
           IsSum(h, f, S), IsSum(k, e, R), \A x \in R : f[x] = e[x]
    PROVE  \A s \in SUBSET R : h[s] = k[s]
<1> DEFINE pick == [s \in SUBSET R |-> Chosen(s)]
           T == {s \in SUBSET R : h[s] = k[s]}
<1>1. ASSUME NEW s \in SUBSET R, s # {}
      PROVE  Chosen(s) \in s /\ pick[s] = Chosen(s)
  BY <1>1 DEF Chosen
<1>2. {} \in T
  BY DEF IsSum
<1>3. ASSUME NEW s \in SUBSET R, s # {}, s \ {pick[s]} \in T PROVE s \in T
  BY <1>1, <1>3 DEF IsSum
<1>4. T \in SUBSET SUBSET R /\ IsFiniteSet(R)
  BY FS_Subset
<1>5. \A s \in SUBSET R : s # {} => pick[s] \in s
  BY <1>1
<1>6. \A s \in SUBSET R : s \in T
  <2> HIDE DEF T, pick
  <2> QED BY <1>2, <1>3, <1>4, <1>5, PartsAreReached
<1> QED BY <1>6

\* whichever element is taken out
LEMMA SumWithout ==
    ASSUME NEW S, IsFiniteSet(S), NEW f \in [S -> Nat], NEW h, IsSum(h, f, S)
    PROVE  \A s \in SUBSET S : \A x \in s : h[s] = f[x] + h[s \ {x}]
<1> DEFINE Fits(s) == \A x \in s : h[s] = f[x] + h[s \ {x}]
           K == {k \in Nat : \A s \in SUBSET S : Cardinality(s) = k => Fits(s)}
<1>0. \A s \in SUBSET S : IsFiniteSet(s) /\ Cardinality(s) \in Nat
  BY FS_Subset, FS_CardinalityType
<1>1. 0 \in K
  BY <1>0, FS_EmptySet
<1>2. ASSUME NEW k \in K PROVE k + 1 \in K
  <2>0. k \in Nat /\ \A s \in SUBSET S : Cardinality(s) = k => Fits(s)
    OBVIOUS
  <2>1. ASSUME NEW s \in SUBSET S, Cardinality(s) = k + 1, NEW x \in s PROVE h[s] = f[x] + h[s \ {x}]
    <3> DEFINE c == Chosen(s)
    <3>1. c \in s
      BY DEF Chosen
    <3>2. h[s] = f[c] + h[s \ {c}]
      BY DEF IsSum
    <3> HIDE DEF c
    <3>3. CASE x = c
      BY <3>2, <3>3
    <3>4. CASE x # c
      <4>1. Cardinality(s \ {c}) = k /\ Cardinality(s \ {x}) = k
        <5>1. Cardinality(s \ {c}) = Cardinality(s) - 1 /\ Cardinality(s \ {x}) = Cardinality(s) - 1
          BY <1>0, <3>1, FS_RemoveElement
        <5> QED BY <2>0, <2>1, <5>1
      <4>2. Fits(s \ {c}) /\ Fits(s \ {x})
        BY <2>0, <4>1
      <4>3. x \in s \ {c} /\ c \in s \ {x} /\ (s \ {c}) \ {x} = (s \ {x}) \ {c}
        BY <3>1, <3>4
      <4>4. h[s \ {c}] = f[x] + h[(s \ {c}) \ {x}] /\ h[s \ {x}] = f[c] + h[(s \ {c}) \ {x}]
        BY <4>2, <4>3
      <4>5. f[x] \in Nat /\ f[c] \in Nat /\ h[(s \ {c}) \ {x}] \in Nat
        BY <3>1 DEF IsSum
      <4> QED BY <3>2, <4>4, <4>5
    <3> QED BY <3>3, <3>4
  <2> QED BY <2>0, <2>1
<1>3. \A k \in Nat : k \in K
  <2>1. K \in SUBSET Nat
    OBVIOUS
  <2> HIDE DEF K
  <2> QED BY <1>1, <1>2, <2>1, NatIsReached
<1> QED BY <1>0, <1>3

LEMMA SumOfNone == SumOver(<<>>, {}) = 0
<1>1. IsFiniteSet({}) /\ <<>> \in [{} -> Nat]
  BY FS_EmptySet
<1>2. PICK h : IsSum(h, <<>>, {}) /\ SumOver(<<>>, {}) = h[{}]
  BY <1>1, SumIsDefined
<1> QED BY <1>2 DEF IsSum

Lengths(texts, D) == IsFiniteSet(D) /\ texts \in [D -> Nat]

\* one text more adds its length
LEMMA SumWithText ==
    ASSUME NEW D, NEW texts, Lengths(texts, D), NEW p, p \notin D, NEW n \in Nat
    PROVE  SumOver(WithText(texts, p, n), D \cup {p}) = SumOver(texts, D) + n
<1> USE DEF Lengths
<1> DEFINE more == WithText(texts, p, n)
           S == D \cup {p}
<1>1. more \in [S -> Nat] /\ more[p] = n /\ \A q \in D : more[q] = texts[q]
  BY DEF WithText
<1>2. IsFiniteSet(S) /\ S \ {p} = D /\ p \in S /\ D \in SUBSET S
  BY FS_AddElement
<1> HIDE DEF more, S
<1>3. PICK h : IsSum(h, more, S) /\ SumOver(more, S) = h[S]
  BY <1>1, <1>2, SumIsDefined
<1>4. PICK k : IsSum(k, texts, D) /\ SumOver(texts, D) = k[D]
  BY SumIsDefined
<1>5. h[S] = n + h[D]
  BY <1>1, <1>2, <1>3, SumWithout
<1>6. h[D] = k[D]
  BY <1>1, <1>2, <1>3, <1>4, SumsAgree
<1>7. k[D] \in Nat
  BY <1>4 DEF IsSum
<1> QED BY <1>1, <1>3, <1>4, <1>5, <1>6, <1>7 DEF more, S

----------------------------------------------------------------------------

LEMMA PathsAreFinite == IsFiniteSet(Paths)
<1>1. Len(PathOrder) \in Nat /\ PathOrder \in [1..Len(PathOrder) -> Paths]
  BY PackerAssumption, LenProperties DEF Paths
<1>2. IsFiniteSet(1..Len(PathOrder))
  BY <1>1, FS_Interval
<1>3. PathOrder \in Surjection(1..Len(PathOrder), Paths)
  BY <1>1 DEF Surjection, Paths, Range
<1> QED BY <1>2, <1>3, FS_Surjection

\* the order of the files of a packet is total
LEMMA PlacesDiffer ==
    ASSUME NEW p \in Paths
    PROVE  PlaceOf(p) \in Nat /\ PathOrder[PlaceOf(p)] = p
<1>1. Len(PathOrder) \in Nat /\ DOMAIN PathOrder = 1..Len(PathOrder)
  BY PackerAssumption, LenProperties
<1>2. \E i \in DOMAIN PathOrder : PathOrder[i] = p
  BY DEF Paths, Range
<1>3. PlaceOf(p) \in DOMAIN PathOrder /\ PathOrder[PlaceOf(p)] = p
  BY <1>2 DEF PlaceOf
<1> QED BY <1>1, <1>3

LEMMA PriorityIsANumber ==
    ASSUME NEW p \in Paths, NEW explicit
    PROVE  Priority(p, explicit) \in Nat
BY PackerAssumption DEF Priority, Paths

LEMMA PrecedesIsTotal ==
    ASSUME NEW p \in Paths, NEW q \in Paths, p # q, NEW explicit
    PROVE  Precedes(p, q, explicit) \/ Precedes(q, p, explicit)
<1>1. Priority(p, explicit) \in Nat /\ Priority(q, explicit) \in Nat
  BY PriorityIsANumber
<1>2. PlaceOf(p) \in Nat /\ PlaceOf(q) \in Nat /\ PlaceOf(p) # PlaceOf(q)
  BY PlacesDiffer
<1> QED BY <1>1, <1>2 DEF Precedes

LEMMA PrecedesIsTransitive ==
    ASSUME NEW p \in Paths, NEW q \in Paths, NEW r \in Paths, NEW explicit,
           Precedes(p, q, explicit), Precedes(q, r, explicit)
    PROVE  Precedes(p, r, explicit)
<1>1. Priority(p, explicit) \in Nat /\ Priority(q, explicit) \in Nat /\ Priority(r, explicit) \in Nat
  BY PriorityIsANumber
<1>2. PlaceOf(p) \in Nat /\ PlaceOf(q) \in Nat /\ PlaceOf(r) \in Nat
  BY PlacesDiffer
<1> QED BY <1>1, <1>2 DEF Precedes

IsLast(p, paths, explicit) == p \in paths /\ \A q \in paths \ {p} : Precedes(q, p, explicit)

LEMMA LastIsLast ==
    ASSUME NEW D \in SUBSET Paths, NEW explicit
    PROVE  \A s \in SUBSET D : s # {} => IsLast(LastOf(s, explicit), s, explicit)
<1> DEFINE pick == [s \in SUBSET D |-> CHOOSE x \in s : TRUE]
           Has(s) == \E p \in s : IsLast(p, s, explicit)
           T == {s \in SUBSET D : s = {} \/ Has(s)}
<1>1. ASSUME NEW s \in SUBSET D, s # {} PROVE pick[s] \in s
  BY <1>1
<1>2. ASSUME NEW s \in SUBSET D, s # {}, s \ {pick[s]} \in T PROVE s \in T
  <2>1. PICK c \in s : s \ {c} \in T
    BY <1>1, <1>2
  <2>2. CASE s \ {c} = {}
    <3>1. IsLast(c, s, explicit)
      BY <2>2 DEF IsLast
    <3> QED BY <3>1
  <2>3. CASE s \ {c} # {}
    <3>1. PICK p \in s \ {c} : IsLast(p, s \ {c}, explicit)
      BY <2>1, <2>3
    <3>2. c \in Paths /\ p \in Paths /\ c # p
      OBVIOUS
    <3>3. CASE Precedes(c, p, explicit)
      <4>1. IsLast(p, s, explicit)
        BY <3>1, <3>3 DEF IsLast
      <4> QED BY <4>1
    <3>4. CASE Precedes(p, c, explicit)
      <4>1. ASSUME NEW q \in s \ {c} PROVE Precedes(q, c, explicit)
        <5>1. CASE q = p
          BY <3>4, <5>1
        <5>2. CASE q # p
          <6>1. Precedes(q, p, explicit) /\ q \in Paths
            BY <3>1, <5>2 DEF IsLast
          <6> QED BY <3>2, <3>4, <6>1, PrecedesIsTransitive
        <5> QED BY <5>1, <5>2
      <4>2. IsLast(c, s, explicit)
        BY <4>1 DEF IsLast
      <4> QED BY <4>2
    <3> QED BY <3>2, <3>3, <3>4, PrecedesIsTotal
  <2> QED BY <2>2, <2>3
<1>3. T \in SUBSET SUBSET D /\ {} \in T /\ IsFiniteSet(D)
  BY PathsAreFinite, FS_Subset
<1>4. \A s \in SUBSET D : s \in T
  <2> HIDE DEF T, pick
  <2> QED BY <1>1, <1>2, <1>3, PartsAreReached
<1>5. ASSUME NEW s \in SUBSET D, s # {} PROVE IsLast(LastOf(s, explicit), s, explicit)
  <2>1. Has(s)
    BY <1>4, <1>5
  <2> QED BY <2>1 DEF LastOf, IsLast
<1> QED BY <1>5

----------------------------------------------------------------------------
\* what can be packed of these files
Packs(D) == [text : UNION {[E -> Nat] : E \in SUBSET D}, omitted : SUBSET D, summaries : SUBSET D, total : Nat]

\* what is packed once these files are done
PackInv(c, done, sizes, available, explicit) ==
    /\ DOMAIN c.text \subseteq done /\ c.text \in [DOMAIN c.text -> Nat]
    /\ c.total = SumOver(c.text, DOMAIN c.text) /\ c.total \in 0..available
    /\ \A p \in done : IsWhole(c, p, sizes[p]) \/ p \in c.omitted \cap c.summaries
    /\ \A p \in done \ DOMAIN c.text : HighPriority(p, explicit) =>
         c.total >= available /\ \A q \in DOMAIN c.text : Precedes(q, p, explicit)

LEMMA HeadAndTailFits ==
    ASSUME NEW size \in Nat, NEW keep \in Nat
    PROVE  HeadAndTail(size, keep) \in 0..keep
BY DEF HeadAndTail, Least, Marker, Line

LEMMA PacksAreRecords ==
    ASSUME NEW D, NEW c \in Packs(D)
    PROVE  /\ DOMAIN c.text \in SUBSET D /\ c.text \in [DOMAIN c.text -> Nat]
           /\ c.omitted \in SUBSET D /\ c.summaries \in SUBSET D /\ c.total \in Nat
<1>1. PICK E \in SUBSET D : c.text \in [E -> Nat]
  BY DEF Packs
<1>2. DOMAIN c.text = E
  BY <1>1
<1> QED BY <1>1, <1>2 DEF Packs

LEMMA TextsArePacked ==
    ASSUME NEW D, NEW text, DOMAIN text \in SUBSET D, text \in [DOMAIN text -> Nat]
    PROVE  text \in UNION {[E -> Nat] : E \in SUBSET D}
OBVIOUS

LEMMA WithTextTyped ==
    ASSUME NEW D, NEW text, DOMAIN text \in SUBSET D, text \in [DOMAIN text -> Nat],
           NEW p \in D, NEW n \in Nat
    PROVE  /\ DOMAIN WithText(text, p, n) = DOMAIN text \cup {p}
           /\ WithText(text, p, n) \in [DOMAIN WithText(text, p, n) -> Nat]
BY DEF WithText

\* what each way of packing a file makes of the packet
LEMMA PackMoves ==
    ASSUME NEW D, NEW c \in Packs(D), NEW p \in D, NEW n \in Nat
    PROVE  /\ Whole(c, p, n) \in Packs(D) /\ Part(c, p, n) \in Packs(D) /\ SummaryOnly(c, p) \in Packs(D)
           /\ Whole(c, p, n).text = WithText(c.text, p, n) /\ Part(c, p, n).text = WithText(c.text, p, n)
           /\ SummaryOnly(c, p).text = c.text /\ SummaryOnly(c, p).total = c.total
           /\ Whole(c, p, n).total = c.total + n /\ Part(c, p, n).total = c.total + n
           /\ Whole(c, p, n).omitted = c.omitted /\ Whole(c, p, n).summaries = c.summaries
           /\ Part(c, p, n).omitted = c.omitted \cup {p} /\ Part(c, p, n).summaries = c.summaries \cup {p}
           /\ SummaryOnly(c, p).omitted = c.omitted \cup {p} /\ SummaryOnly(c, p).summaries = c.summaries \cup {p}
<1> DEFINE more == WithText(c.text, p, n)
           U == UNION {[E -> Nat] : E \in SUBSET D}
<1>1. /\ DOMAIN c.text \in SUBSET D /\ c.text \in [DOMAIN c.text -> Nat]
      /\ c.omitted \in SUBSET D /\ c.summaries \in SUBSET D /\ c.total \in Nat /\ c.text \in U
  BY PacksAreRecords DEF Packs
<1>2. more \in U
  <2>1. DOMAIN more = DOMAIN c.text \cup {p} /\ more \in [DOMAIN more -> Nat]
    BY <1>1, WithTextTyped
  <2> HIDE DEF more
  <2>2. DOMAIN more \in SUBSET D
    BY <1>1, <2>1
  <2> QED BY <2>1, <2>2, TextsArePacked
<1> DEFINE R == [text : U, omitted : SUBSET D, summaries : SUBSET D, total : Nat]
           short == [[c EXCEPT !.omitted = @ \cup {p}] EXCEPT !.summaries = @ \cup {p}]
           longer == [c EXCEPT !.text = more]
           whole == [longer EXCEPT !.total = @ + n]
           cut == [short EXCEPT !.text = more]
           part == [cut EXCEPT !.total = @ + n]
<1>3. c \in R
  BY DEF Packs
<1>4. ASSUME NEW r \in R
      PROVE  /\ [r EXCEPT !.text = more] \in R /\ [r EXCEPT !.text = more].text = more
             /\ [r EXCEPT !.text = more].omitted = r.omitted
             /\ [r EXCEPT !.text = more].summaries = r.summaries
             /\ [r EXCEPT !.text = more].total = r.total
             /\ [r EXCEPT !.total = @ + n] \in R /\ [r EXCEPT !.total = @ + n].text = r.text
             /\ [r EXCEPT !.total = @ + n].omitted = r.omitted
             /\ [r EXCEPT !.total = @ + n].summaries = r.summaries
             /\ [r EXCEPT !.total = @ + n].total = r.total + n
  <2> HIDE DEF U, more
  <2> QED BY <1>2
<1>5. /\ short \in R /\ short.text = c.text /\ short.total = c.total
      /\ short.omitted = c.omitted \cup {p} /\ short.summaries = c.summaries \cup {p}
  <2> HIDE DEF U, more
  <2>1. /\ [c EXCEPT !.omitted = @ \cup {p}] \in R
        /\ [c EXCEPT !.omitted = @ \cup {p}].text = c.text /\ [c EXCEPT !.omitted = @ \cup {p}].total = c.total
        /\ [c EXCEPT !.omitted = @ \cup {p}].omitted = c.omitted \cup {p}
        /\ [c EXCEPT !.omitted = @ \cup {p}].summaries = c.summaries
    BY <1>1, <1>3
  <2> QED BY <1>1, <1>3, <2>1
<1> HIDE DEF R, U, more
<1>6. /\ whole \in R /\ whole.text = more /\ whole.total = c.total + n
      /\ whole.omitted = c.omitted /\ whole.summaries = c.summaries
  <2>1. /\ longer \in R /\ longer.text = more /\ longer.total = c.total
        /\ longer.omitted = c.omitted /\ longer.summaries = c.summaries
    BY <1>3, <1>4
  <2> HIDE DEF longer
  <2> QED BY <1>4, <2>1
<1>7. /\ part \in R /\ part.text = more /\ part.total = c.total + n
      /\ part.omitted = c.omitted \cup {p} /\ part.summaries = c.summaries \cup {p}
  <2> HIDE DEF short
  <2>1. /\ cut \in R /\ cut.text = more /\ cut.total = c.total
        /\ cut.omitted = c.omitted \cup {p} /\ cut.summaries = c.summaries \cup {p}
    BY <1>4, <1>5
  <2> HIDE DEF cut
  <2> QED BY <1>4, <2>1
<1>8. Packs(D) = R
  BY DEF Packs, R, U
<1>9. Whole(c, p, n) = whole /\ SummaryOnly(c, p) = short
  BY <1>3 DEF Whole, SummaryOnly, more, R
<1>10. Part(c, p, n) = part
  BY <1>3 DEF Part, more, R
<1> QED BY <1>5, <1>6, <1>7, <1>8, <1>9, <1>10 DEF more

LEMMA EmptyPacks ==
    ASSUME NEW D, NEW sizes, NEW available \in Nat, NEW explicit
    PROVE  Empty \in Packs(D) /\ PackInv(Empty, {}, sizes, available, explicit)
<1>1. <<>> \in [{} -> Nat] /\ DOMAIN (<<>>) = {}
  OBVIOUS
<1>2. Empty.text = <<>> /\ Empty.total = 0 /\ Empty.omitted = {} /\ Empty.summaries = {}
  BY DEF Empty
<1>3. Empty \in Packs(D)
  <2>1. <<>> \in UNION {[E -> Nat] : E \in SUBSET D}
    BY <1>1, TextsArePacked
  <2> QED BY <2>1 DEF Empty, Packs
<1> QED BY <1>1, <1>2, <1>3, SumOfNone DEF PackInv

\* what a file becomes in a packet: a text for which there is room, or none
Adds(c, d, p, m, size) ==
    /\ d.text = WithText(c.text, p, m) /\ d.total = c.total + m
    /\ \/ d.omitted = c.omitted /\ d.summaries = c.summaries /\ m = size
       \/ d.omitted = c.omitted \cup {p} /\ d.summaries = c.summaries \cup {p}
LeavesOut(c, d, p) ==
    /\ d.text = c.text /\ d.total = c.total
    /\ d.omitted = c.omitted \cup {p} /\ d.summaries = c.summaries \cup {p}

LEMMA WaysToPack ==
    ASSUME NEW D, NEW c \in Packs(D), NEW p \in D, NEW n \in Nat, NEW size
    PROVE  /\ Whole(c, p, n) \in Packs(D) /\ Adds(c, Whole(c, p, n), p, n, n)
           /\ Part(c, p, n) \in Packs(D) /\ Adds(c, Part(c, p, n), p, n, size)
           /\ SummaryOnly(c, p) \in Packs(D) /\ LeavesOut(c, SummaryOnly(c, p), p)
BY PackMoves DEF Adds, LeavesOut

LEMMA AddFileMoves ==
    ASSUME NEW D, NEW c \in Packs(D), NEW p \in D, NEW size \in Nat,
           NEW available \in Nat, NEW perFile \in Nat, NEW explicit
    PROVE  \E d \in Packs(D) :
             /\ d = AddFile(c, p, size, available, perFile, explicit)
             /\ \/ \E m \in Nat : c.total < available /\ c.total + m <= available /\ Adds(c, d, p, m, size)
                \/ LeavesOut(c, d, p) /\ (HighPriority(p, explicit) => c.total >= available)
<1> DEFINE rest == available - c.total
           keep == Least(perFile, rest)
           n == HeadAndTail(size, keep)
<1>1. c.total \in Nat
  BY PacksAreRecords
<1>2. CASE c.total >= available
  <2>1. AddFile(c, p, size, available, perFile, explicit) = SummaryOnly(c, p)
    BY <1>2 DEF AddFile
  <2> QED BY <1>2, <2>1, WaysToPack
<1>3. CASE ~(c.total >= available)
  <2>1. rest \in Nat /\ c.total < available /\ c.total + rest <= available
    BY <1>1, <1>3
  <2>2. CASE size > perFile
    <3>1. AddFile(c, p, size, available, perFile, explicit) = Part(c, p, n)
      BY <1>3, <2>2 DEF AddFile
    <3> HIDE DEF rest
    <3>2. keep \in Nat /\ keep <= rest
      BY <2>1 DEF Least
    <3> HIDE DEF keep
    <3>3. n \in Nat /\ n <= keep
      BY <3>2, HeadAndTailFits
    <3> HIDE DEF n
    <3>4. c.total + n <= available
      BY <1>1, <2>1, <3>2, <3>3
    <3>5. Part(c, p, n) \in Packs(D) /\ Adds(c, Part(c, p, n), p, n, size)
      BY <3>3, WaysToPack
    <3> QED BY <2>1, <3>1, <3>3, <3>4, <3>5
  <2>3. CASE ~(size > perFile) /\ c.total + size <= available
    <3>1. AddFile(c, p, size, available, perFile, explicit) = Whole(c, p, size)
      BY <1>3, <2>3 DEF AddFile
    <3>2. Whole(c, p, size) \in Packs(D) /\ Adds(c, Whole(c, p, size), p, size, size)
      BY WaysToPack
    <3> QED BY <2>1, <2>3, <3>1, <3>2
  <2>4. CASE ~(size > perFile) /\ ~(c.total + size <= available) /\ HighPriority(p, explicit)
    <3>1. AddFile(c, p, size, available, perFile, explicit) = Part(c, p, rest)
      BY <1>3, <2>4 DEF AddFile
    <3> HIDE DEF rest
    <3>2. Part(c, p, rest) \in Packs(D) /\ Adds(c, Part(c, p, rest), p, rest, size)
      BY <2>1, WaysToPack
    <3> QED BY <2>1, <3>1, <3>2
  <2>5. CASE ~(size > perFile) /\ ~(c.total + size <= available) /\ ~HighPriority(p, explicit)
    <3>1. AddFile(c, p, size, available, perFile, explicit) = SummaryOnly(c, p)
      BY <1>3, <2>5 DEF AddFile
    <3> QED BY <2>5, <3>1, WaysToPack
  <2> QED BY <2>2, <2>3, <2>4, <2>5
<1> QED BY <1>2, <1>3

\* a text is added only where there is room
LEMMA AddedFits ==
    ASSUME NEW D, IsFiniteSet(D), NEW done \in SUBSET D, NEW p \in D, p \notin done,
           NEW sizes, NEW available \in Nat, NEW explicit,
           NEW c, PackInv(c, done, sizes, available, explicit),
           NEW d, NEW m \in Nat, c.total < available, c.total + m <= available, Adds(c, d, p, m, sizes[p])
    PROVE  PackInv(d, done \cup {p}, sizes, available, explicit)
<1>1. /\ c.total \in Nat /\ DOMAIN c.text \subseteq done /\ p \notin DOMAIN c.text
      /\ c.text \in [DOMAIN c.text -> Nat] /\ c.total = SumOver(c.text, DOMAIN c.text)
      /\ IsFiniteSet(DOMAIN c.text)
  BY FS_Subset DEF PackInv
<1>2. /\ DOMAIN d.text = DOMAIN c.text \cup {p} /\ d.text \in [DOMAIN d.text -> Nat]
      /\ d.text[p] = m /\ \A q \in DOMAIN c.text : d.text[q] = c.text[q]
  BY <1>1 DEF WithText, Adds
<1>3. d.total = SumOver(d.text, DOMAIN d.text)
  <2> DEFINE E == DOMAIN c.text
             texts == c.text
  <2>1. Lengths(texts, E) /\ p \notin E
    BY <1>1 DEF Lengths
  <2>2. SumOver(WithText(texts, p, m), E \cup {p}) = SumOver(texts, E) + m
    <3> HIDE DEF E, texts
    <3> QED BY <2>1, SumWithText
  <2> QED BY <1>1, <1>2, <2>2 DEF Adds
<1>4. d.total \in 0..available
  BY <1>1 DEF Adds
<1>5. ASSUME NEW q \in done \cup {p}
      PROVE  IsWhole(d, q, sizes[q]) \/ q \in d.omitted \cap d.summaries
  <2>1. CASE q = p
    BY <1>2, <2>1 DEF IsWhole, Adds
  <2>2. CASE q # p
    <3>1. IsWhole(c, q, sizes[q]) \/ q \in c.omitted \cap c.summaries
      BY <2>2 DEF PackInv
    <3> QED BY <1>2, <3>1 DEF IsWhole, Adds
  <2> QED BY <2>1, <2>2
<1>6. ASSUME NEW q \in (done \cup {p}) \ DOMAIN d.text, HighPriority(q, explicit)
      PROVE  d.total >= available /\ \A x \in DOMAIN d.text : Precedes(x, q, explicit)
  <2>1. q \in done \ DOMAIN c.text
    BY <1>2
  <2>2. c.total >= available
    BY <1>6, <2>1 DEF PackInv
  <2> QED BY <1>1, <2>2
<1> QED BY <1>1, <1>2, <1>3, <1>4, <1>5, <1>6 DEF PackInv

\* a file of high priority is left out only when there is none
LEMMA LeftOutFits ==
    ASSUME NEW D, NEW done \in SUBSET D, NEW p \in D, p \notin done,
           NEW sizes, NEW available \in Nat, NEW explicit,
           \A q \in done : Precedes(q, p, explicit),
           NEW c, PackInv(c, done, sizes, available, explicit),
           NEW d, LeavesOut(c, d, p), HighPriority(p, explicit) => c.total >= available
    PROVE  PackInv(d, done \cup {p}, sizes, available, explicit)
<1>1. /\ d.text = c.text /\ d.total = c.total /\ DOMAIN c.text \subseteq done
      /\ d.omitted = c.omitted \cup {p} /\ d.summaries = c.summaries \cup {p}
  BY DEF PackInv, LeavesOut
<1>2. ASSUME NEW q \in done \cup {p}
      PROVE  IsWhole(d, q, sizes[q]) \/ q \in d.omitted \cap d.summaries
  <2>1. CASE q = p
    BY <1>1, <2>1
  <2>2. CASE q # p
    <3>1. IsWhole(c, q, sizes[q]) \/ q \in c.omitted \cap c.summaries
      BY <2>2 DEF PackInv
    <3> QED BY <1>1, <3>1 DEF IsWhole
  <2> QED BY <2>1, <2>2
<1>3. ASSUME NEW q \in (done \cup {p}) \ DOMAIN d.text, HighPriority(q, explicit)
      PROVE  d.total >= available /\ \A x \in DOMAIN d.text : Precedes(x, q, explicit)
  <2>1. CASE q = p
    BY <1>1, <1>3, <2>1
  <2>2. CASE q # p
    <3>1. q \in done \ DOMAIN c.text
      BY <1>1, <2>2
    <3> QED BY <1>1, <1>3, <3>1 DEF PackInv
  <2> QED BY <2>1, <2>2
<1>4. DOMAIN d.text \subseteq done /\ d.text \in [DOMAIN d.text -> Nat]
      /\ d.total = SumOver(d.text, DOMAIN d.text) /\ d.total \in 0..available
  BY <1>1 DEF PackInv
<1> QED BY <1>2, <1>3, <1>4 DEF PackInv

\* the whole packet
LEMMA CompactPacks ==
    ASSUME NEW D \in SUBSET Paths, NEW sizes \in [D -> Nat],
           NEW available \in Nat, NEW perFile \in Nat, NEW explicit
    PROVE  PackInv(Compact(sizes, available, perFile, explicit), D, sizes, available, explicit)
<1> DEFINE V == Packs(D)
           pick == [s \in SUBSET D |-> LastOf(s, explicit)]
           g == [a \in V \X D |-> AddFile(a[1], a[2], sizes[a[2]], available, perFile, explicit)]
           Grown(h, s) == AddFile(h[s \ {LastOf(s, explicit)}], LastOf(s, explicit),
                                  sizes[LastOf(s, explicit)], available, perFile, explicit)
           next(h) == [s \in SUBSET D |-> IF s = {} THEN Empty ELSE Grown(h, s)]
           filled == CHOOSE h : h = next(h)
<1>1. ASSUME NEW s \in SUBSET D, s # {}
      PROVE  /\ pick[s] = LastOf(s, explicit) /\ LastOf(s, explicit) \in s
             /\ \A q \in s \ {LastOf(s, explicit)} : Precedes(q, LastOf(s, explicit), explicit)
  BY <1>1, LastIsLast DEF IsLast
<1>2. IsFiniteSet(D) /\ \A p \in D : sizes[p] \in Nat
  BY PathsAreFinite, FS_Subset
<1>3. ASSUME NEW c \in V, NEW p \in D
      PROVE  AddFile(c, p, sizes[p], available, perFile, explicit) \in V
  BY <1>2, AddFileMoves
<1>4. g \in [V \X D -> V] /\ \A c \in V, p \in D :
        g[<<c, p>>] = AddFile(c, p, sizes[p], available, perFile, explicit)
  <2> HIDE DEF V
  <2> QED BY <1>3
<1>5. PICK h \in [SUBSET D -> V] : Gathers(h, Empty, g, pick, D)
  <2>1. Picks(pick, D) /\ Empty \in V
    BY <1>1, EmptyPacks DEF Picks
  <2> HIDE DEF pick, g, V
  <2> QED BY <1>2, <1>4, <2>1, GatheringIsDefined
<1>6. ASSUME NEW s \in SUBSET D, s # {}
      PROVE  g[<<h[s \ {pick[s]}], pick[s]>>] = Grown(h, s)
  <2> HIDE DEF pick, g, V
  <2>1. LastOf(s, explicit) \in D /\ h[s \ {LastOf(s, explicit)}] \in V
    BY <1>1, <1>6
  <2> QED BY <1>1, <1>4, <1>6, <2>1
<1>7. h = next(h)
  <2> HIDE DEF pick, g, V, Grown
  <2>1. h = [s \in SUBSET D |-> h[s]] /\ \A s \in SUBSET D : next(h)[s] = h[s]
    BY <1>5, <1>6 DEF Gathers
  <2> QED BY <2>1
<1>8. Compact(sizes, available, perFile, explicit) = filled[D]
  BY DEF Compact
<1>9. filled = next(filled)
  <2> HIDE DEF next
  <2> QED BY <1>7
<1> HIDE DEF filled
<1>10. filled[{}] = Empty /\ \A s \in SUBSET D : s # {} => filled[s] = Grown(filled, s)
  <2> HIDE DEF Grown
  <2> QED BY <1>9
<1> DEFINE Fits(s) == filled[s] \in V /\ PackInv(filled[s], s, sizes, available, explicit)
           T == {s \in SUBSET D : Fits(s)}
<1>11. {} \in T
  BY <1>10, EmptyPacks
<1>12. ASSUME NEW s \in SUBSET D, s # {}, s \ {pick[s]} \in T PROVE s \in T
  <2> DEFINE p == LastOf(s, explicit)
             done == s \ {p}
             c == filled[done]
             d == AddFile(c, p, sizes[p], available, perFile, explicit)
  <2>1. /\ p \in D /\ done \in SUBSET D /\ p \notin done /\ s = done \cup {p}
        /\ \A q \in done : Precedes(q, p, explicit)
    BY <1>1, <1>12
  <2>2. c \in V /\ PackInv(c, done, sizes, available, explicit)
    <3>1. done \in T
      BY <1>1, <1>12
    <3> QED BY <3>1
  <2>3. filled[s] = d
    BY <1>10, <1>12
  <2> HIDE DEF p, done, c
  <2>4. /\ d \in Packs(D)
        /\ \/ \E m \in Nat : c.total < available /\ c.total + m <= available /\ Adds(c, d, p, m, sizes[p])
           \/ LeavesOut(c, d, p) /\ (HighPriority(p, explicit) => c.total >= available)
    BY <1>2, <2>1, <2>2, AddFileMoves
  <2> HIDE DEF d
  <2>5. PackInv(d, done \cup {p}, sizes, available, explicit)
    BY <1>2, <2>1, <2>2, <2>4, AddedFits, LeftOutFits
  <2> QED BY <2>1, <2>3, <2>4, <2>5
<1>13. \A s \in SUBSET D : s \in T
  <2>1. T \in SUBSET SUBSET D /\ \A s \in SUBSET D : s # {} => pick[s] \in s
    BY <1>1
  <2> HIDE DEF T, pick
  <2> QED BY <1>2, <1>11, <1>12, <2>1, PartsAreReached
<1> QED BY <1>8, <1>13

----------------------------------------------------------------------------
\* budgets are numbers of characters
LEMMA BudgetsAreNumbers ==
    ASSUME NEW model \in Models, NEW kind
    PROVE  Available(model, kind) \in Nat /\ PerFile(model, kind) \in Nat
<1>1. Reserved(model) \in Nat
  BY ThreadContextAssumption DEF Reserved, Least, Most
<1>2. MaxChars(model, kind) \in Nat
  <2> DEFINE base == IF Small(model) THEN 24000
                     ELSE IF Large(model) THEN (IF kind = "summary" THEN 100000 ELSE 160000) ELSE 72000
  <2>1. base \in Nat
    OBVIOUS
  <2>2. MaxChars(model, kind) = CASE kind \in Editing -> (base * 12) \div 10
                                  [] kind = "web_research" -> (base * 9) \div 10
                                  [] kind = "git_workflow" -> (base * 8) \div 10
                                  [] OTHER -> base
    BY DEF MaxChars
  <2> HIDE DEF base
  <2>3. (base * 12) \div 10 \in Nat /\ (base * 9) \div 10 \in Nat /\ (base * 8) \div 10 \in Nat
    BY <2>1
  <2>4. kind \in Editing => kind # "web_research" /\ kind # "git_workflow"
    BY DEF Editing
  <2> QED BY <2>1, <2>2, <2>3, <2>4
<1>3. Available(model, kind) \in Nat
  BY <1>1, <1>2 DEF Available, Most
<1>4. FileChars(model, kind) \in Nat
  BY DEF FileChars
<1> QED BY <1>3, <1>4 DEF PerFile, Least

----------------------------------------------------------------------------
\* every text a conversation keeps is one that a file had
TextsFit(texts) == DOMAIN texts \subseteq Paths /\ \A p \in DOMAIN texts : texts[p] \in 1..MaxStamp[p]

StampInv ==
    /\ OwnInv
    /\ disk \in [Paths -> Nat] /\ \A p \in Paths : disk[p] \in 1..MaxStamp[p]
    /\ \A e \in cache : TextsFit(e.texts)
    /\ \A d \in Drivers : TextsFit(run[d].texts) /\ TextsFit(run[d].seen)

\* what a step may make of texts
Takes(new, old) ==
    \/ new = old
    \/ new = <<>>
    \/ \E p \in Paths : new = WithText(old, p, disk[p])
    \/ \E e \in cache : new = e.texts

LEMMA NoRunHasNoTexts == NoRun.texts = <<>> /\ NoRun.seen = <<>>
BY DEF NoRun

LEMMA TakenFit ==
    ASSUME NEW old, NEW new, StampInv, TextsFit(old), Takes(new, old)
    PROVE  TextsFit(new)
<1>1. CASE new = <<>>
  <2>1. DOMAIN new = {}
    BY <1>1
  <2> QED BY <2>1 DEF TextsFit
<1>2. ASSUME NEW p \in Paths, new = WithText(old, p, disk[p]) PROVE TextsFit(new)
  <2>1. DOMAIN new = DOMAIN old \cup {p} /\ \A q \in DOMAIN new : new[q] = IF q = p THEN disk[p] ELSE old[q]
    BY <1>2 DEF WithText
  <2> QED BY <2>1 DEF TextsFit, StampInv
<1> QED BY <1>1, <1>2 DEF Takes, StampInv

LEMMA OverTakes ==
    ASSUME Shaped, NEW d \in Drivers, run' = [run EXCEPT ![d] = NoRun]
    PROVE  Takes(run'[d].texts, run[d].texts) /\ Takes(run'[d].seen, run[d].seen)
<1>1. run'[d] = NoRun
  BY DEF Shaped
<1> QED BY <1>1, NoRunHasNoTexts DEF Takes

LEMMA ToReadIsPath ==
    ASSUME OwnInv, NEW d \in Drivers, Len(run[d].read) + 1 <= Len(ToRead[Repo(d)])
    PROVE  ToRead[Repo(d)][Len(run[d].read) + 1] \in Paths
<1> DEFINE F == RepoFiles[Repo(d)]
<1>1. Repo(d) \in DOMAIN RepoFiles /\ run[d].read \in Seq(F)
  BY ThreadContextAssumption DEF OwnInv, OwnFiles, Shaped, Repo
<1>2. ToRead[Repo(d)] \in Seq(F) /\ F \subseteq Paths
  BY <1>1, ThreadContextAssumption
<1>3. Len(run[d].read) + 1 \in 1..Len(ToRead[Repo(d)])
  BY <1>1, <1>2
<1> QED BY <1>2, <1>3, ElementOfSeq

LEMMA StepsTake ==
    ASSUME OwnInv, NEW d \in Drivers, StartStep(d) \/ CollectStep(d) \/ WorkStep(d) \/ EndStep(d)
    PROVE  Takes(run'[d].texts, run[d].texts) /\ Takes(run'[d].seen, run[d].seen)
<1>0. Shaped
  BY DEF OwnInv
<1>1. CASE Understands(d)
  <2>1. PICK q \in Requests :
          run' = [run EXCEPT ![d] = [NoRun EXCEPT !.at = "understood", !.ask = q, !.given = Given(q)]]
    BY <1>1 DEF Understands
  <2>2. run'[d] = [NoRun EXCEPT !.at = "understood", !.ask = q, !.given = Given(q)]
    BY <1>0, <2>1 DEF Shaped
  <2>3. run'[d].texts = NoRun.texts /\ run'[d].seen = NoRun.seen
    BY <2>2, NoRunIsBlank DEF RunFields
  <2> QED BY <2>3, NoRunHasNoTexts DEF Takes
<1>2. CASE UpdateSaves(d)
  <2>1. CASE Rests(d) = NoRun
    BY <1>0, <1>2, <2>1, OverTakes DEF UpdateSaves
  <2>2. CASE Rests(d) = [run[d] EXCEPT !.at = "waiting", !.draft = Missing]
    <3>1. Rests(d).texts = run[d].texts /\ Rests(d).seen = run[d].seen
      BY <1>0, <2>2 DEF Shaped, RunFields
    <3>2. run'[d] = Rests(d)
      BY <1>0, <1>2 DEF UpdateSaves, Shaped
    <3> QED BY <3>1, <3>2 DEF Takes
  <2> QED BY <2>1, <2>2 DEF Rests
<1>3. CASE Fails(d)
  BY <1>0, <1>3, OverTakes DEF Fails
<1>4. CASE Reads(d)
  <2>1. ToRead[Repo(d)][Len(run[d].read) + 1] \in Paths
    BY <1>4, ToReadIsPath DEF Reads
  <2>2. /\ run'[d].texts = run[d].texts
        /\ run'[d].seen = WithText(run[d].seen, ToRead[Repo(d)][Len(run[d].read) + 1],
                                   disk[ToRead[Repo(d)][Len(run[d].read) + 1]])
    BY <1>0, <1>4 DEF Reads, Shaped, RunFields
  <2> QED BY <2>1, <2>2 DEF Takes
<1>5. CASE ReadsNamed(d)
  <2>1. PICK p \in HighFiles(Repo(d)) : run'[d].texts = WithText(run[d].texts, p, disk[p])
    BY <1>0, <1>5, CollectMoves
  <2>2. p \in Paths
    BY <1>0, HighIsPath DEF Shaped, Repo
  <2>3. run'[d].seen = run[d].seen
    BY <1>0, <1>5 DEF ReadsNamed, Shaped, RunFields
  <2> QED BY <2>1, <2>2, <2>3 DEF Takes
<1>6. CASE CollectHit(d)
  <2>1. run'[d].seen = run[d].seen /\ \E e \in cache : run'[d].texts = e.texts
    BY <1>0, <1>6 DEF CollectHit, Hits, Shaped, RunFields
  <2> QED BY <2>1 DEF Takes
<1>7. CASE RemembersRead(d) \/ Truncates(d, "remembering", "remembers") \/ Remembers(d)
  <2>1. run'[d].texts = run[d].texts /\ run'[d].seen = run[d].seen
    BY <1>0, <1>7 DEF RemembersRead, Truncates, Remembers, Shaped, RunFields
  <2> QED BY <2>1 DEF Takes
<1>8. CASE Keys(d) \/ CollectMiss(d) \/ Collected(d)
  <2>1. run'[d].texts = run[d].texts /\ run'[d].seen = run[d].seen
    BY <1>0, <1>8 DEF Keys, CollectMiss, Collected, Shaped, RunFields
  <2> QED BY <2>1 DEF Takes
<1>9. CASE Proposes(d) \/ Applies(d) \/ Refused(d)
  <2>1. run'[d].texts = run[d].texts /\ run'[d].seen = run[d].seen
    BY <1>0, <1>9 DEF Proposes, Applies, Refused, Shaped, RunFields
  <2> QED BY <2>1 DEF Takes
<1>10. CASE UpdateLoads(d) \/ UpdateReadsFirst(d) \/ Truncates(d, "saving", "saves") \/ Resumes(d) \/ WaitsAgain(d)
  <2>1. run'[d].texts = run[d].texts /\ run'[d].seen = run[d].seen
    BY <1>0, <1>10 DEF UpdateLoads, UpdateReadsFirst, Truncates, Resumes, WaitsAgain, Shaped, RunFields
  <2> QED BY <2>1 DEF Takes
<1> QED BY <1>1, <1>2, <1>3, <1>4, <1>5, <1>6, <1>7, <1>8, <1>9, <1>10
        DEF StartStep, CollectStep, WorkStep, EndStep

LEMMA DiskStaysFit ==
    ASSUME StampInv, NEW p \in Paths, disk[p] < MaxStamp[p], disk' = [disk EXCEPT ![p] = @ + 1]
    PROVE  disk' \in [Paths -> Nat] /\ \A q \in Paths : disk'[q] \in 1..MaxStamp[q]
<1>1. disk' = [q \in Paths |-> IF q = p THEN disk[q] + 1 ELSE disk[q]]
  BY DEF StampInv
<1>2. MaxStamp[p] \in Nat /\ disk[p] \in 1..MaxStamp[p]
  BY ThreadContextAssumption DEF StampInv
<1> QED BY <1>1, <1>2 DEF StampInv

LEMMA StampSteps == StampInv /\ [Next]_vars => StampInv'
<1> SUFFICES ASSUME StampInv, [Next]_vars PROVE StampInv'
  OBVIOUS
<1>0. OwnInv' /\ OwnInv /\ Shaped
  BY OwnSteps DEF StampInv, OwnInv
<1>1. ASSUME NEW d \in Drivers, StartStep(d) \/ CollectStep(d) \/ WorkStep(d) \/ EndStep(d)
      PROVE  StampInv'
  <2>1. Turn(d)
    BY <1>0, <1>1, RunStepMoves
  <2>2. TextsFit(run'[d].texts) /\ TextsFit(run'[d].seen)
    BY <1>0, <1>1, StepsTake, TakenFit DEF StampInv
  <2>3. \A e \in Drivers : TextsFit(run'[e].texts) /\ TextsFit(run'[e].seen)
    BY <2>1, <2>2 DEF Turn, StampInv
  <2>4. disk' \in [Paths -> Nat] /\ \A p \in Paths : disk'[p] \in 1..MaxStamp[p]
    <3>1. CASE Applies(d)
      <4>1. PICK p \in run[d].target : disk[p] < MaxStamp[p] /\ disk' = [disk EXCEPT ![p] = @ + 1]
        BY <3>1 DEF Applies
      <4>2. p \in Paths
        BY <1>0, ThreadContextAssumption DEF OwnInv, OwnFiles, Shaped
      <4> QED BY <4>1, <4>2, DiskStaysFit
    <3>2. CASE disk' = disk
      BY <3>2 DEF StampInv
    <3> QED BY <1>1, <3>1, <3>2
        DEF StartStep, CollectStep, WorkStep, EndStep, Understands, RemembersRead, Truncates, Remembers,
            Keys, CollectHit, CollectMiss, ReadsNamed, Collected, Reads, Proposes, Refused,
            UpdateLoads, UpdateReadsFirst, UpdateSaves, Resumes, WaitsAgain, Fails
  <2>5. \A e \in cache' : TextsFit(e.texts)
    <3>1. CASE Collected(d)
      BY <3>1 DEF Collected, StampInv
    <3>2. CASE cache' = cache
      BY <3>2 DEF StampInv
    <3> QED BY <1>1, <3>1, <3>2
        DEF StartStep, CollectStep, WorkStep, EndStep, Understands, RemembersRead, Truncates, Remembers,
            Keys, CollectHit, CollectMiss, ReadsNamed, Reads, Proposes, Applies, Refused,
            UpdateLoads, UpdateReadsFirst, UpdateSaves, Resumes, WaitsAgain, Fails
  <2> QED BY <1>0, <2>3, <2>4, <2>5 DEF StampInv
<1>2. CASE UserWrites
  <2>1. PICK p \in Paths : disk[p] < MaxStamp[p] /\ disk' = [disk EXCEPT ![p] = @ + 1]
    BY <1>2 DEF UserWrites
  <2>2. cache' = cache /\ run' = run
    BY <1>2 DEF UserWrites
  <2> QED BY <1>0, <2>1, <2>2, DiskStaysFit DEF StampInv
<1>3. CASE Restarts
  <2>1. /\ \A d \in Drivers : run'[d] = run[d] \/ run'[d] = NoRun
        /\ disk' = disk /\ cache' = {}
    BY <1>0, <1>3, RestartMoves DEF Restarts
  <2>2. TextsFit(NoRun.texts) /\ TextsFit(NoRun.seen)
    BY NoRunHasNoTexts DEF TextsFit
  <2> QED BY <1>0, <2>1, <2>2 DEF StampInv
<1>4. CASE DeletesThread \/ UNCHANGED vars
  <2>1. disk' = disk /\ cache' = cache /\ run' = run
    BY <1>4 DEF DeletesThread, vars
  <2> QED BY <1>0, <2>1 DEF StampInv
<1> QED BY <1>1, <1>2, <1>3, <1>4 DEF Next

LEMMA StampStarts == Init => StampInv
<1> SUFFICES ASSUME Init PROVE StampInv
  OBVIOUS
<1>1. OwnFiles(NoRun) /\ Shaped
  BY NoRunIsBlank, BlankIsOwn, ShapedStarts
<1>2. OwnInv
  BY <1>1 DEF Init, OwnInv, KeepsOwn, Missing
<1>3. TextsFit(NoRun.texts) /\ TextsFit(NoRun.seen)
  BY NoRunHasNoTexts DEF TextsFit
<1>4. \A p \in Paths : MaxStamp[p] \in Nat /\ MaxStamp[p] >= 1
  BY ThreadContextAssumption
<1> QED BY <1>2, <1>3, <1>4 DEF Init, StampInv

\* the packer is given lengths of texts that the files had
LEMMA SizesAreNumbers ==
    ASSUME StampInv, NEW d \in Drivers
    PROVE  /\ DOMAIN Sizes(d) \in SUBSET Paths /\ Sizes(d) \in [DOMAIN Sizes(d) -> Nat]
<1> DEFINE E == Evidence(d)
<1>1. TextsFit(run[d].texts) /\ TextsFit(run[d].seen)
  BY DEF StampInv
<1>2. DOMAIN E \subseteq Paths /\ \A p \in DOMAIN E : E[p] \in 1..MaxStamp[p]
  BY <1>1 DEF Evidence, TextsFit
<1>3. Sizes(d) = [p \in DOMAIN E |-> Size(p, E[p])]
  BY DEF Sizes
<1> HIDE DEF E
<1>4. \A p \in DOMAIN E : Size(p, E[p]) \in Nat
  BY <1>2, ThreadContextAssumption
<1> QED BY <1>2, <1>3, <1>4

(* Whatever a run has read and collected, the texts it is shown fit the budget *)
(* of any model the user may configure; what was cut or left out is reported   *)
(* and summarised; and no file of low priority takes the room of a file the    *)
(* run is about.                                                               *)
THEOREM PacketsFit == Spec => []PackFits
<1>1. StampInv => PackFits
  <2> SUFFICES ASSUME StampInv, NEW d \in Drivers, NEW model \in Models
               PROVE  LET shown == Shown(d, model)
                          files == shown.files
                      IN  /\ MapThenSumSet(LAMBDA p : files.text[p], DOMAIN files.text) <= Available(model, shown.kind)
                          /\ \A p \in shown.collected :
                               IsWhole(files, p, Sizes(d)[p]) \/ p \in files.omitted \cap files.summaries
                          /\ \A p \in shown.collected \ DOMAIN files.text :
                               HighPriority(p, shown.explicit) =>
                                   \A q \in DOMAIN files.text : Precedes(q, p, shown.explicit)
    BY DEF PackFits
  <2> DEFINE kind == KindOf(PackState(d))
             explicit == Explicit(PackState(d), kind)
             sizes == Sizes(d)
             available == Available(model, kind)
             perFile == PerFile(model, kind)
             files == Compact(sizes, available, perFile, explicit)
             shown == Shown(d, model)
  <2>1. /\ shown.kind = kind /\ shown.explicit = explicit /\ shown.files = files
        /\ shown.collected = DOMAIN sizes
    BY DEF Shown, Packet
  <2>2. available \in Nat /\ perFile \in Nat
    BY BudgetsAreNumbers
  <2>3. DOMAIN sizes \in SUBSET Paths /\ sizes \in [DOMAIN sizes -> Nat]
    BY SizesAreNumbers
  <2>4. PackInv(files, DOMAIN sizes, sizes, available, explicit)
    <3> HIDE DEF kind, explicit, sizes, available, perFile
    <3> QED BY <2>2, <2>3, CompactPacks
  <2> HIDE DEF kind, explicit, sizes, perFile, files, shown
  <2>5. SumOver(files.text, DOMAIN files.text) <= available
    <3> HIDE DEF available
    <3> QED BY <2>2, <2>4 DEF PackInv
  <2>6. MapThenSumSet(LAMBDA p : files.text[p], DOMAIN files.text) <= available
    BY <2>5 DEF SumOver
  <2>7. \A p \in DOMAIN sizes : IsWhole(files, p, sizes[p]) \/ p \in files.omitted \cap files.summaries
    BY <2>4 DEF PackInv
  <2>8. \A p \in DOMAIN sizes \ DOMAIN files.text : HighPriority(p, explicit) =>
          \A q \in DOMAIN files.text : Precedes(q, p, explicit)
    BY <2>4 DEF PackInv
  <2> QED BY <2>1, <2>6, <2>7, <2>8 DEF shown, sizes
<1> QED BY <1>1, StampStarts, StampSteps, PTL DEF Spec
=============================================================================
