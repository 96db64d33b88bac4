---------------------------- MODULE EditTargets ----------------------------
(***************************************************************************)
(* Which files an edit may be prepared for.  The evidence of a run (what   *)
(* the request names, what was read and found, what earlier turns worked   *)
(* on) becomes points per file; a file that has been read and reaches the  *)
(* threshold is a target.  A request is a record `q', the evidence of a    *)
(* run a record `h' with the request, the actions taken and their results. *)
(*                                                                         *)
(* Suffixes, symbol and term extraction and framework detection are data   *)
(* of a file (About).  Not here: the context packet, whose contents would  *)
(* count as read without any action.                                       *)
(***************************************************************************)
EXTENDS Integers, SequencesExt

CONSTANTS
    Files,    \* the text files of the repository, in the order of the inventory
    Opaque,   \* its files that are not readable text
    About     \* what a text file is and holds

TextFiles == Range(Files)
Groups == {"docs", "configs", "entrypoints", "app/service modules",
           "UI/components", "tests", "other"}

ASSUME EditTargetsAssumption ==
    /\ Files \in Seq(TextFiles)
    /\ Opaque \cap TextFiles = {}
    /\ \A f \in TextFiles :
          /\ About[f].group \in Groups      \* as the task policy groups it
          /\ About[f].role \in Groups       \* as the target selection does
          /\ About[f].terms \in Nat         \* words of the request it holds

Implementation == {"entrypoints", "app/service modules", "UI/components"}
Implements(f) == About[f].role \in Implementation
Least(a, b) == IF a < b THEN a ELSE b
When(p, n) == IF p THEN n ELSE 0
Place(f) == CHOOSE i \in DOMAIN Files : Files[i] = f
Leading(s, n) == SubSeq(s, 1, Least(n, Len(s)))

\* the members of a sequence that are in S, in their order
Keep(s, S) ==
    LET kept[i \in 0..Len(s)] ==
            IF i = 0 THEN <<>>
            ELSE IF s[i] \in S THEN Append(kept[i-1], s[i]) ELSE kept[i-1]
    IN kept[Len(s)]

\* a name the user gave: a path of the repository, or the name of a file in it
Resolve(name) ==
    IF name \in TextFiles \cup Opaque THEN {name} ELSE {f \in TextFiles : About[f].base = name}
Base(f) == IF f \in TextFiles THEN About[f].base ELSE f

(***************************************************************************)
(* Evidence                                                                *)
(***************************************************************************)
FilesRead(h) == UNION {r.files : r \in Range(h.results)}
Contents(h)  == UNION {r.contents : r \in Range(h.results)}

\* the hits of the latest search that found anything worth `least' points
Hits(h, least) ==
    LET worth(i) == {f \in DOMAIN h.results[i].found : h.results[i].found[f] >= least}
        useful   == {i \in DOMAIN h.results : worth(i) # {}}
    IN IF useful = {} THEN [f \in {} |-> 0]
       ELSE LET last == CHOOSE i \in useful : \A j \in useful : j <= i
            IN [f \in worth(last) |-> h.results[last].found[f]]

\* the best of some files: the most points, else the first of the inventory
Foremost(score, files) ==
    CHOOSE f \in files : \A g \in files \ {f} :
        \/ score[f] > score[g]
        \/ score[f] = score[g] /\ f \in TextFiles /\ (g \notin TextFiles \/ Place(f) < Place(g))

\* the files with a score, the best ones first
Best(score) ==
    LET ranked[n \in 0..Cardinality(DOMAIN score)] ==
            IF n = 0 THEN <<>>
            ELSE LET ahead == ranked[n-1]
                 IN Append(ahead, Foremost(score, DOMAIN score \ Range(ahead)))
    IN ranked[Cardinality(DOMAIN score)]

Explicit(q) == UNION {Resolve(n) : n \in Range(q.named)}
Anchors(q, model) == Explicit(q) \cup q.ide \cup model

\* work of an earlier turn counts when this request could mean it
PriorFits(q, model, f) ==
    /\ Anchors(q, model) = {} \/ f \in Anchors(q, model)
    /\ q.priorFits

Reused(q, model) ==
    {f \in q.priorTargets \cup Range(q.prior) \cup q.priorProposal : PriorFits(q, model, f)}

Considered(h, model) ==
    (Anchors(h.req, model) \cup FilesRead(h) \cup DOMAIN Hits(h, 1) \cup Reused(h.req, model))
        \cap TextFiles

(***************************************************************************)
(* Points                                                                  *)
(***************************************************************************)
Pointed(h, model, f) ==
    When(f \in Explicit(h.req), 120) + When(f \in h.req.ide, 90) + When(f \in model, 70)
      + When(f \in FilesRead(h), IF f \in Contents(h) THEN 30 ELSE 8)
      + When(f \in DOMAIN Hits(h, 1), Least(75, Hits(h, 1)[f]))

\* a prior target is worth its old score, a path an earlier turn only touched less
Remembered(q, model, f) ==
    IF ~PriorFits(q, model, f) THEN 0
    ELSE When(f \in q.priorTargets, 65)
           + When(f \in Range(q.prior) \cup q.priorProposal,
                  IF f \in q.priorProposal THEN 72 ELSE 28)

RolePoints(f) ==
    CASE About[f].role = "entrypoints" -> 22 + 10
      [] About[f].role \in Implementation -> 22
      [] About[f].role = "configs" -> -25
      [] About[f].role = "docs" -> -35
      [] About[f].role = "tests" -> -20
      [] OTHER -> 0

Matched(q, f) == When(q.terms, About[f].terms)

Evidence(h, f) ==
    LET a == About[f] IN
    RolePoints(f) + (IF a.dominant THEN 10 ELSE -12) + When(a.fallback, 6)
      + When(f \in Contents(h),
             Least(22, 4 * Cardinality(a.symbols)) + When(a.imports, 4)
               + Least(42, 7 * Matched(h.req, f)) + When(a.framework, 5))
      + Least(18, 6 * Cardinality({g \in Contents(h) \ {f} :
                                     /\ About[g].role \in {"entrypoints", "configs"}
                                     /\ f \in About[g].mentions}))

Viable(q, model, f) == Implements(f) \/ f \in Anchors(q, model)

PlainScore(h, model, f) ==
    Pointed(h, model, f) + Remembered(h.req, model, f) + Evidence(h, f)
      + When(~Viable(h.req, model, f), -80)

MatchesNow(h, model, f) ==
    \/ f \in Anchors(h.req, model)
    \/ f \in Contents(h) /\ h.req.symbols \cap About[f].symbols # {}
    \/ f \in Contents(h) /\ Matched(h.req, f) > 0

\* files this request itself speaks for
Winners(h, model) ==
    {f \in Considered(h, model) \ Reused(h.req, model) :
        /\ Implements(f)
        /\ \/ f \in Anchors(h.req, model) \cup DOMAIN Hits(h, 1)
           \/ f \in FilesRead(h) \cap Contents(h)
        /\ \/ PlainScore(h, model, f) >= 70
           \/ f \in Contents(h) /\ Matched(h.req, f) > 0}

Conflict(h, model, f) ==
    IF f \notin Reused(h.req, model) \/ MatchesNow(h, model, f) THEN 0
    ELSE IF h.req.symbols # {} THEN -70
    ELSE When(Winners(h, model) # {}, -65)

Scores(h, model) ==
    [f \in Considered(h, model) |-> PlainScore(h, model, f) + Conflict(h, model, f)]

(***************************************************************************)
(* The selection                                                           *)
(***************************************************************************)
AlreadyRead(h) == FilesRead(h) \cup Contents(h)
Able(score) == {f \in DOMAIN score : Implements(f) /\ score[f] >= 70}

\* mutant: a target need not have been read
StrongUnread(score, h) == Keep(Best(score), Able(score))

Strong(score, h)     == Keep(Best(score), Able(score) \cap AlreadyRead(h))
Promotable(score, h) == Keep(Best(score), Able(score) \ AlreadyRead(h))

StrongTargets(h)   == Strong(Scores(h, {}), h)
PromotableFiles(h) == Promotable(Scores(h, {}), h)

\* the files the request, the editor or the model points at, else the best one;
\* a module that is nearly as good as the entry point owns the behaviour
Preferred(score, strong, anchors) ==
    LET anchored == Keep(strong, anchors)
        top      == strong[1]
        owners   == Keep(Tail(strong), {f \in Range(strong) : /\ About[f].role # "entrypoints"
                                                              /\ score[top] - score[f] <= 25})
    IN IF strong = <<>> THEN <<>>
       ELSE IF anchored # <<>> THEN Leading(anchored, 3)
       ELSE IF About[top].role = "entrypoints" /\ owners # <<>> THEN <<owners[1]>>
       ELSE <<top>>

Among(score, h, model) == Preferred(score, Strong(score, h), Anchors(h.req, model))
SelectTargets(h, model) == Among(Scores(h, model), h, model)

\* what an edit without a target is searched by: names, symbols, words, suffixes
Discovery(q) ==
    Range(q.named) \cup q.symbols \cup (IF q.terms THEN {"words"} ELSE {}) \cup {"*.py"}

FallbackAttempts(h) ==
    Cardinality({i \in DOMAIN h.taken : h.taken[i].src \in
                   {"edit_discovery", "recovery_filename_search", "recovery_broaden_search"}})
=============================================================================
