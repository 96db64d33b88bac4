---------------------------- MODULE ContextPacker ----------------------------
(***************************************************************************)
(* What the model is shown of a run: pack_context chooses the kind of the  *)
(* packet, collects the texts of the files, lets compact_file_contents fit *)
(* them in the budget of the model's profile, and reports what it kept.    *)
(*                                                                         *)
(* A text is its length in characters (Len of the code); what a text says  *)
(* is kept by the caller.  A run is a record of the fields of the graph    *)
(* state that the packer reads.                                            *)
(***************************************************************************)
EXTENDS Integers, FiniteSets, Sequences, SequencesExt, FiniteSetsExt, Functions

CONSTANTS
    PathRank,   \* per path: 1 a readme, 2 an entry file, 3 a manifest, 4 others
    PathOrder   \* all paths, by lower-cased name

ASSUME PackerAssumption ==
    /\ PathOrder \in Seq(Range(PathOrder))
    /\ PathRank \in [Range(PathOrder) -> 1..4]
    /\ IsInjective(PathOrder)

Kinds == {"summary", "edit", "validation", "repair", "broad_analysis", "web_research", "git_workflow"}
Editing == {"edit", "repair", "validation"}

\* _context_kind_for_state: the first of these that holds of the run
KindOf(r) ==
    IF r.repairs > 0 \/ r.errors # {} THEN "repair"
    ELSE IF r.validated THEN "validation"
    ELSE IF r.proposal # "none" \/ r.task.edit THEN "edit"
    ELSE IF r.task.web THEN "web_research"
    ELSE IF r.task.broad /\ ~r.supervised /\ r.read = {} THEN "broad_analysis"
    ELSE IF r.git THEN "git_workflow"
    ELSE "summary"

Least(a, b) == IF a < b THEN a ELSE b
Most(a, b) == IF a > b THEN a ELSE b

\* _compression_strategy, for a model the worker does not know
StrategyFor(window) ==
    IF window <= 32000 THEN "aggressive" ELSE IF window >= 200000 THEN "generous" ELSE "balanced"

\* detect_model_profile: a window the user configured (0: none) goes before the
\* one of the known model; the window and the output are in tokens
Profile(known, configured) ==
    LET window == IF configured > 0 THEN configured ELSE IF known.window > 0 THEN known.window ELSE 64000
    IN  [window |-> window,
         output |-> IF known.output > 0 THEN known.output ELSE Least(8192, Most(1024, window \div 8)),
         strategy |-> IF known.strategy # "" THEN known.strategy ELSE StrategyFor(window)]

\* _budget_for: what may be included in all, and of one file
Small(p) == p.strategy = "aggressive" \/ p.window <= 32000
Large(p) == ~Small(p) /\ (p.strategy = "generous" \/ p.window >= 200000)

MaxChars(p, kind) ==
    LET base == IF Small(p) THEN 24000
                ELSE IF Large(p) THEN (IF kind = "summary" THEN 100000 ELSE 160000) ELSE 72000
    IN  CASE kind \in Editing -> (base * 12) \div 10
          [] kind = "web_research" -> (base * 9) \div 10
          [] kind = "git_workflow" -> (base * 8) \div 10
          [] OTHER -> base

FileChars(p, kind) ==
    LET base == IF Small(p) THEN 6000 ELSE IF Large(p) THEN 50000 ELSE 24000
    IN  IF kind = "summary" THEN (base * 3) \div 4 ELSE base

Reserved(p) == Least(12000, Most(2000, p.output))

Available(p, kind) == Most(1, MaxChars(p, kind) - Reserved(p))
PerFile(p, kind) == Least(FileChars(p, kind), Available(p, kind))

\* _explicit_files: what the run is about comes first
Explicit(r, kind) ==
    r.changed \cup r.read \cup r.task.names \cup r.proposed \cup r.active
    \cup IF kind \in Editing THEN r.open ELSE {}

\* _priority, and its order
Priority(path, explicit) == IF path \in explicit THEN 0 ELSE PathRank[path]
HighPriority(path, explicit) == Priority(path, explicit) <= 2

PlaceOf(path) == CHOOSE i \in DOMAIN PathOrder : PathOrder[i] = path

Precedes(p, q, explicit) ==
    \/ Priority(p, explicit) < Priority(q, explicit)
    \/ Priority(p, explicit) = Priority(q, explicit) /\ PlaceOf(p) < PlaceOf(q)

\* the one that comes after all others
LastOf(paths, explicit) ==
    CHOOSE p \in paths : \A q \in paths \ {p} : Precedes(q, p, explicit)

\* _head_and_tail: the marker between the two ends is about Marker characters
\* long, and the ends stop at line boundaries: Line characters may be lost
Marker == 48
Line == 80

HeadAndTail(size, keep) ==
    IF size <= keep \/ keep <= Marker + 40 THEN Least(size, keep) ELSE keep - Least(Line, keep - Marker)

(***************************************************************************)
(* compact_file_contents, one file after another                           *)
(***************************************************************************)
\* the texts with one more
WithText(texts, p, text) == [q \in DOMAIN texts \cup {p} |-> IF q = p THEN text ELSE texts[q]]

Empty == [text |-> <<>>, omitted |-> {}, summaries |-> {}, total |-> 0]

Whole(c, path, size) ==
    [c EXCEPT !.text = WithText(@, path, size), !.total = @ + size]

Part(c, path, length) ==
    [c EXCEPT !.text = WithText(@, path, length), !.total = @ + length,
              !.omitted = @ \cup {path}, !.summaries = @ \cup {path}]

SummaryOnly(c, path) ==
    [c EXCEPT !.omitted = @ \cup {path}, !.summaries = @ \cup {path}]

\* mutant: a long file is cut to its own limit only
CutToFile(c, path, size, available, perFile, explicit) ==
    IF c.total >= available THEN SummaryOnly(c, path)
    ELSE IF size > perFile THEN Part(c, path, HeadAndTail(size, perFile))
    ELSE IF c.total + size <= available THEN Whole(c, path, size)
    ELSE IF HighPriority(path, explicit) THEN Part(c, path, available - c.total)
    ELSE SummaryOnly(c, path)

AddFile(c, path, size, available, perFile, explicit) ==
    IF c.total >= available THEN SummaryOnly(c, path)
    ELSE IF size > perFile THEN Part(c, path, HeadAndTail(size, Least(perFile, available - c.total)))
    ELSE IF c.total + size <= available THEN Whole(c, path, size)
    ELSE IF HighPriority(path, explicit) THEN Part(c, path, available - c.total)
    ELSE SummaryOnly(c, path)

Compact(sizes, available, perFile, explicit) ==
    LET filled[done \in SUBSET DOMAIN sizes] ==
          IF done = {} THEN Empty
          ELSE LET p == LastOf(done, explicit)
               IN  AddFile(filled[done \ {p}], p, sizes[p], available, perFile, explicit)
    IN  filled[DOMAIN sizes]

(***************************************************************************)
(* the packet and its report                                               *)
(***************************************************************************)
\* _active_change_set_state, _applied_change_summaries: a proposal is shown as
\* active whatever became of it, and as applied once it was
ActiveProposal(r) == r.proposal # "none"
AppliedChanges(r) == r.proposal = "applied"

\* build_short_term_memory: the files read, with a summary, and the rest of
\* what was summarised
Digests(r, compacted) == r.read \cup compacted.summaries

SectionIf(condition, section) == IF condition THEN {section} ELSE {}

\* _included_sections
Sections(r, kind) ==
    {"current_user_request", "model_profile", "base_context", "file_evidence",
     "short_term_memory", "safety", "target_selection", "memory_carryover"}
    \cup SectionIf(r.active # {} \/ r.open # {}, "ide_context")
    \cup SectionIf(r.waiting, "active_approval")
    \cup SectionIf(ActiveProposal(r), "active_proposal")
    \cup SectionIf(r.errors # {}, "validation_errors")
    \cup SectionIf(AppliedChanges(r), "applied_changes")
    \cup CASE kind = "edit" -> {"edit_targets", "proposal_context"}
           [] kind = "repair" -> {"repair_errors", "previous_proposal"}
           [] kind = "validation" -> {"validation_context"}
           [] kind = "broad_analysis" -> {"worker_reports", "file_digest_summaries"}
           [] kind = "web_research" -> {"web_source_metadata", "untrusted_web_summary"}
           [] kind = "git_workflow" -> {"git_workflow", "applied_changes"}
           [] OTHER -> {"summary_memory"}

\* build_packet, of the texts of the files the run has seen
Packet(r, kind, sizes, profile) ==
    LET explicit == Explicit(r, kind)
        compacted == Compact(sizes, Available(profile, kind), PerFile(profile, kind), explicit)
    IN  [kind |-> kind, explicit |-> explicit, collected |-> DOMAIN sizes, files |-> compacted,
         digests |-> Digests(r, compacted), sections |-> Sections(r, kind),
         errors |-> r.errors]
=============================================================================
