----------------------------- MODULE FinalAnswer -----------------------------
(***************************************************************************)
(* What the user is told at the end of a run, from the evidence record of  *)
(* the run, the text that an earlier node has left (`said') and, when      *)
(* neither decides, the text of the model.  Only three things of an answer *)
(* are kept: where it comes from, whether it says that a file was changed, *)
(* and whether it says that none was.  The texts that the program words    *)
(* itself are taken not to look like the faulty texts of a model.          *)
(*                                                                         *)
(* Beyond EditTargets, a run `c' has stop, changed (files were written)    *)
(* and said; a result has changes (a proposal with changes, valid or not), *)
(* ran (a command has an exit code) and approved.  Languages, source notes *)
(* and the list of evidence are left out.                                  *)
(***************************************************************************)
EXTENDS TaskPolicy

\* kinds of text of the model: plain, it claims an edit, it says that it should
\* ask, it says that it cannot read the files, it promises a summary, it talks of
\* the repository, it follows what a file tells it, it leaks notes of its own
\* work, limits of the loop, metadata or bare JSON
Texts == {"plain", "claims", "muses", "unread", "placeholder", "repo_claim", "hijacked", "leaks"}

Says(from)     == [from |-> from, claims |-> FALSE, denies |-> FALSE]
Claiming(from) == [Says(from) EXCEPT !.claims = TRUE]
Denying(from)  == [Says(from) EXCEPT !.denies = TRUE]
Written(text)  == IF text = "claims" THEN Claiming(text) ELSE Says(text)

\* the first row whose condition holds
FirstRow(rows) ==
    LET held == {i \in DOMAIN rows : rows[i].when}
    IN rows[CHOOSE i \in held : \A j \in held : i <= j].then
Row(p, answer) == [when |-> p, then |-> answer]

\* a change the user asks for in so many words, and not only a plan of it
ChangeRequest(q) == q.editText /\ ~q.planning

(***************************************************************************)
(* What the results show                                                   *)
(***************************************************************************)
Generations(c) == {i \in DOMAIN c.taken : c.taken[i].type \in Generates}
SuccessfulRuns(c) == {i \in DOMAIN c.results : c.results[i].ran /\ c.results[i].status = "success"}

\* the latest generation brought nothing at all
CameUpEmpty(c) ==
    /\ Generations(c) # {}
    /\ LET r == c.results[Max(Generations(c))]
       IN ~r.changes /\ r.status \in {"failed", "skipped"}

\* the latest generation has changes, and they are not valid
InvalidProposal(c) ==
    /\ Generations(c) # {}
    /\ LET r == c.results[Max(Generations(c))] IN r.error /\ r.changes

EditProposal(c) ==
    \E i \in DOMAIN c.taken : c.taken[i].type = "generate_edit" /\ c.results[i].proposal

ApprovedWrite(c) ==
    \E i \in DOMAIN c.taken : /\ c.taken[i].type = "create_file"
                              /\ c.results[i].status = "success" /\ c.results[i].approved

EditAttempted(c) == Has(c, Generates \cup {"apply_change_set"})

Unfulfilled(c) ==
    /\ ChangeRequest(c.req)
    /\ EditAttempted(c)
    /\ \A r \in Range(c.results) : ~r.changes /\ ~r.error
    /\ ~c.changed

(***************************************************************************)
(* Repairs of a text                                                       *)
(***************************************************************************)
NeedsRepair(answer) == answer.from = "leaks"

\* worded from the contents of the files that were read, without the model
FromEvidence == Says("evidence")

\* the model writes the answer again; when that needs repair too, it is worded
\* from the evidence
Rewritten(again) ==
    IF NeedsRepair(Written(again)) THEN FromEvidence ELSE Written(again)

\* a text that talks of the repository before anything was looked at
Unfounded(c, answer) ==
    /\ answer.from = "repo_claim"
    /\ FilesRead(c) = {} /\ SuccessfulRuns(c) = {} /\ Len(c.results) <= 1

\* a proposal of generate_edit is never an applied one
Repaired(c, answer, again) ==
    FirstRow(<<Row(NeedsRepair(answer), Rewritten(again)),
               Row(/\ EditProposal(c) /\ ~answer.denies
                   /\ answer.from = "apply_failed" \/ (answer.claims /\ answer.from # "write"),
                   Denying("proposal")),
               Row(\/ answer.from = "unread" /\ FilesRead(c) # {}
                   \/ answer.from = "placeholder"
                   \/ Unfounded(c, answer), FromEvidence),
               Row(TRUE, answer)>>)

(***************************************************************************)
(* Questions                                                               *)
(***************************************************************************)
\* what is asked in the place of a text that asks nothing: for a plan, a plan is
\* offered; what is not there is said not to be; a feature whose files were read
\* is outlined
Clarification(c) ==
    FirstRow(<<Row(c.req.planning, Says("plan")),
               Row(c.req.question, Says("not_found")),
               Row(c.req.editText /\ FilesRead(c) # {}, Says("outline")),
               Row(TRUE, Says("question"))>>)

\* the model's own question
Asked(c, text) == IF c.req.planning \/ text = "muses" THEN Clarification(c) ELSE Written(text)

(***************************************************************************)
(* The draft                                                               *)
(***************************************************************************)
\* with the contents of files at hand a text that denies them is not accepted
ModelAnswer(c, text, again) ==
    Repaired(c, IF text = "unread" /\ Contents(c) # {} THEN FromEvidence ELSE Written(text), again)

ReadOfMany(c) == c.req.broad /\ FilesRead(c) # {}

OutOfEvidence(c) ==
    \/ c.stop \in {"failed", "timed_out"}
    \/ /\ c.stop \in {"max_loop_iterations", "max_file_reads", "max_commands"}
       /\ FilesRead(c) = {} /\ SuccessfulRuns(c) = {}

Draft(c, text, again) ==
    FirstRow(<<Row(c.stop = "cancelled", Says("cancelled")),
               Row(ApprovedWrite(c), Claiming("write")),
               Row(EditProposal(c), Denying("proposal")),
               Row(\E r \in Range(c.results) : r.error, Denying("error")),
               Row(Unfulfilled(c), Denying("unfulfilled")),
               Row(\E r \in Range(c.results) : r.ran, Says("command")),
               Row(ReadOfMany(c), Says("broad")),
               Row(OutOfEvidence(c), Says("limited")),
               Row(TRUE, ModelAnswer(c, text, again))>>)

\* the answer that a node before the final one has left
Left(said) ==
    CASE said = "applied" -> Claiming(said)
      [] said \in {"rejected", "write_denied"} -> Denying(said)
      [] OTHER -> Says(said)

Opening(c, text, again) ==
    FirstRow(<<Row(InvalidProposal(c), Denying("invalid")),
               Row(c.said = "asked", Asked(c, text)),
               Row(c.said # "", Left(c.said)),
               Row(c.req.offTopic, Says("off_topic")),
               Row(c.req.meta /\ ~c.changed, Says("meta")),
               Row(TRUE, Draft(c, text, again))>>)

(***************************************************************************)
(* The last checks                                                         *)
(***************************************************************************)
\* an answer that only a text in the repository has asked for
Guarded(answer) == IF answer.from = "hijacked" THEN Says("injection") ELSE answer

\* mutant: a claim of the model passes when an edit was attempted
BackstopUnlessAttempted(c, answer) ==
    IF answer.claims /\ ~c.changed /\ ~EditAttempted(c) THEN [answer EXCEPT !.denies = TRUE] ELSE answer

\* an answer that claims an edit is told apart from the disk
Backstop(c, answer) ==
    IF answer.claims /\ ~c.changed THEN [answer EXCEPT !.denies = TRUE] ELSE answer

FinalAnswer(c, text, again) ==
    LET repaired == Repaired(c, Opening(c, text, again), again)
        scoped   == IF c.req.offTopic THEN Says("off_topic") ELSE repaired
        how      == IF c.req.howOnly /\ ~c.changed THEN [scoped EXCEPT !.denies = TRUE] ELSE scoped
        asked    == IF how.from = "muses" THEN Clarification(c) ELSE how
    IN Backstop(c, Guarded(asked))
=============================================================================
