----------------------------- MODULE TaskPolicy -----------------------------
(***************************************************************************)
(* What evidence a task needs, which action gathers it next, how the agent *)
(* recovers from an action that brought nothing, when it may ask the user, *)
(* and the plan of subtasks it shows.  Everything is a function of the     *)
(* evidence record `h' of EditTargets.                                     *)
(*                                                                         *)
(* A query is a name, a symbol, "words" (the terms of the request) or a    *)
(* pattern.  The repository is taken to exist.                             *)
(***************************************************************************)
EXTENDS EditTargets

NoAction == [type |-> "none", files |-> <<>>, queries |-> {}, src |-> "", cmd |-> ""]
Do(type) == [NoAction EXCEPT !.type = type]
Read(files) == [Do("read_file") EXCEPT !.files = files]
Search(queries, src) == [Do("search_files") EXCEPT !.queries = queries, !.src = src]
SearchText(query, src) == [Do("search_text") EXCEPT !.queries = {query}, !.src = src]
Run(type, cmd) == [Do(type) EXCEPT !.cmd = cmd]

Generates == {"generate_edit", "generate_change_set"}
Previews  == {"preview_command", "inspect_git_state"}

\* the first that is not empty
FirstOf(seqs) ==
    LET full == {i \in DOMAIN seqs : seqs[i] # <<>>}
    IN IF full = {} THEN <<>> ELSE seqs[Min(full)]

Has(h, types) == \E i \in DOMAIN h.taken : h.taken[i].type \in types
SearchedFor(h, queries) ==
    \E i \in DOMAIN h.taken : h.taken[i].type = "search_files" /\ h.taken[i].queries \cap queries # {}
SearchedText(h, query) ==
    \E i \in DOMAIN h.taken : h.taken[i].type = "search_text" /\ query \in h.taken[i].queries

\* mutant: files that were read are read again
ReadOrUnread(h, s) == s

Unread(h, s) == Keep(s, Range(s) \ FilesRead(h))

Ineffective(a, r) ==
    \/ r.status \in {"failed", "skipped"}
    \/ a.type \in {"search_files", "search_text"} /\ ~r.hit

\* queries that found nothing
ZeroResult(h) ==
    UNION {h.taken[i].queries : i \in {j \in DOMAIN h.taken :
              /\ h.taken[j].type \in {"search_files", "search_text"}
              /\ Ineffective(h.taken[j], h.results[j])}}

\* what makes two actions the same, whoever proposes them
Signature(a) == <<a.type, Range(a.files), a.queries, a.cmd>>
Failures(h, a) ==
    Cardinality({i \in DOMAIN h.taken : /\ Signature(h.taken[i]) = Signature(a)
                                        /\ Ineffective(h.taken[i], h.results[i])})

(***************************************************************************)
(* Kinds of request                                                        *)
(***************************************************************************)
PolicyEdit(q) == ~q.question /\ (q.editText \/ q.hint \/ q.verb)

RequestShape(q) ==
    CASE q.broad -> "broad"
      [] ~q.broad /\ PolicyEdit(q) -> "edit"
      [] ~q.broad /\ ~PolicyEdit(q) /\ (q.followUp \/ q.prior # <<>>) -> "follow_up"
      [] OTHER -> "summary"

\* the broader signal of the planner: hints of the model count, a "how" does not
EditRequested(q) == ~q.howOnly /\ (q.hint \/ q.editText)

(***************************************************************************)
(* The inventory                                                           *)
(***************************************************************************)
InGroup(groups)  == {f \in TextFiles : About[f].group \in groups}
InGroups(groups) == Keep(Files, InGroup(groups))
HighSignal == {"docs", "configs", "entrypoints"}
LikelyFiles == Leading(InGroups(HighSignal), 8)

FirstBatch ==
    Leading(Leading(InGroups({"docs"}), 2) \o Leading(InGroups({"configs"}), 2)
              \o Leading(InGroups({"entrypoints"}), 2)
              \o Leading(InGroups({"app/service modules"}), 1)
              \o Leading(InGroups({"UI/components"}), 1)
              \o Leading(InGroups({"tests"}), 1) \o Leading(InGroups({"other"}), 1), 8)

HasInventory(h) == \E i \in DOMAIN h.taken : h.taken[i].src = "broad_inventory"
ReadOfGroup(h, groups) == FilesRead(h) \cap InGroup(groups) # {}

(***************************************************************************)
(* Evidence                                                                *)
(***************************************************************************)
Missing(h) ==
    LET shape == RequestShape(h.req)
        tree  == Has(h, {"inspect_repo_tree"}) \/ HasInventory(h)
    IN UNION {
         IF shape \in {"summary", "broad", "edit"} /\ ~tree THEN {"structure"} ELSE {},
         IF shape = "summary" /\ ~ReadOfGroup(h, HighSignal) THEN {"high_signal"} ELSE {},
         IF shape = "broad" /\ ~HasInventory(h) THEN {"inventory"} ELSE {},
         IF shape = "broad" /\ FilesRead(h) = {} THEN {"first_batch"} ELSE {},
         IF shape = "follow_up" /\ FilesRead(h) = {} /\ h.req.prior = <<>> THEN {"prior"} ELSE {},
         IF shape = "edit" /\ ~ReadOfGroup(h, Implementation) /\ Hits(h, 1) = [f \in {} |-> 0]
           THEN {"implementation"} ELSE {},
         IF shape = "edit" /\ Has(h, Generates) /\ \A r \in Range(h.results) : ~r.proposal
           THEN {"proposal"} ELSE {}}

SummaryEvidence(h) ==
    IF ~Has(h, {"inspect_repo_tree"}) THEN Do("inspect_repo_tree")
    ELSE IF Unread(h, LikelyFiles) # <<>> /\ Cardinality(FilesRead(h)) < 6
      THEN Read(Leading(Unread(h, LikelyFiles), 4))
    ELSE NoAction

BroadEvidence(h) ==
    IF ~Has(h, {"inspect_repo_tree"}) THEN Do("inspect_repo_tree")
    ELSE IF ~HasInventory(h) THEN Search({"*.py", "*.md"}, "broad_inventory")
    ELSE IF Unread(h, FirstBatch) # <<>> THEN Read(Unread(h, FirstBatch))
    ELSE NoAction

\* with a target in hand: a little context, the modules behind an entry point
EditContext(h) ==
    LET few     == Cardinality(FilesRead(h)) < 3
        context == Keep(Unread(h, LikelyFiles), InGroup({"docs", "configs"}))
        modules == Keep(Unread(h, Best(Hits(h, 1))), InGroup({"app/service modules", "UI/components"}))
    IN IF few /\ context # <<>> THEN Read(Leading(context, 2))
       ELSE IF few /\ modules # <<>> /\ \E f \in Range(StrongTargets(h)) : About[f].role = "entrypoints"
         THEN Read(Leading(modules, 2))
       ELSE NoAction

EditEvidence(h) ==
    IF ~Has(h, {"inspect_repo_tree"}) THEN Do("inspect_repo_tree")
    ELSE IF StrongTargets(h) # <<>> THEN EditContext(h)
    ELSE IF Unread(h, PromotableFiles(h)) # <<>> THEN Read(Leading(Unread(h, PromotableFiles(h)), 3))
    ELSE IF Unread(h, Best(Hits(h, 1))) # <<>> THEN Read(Leading(Unread(h, Best(Hits(h, 1))), 3))
    ELSE IF /\ ~(Discovery(h.req) \subseteq ZeroResult(h)) /\ FallbackAttempts(h) < 2
            /\ ~SearchedFor(h, Discovery(h.req))
      THEN Search(Discovery(h.req), "edit_discovery")
    ELSE IF Unread(h, LikelyFiles) # <<>> THEN Read(Leading(Unread(h, LikelyFiles), 4))
    ELSE NoAction

FollowUpEvidence(h) ==
    LET topic == h.req.symbols \cup (IF h.req.terms THEN {"words"} ELSE {})
        found == Unread(h, Best(Hits(h, 1)))
    IN IF Unread(h, h.req.prior) # <<>> THEN Read(Leading(Unread(h, h.req.prior), 4))
       ELSE IF topic # {} /\ ~SearchedFor(h, topic) THEN Search(topic, "followup_discovery")
       ELSE IF found # <<>> THEN Read(Leading(found, 3))
       ELSE NoAction

NextEvidence(h) ==
    CASE RequestShape(h.req) = "broad" -> BroadEvidence(h)
      [] RequestShape(h.req) = "edit" -> EditEvidence(h)
      [] RequestShape(h.req) = "follow_up" -> FollowUpEvidence(h)
      [] OTHER -> SummaryEvidence(h)

(***************************************************************************)
(* Asking the user                                                         *)
(***************************************************************************)
Looked(h) == Has(h, {"inspect_repo_tree", "search_files", "search_text", "read_file",
                     "analyze_repository"})

\* a missing piece that was looked for in vain; a shifted strategy counts as an attempt
Exhausted(h) ==
    CASE RequestShape(h.req) = "edit" ->
           /\ Has(h, {"inspect_repo_tree"})
           /\ ZeroResult(h) # {} \/ Has(h, {"search_files"})
           /\ FilesRead(h) # {} \/ h.shifted
      [] RequestShape(h.req) = "broad" -> HasInventory(h) /\ FilesRead(h) # {}
      [] OTHER -> Has(h, {"inspect_repo_tree"}) \/ FilesRead(h) # {}

ShouldAsk(h) ==
    \/ h.req.secret
    \/ /\ Missing(h) # {}
       /\ IF Looked(h) THEN NextEvidence(h) = NoAction /\ Exhausted(h)
          ELSE h.req.irreversible /\ h.req.named = <<>>

(***************************************************************************)
(* Recovery from an action that brought nothing                            *)
(***************************************************************************)
Broader(query) == IF query = "user profile" THEN "user" ELSE ""

RecoverText(h, a) ==
    LET broader == {Broader(x) : x \in a.queries} \ ({""} \cup ZeroResult(h)) IN
    IF h.req.terms /\ ~SearchedFor(h, {"words"}) THEN Search({"words"}, "recovery_filename_search")
    ELSE IF \E x \in broader : ~SearchedText(h, x)
      THEN SearchText(CHOOSE x \in broader : TRUE, "recovery_broaden_search")
    ELSE NextEvidence(h)

RecoverFiles(h, a) ==
    IF Range(h.req.named) \cap a.queries # {} THEN NoAction
    ELSE IF Unread(h, LikelyFiles) # <<>> THEN Read(Leading(Unread(h, LikelyFiles), 4))
    ELSE IF ~Has(h, {"inspect_repo_tree"}) THEN Do("inspect_repo_tree")
    ELSE NextEvidence(h)

RecoverRead(h, a) ==
    LET names == {Base(f) : f \in Range(a.files)} IN
    IF names # {} /\ ~SearchedFor(h, names) THEN Search(names, "recovery_read_basename")
    ELSE NextEvidence(h)

Recovery(h, a, r) ==
    IF RequestShape(h.req) = "edit" /\ StrongTargets(h) # <<>> THEN NoAction
    ELSE CASE a.type = "search_text" -> RecoverText(h, a)
           [] a.type = "search_files" -> RecoverFiles(h, a)
           [] a.type = "read_file" -> RecoverRead(h, a)
           [] a.type \in Generates -> IF r.error THEN Do("final_answer") ELSE NextEvidence(h)
           [] a.type \in Previews \cup {"run_approved_command"} -> Do("final_answer")
           [] OTHER -> NextEvidence(h)

(***************************************************************************)
(* The plan of subtasks                                                    *)
(***************************************************************************)
Operation(type) ==
    CASE type = "inspect_repo_tree" -> "list_files"
      [] type \in {"search_files", "search_text"} -> "search"
      [] type = "read_file" -> "read_file"
      [] type \in Generates -> "edit"
      [] type \in Previews \cup {"run_approved_command"} -> "command"
      [] type \in {"apply_change_set", "create_file"} -> "write"
      [] type \in {"git_commit", "git_branch_create"} -> "git_provider"
      [] type = "fetch_url" -> "web_fetch"
      [] type = "ask_clarification" -> "clarification"
      [] OTHER -> type

PlannedOperations(shape) ==
    CASE shape = "edit" -> <<{"list_files", "search", "read_file"}, {"read_file", "search"},
                             {"edit"}, {"edit"}, {"final_answer"}>>
      [] shape = "broad" -> <<{"list_files", "search"}, {"read_file"}, {"final_answer"}, {"read_file"}>>
      [] shape = "follow_up" -> <<{"search", "read_file"}, {"read_file"}, {"final_answer"}>>
      [] OTHER -> <<{"list_files"}, {"read_file"}, {"final_answer"}>>

FirstPlan(q) ==
    [at |-> 1, steps |-> [i \in DOMAIN PlannedOperations(RequestShape(q)) |->
                            IF i = 1 THEN "running" ELSE "pending"]]

CompletesStep(q, plan, a, r) ==
    IF a.type \in Generates THEN r.proposal \/ r.error
    ELSE Operation(a.type) \in PlannedOperations(RequestShape(q))[plan.at]

Advance(plan) ==
    LET later == {i \in DOMAIN plan.steps : i > plan.at /\ plan.steps[i] = "pending"} IN
    IF later = {} THEN plan
    ELSE LET i == CHOOSE j \in later : \A k \in later : j <= k
         IN [at |-> i, steps |-> [plan.steps EXCEPT ![i] = "running"]]

UpdatePlan(q, plan, a, r) ==
    IF r.status = "failed" THEN [plan EXCEPT !.steps[plan.at] = "blocked"]
    ELSE IF r.status \in {"success", "skipped"} /\ CompletesStep(q, plan, a, r)
      THEN Advance([plan EXCEPT !.steps[plan.at] = "completed"])
    ELSE plan

BlockPlan(plan) == [plan EXCEPT !.steps[plan.at] = "blocked"]
=============================================================================
