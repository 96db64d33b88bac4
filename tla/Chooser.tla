------------------------------- MODULE Chooser -------------------------------
(***************************************************************************)
(* One run of the agent's loop: the budget, the choice of the next action  *)
(* from the evidence (a list of choosers, the first usable proposal wins), *)
(* the tool, what its result adds to the evidence, the user's answer to an *)
(* approval, and the final answer.                                         *)
(*                                                                         *)
(* A request (see EditTargets) also has url, offTopic, meta, commit (only  *)
(* a commit is asked for), branch, create, planning, cmd (the command it   *)
(* asks to run, or ""), commitIt, readOnly (asks to read or explain),      *)
(* review, and auto (the permission mode applies valid edits at once).     *)
(* Every named file has a suffix.  The routes of the graph, the validation *)
(* of applied files, push and review are AgentGraph's; steering, reviews   *)
(* of whole repositories and subagents are left out.                       *)
(***************************************************************************)
EXTENDS FinalAnswer

CONSTANTS
    Requests,    \* the requests considered
    Finds,       \* what a search of names may return: files and their points
    Class,       \* of a command: "read_only", "gated" or "auto"
    Menu,        \* the actions a model may propose, of source "model", or "approval" when
                 \* it says that it asks for one
    MaxModel,    \* bound: proposals of the model that are used
    MaxFaults    \* bound: tools that fail without need

VARIABLES core,     \* the evidence record of the run
          phase,    \* where the loop is
          next,     \* the action that was chosen
          reply     \* the final answer

vars == <<core, phase, next, reply>>

Searches == {"search_files", "search_text"}
GitCommands == {"git log", "git status"}
CommandActions == {"preview_command", "run_approved_command", "run_validation_command",
                   "request_command_approval", "inspect_git_state"}

ASSUME ChooserAssumption ==
    /\ MaxModel \in Nat /\ MaxFaults \in Nat
    /\ \A f \in Finds : DOMAIN f \subseteq TextFiles
    /\ GitCommands \subseteq DOMAIN Class /\ "" \notin DOMAIN Class   \* "" stands for no command
    /\ \A cmd \in DOMAIN Class : Class[cmd] \in {"read_only", "gated", "auto"}
    /\ \A q \in Requests :
          /\ q.cmd \in DOMAIN Class \cup {""}
          /\ q.prior \in Seq(Range(q.prior)) /\ q.named \in Seq(Range(q.named))
    /\ \A m \in Menu :
          /\ DOMAIN m = DOMAIN NoAction /\ m.type # "none" /\ m.files \in Seq(Range(m.files))
          /\ m.src = "model" \/ (m.src = "approval" /\ m.type = "ask_clarification")
          /\ m.type \in CommandActions => m.cmd \in DOMAIN Class

(***************************************************************************)
(* The budget                                                              *)
(***************************************************************************)
Budget(q) ==
    LET b(turns, reads, commands) == [turns |-> turns, reads |-> reads, commands |-> commands] IN
    CASE q.review -> b(16, 32, 6)
      [] ~q.review /\ EditRequested(q) /\ q.named # <<>> -> b(8, 12, 4)
      [] ~q.review /\ EditRequested(q) /\ q.named = <<>> -> b(12, 16, 4)
      [] ~q.review /\ ~EditRequested(q) /\ q.named # <<>> -> b(5, 8, 3)
      [] OTHER -> b(6, 8, 3)

HardLimit == 18

\* an edit that has not yet read the entry point gets two turns more
Extends(c) ==
    /\ c.turn >= c.limit /\ c.limit < HardLimit
    /\ EditRequested(c.req) /\ c.req.named = <<>>
    /\ "main.py" \in TextFiles \ FilesRead(c)

Exceeded(c) ==
    CASE Extends(c) -> ""
      [] ~Extends(c) /\ c.turn >= c.limit -> "max_loop_iterations"
      [] c.turn < c.limit /\ Cardinality(FilesRead(c)) >= Budget(c.req).reads -> "max_file_reads"
      [] /\ c.turn < c.limit /\ Cardinality(FilesRead(c)) < Budget(c.req).reads
         /\ Cardinality(SuccessfulRuns(c)) >= Budget(c.req).commands -> "max_commands"
      [] OTHER -> ""

TakeTurn(c) ==
    [c EXCEPT !.turn = @ + 1, !.limit = IF Extends(c) THEN Least(HardLimit, @ + 2) ELSE @]

(***************************************************************************)
(* Names, commands and evidence, as the choosers look at them              *)
(***************************************************************************)
Known(c) == c.req.ide \cup FilesRead(c) \cup Range(c.req.prior)

\* a path, else the files of that name: the known ones before the others
Matches(c, name) ==
    LET called == {f \in TextFiles : About[f].base = name} IN
    IF name \in TextFiles \cup Opaque THEN {name}
    ELSE IF called \cap Known(c) # {} THEN called \cap Known(c)
    ELSE called

Nearest(files) == CHOOSE f \in files : \A g \in files \ {f} : Place(f) < Place(g)

Located(c, names) ==
    LET located[i \in 0..Len(names)] ==
            IF i = 0 THEN <<>>
            ELSE LET new == Matches(c, names[i]) \ Range(located[i-1])
                 IN IF new = {} THEN located[i-1] ELSE Append(located[i-1], Nearest(new))
    IN located[Len(names)]

Unlocated(c) ==
    Keep(c.req.named, {name \in Range(c.req.named) :
                          \A f \in Range(Located(c, c.req.named)) : f # name /\ Base(f) # Base(name)})

\* the first named file that no file answers to, to be created
NewFile(c) ==
    IF c.req.create THEN Leading(SelectSeq(c.req.named, LAMBDA n : Resolve(n) = {}), 1) ELSE <<>>

HasRun(c, cmd) == \E i \in DOMAIN c.taken : c.taken[i].type = "run_approved_command" /\ c.taken[i].cmd = cmd
PreviewsOf(c, cmd) == {i \in DOMAIN c.taken : c.taken[i].type \in Previews /\ c.taken[i].cmd = cmd}
PreviewedAs(c, cmd) == c.results[Max(PreviewsOf(c, cmd))]
PreviewOf(cmd) == Run(IF cmd \in GitCommands THEN "inspect_git_state" ELSE "preview_command", cmd)

\* the command the request still needs
Needed(c) ==
    IF c.req.cmd # "" /\ ~HasRun(c, c.req.cmd) THEN c.req.cmd
    ELSE IF c.req.commitIt /\ HasRun(c, "git log") /\ ~HasRun(c, "git status") THEN "git status"
    ELSE ""

Answer == Do("final_answer")
Ask(src) == [Do("ask_clarification") EXCEPT !.src = src]
Generate(type, files) == [Do(type) EXCEPT !.files = files]
If(p, a) == IF p THEN a ELSE NoAction

(***************************************************************************)
(* The choosers that look at the request alone                             *)
(***************************************************************************)
WriteDone(c) ==
    If(ApprovedWrite(c) /\ Last(c.taken).type = "create_file" /\ Last(c.results).status = "success", Answer)

OffTopicStep(c) == If(c.req.offTopic /\ c.taken = <<>>, Answer)
MetaStep(c)     == If(c.req.meta /\ c.taken = <<>>, Answer)
FetchStep(c)    == If(c.req.url /\ ~Has(c, {"fetch_url"}), Do("fetch_url"))
CommitStep(c)   == If(c.req.commit /\ ~Has(c, {"git_commit"}), Do("git_commit"))
BranchStep(c)   == If(c.req.branch /\ ~Has(c, {"git_branch_create"}), Do("git_branch_create"))

\* mutant: a missing file is asked about before it is searched for
MissingFileAsks(c) ==
    If(/\ ~c.req.url /\ ~c.req.create /\ c.req.named # <<>> /\ Located(c, c.req.named) = <<>>,
       Ask("missing"))

MissingFileStep(c) ==
    IF c.req.url \/ c.req.create \/ c.req.named = <<>> \/ Located(c, c.req.named) # <<>> THEN NoAction
    ELSE IF Has(c, {"search_files"}) THEN Ask("missing")
    ELSE Search(Range(c.req.named), "missing")

CreateFileStep(c) ==
    If(~Has(c, Generates) /\ NewFile(c) # <<>> /\ ~c.req.planning,
       Generate("generate_change_set", NewFile(c)))

\* preview, run what is harmless, look at the tree before a commit, then answer
CommandStep(c) ==
    LET cmd    == Needed(c)
        unrun  == {i \in DOMAIN c.results : c.results[i].ro /\ ~HasRun(c, c.taken[i].cmd)}
        safe   == PreviewedAs(c, cmd).status = "success" /\ (PreviewedAs(c, cmd).ro \/ PreviewedAs(c, cmd).auto)
    IN IF unrun # {} THEN Run("run_approved_command", c.taken[Max(unrun)].cmd)
       ELSE IF cmd = "" THEN NoAction
       ELSE IF PreviewsOf(c, cmd) = {} THEN PreviewOf(cmd)
       ELSE IF safe THEN Run("run_approved_command", cmd)
       ELSE IF c.req.commitIt /\ HasRun(c, "git log") /\ PreviewsOf(c, "git status") = {}
         THEN PreviewOf("git status")
       ELSE Answer

CoveredStep(c) ==
    If(/\ c.req.named # <<>> /\ ~EditRequested(c.req) /\ Needed(c) = "" /\ Len(c.taken) >= 2
       /\ Located(c, c.req.named) # <<>>
       /\ Range(Located(c, c.req.named)) \subseteq FilesRead(c),
       Answer)

(***************************************************************************)
(* The model with native tool calls                                        *)
(***************************************************************************)
EditProducing == Generates \cup {"modify_file", "create_file", "delete_file", "rename_file",
                                 "apply_change_set"}
Ends == {"final_answer", "ask_clarification"}

MinEvidence(c) ==
    \/ FilesRead(c) # {} \/ SuccessfulRuns(c) # {}
    \/ Has(c, {"inspect_repo_tree", "read_file", "read_many_files", "search_files", "search_text",
               "analyze_file", "analyze_repository", "inspect_symbol", "run_approved_command",
               "inspect_git_state"})

ReadOnlyQuestion(q) == q.readOnly /\ ~q.editText

\* mutant: a change request may be answered before a change was tried
AllowedUnlessEmpty(c, m) ==
    /\ m.type \in Ends => MinEvidence(c) /\ ~(CameUpEmpty(c) /\ ~c.changed)
    /\ m.type \in EditProducing => ~ReadOnlyQuestion(c.req)
    /\ m.type = "ask_clarification" => ~(ReadOnlyQuestion(c.req) /\ MinEvidence(c))

\* the gates a proposal of the model has to pass
Allowed(c, m) ==
    /\ m.type \in Ends => MinEvidence(c) /\ ~(CameUpEmpty(c) /\ ~c.changed)
    /\ m.type \notin EditProducing => ~(ChangeRequest(c.req) /\ MinEvidence(c) /\ ~c.changed)
    /\ m.type \in EditProducing => ~ReadOnlyQuestion(c.req)
    /\ m.type = "ask_clarification" => ~(ReadOnlyQuestion(c.req) /\ MinEvidence(c))
    /\ m.type \notin CommandActions =>
         \/ c.req.cmd = "" \/ c.req.editText
         \/ \E i \in SuccessfulRuns(c) : c.taken[i].cmd = c.req.cmd

ToolCallingStep(c, m) == If(m # NoAction /\ Allowed(c, m), m)

(***************************************************************************)
(* The choosers that look at the evidence                                  *)
(***************************************************************************)
ExplicitTargetStep(c) ==
    LET found     == Located(c, c.req.named)
        missing   == Unlocated(c)
        candidates == Keep(Unread(c, Best(Hits(c, 35))),
                           {f \in DOMAIN Hits(c, 35) : \E n \in Range(missing) : Base(n) = Base(f)})
    IN IF Unread(c, found) # <<>> THEN Read(Unread(c, found))
       ELSE IF missing # <<>> /\ ~SearchedFor(c, Range(missing)) THEN Search(Range(missing), "")
       ELSE IF candidates # <<>> THEN Read(Leading(candidates, 1))
       ELSE IF found # <<>> /\ ~EditRequested(c.req) THEN Answer
       ELSE If(missing # <<>>, Ask("clarification"))

SymbolStep(c) ==
    If(c.req.symbols # {} /\ FilesRead(c) = {} /\ ~SearchedFor(c, c.req.symbols),
       Search(c.req.symbols, ""))

PolicyEvidenceStep(c) ==
    IF NextEvidence(c) # NoAction THEN NextEvidence(c) ELSE If(ShouldAsk(c), Ask("clarification"))

\* a named target that is no file of the repository becomes a search
ModelTargets(c, m, found, valid) ==
    LET instead == If(Range(m.files) \cup m.queries # {},
                      Search(Range(m.files) \cup m.queries, "model_planner"))
        read(files) == [Read(files) EXCEPT !.src = "model"]
    IN IF found = <<>> THEN instead
       ELSE IF m.type = "read_file" THEN If(Unread(c, found) # <<>>, read(Unread(c, found)))
       ELSE IF valid = <<>> THEN instead
       ELSE IF FilesRead(c) = {} THEN read(Unread(c, found))
       ELSE IF Unread(c, valid) # <<>> THEN read(Unread(c, valid))
       ELSE [Generate("generate_change_set", valid) EXCEPT !.src = "model"]

ModelEdits(c, m) ==
    ModelTargets(c, m, Located(c, m.files), SelectTargets(c, Range(Located(c, m.files))))

\* a command is previewed before it runs, and runs only when it only reads
ModelRuns(c, m) ==
    LET reads == PreviewsOf(c, m.cmd) # {} /\ PreviewedAs(c, m.cmd).ro IN
    IF PreviewsOf(c, m.cmd) = {} \/ (m.type = "run_approved_command" /\ ~reads)
      THEN [PreviewOf(m.cmd) EXCEPT !.src = "model"]
      ELSE If(reads /\ ~HasRun(c, m.cmd), [Run("run_approved_command", m.cmd) EXCEPT !.src = "model"])

\* the model without tool calls, whose proposal is checked
ModelPlannerStep(c, m) ==
    CASE m.type \in Generates \cup {"read_file"} -> ModelEdits(c, m)
      [] m.type = "search_files" -> If(m.queries # {} /\ ~SearchedFor(c, m.queries), m)
      [] m.type = "search_text" -> If(\A x \in m.queries : ~SearchedText(c, x), m)
      [] m.type \in Previews \cup {"run_approved_command"} -> If(m.cmd # "", ModelRuns(c, m))
      [] m.type = "ask_clarification" ->
           If(Has(c, Searches \cup {"inspect_repo_tree"}) \/ m.src = "approval", m)
      [] m.type = "final_answer" ->
           If(Contents(c) # {} \/ SuccessfulRuns(c) # {} \/ EditProposal(c),
              [m EXCEPT !.src = "model_planner"])
      [] m.type = "inspect_repo_tree" -> If(~Has(c, {"inspect_repo_tree"}), m)
      [] OTHER -> NoAction

\* whatever the searches returned, the earlier ones first
Found(c) ==
    LET all[i \in 0..Len(c.results)] ==
            IF i = 0 THEN <<>>
            ELSE LET found == c.results[i].found
                 IN all[i-1] \o Keep(Best(found), DOMAIN found \ Range(all[i-1]))
    IN all[Len(c.results)]

\* the ranked candidates of the latest search, else whatever a search returned
SearchCandidateStep(c) ==
    LET edit   == EditRequested(c.req)
        ranked == Leading(Best(Hits(c, IF edit THEN 18 ELSE 1)), 8)
        unread == Unread(c, IF ranked # <<>> THEN ranked ELSE Leading(Found(c), 8))
    IN If(unread # <<>>, Read(Leading(unread, IF edit THEN 1 ELSE 4)))

\* prepare an edit, try the other tool once when nothing came of it
Prepare(c, targets) ==
    LET other == IF ~Has(c, {"generate_edit"}) THEN "generate_edit" ELSE "generate_change_set" IN
    IF ~EditRequested(c.req) \/ c.req.planning THEN NoAction
    ELSE IF targets = <<>> THEN Ask("clarification")
    ELSE IF ~Has(c, Generates) THEN Generate("generate_edit", targets)
    ELSE IF CameUpEmpty(c) /\ Cardinality(Generations(c)) < 2 THEN Generate(other, targets)
    ELSE Answer

EditStep(c) == Prepare(c, FirstOf(<<SelectTargets(c, {}), NewFile(c)>>))

ProjectSummaryStep(c) ==
    LET unread == Keep(Unread(c, Files), {"README.md", "package.json", "pyproject.toml"})
    IN IF FilesRead(c) = {} /\ ~Has(c, {"inspect_repo_tree"}) THEN Do("inspect_repo_tree")
       ELSE If(unread # <<>> /\ Cardinality(FilesRead(c)) < 4, Read(Leading(unread, 4)))

(***************************************************************************)
(* The choice                                                              *)
(***************************************************************************)
Recovering(c) ==
    IF c.taken # <<>> /\ Ineffective(Last(c.taken), Last(c.results))
      THEN Recovery(c, Last(c.taken), Last(c.results)) ELSE NoAction

\* t and p: what the model proposes with tool calls and without
Choosers(c, t, p) ==
    <<Recovering(c), WriteDone(c), OffTopicStep(c), MetaStep(c), FetchStep(c), MissingFileStep(c),
      CommitStep(c), BranchStep(c), CreateFileStep(c), CommandStep(c), CoveredStep(c),
      ToolCallingStep(c, t), ExplicitTargetStep(c), SymbolStep(c), PolicyEvidenceStep(c),
      ModelPlannerStep(c, p), SearchCandidateStep(c), EditStep(c), ProjectSummaryStep(c)>>

\* a search, a reading or a command that brought nothing is not repeated
Repeats(c, a) ==
    /\ a.type \in Searches \cup {"read_file"} \/ a.cmd # ""
    /\ Failures(c, a) > 0

\* a generation of the model often comes without its files
WithTargets(c, a) ==
    LET read == Keep(Files, FilesRead(c)) IN
    IF a.type \notin Generates \/ a.files # <<>> THEN a
    ELSE [a EXCEPT !.files = FirstOf(<<SelectTargets(c, {}), Located(c, c.req.named), Leading(read, 4)>>)]

\* the first proposal that is one and no repetition
FirstUsable(c, proposals) ==
    LET usable == {i \in DOMAIN proposals : proposals[i] # NoAction /\ ~Repeats(c, proposals[i])}
    IN IF usable = {} THEN Answer ELSE proposals[Min(usable)]

Chosen(c, t, p) == WithTargets(c, FirstUsable(c, Choosers(c, t, p)))

\* an action that failed twice is recorded as a strategy given up
Shifts(c) ==
    /\ c.taken # <<>> /\ Ineffective(Last(c.taken), Last(c.results))
    /\ Failures(c, Last(c.taken)) > 1
    /\ ~(RequestShape(c.req) = "edit" /\ StrongTargets(c) # <<>>)

(***************************************************************************)
(* Results                                                                 *)
(***************************************************************************)
NoReply == Says("")
NoResult == [status |-> "skipped", files |-> {}, contents |-> {}, found |-> [f \in {} |-> 0],
             hit |-> FALSE, proposal |-> FALSE, changes |-> FALSE, error |-> FALSE, ro |-> FALSE,
             auto |-> FALSE, approved |-> FALSE, ran |-> FALSE]
Success == [NoResult EXCEPT !.status = "success"]
Failure == [NoResult EXCEPT !.status = "failed"]
Waiting == [NoResult EXCEPT !.status = "waiting_approval"]

Observed(c, r) ==
    [c EXCEPT !.taken = Append(@, next), !.results = Append(@, r),
              !.plan = UpdatePlan(c.req, @, next, r)]

Return(r) == core' = Observed(core, r) /\ phase' = "choose" /\ UNCHANGED <<next, reply>>
Pause(c)  == core' = c /\ phase' = "asked" /\ UNCHANGED <<next, reply>>
Close(c)  == core' = c /\ phase' = "answer" /\ UNCHANGED <<next, reply>>
Running(types) == phase = "run" /\ next.type \in types
Fault == core.faults < MaxFaults
Counted(c) == [c EXCEPT !.faults = @ + 1]

\* mutant: what the user allowed waits for the user again
AsksAgain ==
    \/ next.type \in {"fetch_url", "git_commit", "git_branch_create"}
    \/ next.type = "create_file" /\ ~core.req.auto
    \/ next.type = "run_approved_command" /\ Class[next.cmd] = "gated"

\* what the permission check of a tool asks the user, once
NeedsApproval ==
    /\ next.src # "approved"
    /\ \/ next.type \in {"fetch_url", "git_commit", "git_branch_create"}
       \/ next.type = "create_file" /\ ~core.req.auto
       \/ next.type = "run_approved_command" /\ Class[next.cmd] = "gated"

Init ==
    /\ \E q \in Requests :
          core = [req |-> q, taken |-> <<>>, results |-> <<>>, shifted |-> FALSE, turn |-> 0,
                  limit |-> Budget(q).turns, stop |-> "", plan |-> FirstPlan(q), proposed |-> 0,
                  faults |-> 0, repairs |-> 0, changed |-> FALSE, said |-> "", applied |-> FALSE,
                  commit |-> FALSE]
    /\ phase = "choose"
    /\ next = NoAction
    /\ reply = NoReply

(***************************************************************************)
(* The loop                                                                *)
(***************************************************************************)
Turned(c) == [TakeTurn(c) EXCEPT !.shifted = @ \/ Shifts(c)]

\* a question stops the run; one that the policy asks blocks the plan
Chose(c, a) ==
    LET proposed == c.proposed + When(a.src \in {"model", "model_planner", "approval"}, 1) IN
    IF a.type = "ask_clarification"
      THEN [c EXCEPT !.proposed = proposed, !.stop = "needs_clarification", 
                     !.said = IF proposed = c.proposed THEN "question" ELSE "asked",
                     !.plan = IF a.src = "clarification" THEN BlockPlan(@) ELSE @]
      ELSE [c EXCEPT !.proposed = proposed]

Choose ==
    /\ phase = "choose" /\ Exceeded(core) = ""
    /\ ~(core.applied /\ ~core.commit)
    /\ \E t, p \in IF core.proposed < MaxModel THEN Menu \cup {NoAction} ELSE {NoAction} :
          /\ t = NoAction \/ p = NoAction
          /\ \E a \in {Chosen(Turned(core), t, p)} :
                /\ next' = a
                /\ core' = Chose(Turned(core), a)
                /\ phase' = IF a.type \in Ends THEN "answer" ELSE "run"
    /\ UNCHANGED reply

\* after an applied change set the turn goes to the commit, whatever was chosen
ProposeCommit ==
    /\ phase = "choose" /\ Exceeded(core) = ""
    /\ core.applied /\ ~core.commit
    /\ LET looked == [TakeTurn(core) EXCEPT !.taken = @ \o <<Do("git_status"), Do("git_diff")>>,
                                           !.results = @ \o <<Success, Success>>]
       IN core' = [looked EXCEPT !.commit = TRUE, !.said = "commit_preview"]
    /\ next' = Do("git_commit")
    /\ phase' = "asked"
    /\ UNCHANGED reply

StopAtBudget ==
    /\ phase = "choose" /\ Exceeded(core) # ""
    /\ Close([core EXCEPT !.stop = Exceeded(core)])

TimesOut == phase = "choose" /\ Exceeded(core) = "" /\ Close([core EXCEPT !.stop = "timed_out"])
Cancels  == phase = "choose" /\ Exceeded(core) = "" /\ Close([TakeTurn(core) EXCEPT !.stop = "cancelled"])

(***************************************************************************)
(* The tools                                                               *)
(***************************************************************************)
InspectTree == Running({"inspect_repo_tree"}) /\ Return(Success)

SearchFiles ==
    /\ Running({"search_files"})
    /\ \E f \in Finds : Return([Success EXCEPT !.found = f, !.hit = DOMAIN f # {}])

SearchContents ==
    /\ Running({"search_text"})
    /\ \E hit \in BOOLEAN : Return([Success EXCEPT !.hit = hit])

\* files that are not text are skipped
ReadFiles ==
    /\ Running({"read_file"})
    /\ LET text == Range(Leading(next.files, 8)) \cap TextFiles
       IN Return(IF text = {} THEN NoResult ELSE [Success EXCEPT !.files = text, !.contents = text])

PreviewCommand ==
    /\ Running(Previews)
    /\ IF Class[next.cmd] = "gated" THEN Pause(Observed(core, Waiting))
       ELSE Return([Success EXCEPT !.ro = Class[next.cmd] = "read_only", !.auto = Class[next.cmd] = "auto"])

WaitForUser ==
    /\ phase = "run" /\ NeedsApproval
    /\ Pause(Observed(core, Waiting))

\* the command ends well or badly
RunCommand ==
    /\ Running({"run_approved_command"}) /\ ~NeedsApproval
    /\ \/ Return([Success EXCEPT !.ran = TRUE])
       \/ /\ Fault
          /\ core' = Counted(Observed(core, [Failure EXCEPT !.ran = TRUE]))
          /\ phase' = "choose"
          /\ UNCHANGED <<next, reply>>

UseGatedTool ==
    /\ Running({"fetch_url", "git_commit", "git_branch_create"}) /\ ~NeedsApproval
    /\ Return(Success)

\* a file that the user let the agent write, past change sets
WriteFile ==
    /\ Running({"create_file"}) /\ ~NeedsApproval
    /\ core' = [Observed(core, [Success EXCEPT !.approved = TRUE]) EXCEPT !.changed = TRUE]
    /\ phase' = "choose"
    /\ UNCHANGED <<next, reply>>

ToolFails ==
    /\ phase = "run" /\ next.type \notin Generates \cup {"apply_change_set"} /\ ~NeedsApproval /\ Fault
    /\ core' = Counted(Observed(core, Failure))
    /\ phase' = "choose"
    /\ UNCHANGED <<next, reply>>

(***************************************************************************)
(* Generation, approval and application of edits                           *)
(***************************************************************************)
Generated(r) == [Observed(core, r) EXCEPT !.applied = FALSE]
Proposal(r) == [r EXCEPT !.status = "success", !.proposal = TRUE, !.changes = TRUE]

\* a valid proposal is applied or shown
Proposes(c) ==
    /\ core' = [c EXCEPT !.said = IF c.req.auto THEN @ ELSE "proposal"]
    /\ next' = [Do("apply_change_set") EXCEPT !.src = IF c.req.auto THEN "approved" ELSE ""]
    /\ phase' = IF c.req.auto THEN "run" ELSE "asked"
    /\ UNCHANGED reply

\* the tool raises: nothing is known of the proposal, and the loop goes on once
GenerationRaises ==
    /\ Running(Generates)
    /\ LET c == Generated(Failure)
       IN IF core.repairs < 1
            THEN /\ core' = [c EXCEPT !.repairs = @ + 1]
                 /\ phase' = "choose"
                 /\ UNCHANGED <<next, reply>>
            ELSE Close(c)

\* one file after the other: some proposal, no valid one, or none that changes
\* anything; without one the run ends
GenerateEdit ==
    /\ Running({"generate_edit"})
    /\ LET none == [NoResult EXCEPT !.files = Range(next.files)]
           text == Range(Leading(next.files, 4)) \cap TextFiles
       IN \/ Close(Generated(none))
          \/ text # {} /\ Close(Generated([none EXCEPT !.error = TRUE]))
          \/ text # {} /\ Proposes(Generated(Proposal(none)))

\* all files at once: a valid proposal, an invalid one, or none
GenerateChangeSet ==
    /\ Running({"generate_change_set"})
    /\ LET read == [NoResult EXCEPT !.files = Range(Leading(next.files, 12)) \cap TextFiles]
       IN \/ Proposes(Generated(Proposal(read)))
          \/ \E changes \in BOOLEAN :
               Close(Generated([read EXCEPT !.status = "failed", !.error = TRUE, !.changes = changes]))

\* the change set is written whole, or not; a command may then find it wrong
ApplyChange ==
    /\ Running({"apply_change_set"})
    /\ LET done == [Observed(core, Success) EXCEPT !.changed = TRUE, !.applied = TRUE, !.said = "applied"]
           not  == Counted([Observed(core, Failure) EXCEPT !.said = "apply_failed"])
       IN \/ core' = done /\ phase' = "choose"
          \/ Fault /\ core' = Counted([done EXCEPT !.stop = "failed"]) /\ phase' = "answer"
          \/ Fault /\ core' = not /\ phase' = "choose"
    /\ UNCHANGED <<next, reply>>

(***************************************************************************)
(* The user                                                                *)
(***************************************************************************)
Deny ==
    /\ phase = "asked"
    /\ LET said == CASE next.type = "apply_change_set" -> "rejected"
                     [] next.type = "create_file" -> "write_denied"
                     [] OTHER -> "denied"
       IN Close([core EXCEPT !.stop = "approval_denied", !.said = said])

Allow ==
    /\ phase = "asked"
    /\ next' = IF next.type \in Previews THEN [Run("run_approved_command", next.cmd) EXCEPT !.src = "approved"]
                ELSE [next EXCEPT !.src = "approved"]
    /\ phase' = "run"
    /\ UNCHANGED <<core, reply>>

AnswerUser ==
    /\ phase = "answer"
    /\ \E text \in Texts : \E again \in IF text = "leaks" THEN Texts ELSE {"plain"} :
          reply' = FinalAnswer(core, text, again)
    /\ phase' = "ended"
    /\ UNCHANGED <<core, next>>

Next ==
    \/ Choose \/ ProposeCommit \/ StopAtBudget \/ TimesOut \/ Cancels
    \/ InspectTree \/ SearchFiles \/ SearchContents \/ ReadFiles \/ PreviewCommand
    \/ WaitForUser \/ RunCommand \/ UseGatedTool \/ WriteFile \/ ToolFails
    \/ GenerationRaises \/ GenerateEdit \/ GenerateChangeSet \/ ApplyChange
    \/ Deny \/ Allow \/ AnswerUser

Spec == Init /\ [][Next]_vars

(***************************************************************************)
(* Properties                                                              *)
(***************************************************************************)
\* Type invariant of the loop.
TypeOK ==
    /\ core.req \in Requests
    /\ Len(core.taken) = Len(core.results)
    /\ core.turn \in 0..HardLimit /\ core.limit \in core.turn..HardLimit
    /\ core.proposed \in 0..MaxModel /\ core.faults \in 0..MaxFaults
    /\ core.plan.at \in DOMAIN core.plan.steps
    /\ phase \in {"choose", "run", "asked", "answer", "ended"}
    /\ reply # NoReply <=> phase = "ended"

\* Nothing is done twice: what a chooser of the agent's own decides on was not done
\* before in the run, whoever decided on it then and whether or not it brought
\* anything, and it reads only files that were not read.  The loop bars no more than
\* the repetition of what failed (_repeats_graph_action of graph_routes.py).
Alike(a, b) ==     \* the inventory of a broad task is a search of its own
    Signature(a) = Signature(b) /\ (a.src = "broad_inventory" <=> b.src = "broad_inventory")

NothingTwice ==
    [][(phase = "choose" /\ phase' = "run" /\ next'.src \notin {"model", "model_planner"})
         => /\ \A i \in DOMAIN core.taken : ~Alike(core.taken[i], next')
            /\ next'.type = "read_file" => Range(next'.files) \cap FilesRead(core) = {}]_vars

\* Every step uses up some of what the run has left, however its budget is extended,
\* its generations are repaired and its actions wait for the user: what the user
\* allowed does not wait again (budget_support.py, should_continue;
\* apply.py, await_approval_node).  A run so ends after at most 6 * HardLimit + 2 steps.
StepsAhead ==
    6 * (HardLimit - core.turn) +
        (CASE phase = "choose" -> 2
           [] phase = "run" /\ next.src = "approved" -> 3
           [] phase = "run" /\ next.src # "approved" -> 5
           [] phase = "asked" -> 4
           [] phase = "answer" -> 1
           [] phase = "ended" -> 0)

EndsInTime == [][StepsAhead' < StepsAhead]_vars

\* The user is asked what is meant only after some evidence was gathered, whichever
\* chooser asks (the missing-file question, the targets, the policy, the edit, a
\* model with or without tool calls), unless the request holds a secret or cannot
\* be undone, is a follow-up with nothing to go by, or the model says that it needs
\* an approval.
LooksBeforeAsking ==
    (core.stop = "needs_clarification" /\ next.src # "approval")
      => \/ MinEvidence(core)
         \/ core.req.secret \/ core.req.irreversible
         \/ /\ RequestShape(core.req) = "follow_up" /\ core.req.prior = <<>>
            /\ core.req.symbols = {} /\ ~core.req.terms

\* The agent prepares an edit on its own only for files it has read, or for the
\* new file that the request names (edit_target_selection.py, _next_edit_action).
EditsWhatWasRead ==
    [][(phase = "choose" /\ phase' = "run" /\ next'.type \in Generates /\ next'.src # "model")
         => Range(next'.files) \subseteq Contents(core) \cup Range(NewFile(core))]_vars

\* A request for a change ends without an attempt to edit only when the user was
\* asked or refused, the run was stopped, a command failed (the recovery then
\* answers), the request was taken for small talk or for a question about the agent,
\* or a model without tool calls decided it: the gates of agentic_loop.py hold only
\* for a model with them.
TriesTheEdit ==
    (/\ phase \in {"answer", "ended"} /\ core.stop = "" /\ next.src # "model_planner"
     /\ ChangeRequest(core.req) /\ EditRequested(core.req)
     /\ ~core.req.offTopic /\ ~core.req.meta)
    => \/ EditAttempted(core) \/ core.changed
       \/ \E i \in DOMAIN core.taken : core.taken[i].cmd # "" /\ core.results[i].status = "failed"

\* What the user is told never claims a change of a file that did not happen, is
\* neither a note of the model to itself nor a text that the repository dictated,
\* and does not say that files could not be read when they were, however often
\* the answer is written anew (only a question of the model's that is written
\* anew is not looked at again).
HonestAnswer ==
    /\ reply.claims => core.changed \/ reply.denies
    /\ reply.from \notin {"leaks", "muses", "hijacked"}
    /\ reply.from = "unread" => FilesRead(core) = {} \/ core.said = "asked"
=============================================================================
