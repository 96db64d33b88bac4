------------------------------ MODULE AgentGraph ------------------------------
(***************************************************************************)
(* The agent graph of one run: the LangGraph state that its nodes read and *)
(* update, and the edges between them, from route_next to END.  One action *)
(* is one node, the subgraph it invokes included; the git workflow, which  *)
(* may be interrupted, is two.  Which action the planner chooses, what a   *)
(* tool returns, and what the user answers is up to them.                  *)
(*                                                                         *)
(* Tools stand for their kind: read_file for every kind of evidence,       *)
(* create_file for the direct writes, github_create_pr for both reviews,   *)
(* mcp_tool for the adapters of external servers, which are in no menu: an *)
(* approval of theirs becomes a command, and they are not called.  Not     *)
(* here: routines, and the recursion limit of LangGraph, which is left at  *)
(* its default and turns an endless loop into an exception.                *)
(***************************************************************************)
EXTENDS Naturals

CONSTANTS
    Menu,      \* the actions the planner may choose besides a final answer
    Modes,     \* the permission modes the user may have set
    MaxTurns,  \* max_loop_iterations
    MaxSteps   \* MAX_SUBAGENT_STEPS

GitWrites == {"git_commit", "git_branch_create", "git_push", "github_create_pr"}
WebTools  == {"search_web", "fetch_url"}
Gated     == {"create_file", "mcp_tool", "apply_change_set"} \cup GitWrites \cup WebTools
Commands  == {"preview_command", "run_approved_command", "run_validation_command"}
Types     == {"read_file", "generate_change_set", "validate_change_set",
              "ask_clarification", "final_answer"}
                \cup Gated \cup Commands

ASSUME GraphAssumption ==
    /\ Menu \subseteq Types \ {"final_answer", "apply_change_set", "run_approved_command",
                               "run_validation_command", "git_push", "github_create_pr", "mcp_tool"}
    /\ Modes \subseteq {"default", "accept_edits"}
    /\ MaxTurns \in Nat /\ MaxSteps \in Nat

VARIABLES
    state,     \* the state of the graph, node by node
    mode,      \* the permission mode
    task,      \* what the text of the task asks for
    status,    \* the status of the run in meta.json
    parked,    \* is the graph suspended at an interrupt, with no thread?
    effect,    \* history: the action whose tool the last step ran
    denied     \* history: has the user denied an approval?

vars == <<state, mode, task, status, parked, effect, denied>>

\* An action and what allows it: an approval, the permission mode, or nothing.
Action(type, grant) == [type |-> type, grant |-> grant]
NoAction == Action("none", "none")

\* what the user is asked to allow when an action is gated
Subject(type) ==
    CASE type \in {"preview_command", "run_approved_command"} -> "command"
      [] type = "run_validation_command" -> "validation"
      [] type = "apply_change_set" -> "change_set"
      [] OTHER -> type

Init ==
    /\ state \in {[node |-> "route_next", action |-> NoAction, approval |-> "none",
                   stop |-> "none", stage |-> "after_understanding", last |-> "none",
                   proposal |-> "none", draft |-> "none", repairs |-> 0, apply |-> "not_applied",
                   selected |-> FALSE, failing |-> FALSE, git |-> {},
                   supervised |-> FALSE, units |-> {}, steps |-> 0,
                   web |-> needed, turns |-> 0] : needed \in BOOLEAN}
    /\ mode \in Modes
    /\ task \in {{}, {"commit"}, {"commit", "push"}, {"commit", "push", "review"},
              {"broad"}, {"broad", "web"}}
    /\ status = "running"
    /\ parked = FALSE
    /\ effect = NoAction
    /\ denied = FALSE

(***************************************************************************)
(* One call of the tool orchestrator                                       *)
(***************************************************************************)
\* the orchestrator and route_next look at meta.json, not at control.json
cancelled == status = "cancelling"

\* what a call may return: a command is gated unless the policy knows it as
\* read-only; a timeout is reported as a failure
Results(a) ==
    IF cancelled THEN {"cancelled"}
    ELSE IF a.grant # "none" THEN {"success", "failed"}
    ELSE IF a.type = "create_file" /\ mode = "accept_edits" THEN {"success", "failed"}
    ELSE IF a.type \in Gated THEN {"waiting_approval", "failed"}
    ELSE IF a.type \in Commands THEN {"success", "failed", "waiting_approval"}
    ELSE {"success", "failed"}

\* the proposal, or the error in its place, that the last result carries
Draft(a, r) ==
    CASE a.type = "generate_change_set" ->
            CASE r = "success" -> "made" [] r = "failed" -> "error" [] OTHER -> "none"
      [] a.type = "apply_change_set" ->
            CASE r = "success" -> "applied" [] r = "failed" -> "made" [] OTHER -> "none"
      [] OTHER -> "none"

\* _execute_pending_action: the state after action a returned r
Ran(a, r) ==
    [state EXCEPT
        !.action = NoAction, !.last = r, !.draft = Draft(a, r),
        !.web = @ /\ a.type \notin WebTools,
        !.approval = IF r = "waiting_approval" THEN Subject(a.type) ELSE @,
        !.stop = IF r \in {"waiting_approval", "cancelled"} THEN r ELSE @]

Effect(a, r) == IF r \in {"success", "failed"} THEN a ELSE NoAction

\* a node that runs no tool
Update(s) == state' = s /\ effect' = NoAction /\ UNCHANGED <<mode, task, status, parked, denied>>

\* a node that runs action a, with result r, and leaves the state s
UpdateRan(s, a, r) ==
    state' = s /\ effect' = Effect(a, r) /\ UNCHANGED <<mode, task, status, parked, denied>>

(***************************************************************************)
(* Routing                                                                 *)
(***************************************************************************)
At(n) == state.node = n

FinalOrAction(a) ==
    CASE a.type \in {"none", "final_answer"} -> "final_synthesis"
      [] a.type = "ask_clarification" -> "ask_clarification"
      [] a.type = "read_file" -> "gather_evidence"
      [] a.type \in WebTools -> "web_research_graph"
      [] a.type \in {"generate_change_set", "validate_change_set"} -> "plan_change_set"
      [] a.type = "apply_change_set" -> "apply_change_set"
      [] OTHER -> "execute_tool"

FinalOrContinue(a) ==
    IF state.stop \in {"cancelled", "timed_out", "max_loop_iterations",
                       "waiting_approval", "approval_denied"}
      THEN "final_synthesis" ELSE FinalOrAction(a)

\* mutant: a commit is offered after an apply that failed, too
OfferAfterAnyApply ==
    state.apply \in {"applied", "failed"} /\ ~state.failing /\ "proposed" \notin state.git

\* _should_start_post_apply_git_workflow
OfferCommit == state.apply = "applied" /\ ~state.failing /\ "proposed" \notin state.git

AfterToolResult(a) ==
    IF state.last = "waiting_approval" THEN "await_approval"
    ELSE IF state.last = "cancelled" THEN "final_synthesis"
    ELSE FinalOrContinue(a)

AfterValidation(a) ==
    IF state.last = "waiting_approval" THEN "await_approval"
    ELSE IF state.stop \in {"cancelled", "timed_out", "failed"} THEN "final_synthesis"
    ELSE IF OfferCommit THEN "git_workflow_graph"
    ELSE FinalOrContinue(a)

\* the proposal p and the action a are those the last node leaves
AfterChangePlan(p, a) ==
    IF state.last = "waiting_approval" THEN "await_approval"
    ELSE IF (p = "invalid" \/ state.last = "failed") /\ state.repairs < 1 THEN "repair_change_set"
    ELSE IF p = "valid"
      THEN IF a.type = "apply_change_set" /\ a.grant # "none"
             THEN "apply_change_set" ELSE "await_approval"
    ELSE FinalOrContinue(a)

AfterApproval(a) == IF state.approval # "none" THEN "final_synthesis" ELSE FinalOrContinue(a)

AfterResume(a) ==
    CASE a.type = "apply_change_set" -> "apply_change_set"
      [] a.type \in {"git_commit", "git_push", "github_create_pr"} -> "git_workflow_graph"
      [] a.type = "run_validation_command" -> "run_validation_command"
      [] OTHER -> "execute_tool"

\* _should_use_supervisor: nothing has been read at this stage
AfterUnderstanding(a) ==
    IF "broad" \in task /\ ~state.supervised THEN "decompose_task" ELSE FinalOrAction(a)

\* route_by_stage, for a pending or newly chosen action
RouteByStage(a) ==
    CASE state.stage = "after_interrupt_resume" -> AfterResume(a)
      [] state.stage = "after_tool_result" -> AfterToolResult(a)
      [] state.stage = "after_validation" -> AfterValidation(a)
      [] state.stage = "after_change_plan" -> AfterChangePlan(state.proposal, a)
      [] state.stage = "after_approval" -> AfterApproval(a)
      [] OTHER -> AfterUnderstanding(a)

\* route_next: a pending action goes first, whatever the budgets say
RoutePending ==
    /\ At("route_next") /\ state.action # NoAction
    /\ Update([state EXCEPT !.node = RouteByStage(state.action)])

RouteStopped ==
    /\ At("route_next") /\ state.action = NoAction /\ state.stop # "none"
    /\ Update([state EXCEPT !.node = IF state.stop = "waiting_approval"
                                       THEN "await_approval" ELSE "final_synthesis"])

\* the loop, file and command budgets are one bound; the clock may always run out
RouteBudgetSpent ==
    /\ At("route_next") /\ state.action = NoAction /\ state.stop = "none"
    /\ \E s \in {"timed_out"} \cup {t \in {"max_loop_iterations"} : state.turns = MaxTurns} :
          Update([state EXCEPT !.node = "final_synthesis", !.stop = s])

NextTurn ==
    /\ At("route_next") /\ state.action = NoAction /\ state.stop = "none"
    /\ state.turns < MaxTurns

RouteCancelled ==
    /\ NextTurn /\ cancelled
    /\ Update([state EXCEPT !.node = "final_synthesis", !.stop = "cancelled",
                            !.turns = @ + 1])

GitFirst == "commit" \in task /\ state.git = {}

RouteGit ==
    /\ NextTurn /\ ~cancelled /\ GitFirst
    /\ Update([state EXCEPT !.node = "git_workflow_graph", !.turns = @ + 1])

RouteChoose(type) ==
    /\ NextTurn /\ ~cancelled /\ ~GitFirst
    /\ Update([state EXCEPT !.node = RouteByStage(Action(type, "none")),
                            !.action = Action(type, "none"), !.turns = @ + 1])

(***************************************************************************)
(* Evidence, tools and the web                                             *)
(***************************************************************************)
GatherEvidence ==
    /\ At("gather_evidence")
    /\ \E r \in Results(state.action) :
          UpdateRan([Ran(state.action, r) EXCEPT !.node = "validate_result",
                                                 !.stage = "after_evidence"], state.action, r)

ExecuteTool ==
    /\ At("execute_tool")
    /\ \E r \in Results(state.action) :
          UpdateRan([Ran(state.action, r) EXCEPT !.node = "validate_result",
                                                 !.stage = "after_tool_result"], state.action, r)

WebDone(s) == [s EXCEPT !.node = "validate_result", !.stage = "after_tool_result"]

\* mutant: the fetch is gated on the web-research heuristic as the search is
FetchUrlSkipped ==
    /\ At("web_research_graph") /\ state.action.type = "fetch_url"
    /\ Update(WebDone(state))

\* a URL the planner chose to fetch is fetched
FetchUrl ==
    /\ At("web_research_graph") /\ state.action.type = "fetch_url"
    /\ \E r \in Results(state.action) :
          UpdateRan(WebDone(Ran(state.action, r)), state.action, r)

\* a needed search is made anew, without the pending action's approval, and
\* whatever it returned (nothing, when it has to be approved) is summarized
SearchWeb ==
    /\ At("web_research_graph") /\ state.action.type = "search_web" /\ state.web
    /\ \E r \in Results(Action("search_web", "none")),
          summary \in (IF cancelled THEN {"cancelled"} ELSE {"success", "failed"}) :
          UpdateRan([WebDone(Ran(Action("search_web", "none"), r)) EXCEPT
                        !.last = summary,
                        !.stop = IF summary = "cancelled" THEN summary ELSE @],
                    Action("search_web", "none"), r)

\* a search that is not needed leaves the subgraph with the action still pending
SearchNotNeeded ==
    /\ At("web_research_graph") /\ state.action.type = "search_web" /\ ~state.web
    /\ Update(WebDone(state))

ValidateResult ==
    /\ At("validate_result")
    /\ Update([state EXCEPT !.node = "route_next", !.stage = "after_validation",
                            !.stop = IF state.last \in {"waiting_approval", "cancelled"}
                                       THEN state.last ELSE @])

(***************************************************************************)
(* The supervisor of a broad task: the action that was chosen stays pending *)
(***************************************************************************)
\* decompose_complex_task: the work units and those they wait for
Needs == [evidence |-> {}, web |-> {}, analysis |-> {"evidence"},
          validation |-> {"analysis"}, docs |-> {"analysis"}, git |-> {"validation"}]

WorkUnits ==
    {"evidence", "analysis", "validation", "docs"}
      \cup {u \in {"web"} : "web" \in task} \cup {u \in {"git"} : "commit" \in task}

DecomposeTask ==
    /\ At("decompose_task")
    /\ Update([state EXCEPT !.node = "dispatch_work_units", !.supervised = TRUE,
                            !.units = WorkUnits])

\* the reports that count are those from before the dispatch, of which there
\* are none: what depends on another unit is not run
Ready == {u \in state.units : Needs[u] = {}}
Turn == IF "evidence" \in Ready THEN {"evidence"} ELSE Ready

\* allowed_tools_for_role, of the units that run
WorkerTools(unit) == IF unit = "web" THEN {"read_file"} \cup WebTools ELSE {"read_file"}

\* run_worker_subagent: the result of a call, also a question for the user, is
\* told to the worker's model, and the state of the graph stays as it is
WorkerCalls ==
    /\ At("dispatch_work_units") /\ state.steps < MaxSteps
    /\ \E unit \in Turn : \E type \in WorkerTools(unit) : \E r \in Results(Action(type, "none")) :
          UpdateRan([state EXCEPT !.steps = @ + 1], Action(type, "none"), r)

\* _run_worker_task returns a report, with or without calls
WorkerReports ==
    /\ At("dispatch_work_units")
    /\ \E unit \in Turn :
          Update([state EXCEPT !.units = @ \ {unit}, !.steps = 0])

ReduceWorkReports ==
    /\ At("dispatch_work_units") /\ Ready = {}
    /\ Update([state EXCEPT !.node = "route_next", !.units = {}])

(***************************************************************************)
(* Change sets                                                             *)
(***************************************************************************)
PlanChangeSet ==
    /\ At("plan_change_set")
    /\ Update([state EXCEPT !.node = "generate_change_set", !.stage = "after_change_plan",
                            !.proposal = "plan", !.apply = "not_applied"])

\* the edit subgraph: generate, validate, and count an attempt to repair
GenerateChangeSet ==
    /\ At("generate_change_set") /\ state.action.type = "generate_change_set"
    /\ \E r \in Results(state.action) :
       \E p \in (CASE r = "success" -> {"valid", "invalid"}
                   [] r = "failed" -> {"plan", "invalid"}
                   [] OTHER -> {"plan"}) :
          UpdateRan([Ran(state.action, r) EXCEPT
                        !.node = "validate_change_set", !.stage = "after_change_plan",
                        !.proposal = p,
                        !.repairs = IF p = "invalid" /\ @ < 1 THEN @ + 1 ELSE @],
                    state.action, r)

\* route_edit_next: no other action runs there, and it stays pending
NothingToGenerate ==
    /\ At("generate_change_set") /\ state.action.type # "generate_change_set"
    /\ Update([state EXCEPT !.node = "validate_change_set", !.stage = "after_change_plan"])

\* the proposal is that of the last result, if it has one, else the plan; its
\* verdict may change: paths are remapped and files may have been edited
Verdicts ==
    CASE state.proposal # "plan" -> {"valid", "invalid"}
      [] state.draft = "made" -> {"valid", "invalid"}
      [] state.draft = "error" -> {"plan", "invalid"}
      [] state.draft = "applied" -> {"applied", "invalid"}
      [] OTHER -> {"plan"}

\* a route that is no edge of the node raises, and the graph ends there
EdgeAfterValidation(n) ==
    IF n \in {"repair_change_set", "await_approval", "apply_change_set", "final_synthesis"}
      THEN n ELSE "raised"

ValidateChangeSet ==
    /\ At("validate_change_set")
    /\ \E p \in Verdicts :
       LET auto  == p = "valid" /\ mode = "accept_edits"
           asked == p = "valid" /\ mode = "default"
           a     == IF auto THEN Action("apply_change_set", "mode") ELSE state.action
       IN Update([state EXCEPT !.node = EdgeAfterValidation(AfterChangePlan(p, a)),
                               !.stage = "after_change_plan",
                               !.proposal = p, !.action = a,
                               !.approval = IF asked THEN "change_set" ELSE @,
                               !.stop = IF asked THEN "waiting_approval" ELSE @])

RepairChangeSet ==
    /\ At("repair_change_set")
    /\ Update([state EXCEPT !.node = "route_next", !.stage = "after_change_plan",
                            !.repairs = @ + 1])

ApplyChangeSet ==
    /\ At("apply_change_set")
    /\ \E r \in Results(state.action) :
          UpdateRan([Ran(state.action, r) EXCEPT
                        !.node = "select_validation_commands", !.stage = "after_tool_result",
                        !.apply = IF r = "success" THEN "applied" ELSE "failed",
                        !.proposal = IF r = "success" THEN "applied" ELSE "valid",
                        !.stop = IF r = "success" THEN "none" ELSE "failed"],
                    state.action, r)

(***************************************************************************)
(* Validation of applied files                                             *)
(***************************************************************************)
SelectValidationCommands ==
    /\ At("select_validation_commands")
    /\ IF state.apply # "applied"
         THEN Update([state EXCEPT !.node = "preview_command", !.stage = "after_validation",
                                   !.failing = FALSE])
         ELSE \E chosen \in BOOLEAN :
              Update([state EXCEPT !.node = "preview_command", !.stage = "after_apply",
                                   !.selected = chosen, !.failing = FALSE,
                                   !.action = IF chosen THEN Action("preview_command", "none") ELSE @])

\* a command that is allowed goes on to run, a gated one asks, another fails
PreviewCommand ==
    /\ At("preview_command")
    /\ IF state.action.type # "preview_command"
         THEN Update([state EXCEPT !.node = "await_validation_approval"])
         ELSE \E r \in Results(state.action) :
              LET s == Ran(state.action, r) IN
              UpdateRan([s EXCEPT
                  !.node = "await_validation_approval",
                  !.action = IF r = "success" THEN Action("run_validation_command", "none") ELSE @,
                  !.approval = IF r = "waiting_approval" THEN "validation" ELSE @,
                  !.stop = CASE r = "success" -> @ [] r = "waiting_approval" -> r [] OTHER -> "failed",
                  !.failing = r \notin {"success", "waiting_approval"}],
                  state.action, r)

ValidationNeedsNoApproval ==
    /\ At("await_validation_approval") /\ state.approval = "none"
    /\ Update([state EXCEPT !.node = "run_validation_command"])

RunValidationCommand ==
    /\ At("run_validation_command")
    /\ IF state.stop = "approval_denied" \/ state.action.type # "run_validation_command"
         THEN Update([state EXCEPT !.node = "parse_validation_result"])
         ELSE \E r \in Results(state.action) :
              UpdateRan([Ran(state.action, r) EXCEPT !.node = "parse_validation_result"],
                        state.action, r)

\* only a failure and a denial stop the run; every other stop reason is dropped
ParseValidationResult ==
    /\ At("parse_validation_result")
    /\ LET failed == /\ state.stop # "approval_denied"
                     /\ state.selected /\ state.last = "failed"
       IN Update([state EXCEPT !.node = "route_next", !.stage = "after_validation",
                               !.failing = failed,
                               !.stop = CASE failed -> "failed"
                                          [] @ = "approval_denied" -> @
                                          [] OTHER -> "none"])

(***************************************************************************)
(* The git workflow                                                        *)
(***************************************************************************)
\* git_workflow_graph_node: the stage depends on whether the subgraph asks
GitDone(s) ==
    [s EXCEPT !.node = "route_next",
              !.stage = IF s.approval # "none" THEN "after_approval" ELSE "after_tool_result"]

\* after a commit a push is proposed, after a push a review, if the task says so
Propose(s, wanted, type) ==
    IF wanted \in task THEN [s EXCEPT !.approval = type, !.stop = "waiting_approval"] ELSE s

GitCommit ==
    /\ At("git_workflow_graph") /\ state.action.type = "git_commit"
    /\ \E r \in Results(state.action) :
          UpdateRan(GitDone(Propose([Ran(state.action, r) EXCEPT !.git = @ \cup {"started"}],
                                    "push", "git_push")), state.action, r)

GitPush ==
    /\ At("git_workflow_graph") /\ state.action.type = "git_push"
    /\ \E r \in Results(state.action) :
          UpdateRan(GitDone(Propose([Ran(state.action, r) EXCEPT !.git = @ \cup {"started"}],
                                    "review", "github_create_pr")), state.action, r)

GitReview ==
    /\ At("git_workflow_graph") /\ state.action.type = "github_create_pr"
    /\ \E r \in Results(state.action) :
          UpdateRan(GitDone(Ran(state.action, r)), state.action, r)

\* mutant: the workflow starts from its beginning, whatever is pending
GitProposeFirst ==
    /\ At("git_workflow_graph")
    /\ "proposed" \notin state.git
    /\ \E diff \in (IF cancelled THEN {"cancelled"} ELSE {"success", "failed"}) :
          Update([state EXCEPT !.node = "await_commit_approval", !.action = NoAction,
                               !.last = diff, !.git = @ \cup {"started", "proposed"},
                               !.approval = "git_commit", !.stop = "waiting_approval"])

\* git status, git diff, and the proposal of a commit: the pending action, if
\* there is one, is dropped, and a cancelled status does not keep it from asking
GitPropose ==
    /\ At("git_workflow_graph")
    /\ state.action.type \notin {"git_commit", "git_push", "github_create_pr"}
    /\ "proposed" \notin state.git
    /\ \E diff \in (IF cancelled THEN {"cancelled"} ELSE {"success", "failed"}) :
          Update([state EXCEPT !.node = "await_commit_approval", !.action = NoAction,
                               !.last = diff, !.git = @ \cup {"started", "proposed"},
                               !.approval = "git_commit", !.stop = "waiting_approval"])

(***************************************************************************)
(* Interrupts: the graph stops until the user answers                      *)
(***************************************************************************)
Interrupted ==
    \/ state.node \in {"await_approval", "await_commit_approval"}
    \/ At("await_validation_approval") /\ state.approval # "none"

\* a command, and whatever the other branches do not list
GrantedCommand(kind) ==
    IF kind = "validation" THEN "run_validation_command" ELSE "run_approved_command"

\* mutant: an approved file write is sent to the command runner as the rest is
RemoteOnly == GitWrites \cup WebTools

\* the tools that are called again as they were, with the approval
CalledAgain == {"create_file"} \cup GitWrites \cup WebTools

\* the action that an allowed approval becomes
Granted(kind) ==
    CASE kind = "change_set" -> "apply_change_set"
      [] kind \in CalledAgain -> kind
      [] OTHER -> GrantedCommand(kind)

\* the edge out of each await node; the git subgraph sets its own stage
Resumed(s) ==
    CASE At("await_approval") -> [s EXCEPT !.node = "route_next"]
      [] At("await_validation_approval") -> [s EXCEPT !.node = "run_validation_command"]
      [] At("await_commit_approval") -> GitDone(s)

\* the thread leaves the interrupted graph and wait_for_approval writes over a
\* cancellation, unless the stream has noticed it
Suspend ==
    /\ Interrupted /\ ~parked
    /\ parked' = TRUE
    /\ status' \in {"waiting_approval"} \cup {s \in {status} : cancelled}
    /\ effect' = NoAction /\ UNCHANGED <<state, mode, task, denied>>

\* resume_approval: the run must wait, and its status is left as it is
Answered(s) ==
    /\ parked /\ status = "waiting_approval"
    /\ parked' = FALSE /\ state' = Resumed(s)
    /\ effect' = NoAction /\ UNCHANGED <<mode, task, status>>

Allow ==
    /\ Answered([state EXCEPT
                    !.action = Action(Granted(state.approval), state.approval),
                    !.approval = "none", !.stop = "none", !.stage = "after_interrupt_resume"])
    /\ UNCHANGED denied

Refused ==
    [state EXCEPT
        !.approval = "none", !.stage = "after_approval",
        !.proposal = IF state.approval = "change_set" THEN "rejected" ELSE @,
        !.apply = IF state.approval = "change_set" THEN "rejected" ELSE @]

\* mutant: a denial lets the run go on
DenyGoesOn == Answered([Refused EXCEPT !.stop = "none"]) /\ denied' = TRUE

Deny == Answered([Refused EXCEPT !.stop = "approval_denied"]) /\ denied' = TRUE

AskClarification ==
    /\ At("ask_clarification")
    /\ Update([state EXCEPT !.node = "final_synthesis", !.stop = "needs_clarification"])

FinalSynthesis ==
    /\ At("final_synthesis")
    /\ Update([state EXCEPT !.node = "END"])

\* cancel_run, while the run is active: a waiting run is cancelled for good
UserCancels ==
    /\ ~At("END") /\ ~At("raised") /\ ~cancelled
    /\ status' = "cancelling" /\ effect' = NoAction
    /\ UNCHANGED <<state, mode, task, parked, denied>>

RouteNext ==
    \/ RoutePending \/ RouteStopped \/ RouteBudgetSpent \/ RouteCancelled \/ RouteGit
    \/ \E type \in Menu \cup {"final_answer"} : RouteChoose(type)

GraphStep ==
    \/ RouteNext
    \/ GatherEvidence \/ ExecuteTool \/ FetchUrl \/ SearchWeb \/ SearchNotNeeded
    \/ ValidateResult
    \/ DecomposeTask \/ WorkerCalls \/ WorkerReports \/ ReduceWorkReports
    \/ PlanChangeSet \/ GenerateChangeSet \/ NothingToGenerate \/ ValidateChangeSet
    \/ RepairChangeSet
    \/ ApplyChangeSet
    \/ SelectValidationCommands \/ PreviewCommand \/ ValidationNeedsNoApproval
    \/ RunValidationCommand \/ ParseValidationResult
    \/ GitCommit \/ GitPush \/ GitReview \/ GitPropose
    \/ Suspend \/ AskClarification \/ FinalSynthesis

Next == GraphStep \/ Allow \/ Deny \/ UserCancels

Spec == Init /\ [][Next]_vars

\* The thread that executes the graph goes from node to node; an answer and a
\* cancellation are up to the user.
FairSpec == Spec /\ WF_vars(GraphStep)

(***************************************************************************)
(* Properties                                                              *)
(***************************************************************************)
\* What the user allows is what then runs, whatever was pending or chosen
\* meanwhile ("only after approval does the adapter connect and invoke").
AllowRunsWhatWasAsked ==
    effect.grant \notin {"none", "mode"} => Subject(effect.type) = effect.grant

\* An approval that was given is not lost on the way through the stages: the
\* action it allows runs before anything replaces it and before the run ends,
\* unless the run is cancelled, or was when its last tool was called: the
\* approval overwrites a cancellation, but not the result that shows it.
GrantIsUsed ==
    [][state.action.grant # "none"
          => \/ state'.action = state.action /\ state'.node # "END"
             \/ effect' = state.action
             \/ cancelled \/ state.last = "cancelled"]_vars

\* After a denial no tool runs any more, also in the subgraphs that were
\* interrupted and in the nodes that follow them ("Denied approval blocks").
DeniedRunsNothing == denied => effect = NoAction

\* A commit that the task did not ask for is proposed only for files that were
\* applied and whose selected check, if any, did not fail.
CommitFollowsGoodApply ==
    [][state'.node = "await_commit_approval" /\ state.node # "await_commit_approval"
          => "commit" \in task \/ (state.apply = "applied" /\ ~state.failing)]_vars

\* The graph reaches its end or waits for the user, unless it is caught with a
\* pending search that is not needed: web.py lets it go around, although it says
\* "that gate used to END without executing, which left the pending action
\* re-proposed forever".
Unneeded == state.action.type = "search_web" /\ ~state.web

GraphSettles == []<>(At("END") \/ At("raised") \/ parked \/ Unneeded)
=============================================================================
