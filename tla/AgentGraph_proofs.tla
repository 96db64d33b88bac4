-------------------------- MODULE AgentGraph_proofs --------------------------
(***************************************************************************)
(* What the agent graph promises of approvals, for any menu of actions and *)
(* any budgets: what the user allows is what runs, and it does run; after  *)
(* a denial nothing runs; and a commit nobody asked for follows a good     *)
(* apply.                                                                  *)
(***************************************************************************)
EXTENDS AgentGraph, TLAPS

Nodes == {"route_next", "gather_evidence", "execute_tool", "web_research_graph", "validate_result",
          "decompose_task", "dispatch_work_units", "plan_change_set", "generate_change_set",
          "validate_change_set", "repair_change_set", "apply_change_set",
          "select_validation_commands", "preview_command", "await_validation_approval",
          "run_validation_command", "parse_validation_result", "git_workflow_graph",
          "await_commit_approval", "await_approval", "ask_clarification", "final_synthesis",
          "END", "raised"}

Fields == {"node", "action", "approval", "stop", "stage", "last", "proposal", "draft", "repairs",
           "apply", "selected", "failing", "git", "supervised", "units", "steps", "web", "turns"}

Asked == {"command", "validation", "change_set"} \cup CalledAgain

\* an action that carries a grant carries the one for what it does, and a
\* change set is applied by a grant only
Fits(a) ==
    /\ a \in [type : (Types \ {"mcp_tool"}) \cup {"none"}, grant : Asked \cup {"none", "mode"}]
    /\ a.grant \notin {"none", "mode"} => Subject(a.type) = a.grant
    /\ a.type = "apply_change_set" => a.grant # "none"

GraphTyped ==
    /\ DOMAIN state = Fields
    /\ state.approval \in Asked \cup {"none"}
    /\ state.repairs \in Nat
    /\ Fits(state.action)
    /\ parked \in BOOLEAN

\* the nodes that are reached with some actions only
Placed ==
    /\ At("apply_change_set") => state.action.type = "apply_change_set"
    /\ At("plan_change_set") \/ At("generate_change_set")
         => state.action.type \in {"generate_change_set", "validate_change_set"}
    /\ At("validate_change_set") => state.action = NoAction \/ state.action.type = "validate_change_set"
    /\ At("await_commit_approval") => state.action = NoAction
    /\ parked => Interrupted

\* what is asked of the user goes straight to an interrupt: no tool runs in
\* between, whose result could replace the question
Asking ==
    state.approval # "none" =>
        \/ state.node \in {"await_approval", "await_commit_approval", "final_synthesis", "END", "raised"}
        \/ state.node \in {"await_validation_approval", "git_workflow_graph"} /\ state.action = NoAction
        \/ At("validate_result") /\ state.action = NoAction /\ state.stop = "waiting_approval"
             /\ state.last # "cancelled"
        \/ At("parse_validation_result") /\ state.action = NoAction /\ state.last = "waiting_approval"
        \/ At("repair_change_set") /\ \/ state.action = NoAction /\ state.stop = "waiting_approval"
                                      \/ state.action.type = "validate_change_set" /\ state.proposal = "valid"
        \/ At("route_next") /\ \/ state.action = NoAction /\ state.stop = "waiting_approval"
                               \/ /\ state.action = NoAction
                                  /\ state.stage = "after_validation" /\ state.last = "waiting_approval"
                               \/ /\ state.action.type = "validate_change_set" /\ state.proposal = "valid"
                                  /\ state.stage = "after_change_plan" /\ state.repairs >= 1

\* after a denial the graph is on its way to its end
Ending ==
    denied =>
        /\ effect = NoAction /\ state.stop = "approval_denied" /\ state.approval = "none" /\ ~parked
        /\ \/ At("route_next") /\ (state.action = NoAction \/ state.stage = "after_approval")
           \/ state.node \in {"run_validation_command", "parse_validation_result"} /\ state.action = NoAction
           \/ state.node \in {"final_synthesis", "END"}

\* the git workflow is entered for a task, for an apply, or for its own actions
Offered ==
    At("git_workflow_graph") =>
        \/ "commit" \in task
        \/ state.apply = "applied" /\ ~state.failing
        \/ state.action.type \in {"git_commit", "git_push", "github_create_pr"}

GraphInv == GraphTyped /\ Placed /\ Asking /\ Ending /\ Offered /\ AllowRunsWhatWasAsked

----------------------------------------------------------------------------
(* The operators                                                           *)

\* what is asked about an action is of a kind the answers know
LEMMA SubjectIsAsked ==
    ASSUME NEW t \in (Gated \cup Commands) \ {"mcp_tool"}
    PROVE  Subject(t) \in Asked
BY DEF Subject, Asked, Gated, Commands, CalledAgain, GitWrites, WebTools

\* an action that was allowed does what was asked about
LEMMA GrantedFits ==
    ASSUME NEW kind \in Asked
    PROVE  Fits(Action(Granted(kind), kind)) /\ Action(Granted(kind), kind) # NoAction
<1>1. Granted(kind) \in Types \ {"mcp_tool"} /\ Subject(Granted(kind)) = kind
  BY DEF Granted, GrantedCommand, Subject, Asked, CalledAgain, GitWrites, WebTools, Types, Gated, Commands
<1> QED BY <1>1 DEF Fits, Action, NoAction, Asked, CalledAgain, GitWrites, WebTools

\* a call waits only when nothing allows it, and then for an answer
LEMMA CallsReturn ==
    ASSUME NEW a, Fits(a), NEW r \in Results(a)
    PROVE  /\ r \in {"success", "failed", "cancelled", "waiting_approval"}
           /\ r = "waiting_approval" =>
                a.grant = "none" /\ Subject(a.type) \in Asked /\ a.type # "apply_change_set"
                  /\ a.type # "generate_change_set"
<1>1. r = "waiting_approval" => a.grant = "none" /\ a.type \in Gated \cup Commands
  BY DEF Results
<1>2. a.type # "mcp_tool"
  BY DEF Fits, Types, Gated, Commands, GitWrites, WebTools
<1>3. r = "waiting_approval" => a.type # "apply_change_set" /\ a.type # "generate_change_set"
  BY <1>1 DEF Fits, Gated, Commands, GitWrites, WebTools
<1>4. r \in {"success", "failed", "cancelled", "waiting_approval"}
  BY DEF Results
<1> QED BY <1>1, <1>2, <1>3, <1>4, SubjectIsAsked

\* the fields of the state after a call
LEMMA RanFields ==
    ASSUME GraphTyped, NEW a, NEW r
    PROVE  /\ DOMAIN Ran(a, r) = Fields
           /\ Ran(a, r).action = NoAction /\ Ran(a, r).last = r
           /\ Ran(a, r).approval = (IF r = "waiting_approval" THEN Subject(a.type) ELSE state.approval)
           /\ Ran(a, r).stop = (IF r \in {"waiting_approval", "cancelled"} THEN r ELSE state.stop)
           /\ Ran(a, r).repairs = state.repairs /\ Ran(a, r).apply = state.apply
           /\ Ran(a, r).failing = state.failing /\ Ran(a, r).git = state.git
           /\ Ran(a, r).proposal = state.proposal /\ Ran(a, r).node = state.node
BY DEF GraphTyped, Ran, Fields

\* where an action may lead
LEMMA ActionsLead ==
    ASSUME NEW a
    PROVE  /\ FinalOrAction(a) \in {"final_synthesis", "ask_clarification", "gather_evidence",
                  "web_research_graph", "plan_change_set", "apply_change_set", "execute_tool"}
           /\ FinalOrAction(a) = "apply_change_set" => a.type = "apply_change_set"
           /\ FinalOrAction(a) = "plan_change_set" => a.type \in {"generate_change_set", "validate_change_set"}
BY DEF FinalOrAction, WebTools

Ways == {"final_synthesis", "ask_clarification", "gather_evidence", "web_research_graph",
         "plan_change_set", "apply_change_set", "execute_tool", "await_approval",
         "git_workflow_graph", "repair_change_set", "run_validation_command", "decompose_task"}

\* where the stages of route_next may lead
LEMMA StagesLead ==
    ASSUME NEW a
    PROVE  /\ RouteByStage(a) \in Ways
           /\ RouteByStage(a) = "apply_change_set" => a.type = "apply_change_set"
           /\ RouteByStage(a) = "plan_change_set" => a.type \in {"generate_change_set", "validate_change_set"}
           /\ RouteByStage(a) = "git_workflow_graph" =>
                \/ state.apply = "applied" /\ ~state.failing
                \/ a.type \in {"git_commit", "git_push", "github_create_pr"}
<1> DEFINE Good(n) ==
      /\ n \in Ways
      /\ n = "apply_change_set" => a.type = "apply_change_set"
      /\ n = "plan_change_set" => a.type \in {"generate_change_set", "validate_change_set"}
      /\ n = "git_workflow_graph" => \/ state.apply = "applied" /\ ~state.failing
                                     \/ a.type \in {"git_commit", "git_push", "github_create_pr"}
<1>1. Good(FinalOrAction(a))
  BY ActionsLead DEF Ways
<1>2. \A n \in {"final_synthesis", "await_approval", "repair_change_set", "decompose_task"} : Good(n)
  BY DEF Ways
<1>3. Good(FinalOrContinue(a))
  BY <1>1, <1>2 DEF FinalOrContinue
<1>4. Good(AfterResume(a))
  BY DEF AfterResume, Ways
<1>5. OfferCommit => Good("git_workflow_graph")
  BY DEF OfferCommit, Ways
<1>6. a.type = "apply_change_set" => Good("apply_change_set")
  BY DEF Ways
<1> HIDE DEF Good
<1>7. Good(AfterToolResult(a))
  BY <1>2, <1>3 DEF AfterToolResult
<1>8. Good(AfterValidation(a))
  BY <1>2, <1>3, <1>5 DEF AfterValidation
<1>9. Good(AfterChangePlan(state.proposal, a))
  BY <1>2, <1>3, <1>6 DEF AfterChangePlan
<1>10. Good(AfterApproval(a))
  BY <1>2, <1>3 DEF AfterApproval
<1>11. Good(AfterUnderstanding(a))
  BY <1>1, <1>2 DEF AfterUnderstanding
<1>12. Good(RouteByStage(a))
  BY <1>4, <1>7, <1>8, <1>9, <1>10, <1>11 DEF RouteByStage
<1> QED BY <1>12 DEF Good

----------------------------------------------------------------------------
(* The steps                                                               *)
LEMMA GraphStarts == Init => GraphInv
<1> SUFFICES ASSUME Init PROVE GraphInv
  OBVIOUS
<1>1. Fits(NoAction) /\ NoAction.grant = "none"
  BY DEF Fits, NoAction, Action
<1>2. /\ DOMAIN state = Fields /\ At("route_next") /\ state.action = NoAction /\ state.approval = "none"
      /\ state.repairs = 0 /\ parked = FALSE /\ denied = FALSE /\ effect = NoAction
  BY DEF Init, Fields, At
<1>3. GraphTyped
  <2>1. Fits(state.action)
    BY <1>1, <1>2
  <2>2. state.repairs \in Nat
    BY <1>2
  <2>3. parked \in BOOLEAN
    BY <1>2
  <2> QED BY <1>2, <2>1, <2>2, <2>3 DEF GraphTyped
<1>4. Placed /\ Asking /\ Ending /\ Offered
  BY <1>1, <1>2 DEF Placed, Asking, Ending, Offered, At
<1>5. AllowRunsWhatWasAsked
  BY <1>1, <1>2 DEF AllowRunsWhatWasAsked
<1> QED BY <1>3, <1>4, <1>5 DEF GraphInv

\* the steps of route_next
LEMMA RoutesKeep == GraphInv /\ RouteNext => GraphInv'
<1> SUFFICES ASSUME GraphInv, RouteNext PROVE GraphInv'
  OBVIOUS
<1>0. DOMAIN state = Fields /\ NoAction.type = "none" /\ NoAction.grant = "none" /\ Fits(NoAction)
  BY DEF GraphInv, GraphTyped, NoAction, Action, Fits
<1>1. CASE RoutePending
  <2>1. /\ At("route_next") /\ state.action # NoAction /\ effect' = NoAction
        /\ UNCHANGED <<mode, task, status, parked, denied>>
        /\ state' = [state EXCEPT !.node = RouteByStage(state.action)]
    BY <1>1 DEF RoutePending, Update
  <2>2. /\ DOMAIN state' = Fields /\ state'.node = RouteByStage(state.action)
        /\ \A f \in Fields \ {"node"} : state'[f] = state[f]
    BY <1>0, <2>1 DEF Fields
  <2>3. state.approval # "none" => RouteByStage(state.action) = "await_approval"
    <3>1. state.approval # "none" =>
             /\ state.action.type = "validate_change_set" /\ state.proposal = "valid"
             /\ state.stage = "after_change_plan" /\ state.repairs >= 1 /\ state.repairs \in Nat
      BY <2>1 DEF GraphInv, GraphTyped, Asking, At
    <3> QED BY <3>1 DEF RouteByStage, AfterChangePlan
  <2>4. denied => RouteByStage(state.action) = "final_synthesis"
    BY <2>1 DEF GraphInv, Ending, At, RouteByStage, AfterApproval, FinalOrContinue
  <2>5. state' = [state EXCEPT !.node = state'.node] /\ state'.node \in Ways
    BY <2>1, <2>2, StagesLead
  <2>6. GraphTyped' /\ AllowRunsWhatWasAsked'
    BY <1>0, <2>1, <2>2 DEF GraphInv, GraphTyped, AllowRunsWhatWasAsked, Fields
  <2>7. Placed'
    BY <2>1, <2>2, <2>5, StagesLead DEF GraphInv, Placed, At, Interrupted, Ways, Fields
  <2>8. Asking'
    BY <2>1, <2>2, <2>3 DEF Asking, Fields
  <2>9. Ending'
    BY <2>1, <2>2, <2>4 DEF GraphInv, Ending, Fields
  <2>10. Offered'
    BY <2>1, <2>2, StagesLead DEF Offered, At, Fields
  <2> QED BY <2>6, <2>7, <2>8, <2>9, <2>10 DEF GraphInv
<1>2. CASE RouteStopped
  <2>1. /\ At("route_next") /\ state.action = NoAction /\ state.stop # "none" /\ effect' = NoAction
        /\ UNCHANGED <<mode, task, status, parked, denied>>
        /\ state' = [state EXCEPT !.node = IF state.stop = "waiting_approval"
                                             THEN "await_approval" ELSE "final_synthesis"]
    BY <1>2 DEF RouteStopped, Update
  <2> QED BY <1>0, <2>1 DEF GraphInv, GraphTyped, Placed, Asking, Ending, Offered, AllowRunsWhatWasAsked, At, Interrupted, Fields
<1>3. CASE RouteBudgetSpent
  <2>1. /\ At("route_next") /\ state.action = NoAction /\ state.stop = "none" /\ effect' = NoAction
        /\ UNCHANGED <<mode, task, status, parked, denied>>
        /\ \E s \in {"timed_out", "max_loop_iterations"} :
             state' = [state EXCEPT !.node = "final_synthesis", !.stop = s]
    BY <1>3 DEF RouteBudgetSpent, Update
  <2> QED BY <1>0, <2>1 DEF GraphInv, GraphTyped, Placed, Asking, Ending, Offered, AllowRunsWhatWasAsked, At, Interrupted, Fields
<1>4. CASE RouteCancelled
  BY <1>0, <1>4 DEF RouteCancelled, NextTurn, Update, GraphInv, GraphTyped, Placed, Asking, Ending, Offered, AllowRunsWhatWasAsked, At, Interrupted, Fields
<1>5. CASE RouteGit
  BY <1>0, <1>5 DEF RouteGit, NextTurn, GitFirst, Update, GraphInv, GraphTyped, Placed, Asking, Ending, Offered, AllowRunsWhatWasAsked, At, Interrupted, Fields
<1>6. ASSUME NEW type \in Menu \cup {"final_answer"}, RouteChoose(type) PROVE GraphInv'
  <2> DEFINE a == Action(type, "none")
  <2>1. Fits(a)
    BY GraphAssumption DEF Fits, Action, Types
  <2>2. /\ At("route_next") /\ state.action = NoAction /\ state.stop = "none" /\ effect' = NoAction
        /\ UNCHANGED <<mode, task, status, parked, denied>>
        /\ DOMAIN state' = Fields /\ state'.node = RouteByStage(a) /\ state'.action = a
        /\ \A f \in Fields \ {"node", "action", "turns"} : state'[f] = state[f]
    BY <1>0, <1>6 DEF RouteChoose, NextTurn, Update, Fields
  <2>3. state.approval # "none" => RouteByStage(a) = "await_approval"
    <3>1. state.approval # "none" => state.stage = "after_validation" /\ state.last = "waiting_approval"
      BY <2>2 DEF GraphInv, Asking, At, NoAction, Action
    <3> QED BY <3>1 DEF RouteByStage, AfterValidation
  <2>4. ~denied
    BY <2>2 DEF GraphInv, Ending
  <2> HIDE DEF a
  <2> QED BY <1>0, <2>1, <2>2, <2>3, <2>4, StagesLead DEF GraphInv, GraphTyped, Placed, Asking, Ending, Offered, AllowRunsWhatWasAsked, At, Interrupted, Ways, Fields
<1> QED BY <1>1, <1>2, <1>3, <1>4, <1>5, <1>6 DEF RouteNext

\* what a call leaves behind, wherever the node goes on
LEMMA EffectFits ==
    ASSUME NEW a, Fits(a), NEW r, effect' = Effect(a, r)
    PROVE  AllowRunsWhatWasAsked'
<1>1. NoAction.grant = "none"
  BY DEF NoAction, Action
<1>2. a.grant \notin {"none", "mode"} => Subject(a.type) = a.grant
  BY DEF Fits
<1> QED BY <1>1, <1>2 DEF Effect, AllowRunsWhatWasAsked

\* a call after which its result is validated: a question stops the run
LEMMA CallsKeep ==
    ASSUME GraphInv, NEW a, Fits(a), NEW r \in Results(a), effect' = Effect(a, r),
           UNCHANGED <<mode, task, status, parked, denied>>,
           At("gather_evidence") \/ At("execute_tool") \/ At("web_research_graph"),
           DOMAIN state' = Fields, state'.node = "validate_result",
           state'.action = NoAction, state'.repairs = state.repairs,
           state'.approval = Ran(a, r).approval,
           r = "waiting_approval" => state'.stop = "waiting_approval" /\ state'.last # "cancelled"
    PROVE  GraphInv'
<1>1. Fits(NoAction) /\ NoAction.type = "none"
  BY DEF Fits, NoAction, Action
<1>2. ~denied /\ state.approval = "none" /\ ~parked
  BY DEF GraphInv, GraphTyped, Placed, Ending, Asking, At, Interrupted
<1>3. state'.approval = (IF r = "waiting_approval" THEN Subject(a.type) ELSE "none")
  BY <1>2, RanFields DEF GraphInv
<1>4. r = "waiting_approval" => Subject(a.type) \in Asked
  BY CallsReturn
<1>5. Fits(state'.action)
  BY <1>1
<1>6. GraphTyped'
  BY <1>3, <1>4, <1>5 DEF GraphInv, GraphTyped
<1>7. Placed' /\ Asking' /\ Ending' /\ Offered'
  BY <1>2, <1>3 DEF Placed, Asking, Ending, Offered, At, Interrupted
<1> QED BY <1>6, <1>7, EffectFits DEF GraphInv

\* evidence, tools and the web
LEMMA ToolsKeep ==
    ASSUME GraphInv, GatherEvidence \/ ExecuteTool \/ FetchUrl \/ SearchWeb \/ SearchNotNeeded
    PROVE  GraphInv'
<1>0. DOMAIN state = Fields /\ Fits(state.action)
  BY DEF GraphInv, GraphTyped
<1>1. CASE GatherEvidence \/ ExecuteTool
  <2>1. PICK r \in Results(state.action), stage \in {"after_evidence", "after_tool_result"} :
          UpdateRan([Ran(state.action, r) EXCEPT !.node = "validate_result", !.stage = stage],
                    state.action, r)
    BY <1>1 DEF GatherEvidence, ExecuteTool
  <2>2. DOMAIN Ran(state.action, r) = Fields
    BY RanFields DEF GraphInv
  <2>3. /\ DOMAIN state' = Fields /\ state'.node = "validate_result"
        /\ state'.action = NoAction /\ state'.repairs = state.repairs
        /\ state'.approval = Ran(state.action, r).approval
        /\ r = "waiting_approval" => state'.stop = "waiting_approval" /\ state'.last # "cancelled"
    <3>1. state' = [Ran(state.action, r) EXCEPT !.node = "validate_result", !.stage = stage]
      BY <2>1 DEF UpdateRan
    <3> QED BY <3>1, <2>2, RanFields DEF GraphInv, Fields, WebDone
  <2>4. At("gather_evidence") \/ At("execute_tool")
    BY <1>1 DEF GatherEvidence, ExecuteTool
  <2> QED BY <1>0, <2>1, <2>3, <2>4, CallsKeep DEF UpdateRan
<1>2. CASE FetchUrl
  <2>1. PICK r \in Results(state.action) : UpdateRan(WebDone(Ran(state.action, r)), state.action, r)
    BY <1>2 DEF FetchUrl
  <2>2. DOMAIN Ran(state.action, r) = Fields
    BY RanFields DEF GraphInv
  <2>3. /\ DOMAIN state' = Fields /\ state'.node = "validate_result"
        /\ state'.action = NoAction /\ state'.repairs = state.repairs
        /\ state'.approval = Ran(state.action, r).approval
        /\ r = "waiting_approval" => state'.stop = "waiting_approval" /\ state'.last # "cancelled"
    <3>1. state' = WebDone(Ran(state.action, r))
      BY <2>1 DEF UpdateRan
    <3> QED BY <3>1, <2>2, RanFields DEF GraphInv, Fields, WebDone
  <2>4. At("web_research_graph")
    BY <1>2 DEF FetchUrl
  <2> QED BY <1>0, <2>1, <2>3, <2>4, CallsKeep DEF UpdateRan
<1>3. CASE SearchWeb
  <2> DEFINE a == Action("search_web", "none")
  <2>1. Fits(a)
    BY DEF Fits, Action, Types, Gated, Commands, WebTools
  <2>2. PICK r \in Results(a), summary \in (IF cancelled THEN {"cancelled"} ELSE {"success", "failed"}) :
          UpdateRan([WebDone(Ran(a, r)) EXCEPT
                        !.last = summary,
                        !.stop = IF summary = "cancelled" THEN summary ELSE @], a, r)
    BY <1>3 DEF SearchWeb
  <2>3. DOMAIN Ran(a, r) = Fields
    BY RanFields DEF GraphInv
  <2>4. r = "waiting_approval" => ~cancelled
    BY DEF Results
  <2>5. /\ DOMAIN state' = Fields /\ state'.node = "validate_result" /\ state'.action = NoAction
        /\ state'.repairs = state.repairs /\ state'.approval = Ran(a, r).approval
        /\ r = "waiting_approval" => state'.stop = "waiting_approval" /\ state'.last # "cancelled"
    <3>1. state' = [WebDone(Ran(a, r)) EXCEPT !.last = summary,
                       !.stop = IF summary = "cancelled" THEN summary ELSE Ran(a, r).stop]
      BY <2>2, <2>3 DEF UpdateRan, WebDone, Fields
    <3> QED BY <3>1, <2>2, <2>3, <2>4, RanFields DEF GraphInv, WebDone, Fields
  <2> QED BY <1>3, <2>1, <2>2, <2>5, CallsKeep DEF UpdateRan, SearchWeb
<1>4. CASE SearchNotNeeded
  <2>1. /\ At("web_research_graph") /\ effect' = NoAction /\ UNCHANGED <<mode, task, status, parked, denied>>
        /\ DOMAIN state' = Fields /\ state'.node = "validate_result"
        /\ \A f \in Fields \ {"node", "stage"} : state'[f] = state[f]
    BY <1>0, <1>4 DEF SearchNotNeeded, Update, WebDone, Fields
  <2>2. NoAction.grant = "none"
    BY DEF NoAction, Action
  <2> QED BY <1>0, <2>1, <2>2 DEF GraphInv, GraphTyped, Placed, Asking, Ending, Offered, AllowRunsWhatWasAsked, At, Interrupted, Fields
<1> QED BY <1>1, <1>2, <1>3, <1>4

\* the node that validates a result, and the supervisor
LEMMA WorkKeeps ==
    ASSUME GraphInv, ValidateResult \/ DecomposeTask \/ WorkerCalls \/ WorkerReports \/ ReduceWorkReports
    PROVE  GraphInv'
<1>0. DOMAIN state = Fields /\ Fits(state.action) /\ NoAction.grant = "none"
  BY DEF GraphInv, GraphTyped, NoAction, Action
<1>1. CASE ValidateResult
  <2>1. /\ At("validate_result") /\ effect' = NoAction /\ UNCHANGED <<mode, task, status, parked, denied>>
        /\ DOMAIN state' = Fields /\ state'.node = "route_next" /\ state'.stage = "after_validation"
        /\ state'.stop = (IF state.last \in {"waiting_approval", "cancelled"} THEN state.last ELSE state.stop)
        /\ \A f \in Fields \ {"node", "stage", "stop"} : state'[f] = state[f]
    BY <1>0, <1>1 DEF ValidateResult, Update, Fields
  <2>2. state'.action = state.action /\ state'.approval = state.approval /\ state'.repairs = state.repairs
        /\ state'.last = state.last
    BY <2>1 DEF Fields
  <2>3. ~denied
    BY <2>1 DEF GraphInv, Ending, At
  <2>4. GraphTyped'
    BY <1>0, <2>1, <2>2 DEF GraphInv, GraphTyped
  <2>5. Placed' /\ Ending' /\ Offered' /\ AllowRunsWhatWasAsked'
    BY <1>0, <2>1, <2>3 DEF GraphInv, Placed, Ending, Offered, AllowRunsWhatWasAsked, At, Interrupted
  <2>6. Asking'
    BY <2>1, <2>2 DEF GraphInv, Asking, At
  <2> QED BY <2>4, <2>5, <2>6 DEF GraphInv
<1>2. CASE DecomposeTask \/ WorkerReports \/ ReduceWorkReports
  <2>1. /\ At("decompose_task") \/ At("dispatch_work_units")
        /\ effect' = NoAction /\ UNCHANGED <<mode, task, status, parked, denied>>
        /\ DOMAIN state' = Fields /\ state'.node \in {"dispatch_work_units", "route_next"}
        /\ \A f \in Fields \ {"node", "supervised", "units", "steps"} : state'[f] = state[f]
    BY <1>0, <1>2 DEF DecomposeTask, WorkerReports, ReduceWorkReports, Update, Fields, At
  <2> QED BY <1>0, <2>1 DEF GraphInv, GraphTyped, Placed, Asking, Ending, Offered, AllowRunsWhatWasAsked, At, Interrupted, Fields
<1>3. CASE WorkerCalls
  <2>1. PICK type \in {"read_file"} \cup WebTools : \E r : effect' = Effect(Action(type, "none"), r)
    BY <1>3 DEF WorkerCalls, UpdateRan, WorkerTools
  <2>2. Fits(Action(type, "none"))
    BY <2>1 DEF Fits, Action, Types, Gated, Commands, WebTools
  <2>3. AllowRunsWhatWasAsked'
    BY <2>1, <2>2, EffectFits
  <2>4. /\ At("dispatch_work_units") /\ UNCHANGED <<mode, task, status, parked, denied>>
        /\ DOMAIN state' = Fields
        /\ \A f \in Fields \ {"steps"} : state'[f] = state[f]
    BY <1>0, <1>3 DEF WorkerCalls, UpdateRan, Fields
  <2> QED BY <1>0, <2>3, <2>4 DEF GraphInv, GraphTyped, Placed, Asking, Ending, Offered, At, Interrupted, Fields
<1> QED BY <1>1, <1>2, <1>3

\* a node that runs no tool, keeps action and question, and is neither reached
\* nor left with a question
LEMMA PlainKeeps ==
    ASSUME ~denied, denied' = denied, parked' = FALSE, effect' = NoAction,
           DOMAIN state' = Fields, state'.approval = "none", state'.repairs \in Nat, Fits(state'.action),
           state'.node \notin {"git_workflow_graph", "await_commit_approval"},
           state'.node = "apply_change_set" => state'.action.type = "apply_change_set",
           state'.node \in {"plan_change_set", "generate_change_set"} =>
             state'.action.type \in {"generate_change_set", "validate_change_set"},
           state'.node = "validate_change_set" =>
             state'.action = NoAction \/ state'.action.type = "validate_change_set"
    PROVE  GraphInv'
<1>1. NoAction.grant = "none"
  BY DEF NoAction, Action
<1>2. GraphTyped' /\ AllowRunsWhatWasAsked'
  BY <1>1 DEF GraphTyped, AllowRunsWhatWasAsked
<1>3. Placed' /\ Asking' /\ Ending' /\ Offered'
  BY DEF Placed, Asking, Ending, Offered, At
<1> QED BY <1>2, <1>3 DEF GraphInv

\* planning, generating and repairing a change set
LEMMA DraftsKeep ==
    ASSUME GraphInv, PlanChangeSet \/ GenerateChangeSet \/ NothingToGenerate \/ RepairChangeSet
    PROVE  GraphInv'
<1>0. DOMAIN state = Fields /\ Fits(state.action) /\ state.repairs \in Nat
      /\ NoAction.grant = "none" /\ Fits(NoAction)
  BY DEF GraphInv, GraphTyped, NoAction, Action, Fits
<1>1. CASE PlanChangeSet \/ NothingToGenerate
  <2>1. /\ \/ At("plan_change_set") /\ state'.node = "generate_change_set"
           \/ /\ At("generate_change_set") /\ state'.node = "validate_change_set"
              /\ state.action.type # "generate_change_set"
        /\ effect' = NoAction /\ UNCHANGED <<mode, task, status, parked, denied>>
        /\ DOMAIN state' = Fields /\ state'.action = state.action /\ state'.approval = state.approval
        /\ state'.repairs = state.repairs
    BY <1>0, <1>1 DEF PlanChangeSet, NothingToGenerate, Update, Fields
  <2>2. ~denied /\ ~parked /\ state.approval = "none"
    BY <2>1 DEF GraphInv, GraphTyped, Ending, Placed, Asking, At, Interrupted
  <2>3. state.action.type \in {"generate_change_set", "validate_change_set"}
    BY <2>1 DEF GraphInv, Placed
  <2>4. parked' = FALSE
    BY <2>1, <2>2 DEF GraphInv, GraphTyped
  <2> QED BY <1>0, <2>1, <2>2, <2>3, <2>4, PlainKeeps
<1>2. CASE GenerateChangeSet
  <2> DEFINE a == state.action
  <2>1. PICK r \in Results(a) : \E p, n :
          /\ state' = [Ran(a, r) EXCEPT
                        !.node = "validate_change_set", !.stage = "after_change_plan",
                        !.proposal = p, !.repairs = n]
          /\ n \in {Ran(a, r).repairs, Ran(a, r).repairs + 1}
          /\ effect' = Effect(a, r) /\ UNCHANGED <<mode, task, status, parked, denied>>
    <3>1. PICK r \in Results(a) : \E p :
            UpdateRan([Ran(a, r) EXCEPT
                        !.node = "validate_change_set", !.stage = "after_change_plan",
                        !.proposal = p,
                        !.repairs = IF p = "invalid" /\ @ < 1 THEN @ + 1 ELSE @], a, r)
      BY <1>2 DEF GenerateChangeSet
    <3>2. PICK p : UpdateRan([Ran(a, r) EXCEPT
                        !.node = "validate_change_set", !.stage = "after_change_plan",
                        !.proposal = p,
                        !.repairs = IF p = "invalid" /\ @ < 1 THEN @ + 1 ELSE @], a, r)
      BY <3>1
    <3> DEFINE n == IF p = "invalid" /\ Ran(a, r).repairs < 1 THEN Ran(a, r).repairs + 1 ELSE Ran(a, r).repairs
    <3>3. state' = [Ran(a, r) EXCEPT
                        !.node = "validate_change_set", !.stage = "after_change_plan",
                        !.proposal = p, !.repairs = n]
      BY <3>2, RanFields DEF UpdateRan, GraphInv, Fields
    <3>4. n \in {Ran(a, r).repairs, Ran(a, r).repairs + 1}
      OBVIOUS
    <3> QED BY <3>2, <3>3, <3>4 DEF UpdateRan
  <2>2. At("generate_change_set") /\ a.type = "generate_change_set"
    BY <1>2 DEF GenerateChangeSet
  <2>3. r # "waiting_approval"
    BY <1>0, <2>2, CallsReturn
  <2>4. ~denied /\ ~parked /\ state.approval = "none"
    BY <2>2 DEF GraphInv, GraphTyped, Ending, Placed, Asking, At, Interrupted
  <2>5. /\ DOMAIN Ran(a, r) = Fields /\ Ran(a, r).action = NoAction /\ Ran(a, r).approval = "none"
        /\ Ran(a, r).repairs = state.repairs
    BY <2>3, <2>4, RanFields DEF GraphInv
  <2>6. /\ DOMAIN state' = Fields /\ state'.node = "validate_change_set" /\ state'.action = NoAction
        /\ state'.approval = "none" /\ state'.repairs \in Nat
    BY <1>0, <2>1, <2>5 DEF Fields
  <2>7. Fits(state'.action)
    BY <1>0, <2>6
  <2>8. GraphTyped' /\ AllowRunsWhatWasAsked'
    BY <1>0, <2>1, <2>6, <2>7, EffectFits DEF GraphInv, GraphTyped
  <2>9. Placed' /\ Asking' /\ Ending' /\ Offered'
    BY <2>1, <2>4, <2>6 DEF Placed, Asking, Ending, Offered, At
  <2> QED BY <2>8, <2>9 DEF GraphInv
<1>3. CASE RepairChangeSet
  <2>1. /\ At("repair_change_set") /\ effect' = NoAction /\ UNCHANGED <<mode, task, status, parked, denied>>
        /\ DOMAIN state' = Fields /\ state'.node = "route_next" /\ state'.stage = "after_change_plan"
        /\ state'.repairs = state.repairs + 1 /\ state'.action = state.action
        /\ state'.approval = state.approval /\ state'.stop = state.stop /\ state'.proposal = state.proposal
    BY <1>0, <1>3 DEF RepairChangeSet, Update, Fields
  <2>2. ~denied /\ ~parked
    BY <2>1 DEF GraphInv, GraphTyped, Ending, Placed, At, Interrupted
  <2>3. GraphTyped' /\ AllowRunsWhatWasAsked'
    BY <1>0, <2>1 DEF GraphInv, GraphTyped, AllowRunsWhatWasAsked
  <2>4. Placed' /\ Ending' /\ Offered'
    BY <2>1, <2>2 DEF Placed, Ending, Offered, At
  <2>5. Asking'
    BY <1>0, <2>1 DEF GraphInv, Asking, At
  <2> QED BY <2>3, <2>4, <2>5 DEF GraphInv
<1> QED BY <1>1, <1>2, <1>3

\* the verdict on a change set: by mode it is applied, or the user is asked
LEMMA VerdictsKeep ==
    ASSUME GraphInv, ValidateChangeSet
    PROVE  GraphInv'
<1>0. DOMAIN state = Fields /\ Fits(state.action) /\ state.repairs \in Nat /\ NoAction.grant = "none"
      /\ NoAction.type = "none"
  BY DEF GraphInv, GraphTyped, NoAction, Action
<1>1. At("validate_change_set") /\ effect' = NoAction /\ UNCHANGED <<mode, task, status, parked, denied>>
  BY DEF ValidateChangeSet, Update
<1>2. ~denied /\ ~parked /\ state.approval = "none"
      /\ (state.action = NoAction \/ state.action.type = "validate_change_set")
  BY <1>1 DEF GraphInv, GraphTyped, Ending, Placed, Asking, At, Interrupted
<1>3. PICK p \in Verdicts :
       LET auto  == p = "valid" /\ mode = "accept_edits"
           asked == p = "valid" /\ mode = "default"
           a     == IF auto THEN Action("apply_change_set", "mode") ELSE state.action
       IN Update([state EXCEPT !.node = EdgeAfterValidation(AfterChangePlan(p, a)),
                               !.stage = "after_change_plan",
                               !.proposal = p, !.action = a,
                               !.approval = IF asked THEN "change_set" ELSE @,
                               !.stop = IF asked THEN "waiting_approval" ELSE @])
  BY DEF ValidateChangeSet
<1> DEFINE auto  == p = "valid" /\ mode = "accept_edits"
           asked == p = "valid" /\ mode = "default"
           a     == IF auto THEN Action("apply_change_set", "mode") ELSE state.action
           n     == EdgeAfterValidation(AfterChangePlan(p, a))
<1>4. /\ DOMAIN state' = Fields /\ state'.node = n /\ state'.proposal = p /\ state'.action = a
      /\ state'.approval = (IF asked THEN "change_set" ELSE "none")
      /\ state'.stop = (IF asked THEN "waiting_approval" ELSE state.stop) /\ state'.repairs = state.repairs
  BY <1>0, <1>2, <1>3 DEF Update, Fields
<1>5. Fits(a)
  <2>1. Fits(Action("apply_change_set", "mode"))
    BY DEF Fits, Action, Types, Gated
  <2> QED BY <1>0, <2>1
<1>6. n \in {"repair_change_set", "await_approval", "apply_change_set", "final_synthesis", "raised"}
  BY DEF EdgeAfterValidation
<1>7. n = "apply_change_set" => a.type = "apply_change_set"
  BY ActionsLead DEF EdgeAfterValidation, AfterChangePlan, FinalOrContinue
<1>8. asked => n \in {"repair_change_set", "await_approval"}
  <2> SUFFICES ASSUME asked PROVE n \in {"repair_change_set", "await_approval"}
    OBVIOUS
  <2>1. a = state.action /\ a.type # "apply_change_set"
    BY <1>0, <1>2
  <2> QED BY <2>1 DEF EdgeAfterValidation, AfterChangePlan
<1>9. asked => a = state.action /\ p = "valid"
  OBVIOUS
<1> HIDE DEF asked, a, n
<1>10. GraphTyped' /\ AllowRunsWhatWasAsked'
  BY <1>0, <1>1, <1>4, <1>5 DEF GraphInv, GraphTyped, AllowRunsWhatWasAsked, Asked
<1>11. Placed' /\ Ending' /\ Offered'
  BY <1>1, <1>2, <1>4, <1>6, <1>7 DEF Placed, Ending, Offered, At
<1>12. Asking'
  BY <1>2, <1>4, <1>8, <1>9 DEF Asking, At
<1> QED BY <1>10, <1>11, <1>12 DEF GraphInv

\* a change set is applied without another question
LEMMA ApplyKeeps ==
    ASSUME GraphInv, ApplyChangeSet
    PROVE  GraphInv'
<1> DEFINE a == state.action
<1>1. At("apply_change_set") /\ UNCHANGED <<mode, task, status, parked, denied>>
  BY DEF ApplyChangeSet, UpdateRan
<1>2. ~denied /\ parked = FALSE /\ state.approval = "none" /\ a.type = "apply_change_set"
      /\ DOMAIN state = Fields /\ Fits(a) /\ state.repairs \in Nat /\ Fits(NoAction)
  BY <1>1 DEF GraphInv, GraphTyped, Ending, Placed, Asking, At, Interrupted, Fits, NoAction, Action
<1>3. PICK r \in Results(a) :
        UpdateRan([Ran(a, r) EXCEPT
                        !.node = "select_validation_commands", !.stage = "after_tool_result",
                        !.apply = IF r = "success" THEN "applied" ELSE "failed",
                        !.proposal = IF r = "success" THEN "applied" ELSE "valid",
                        !.stop = IF r = "success" THEN "none" ELSE "failed"], a, r)
  BY DEF ApplyChangeSet
<1>4. r # "waiting_approval"
  BY <1>2, CallsReturn
<1>5. /\ DOMAIN Ran(a, r) = Fields /\ Ran(a, r).action = NoAction /\ Ran(a, r).approval = "none"
      /\ Ran(a, r).repairs = state.repairs
  BY <1>2, <1>4, RanFields DEF GraphInv
<1>6. /\ DOMAIN state' = Fields /\ state'.node = "select_validation_commands" /\ state'.action = NoAction
      /\ state'.approval = "none" /\ state'.repairs = state.repairs
  BY <1>3, <1>5 DEF UpdateRan, Fields
<1>7. Fits(state'.action)
  BY <1>2, <1>6
<1>8. GraphTyped' /\ AllowRunsWhatWasAsked'
  BY <1>1, <1>2, <1>3, <1>6, <1>7, EffectFits DEF GraphTyped, UpdateRan
<1>9. Placed' /\ Asking' /\ Ending' /\ Offered'
  BY <1>1, <1>2, <1>6 DEF Placed, Asking, Ending, Offered, At
<1> QED BY <1>8, <1>9 DEF GraphInv

\* the check of the applied files
LEMMA ChecksKeep ==
    ASSUME GraphInv, SelectValidationCommands \/ PreviewCommand \/ ValidationNeedsNoApproval
                       \/ RunValidationCommand \/ ParseValidationResult
    PROVE  GraphInv'
<1>0. DOMAIN state = Fields /\ Fits(state.action) /\ state.repairs \in Nat /\ parked \in BOOLEAN
      /\ NoAction.grant = "none" /\ NoAction.type = "none" /\ Fits(NoAction)
  BY DEF GraphInv, GraphTyped, NoAction, Action, Fits
<1>1. CASE SelectValidationCommands
  <2>1. /\ At("select_validation_commands") /\ effect' = NoAction /\ UNCHANGED <<mode, task, status, parked, denied>>
        /\ DOMAIN state' = Fields /\ state'.node = "preview_command"
        /\ state'.action \in {state.action, Action("preview_command", "none")}
        /\ state'.approval = state.approval /\ state'.repairs = state.repairs
    BY <1>0, <1>1 DEF SelectValidationCommands, Update, Fields
  <2>2. ~denied /\ parked = FALSE /\ state.approval = "none"
    BY <1>0, <2>1 DEF GraphInv, Ending, Placed, Asking, At, Interrupted
  <2>3. Fits(Action("preview_command", "none"))
    BY DEF Fits, Action, Types, Commands
  <2>4. Fits(state'.action)
    BY <1>0, <2>1, <2>3
  <2> QED BY <1>0, <2>1, <2>2, <2>4, PlainKeeps
<1>2. CASE PreviewCommand
  <2> DEFINE a == state.action
  <2>1. At("preview_command") /\ UNCHANGED <<mode, task, status, parked, denied>>
    BY <1>2 DEF PreviewCommand, Update, UpdateRan
  <2>2. ~denied /\ parked = FALSE /\ state.approval = "none"
    BY <1>0, <2>1 DEF GraphInv, Ending, Placed, Asking, At, Interrupted
  <2>3. CASE a.type # "preview_command"
    <3>1. /\ effect' = NoAction /\ DOMAIN state' = Fields /\ state'.node = "await_validation_approval"
          /\ state'.action = state.action /\ state'.approval = state.approval /\ state'.repairs = state.repairs
      BY <1>0, <1>2, <2>3 DEF PreviewCommand, Update, Fields
    <3> QED BY <1>0, <2>1, <2>2, <3>1, PlainKeeps
  <2>4. CASE a.type = "preview_command"
    <3>1. PICK r \in Results(a) :
              UpdateRan([Ran(a, r) EXCEPT
                  !.node = "await_validation_approval",
                  !.action = IF r = "success" THEN Action("run_validation_command", "none") ELSE @,
                  !.approval = IF r = "waiting_approval" THEN "validation" ELSE @,
                  !.stop = CASE r = "success" -> @ [] r = "waiting_approval" -> r [] OTHER -> "failed",
                  !.failing = r \notin {"success", "waiting_approval"}], a, r)
      BY <1>2, <2>4 DEF PreviewCommand
    <3>2. /\ DOMAIN Ran(a, r) = Fields /\ Ran(a, r).action = NoAction /\ Ran(a, r).repairs = state.repairs
          /\ r # "waiting_approval" => Ran(a, r).approval = "none"
      BY <2>2, RanFields DEF GraphInv
    <3>3. /\ DOMAIN state' = Fields /\ state'.node = "await_validation_approval"
          /\ state'.action = (IF r = "success" THEN Action("run_validation_command", "none") ELSE NoAction)
          /\ state'.approval = (IF r = "waiting_approval" THEN "validation" ELSE "none")
          /\ state'.repairs = state.repairs
      BY <3>1, <3>2 DEF UpdateRan, Fields
    <3>4. Fits(Action("run_validation_command", "none"))
      BY DEF Fits, Action, Types, Commands
    <3>5. Fits(state'.action)
      BY <1>0, <3>3, <3>4
    <3>6. GraphTyped' /\ AllowRunsWhatWasAsked'
      BY <1>0, <2>1, <3>1, <3>3, <3>5, EffectFits DEF GraphTyped, UpdateRan, Asked
    <3>7. Placed' /\ Asking' /\ Ending' /\ Offered'
      BY <2>1, <2>2, <3>3 DEF Placed, Asking, Ending, Offered, At
    <3> QED BY <3>6, <3>7 DEF GraphInv
  <2> QED BY <2>3, <2>4
<1>3. CASE ValidationNeedsNoApproval
  <2>1. /\ At("await_validation_approval") /\ state.approval = "none"
        /\ effect' = NoAction /\ UNCHANGED <<mode, task, status, parked, denied>>
        /\ DOMAIN state' = Fields /\ state'.node = "run_validation_command"
        /\ state'.action = state.action /\ state'.approval = state.approval /\ state'.repairs = state.repairs
    BY <1>0, <1>3 DEF ValidationNeedsNoApproval, Update, Fields
  <2>2. ~denied /\ parked = FALSE
    BY <1>0, <2>1 DEF GraphInv, Ending, Placed, At, Interrupted
  <2> QED BY <1>0, <2>1, <2>2, PlainKeeps
<1>4. CASE RunValidationCommand
  <2> DEFINE a == state.action
  <2>1. At("run_validation_command") /\ UNCHANGED <<mode, task, status, parked, denied>>
    BY <1>4 DEF RunValidationCommand, Update, UpdateRan
  <2>2. parked = FALSE /\ state.approval = "none"
    BY <1>0, <2>1 DEF GraphInv, Placed, Asking, At, Interrupted
  <2>3. CASE state.stop = "approval_denied" \/ a.type # "run_validation_command"
    <3>1. /\ effect' = NoAction /\ DOMAIN state' = Fields /\ state'.node = "parse_validation_result"
          /\ state'.action = state.action /\ state'.approval = "none" /\ state'.repairs = state.repairs
          /\ state'.stop = state.stop
      BY <1>0, <1>4, <2>2, <2>3 DEF RunValidationCommand, Update, Fields
    <3>2. GraphTyped' /\ AllowRunsWhatWasAsked'
      BY <1>0, <2>1, <3>1 DEF GraphTyped, AllowRunsWhatWasAsked
    <3>3. Placed' /\ Asking' /\ Offered'
      BY <2>1, <2>2, <3>1 DEF Placed, Asking, Offered, At
    <3>4. Ending'
      BY <2>1, <3>1 DEF GraphInv, Ending, At
    <3> QED BY <3>2, <3>3, <3>4 DEF GraphInv
  <2>4. CASE ~(state.stop = "approval_denied" \/ a.type # "run_validation_command")
    <3>1. PICK r \in Results(a) : UpdateRan([Ran(a, r) EXCEPT !.node = "parse_validation_result"], a, r)
      BY <1>4, <2>4 DEF RunValidationCommand
    <3>2. /\ DOMAIN Ran(a, r) = Fields /\ Ran(a, r).action = NoAction /\ Ran(a, r).repairs = state.repairs
          /\ Ran(a, r).approval = (IF r = "waiting_approval" THEN Subject(a.type) ELSE "none")
          /\ Ran(a, r).last = r
      BY <2>2, RanFields DEF GraphInv
    <3>3. /\ DOMAIN state' = Fields /\ state'.node = "parse_validation_result" /\ state'.action = NoAction
          /\ state'.approval = (IF r = "waiting_approval" THEN Subject(a.type) ELSE "none")
          /\ state'.repairs = state.repairs /\ state'.last = r
      BY <3>1, <3>2 DEF UpdateRan, Fields
    <3>4. Fits(state'.action) /\ (r = "waiting_approval" => Subject(a.type) \in Asked)
      BY <1>0, <3>3, CallsReturn
    <3>5. ~denied
      BY <2>4 DEF GraphInv, Ending
    <3>6. GraphTyped' /\ AllowRunsWhatWasAsked'
      BY <1>0, <2>1, <3>1, <3>3, <3>4, EffectFits DEF GraphTyped, UpdateRan
    <3>7. Placed' /\ Asking' /\ Ending' /\ Offered'
      BY <2>1, <2>2, <3>3, <3>5 DEF Placed, Asking, Ending, Offered, At
    <3> QED BY <3>6, <3>7 DEF GraphInv
  <2> QED BY <2>3, <2>4
<1>5. CASE ParseValidationResult
  <2>1. /\ At("parse_validation_result") /\ effect' = NoAction /\ UNCHANGED <<mode, task, status, parked, denied>>
        /\ DOMAIN state' = Fields /\ state'.node = "route_next" /\ state'.stage = "after_validation"
        /\ state'.action = state.action /\ state'.approval = state.approval /\ state'.repairs = state.repairs
        /\ state'.last = state.last
        /\ state.stop = "approval_denied" => state'.stop = "approval_denied"
    BY <1>0, <1>5 DEF ParseValidationResult, Update, Fields
  <2>2. parked = FALSE
    BY <1>0, <2>1 DEF GraphInv, Placed, At, Interrupted
  <2>3. GraphTyped' /\ AllowRunsWhatWasAsked'
    BY <1>0, <2>1 DEF GraphInv, GraphTyped, AllowRunsWhatWasAsked
  <2>4. Placed' /\ Offered'
    BY <2>1, <2>2 DEF Placed, Offered, At
  <2>5. Asking' /\ Ending'
    BY <2>1 DEF GraphInv, Asking, Ending, At
  <2> QED BY <2>3, <2>4, <2>5 DEF GraphInv
<1> QED BY <1>1, <1>2, <1>3, <1>4, <1>5

\* the git workflow: it calls its own actions, or proposes a commit
LEMMA GitKeeps ==
    ASSUME GraphInv, GitCommit \/ GitPush \/ GitReview \/ GitPropose
    PROVE  GraphInv'
<1>0. DOMAIN state = Fields /\ Fits(state.action) /\ state.repairs \in Nat /\ parked \in BOOLEAN
      /\ NoAction.grant = "none" /\ NoAction.type = "none" /\ Fits(NoAction)
  BY DEF GraphInv, GraphTyped, NoAction, Action, Fits
<1>1. At("git_workflow_graph") /\ UNCHANGED <<mode, task, status, parked, denied>>
  BY DEF GitCommit, GitPush, GitReview, GitPropose, Update, UpdateRan
<1>2. ~denied /\ parked = FALSE
  BY <1>0, <1>1 DEF GraphInv, Ending, Placed, At, Interrupted
<1>3. CASE GitPropose
  <2>1. /\ effect' = NoAction /\ DOMAIN state' = Fields /\ state'.node = "await_commit_approval"
        /\ state'.action = NoAction /\ state'.approval = "git_commit" /\ state'.repairs = state.repairs
    BY <1>0, <1>3 DEF GitPropose, Update, Fields
  <2>2. Fits(state'.action)
    BY <1>0, <2>1
  <2>3. GraphTyped' /\ AllowRunsWhatWasAsked'
    BY <1>0, <1>1, <2>1, <2>2 DEF GraphTyped, AllowRunsWhatWasAsked, Asked, CalledAgain, GitWrites
  <2>4. Placed' /\ Asking' /\ Ending' /\ Offered'
    BY <1>1, <1>2, <2>1 DEF Placed, Asking, Ending, Offered, At
  <2> QED BY <2>3, <2>4 DEF GraphInv
<1>4. ASSUME GitCommit \/ GitPush \/ GitReview PROVE GraphInv'
  <2> DEFINE a == state.action
  <2>1. state.approval = "none"
    BY <1>0, <1>1, <1>4 DEF GraphInv, Asking, At, GitCommit, GitPush, GitReview
  <2> DEFINE Leaves(r, s) ==
          /\ s \in {Ran(a, r), [Ran(a, r) EXCEPT !.git = @ \cup {"started"}]}
          /\ \E type \in {"git_push", "github_create_pr"} :
               state' \in {GitDone(s), GitDone([s EXCEPT !.approval = type, !.stop = "waiting_approval"])}
          /\ effect' = Effect(a, r)
  <2>a. PICK r \in Results(a) : \E s : Leaves(r, s)
    BY <1>4 DEF GitCommit, GitPush, GitReview, Propose, UpdateRan
  <2>2. PICK s : Leaves(r, s)
    BY <2>a
  <2>3. /\ DOMAIN Ran(a, r) = Fields /\ Ran(a, r).action = NoAction /\ Ran(a, r).repairs = state.repairs
        /\ Ran(a, r).approval = (IF r = "waiting_approval" THEN Subject(a.type) ELSE "none")
        /\ r = "waiting_approval" => Ran(a, r).stop = "waiting_approval"
    BY <2>1, RanFields DEF GraphInv
  <2>4. /\ DOMAIN s = Fields /\ s.action = NoAction /\ s.repairs = state.repairs
        /\ s.approval = (IF r = "waiting_approval" THEN Subject(a.type) ELSE "none")
        /\ r = "waiting_approval" => s.stop = "waiting_approval"
    BY <2>2, <2>3 DEF Fields
  <2>5. r = "waiting_approval" => Subject(a.type) \in Asked
    BY <1>0, CallsReturn
  <2>6. /\ DOMAIN state' = Fields /\ state'.node = "route_next" /\ state'.action = NoAction
        /\ state'.repairs = state.repairs /\ state'.approval \in Asked \cup {"none"}
        /\ state'.approval # "none" => state'.stop = "waiting_approval"
    <3>1. CASE state' = GitDone(s)
      BY <2>4, <2>5, <3>1 DEF GitDone, Fields
    <3>2. ASSUME NEW type \in {"git_push", "github_create_pr"},
                 state' = GitDone([s EXCEPT !.approval = type, !.stop = "waiting_approval"])
          PROVE  <2>6
      BY <2>4, <3>2 DEF GitDone, Fields, Asked, CalledAgain, GitWrites
    <3> QED BY <2>2, <3>1, <3>2
  <2>7. Fits(state'.action)
    BY <1>0, <2>6
  <2>8. GraphTyped' /\ AllowRunsWhatWasAsked'
    BY <1>0, <1>1, <2>2, <2>6, <2>7, EffectFits DEF GraphTyped
  <2>9. Placed' /\ Asking' /\ Ending' /\ Offered'
    BY <1>1, <1>2, <2>6 DEF Placed, Asking, Ending, Offered, At
  <2> QED BY <2>8, <2>9 DEF GraphInv
<1> QED BY <1>3, <1>4

\* the way to an interrupt, and to the end
LEMMA StopsKeep ==
    ASSUME GraphInv, Suspend \/ AskClarification \/ FinalSynthesis \/ UserCancels
    PROVE  GraphInv'
<1>0. DOMAIN state = Fields /\ Fits(state.action) /\ state.repairs \in Nat /\ NoAction.grant = "none"
  BY DEF GraphInv, GraphTyped, NoAction, Action
<1>1. CASE Suspend
  <2>1. ~denied /\ state' = state /\ denied' = denied /\ task' = task /\ effect' = NoAction /\ parked' = TRUE
        /\ Interrupted
    BY <1>1 DEF Suspend, GraphInv, Ending, Interrupted, At
  <2>2. GraphTyped' /\ AllowRunsWhatWasAsked'
    BY <1>0, <2>1 DEF GraphInv, GraphTyped, AllowRunsWhatWasAsked
  <2>3. Placed' /\ Asking' /\ Ending' /\ Offered'
    BY <2>1 DEF GraphInv, Placed, Asking, Ending, Offered, At, Interrupted
  <2> QED BY <2>2, <2>3 DEF GraphInv
<1>2. CASE AskClarification \/ FinalSynthesis
  <2>1. /\ \/ At("ask_clarification") /\ state'.node = "final_synthesis"
           \/ At("final_synthesis") /\ state'.node = "END" /\ state'.stop = state.stop
        /\ effect' = NoAction /\ UNCHANGED <<mode, task, status, parked, denied>>
        /\ DOMAIN state' = Fields /\ state'.action = state.action
        /\ state'.approval = state.approval /\ state'.repairs = state.repairs
    BY <1>0, <1>2 DEF AskClarification, FinalSynthesis, Update, Fields
  <2>2. GraphTyped' /\ AllowRunsWhatWasAsked'
    BY <1>0, <2>1 DEF GraphInv, GraphTyped, AllowRunsWhatWasAsked
  <2>3. ~parked
    BY <2>1 DEF GraphInv, Placed, At, Interrupted
  <2>4. Placed' /\ Asking' /\ Ending' /\ Offered'
    BY <2>1, <2>3 DEF GraphInv, Placed, Asking, Ending, Offered, At
  <2> QED BY <2>2, <2>4 DEF GraphInv
<1>3. CASE UserCancels
  <2>1. UNCHANGED <<state, task, parked, denied>> /\ effect' = NoAction
    BY <1>3 DEF UserCancels
  <2>2. GraphTyped' /\ AllowRunsWhatWasAsked'
    BY <1>0, <2>1 DEF GraphInv, GraphTyped, AllowRunsWhatWasAsked
  <2>3. Placed' /\ Asking' /\ Ending' /\ Offered'
    BY <2>1 DEF GraphInv, Placed, Asking, Ending, Offered, At, Interrupted
  <2> QED BY <2>2, <2>3 DEF GraphInv
<1> QED BY <1>1, <1>2, <1>3

\* an answer takes the question away; a denial leaves nothing that could run
LEMMA AnswersKeep ==
    ASSUME GraphInv, Allow \/ Deny
    PROVE  GraphInv'
<1>0. DOMAIN state = Fields /\ Fits(state.action) /\ state.repairs \in Nat /\ NoAction.grant = "none"
      /\ state.approval \in Asked \cup {"none"}
  BY DEF GraphInv, GraphTyped, NoAction, Action
<1>1. ~denied /\ Interrupted
  BY DEF Allow, Deny, Answered, GraphInv, Ending, Placed
<1>2. CASE Allow
  <2> DEFINE a == Action(Granted(state.approval), state.approval)
             s == [state EXCEPT !.action = a, !.approval = "none", !.stop = "none",
                                !.stage = "after_interrupt_resume"]
  <2>1. state' = Resumed(s) /\ parked' = FALSE /\ effect' = NoAction /\ denied' = denied
    BY <1>2 DEF Allow, Answered
  <2>2. Fits(a)
    <3>1. CASE state.approval = "none"
      <4>1. Granted("none") = "run_approved_command"
        BY DEF Granted, GrantedCommand, CalledAgain, GitWrites, WebTools
      <4> QED BY <3>1, <4>1 DEF Fits, Action, Types, Commands
    <3> QED BY <1>0, <3>1, GrantedFits
  <2>3. DOMAIN s = Fields /\ s.action = a /\ s.approval = "none" /\ s.repairs = state.repairs
    BY <1>0 DEF Fields
  <2> HIDE DEF a, s
  <2>4. /\ DOMAIN state' = Fields /\ state'.action = a /\ state'.approval = "none"
        /\ state'.repairs = state.repairs /\ state'.node \in {"route_next", "run_validation_command"}
    BY <1>1, <2>1, <2>3 DEF Resumed, Interrupted, At, GitDone, Fields
  <2>5. Fits(state'.action)
    BY <2>2, <2>4
  <2> QED BY <1>0, <1>1, <2>1, <2>4, <2>5, PlainKeeps
<1>3. CASE Deny
  <2> DEFINE s == [Refused EXCEPT !.stop = "approval_denied"]
  <2>1. state' = Resumed(s) /\ parked' = FALSE /\ effect' = NoAction /\ denied' = TRUE /\ task' = task
    BY <1>3 DEF Deny, Answered
  <2>2. /\ DOMAIN s = Fields /\ s.action = state.action /\ s.approval = "none" /\ s.repairs = state.repairs
        /\ s.stop = "approval_denied" /\ s.stage = "after_approval"
    BY <1>0 DEF Refused, Fields
  <2>3. /\ At("await_commit_approval") => state.action = NoAction
        /\ At("await_validation_approval") => state.action = NoAction
    BY <1>1 DEF GraphInv, Placed, Asking, Interrupted, At
  <2> HIDE DEF s
  <2>4. /\ DOMAIN state' = Fields /\ state'.action = state.action /\ state'.approval = "none"
        /\ state'.repairs = state.repairs /\ state'.stop = "approval_denied"
        /\ \/ state'.node = "route_next" /\ (state.action = NoAction \/ state'.stage = "after_approval")
           \/ state'.node = "run_validation_command" /\ state.action = NoAction
    BY <1>1, <2>1, <2>2, <2>3 DEF Resumed, Interrupted, At, GitDone, Fields
  <2>5. GraphTyped' /\ AllowRunsWhatWasAsked'
    BY <1>0, <2>1, <2>4 DEF GraphTyped, AllowRunsWhatWasAsked
  <2>6. Placed' /\ Asking' /\ Ending' /\ Offered'
    BY <2>1, <2>4 DEF Placed, Asking, Ending, Offered, At
  <2> QED BY <2>5, <2>6 DEF GraphInv
<1> QED BY <1>2, <1>3

\* every step of the graph and of the user
LEMMA GraphSteps == GraphInv /\ [Next]_vars => GraphInv'
<1> SUFFICES ASSUME GraphInv, [Next]_vars PROVE GraphInv'
  OBVIOUS
<1>1. CASE UNCHANGED vars
  BY <1>1 DEF vars, GraphInv, GraphTyped, Placed, Asking, Ending, Offered, AllowRunsWhatWasAsked, At, Interrupted
<1>2. CASE GraphStep
  BY <1>2, RoutesKeep, ToolsKeep, WorkKeeps, DraftsKeep, VerdictsKeep, ApplyKeeps, ChecksKeep, GitKeeps,
     StopsKeep DEF GraphStep
<1> QED BY <1>1, <1>2, AnswersKeep, StopsKeep DEF Next

(* Every state of the graph satisfies the invariant, for any menu and budgets. *)
THEOREM GraphInvHolds == Spec => []GraphInv
BY GraphStarts, GraphSteps, PTL DEF Spec

(* What the user allows is what runs: no approval is turned into another       *)
(* action on its way through the nodes.                                       *)
THEOREM AllowedRuns == Spec => []AllowRunsWhatWasAsked
<1>1. GraphInv => AllowRunsWhatWasAsked
  BY DEF GraphInv
<1> QED BY <1>1, GraphInvHolds, PTL

(* After a denial no tool runs, on any way to the end.                        *)
THEOREM DenialIsFinal == Spec => []DeniedRunsNothing
<1>1. GraphInv => DeniedRunsNothing
  BY DEF GraphInv, Ending, DeniedRunsNothing
<1> QED BY <1>1, GraphInvHolds, PTL

----------------------------------------------------------------------------
\* only the git workflow proposes a commit
LEMMA OthersProposeNothing ==
    ASSUME GraphInv, Next, ~GitPropose, state.node # "await_commit_approval"
    PROVE  state'.node # "await_commit_approval"
<1>0. DOMAIN state = Fields /\ (\A a, r : DOMAIN Ran(a, r) = Fields) /\ "node" \in Fields
  BY RanFields DEF GraphInv, GraphTyped, Fields
<1>1. ASSUME RouteNext PROVE state'.node # "await_commit_approval"
  <2>1. ASSUME NEW a, state'.node = RouteByStage(a) PROVE state'.node # "await_commit_approval"
    BY <2>1, StagesLead DEF Ways
  <2>2. CASE RoutePending
    BY <1>0, <2>1, <2>2 DEF RoutePending, Update
  <2>3. CASE RouteStopped \/ RouteBudgetSpent \/ RouteCancelled \/ RouteGit
    BY <1>0, <2>3 DEF RouteStopped, RouteBudgetSpent, RouteCancelled, RouteGit, Update
  <2>4. ASSUME NEW type \in Menu \cup {"final_answer"}, RouteChoose(type)
        PROVE  state'.node # "await_commit_approval"
    BY <1>0, <2>1, <2>4 DEF RouteChoose, Update
  <2> QED BY <1>1, <2>2, <2>3, <2>4 DEF RouteNext
<1>a. \A s : DOMAIN s = Fields => DOMAIN WebDone(s) = Fields /\ WebDone(s).node = "validate_result"
  BY DEF WebDone, Fields
<1>b. \A s : DOMAIN s = Fields => GitDone(s).node = "route_next"
  BY DEF GitDone, Fields
<1>2. ASSUME GatherEvidence \/ ExecuteTool \/ FetchUrl PROVE state'.node # "await_commit_approval"
  <2>1. CASE GatherEvidence \/ ExecuteTool
    BY <1>0, <2>1 DEF GatherEvidence, ExecuteTool, UpdateRan
  <2>2. CASE FetchUrl
    BY <1>0, <1>a, <2>2 DEF FetchUrl, UpdateRan
  <2> QED BY <1>2, <2>1, <2>2
<1>3. ASSUME SearchWeb \/ SearchNotNeeded PROVE state'.node # "await_commit_approval"
  <2>1. CASE SearchWeb
    <3> DEFINE a == Action("search_web", "none")
    <3>1. PICK r \in Results(a), summary \in (IF cancelled THEN {"cancelled"} ELSE {"success", "failed"}) :
            UpdateRan([WebDone(Ran(a, r)) EXCEPT
                          !.last = summary,
                          !.stop = IF summary = "cancelled" THEN summary ELSE @], a, r)
      BY <2>1 DEF SearchWeb
    <3>2. WebDone(Ran(a, r)).node = "validate_result" /\ DOMAIN WebDone(Ran(a, r)) = Fields
      BY <1>0, <1>a
    <3> HIDE DEF a
    <3> QED BY <3>1, <3>2 DEF UpdateRan, Fields
  <2>2. CASE SearchNotNeeded
    BY <1>0, <1>a, <2>2 DEF SearchNotNeeded, Update
  <2> QED BY <1>3, <2>1, <2>2
<1>4. ASSUME ValidateResult \/ DecomposeTask \/ WorkerCalls \/ WorkerReports \/ ReduceWorkReports
      PROVE  state'.node # "await_commit_approval"
  BY <1>0, <1>4 DEF ValidateResult, DecomposeTask, WorkerCalls, WorkerReports, ReduceWorkReports,
                    Update, UpdateRan, Fields
<1>5. ASSUME PlanChangeSet \/ NothingToGenerate \/ RepairChangeSet PROVE state'.node # "await_commit_approval"
  BY <1>0, <1>5 DEF PlanChangeSet, NothingToGenerate, RepairChangeSet, Update, Fields
<1>6. ASSUME GenerateChangeSet PROVE state'.node # "await_commit_approval"
  BY <1>0, <1>6 DEF GenerateChangeSet, UpdateRan, Fields
<1>7. ASSUME ValidateChangeSet PROVE state'.node # "await_commit_approval"
  BY <1>0, <1>7 DEF ValidateChangeSet, Update, EdgeAfterValidation, Fields
<1>8. ASSUME ApplyChangeSet PROVE state'.node # "await_commit_approval"
  BY <1>0, <1>8 DEF ApplyChangeSet, UpdateRan, Fields
<1>9. ASSUME SelectValidationCommands \/ ValidationNeedsNoApproval \/ ParseValidationResult
      PROVE  state'.node # "await_commit_approval"
  BY <1>0, <1>9 DEF SelectValidationCommands, ValidationNeedsNoApproval, ParseValidationResult, Update, Fields
<1>10. ASSUME PreviewCommand \/ RunValidationCommand PROVE state'.node # "await_commit_approval"
  <2>1. CASE RunValidationCommand
    BY <1>0, <2>1 DEF RunValidationCommand, Update, UpdateRan
  <2>2. CASE PreviewCommand
    <3>1. CASE state.action.type # "preview_command"
      BY <1>0, <2>2, <3>1 DEF PreviewCommand, Update
    <3>2. CASE state.action.type = "preview_command"
      <4>1. PICK r \in Results(state.action) :
              UpdateRan([Ran(state.action, r) EXCEPT
                  !.node = "await_validation_approval",
                  !.action = IF r = "success" THEN Action("run_validation_command", "none") ELSE @,
                  !.approval = IF r = "waiting_approval" THEN "validation" ELSE @,
                  !.stop = CASE r = "success" -> @ [] r = "waiting_approval" -> r [] OTHER -> "failed",
                  !.failing = r \notin {"success", "waiting_approval"}], state.action, r)
        BY <2>2, <3>2 DEF PreviewCommand
      <4> QED BY <1>0, <4>1 DEF UpdateRan, Fields
    <3> QED BY <3>1, <3>2
  <2> QED BY <1>10, <2>1, <2>2
<1>11. ASSUME GitCommit \/ GitPush \/ GitReview PROVE state'.node # "await_commit_approval"
  <2>1. PICK s, b, c : DOMAIN s = Fields /\ state' \in {GitDone(s), GitDone([s EXCEPT !.approval = b, !.stop = c])}
    BY <1>0, <1>11 DEF GitCommit, GitPush, GitReview, Propose, UpdateRan
  <2> QED BY <1>b, <2>1
<1>12. ASSUME Suspend \/ AskClarification \/ FinalSynthesis \/ UserCancels PROVE state'.node # "await_commit_approval"
  BY <1>0, <1>12 DEF Suspend, AskClarification, FinalSynthesis, UserCancels, Update, Fields
<1>13. ASSUME NEW s, DOMAIN s = Fields, s.node = state.node, Interrupted, state' = Resumed(s)
       PROVE  state'.node # "await_commit_approval"
  BY <1>13 DEF Resumed, Interrupted, At, GitDone, Fields
<1>14. ASSUME Allow \/ Deny PROVE state'.node # "await_commit_approval"
  <2>1. Interrupted
    BY <1>14 DEF Allow, Deny, Answered, GraphInv, Placed
  <2>2. CASE Allow
    BY <1>0, <1>13, <2>1, <2>2 DEF Allow, Answered, Fields
  <2>3. CASE Deny
    BY <1>0, <1>13, <2>1, <2>3 DEF Deny, Answered, Refused, Fields
  <2> QED BY <1>14, <2>2, <2>3
<1> QED BY <1>1, <1>2, <1>3, <1>4, <1>5, <1>6, <1>7, <1>8, <1>9, <1>10, <1>11, <1>12, <1>14 DEF Next, GraphStep

(* A commit is proposed for a task that asks for one, or after an apply whose *)
(* check did not fail.                                                       *)
THEOREM CommitsAreOffered == Spec => CommitFollowsGoodApply
<1>1. ASSUME GraphInv, Next, state'.node = "await_commit_approval", state.node # "await_commit_approval"
      PROVE  "commit" \in task \/ (state.apply = "applied" /\ ~state.failing)
  <2>1. GitPropose
    BY <1>1, OthersProposeNothing
  <2>2. At("git_workflow_graph") /\ state.action.type \notin {"git_commit", "git_push", "github_create_pr"}
    BY <2>1 DEF GitPropose
  <2> QED BY <1>1, <2>2 DEF GraphInv, Offered
<1>2. ASSUME GraphInv, [Next]_vars
      PROVE  [state'.node = "await_commit_approval" /\ state.node # "await_commit_approval"
                => "commit" \in task \/ (state.apply = "applied" /\ ~state.failing)]_vars
  BY <1>1, <1>2
<1> QED BY <1>2, GraphInvHolds, PTL DEF Spec, CommitFollowsGoodApply

----------------------------------------------------------------------------
(* An approval that was given is on its way to the node that uses it.       *)
OnItsWay ==
    state.action.grant # "none" =>
        \/ state.last = "cancelled"
        \/ state.node \in {"apply_change_set", "execute_tool"}
        \/ At("git_workflow_graph") /\ state.action.type \in {"git_commit", "git_push", "github_create_pr"}
        \/ At("run_validation_command") /\ state.action.type = "run_validation_command"
             /\ state.stop # "approval_denied"
        \/ At("route_next") /\ state.stage = "after_interrupt_resume" /\ state.stop # "approval_denied"
        \/ At("route_next") /\ state.stage = "after_tool_result" /\ state.stop = "none"
             /\ state.last # "waiting_approval" /\ state.action.type = "git_commit"
        \/ /\ \/ At("repair_change_set")
              \/ At("route_next") /\ state.stage = "after_change_plan" /\ state.repairs >= 1
           /\ state.action.type = "apply_change_set" /\ state.proposal = "valid"
           /\ state.last # "waiting_approval"

\* a call that waited is asked about, was allowed, or was denied
Waits ==
    state.last = "waiting_approval" =>
        state.approval # "none" \/ denied \/ state.action.grant # "none"

\* the interrupts of the subgraphs ask about one thing
Questions ==
    /\ At("await_validation_approval") => state.approval \in {"none", "validation"}
    /\ At("await_commit_approval") => state.approval = "git_commit" /\ state.last # "waiting_approval"

Carries == OnItsWay /\ Waits /\ Questions
GrantInv == GraphInv /\ Carries

\* what GrantIsUsed says of one step
Uses ==
    state.action.grant # "none" =>
        \/ state'.action = state.action /\ state'.node # "END"
        \/ effect' = state.action
        \/ cancelled \/ state.last = "cancelled"

LEMMA GrantStarts == Init => GrantInv
<1> SUFFICES ASSUME Init PROVE Carries
  BY GraphStarts DEF GrantInv
<1>1. state.action.grant = "none" /\ state.last = "none" /\ At("route_next")
  BY DEF Init, NoAction, Action, At
<1> QED BY <1>1 DEF Carries, OnItsWay, Waits, Questions, At

\* a call with a grant runs, unless the run was cancelled
LEMMA CallUses ==
    ASSUME GrantInv, NEW a, NEW r \in Results(a), effect' = Effect(a, r),
           a = state.action \/ state.action.grant = "none" \/ state.last = "cancelled",
           state'.action.grant = "none", denied' = denied,
           state'.last = "waiting_approval" => state'.approval # "none",
           state'.node # "await_commit_approval",
           state'.node = "await_validation_approval" => state'.approval \in {"none", "validation"}
    PROVE  Carries' /\ Uses
<1>1. Carries'
  BY DEF Carries, OnItsWay, Waits, Questions, At
<1>2. Uses
  <2>1. a.grant # "none" /\ ~cancelled => r \in {"success", "failed"}
    BY DEF Results
  <2> QED BY <2>1 DEF Uses, Effect
<1> QED BY <1>1, <1>2

\* a step that keeps the action
LEMMA KeptUses ==
    ASSUME GrantInv, state'.action = state.action, state'.last = state.last,
           state'.approval = state.approval, denied' = denied, state'.node # "END",
           state'.node # "await_commit_approval",
           state'.node = "await_validation_approval" => state'.approval \in {"none", "validation"},
           OnItsWay'
    PROVE  Carries' /\ Uses
BY DEF GrantInv, Carries, Waits, Questions, Uses, At

\* nothing with a grant is pending elsewhere
LEMMA Elsewhere ==
    ASSUME GrantInv,
           state.node \notin {"apply_change_set", "execute_tool", "git_workflow_graph",
                              "run_validation_command", "route_next", "repair_change_set"}
    PROVE  state.action.grant = "none" \/ state.last = "cancelled"
BY DEF GrantInv, Carries, OnItsWay, At

LEMMA RoutesUse ==
    ASSUME GrantInv, RouteNext
    PROVE  Carries' /\ Uses
<1>0. /\ DOMAIN state = Fields /\ NoAction.grant = "none" /\ GraphInv /\ OnItsWay /\ Waits
      /\ state.repairs \in Nat
  BY DEF GrantInv, Carries, GraphInv, GraphTyped, NoAction, Action
<1>1. CASE RoutePending
  <2> DEFINE a == state.action
  <2>1. /\ At("route_next") /\ denied' = denied
        /\ state' = [state EXCEPT !.node = RouteByStage(a)]
    BY <1>1 DEF RoutePending, Update
  <2>2. /\ DOMAIN state' = Fields /\ state'.node = RouteByStage(a)
        /\ state'.action = a /\ state'.last = state.last /\ state'.approval = state.approval
        /\ state'.stop = state.stop
    BY <1>0, <2>1 DEF Fields
  <2>3. state'.node \in Ways
    BY <2>2, StagesLead
  <2>4. CASE a.grant = "none" \/ state.last = "cancelled"
    <3>1. OnItsWay'
      BY <2>2, <2>4 DEF OnItsWay
    <3> QED BY <2>1, <2>2, <2>3, <3>1, KeptUses DEF Ways
  <2>5. CASE a.grant # "none" /\ state.last # "cancelled"
    <3>1. CASE state.stage = "after_interrupt_resume" /\ state.stop # "approval_denied"
      <4>1. \/ RouteByStage(a) \in {"apply_change_set", "execute_tool"}
            \/ RouteByStage(a) = "git_workflow_graph" /\ a.type \in {"git_commit", "git_push", "github_create_pr"}
            \/ RouteByStage(a) = "run_validation_command" /\ a.type = "run_validation_command"
        BY <3>1 DEF RouteByStage, AfterResume
      <4>2. OnItsWay'
        BY <2>2, <3>1, <4>1 DEF OnItsWay, At
      <4> QED BY <2>1, <2>2, <2>3, <4>2, KeptUses DEF Ways
    <3>2. CASE /\ state.stage = "after_tool_result" /\ state.stop = "none"
               /\ state.last # "waiting_approval" /\ a.type = "git_commit"
      <4>1. FinalOrAction(a) = "execute_tool"
        BY <3>2 DEF FinalOrAction, WebTools
      <4>2. RouteByStage(a) = "execute_tool"
        BY <2>5, <3>2, <4>1 DEF RouteByStage, AfterToolResult, FinalOrContinue
      <4>3. OnItsWay'
        BY <2>2, <4>2 DEF OnItsWay, At
      <4> QED BY <2>1, <2>2, <2>3, <4>3, KeptUses DEF Ways
    <3>3. CASE /\ state.stage = "after_change_plan" /\ state.repairs >= 1
               /\ a.type = "apply_change_set" /\ state.proposal = "valid"
               /\ state.last # "waiting_approval"
      <4>1. RouteByStage(a) = "apply_change_set"
        BY <1>0, <2>5, <3>3 DEF RouteByStage, AfterChangePlan
      <4>2. OnItsWay'
        BY <2>2, <4>1 DEF OnItsWay, At
      <4> QED BY <2>1, <2>2, <2>3, <4>2, KeptUses DEF Ways
    <3> QED BY <1>0, <2>1, <2>5, <3>1, <3>2, <3>3 DEF OnItsWay, At
  <2> QED BY <2>4, <2>5
<1>2. CASE RouteStopped \/ RouteBudgetSpent \/ RouteCancelled \/ RouteGit
  <2>1. /\ state.action = NoAction /\ denied' = denied /\ DOMAIN state' = Fields
        /\ state'.node \in {"await_approval", "final_synthesis", "git_workflow_graph"}
        /\ state'.action = state.action /\ state'.last = state.last /\ state'.approval = state.approval
    BY <1>0, <1>2 DEF RouteStopped, RouteBudgetSpent, RouteCancelled, RouteGit, NextTurn, Update, Fields
  <2>2. OnItsWay'
    BY <1>0, <2>1 DEF OnItsWay
  <2> QED BY <2>1, <2>2, KeptUses
<1>3. ASSUME NEW type \in Menu \cup {"final_answer"}, RouteChoose(type) PROVE Carries' /\ Uses
  <2>1. /\ state.action = NoAction /\ denied' = denied /\ DOMAIN state' = Fields
        /\ state'.node = RouteByStage(Action(type, "none")) /\ state'.action = Action(type, "none")
        /\ state'.last = state.last /\ state'.approval = state.approval
    BY <1>0, <1>3 DEF RouteChoose, NextTurn, Update, Fields
  <2>2. state'.node \in Ways
    BY <2>1, StagesLead
  <2>3. state'.action.grant = "none"
    BY <2>1 DEF Action
  <2>4. OnItsWay' /\ Waits' /\ Questions'
    BY <1>0, <2>1, <2>2, <2>3 DEF OnItsWay, Waits, Questions, At, Ways
  <2>5. Uses
    BY <1>0, <2>1 DEF Uses
  <2> QED BY <2>4, <2>5 DEF Carries
<1> QED BY <1>1, <1>2, <1>3 DEF RouteNext

LEMMA ToolsUse ==
    ASSUME GrantInv, GatherEvidence \/ ExecuteTool \/ FetchUrl \/ SearchWeb \/ SearchNotNeeded
    PROVE  Carries' /\ Uses
<1>0. /\ DOMAIN state = Fields /\ NoAction.grant = "none" /\ GraphInv /\ Fits(state.action)
  BY DEF GrantInv, GraphInv, GraphTyped, NoAction, Action
<1>1. ASSUME NEW a, Fits(a), NEW r \in Results(a) PROVE Ran(a, r).last = "waiting_approval" => Ran(a, r).approval # "none"
  <2>1. r = "waiting_approval" => Subject(a.type) \in Asked
    BY <1>1, CallsReturn
  <2>2. r = "waiting_approval" => Subject(a.type) # "none"
    BY <2>1 DEF Asked, CalledAgain, GitWrites, WebTools
  <2> QED BY <1>0, <2>2, RanFields DEF GraphInv
<1>2. CASE GatherEvidence \/ ExecuteTool
  <2>1. PICK r \in Results(state.action), stage \in {"after_evidence", "after_tool_result"} :
          UpdateRan([Ran(state.action, r) EXCEPT !.node = "validate_result", !.stage = stage],
                    state.action, r)
    BY <1>2 DEF GatherEvidence, ExecuteTool
  <2>2. /\ DOMAIN Ran(state.action, r) = Fields /\ Ran(state.action, r).action = NoAction
        /\ state' = [Ran(state.action, r) EXCEPT !.node = "validate_result", !.stage = stage]
        /\ effect' = Effect(state.action, r) /\ denied' = denied
    BY <1>0, <2>1, RanFields DEF GraphInv, UpdateRan
  <2>3. /\ state'.node = "validate_result" /\ state'.action = NoAction
        /\ state'.last = Ran(state.action, r).last /\ state'.approval = Ran(state.action, r).approval
    BY <2>2 DEF Fields
  <2> QED BY <1>0, <1>1, <2>2, <2>3, CallUses
<1>3. CASE FetchUrl
  <2>1. PICK r \in Results(state.action) : UpdateRan(WebDone(Ran(state.action, r)), state.action, r)
    BY <1>3 DEF FetchUrl
  <2>2. /\ DOMAIN Ran(state.action, r) = Fields /\ Ran(state.action, r).action = NoAction
        /\ state' = WebDone(Ran(state.action, r))
        /\ effect' = Effect(state.action, r) /\ denied' = denied
    BY <1>0, <2>1, RanFields DEF GraphInv, UpdateRan
  <2>3. /\ state'.node = "validate_result" /\ state'.action = NoAction
        /\ state'.last = Ran(state.action, r).last /\ state'.approval = Ran(state.action, r).approval
    BY <2>2 DEF Fields, WebDone
  <2> QED BY <1>0, <1>1, <2>2, <2>3, CallUses
<1>4. CASE SearchWeb
  <2> DEFINE a == Action("search_web", "none")
  <2>1. PICK r \in Results(a), summary \in (IF cancelled THEN {"cancelled"} ELSE {"success", "failed"}) :
          UpdateRan([WebDone(Ran(a, r)) EXCEPT
                        !.last = summary,
                        !.stop = IF summary = "cancelled" THEN summary ELSE @], a, r)
    BY <1>4 DEF SearchWeb
  <2>2. DOMAIN Ran(a, r) = Fields /\ Ran(a, r).action = NoAction
    BY <1>0, RanFields DEF GraphInv
  <2>3. DOMAIN WebDone(Ran(a, r)) = Fields /\ WebDone(Ran(a, r)).action = NoAction
        /\ WebDone(Ran(a, r)).node = "validate_result"
    BY <2>2 DEF WebDone, Fields
  <2>4. /\ state'.node = "validate_result" /\ state'.action = NoAction /\ state'.last = summary
        /\ effect' = Effect(a, r) /\ denied' = denied
    BY <2>1, <2>3 DEF UpdateRan, Fields
  <2>5. state.action.grant = "none" \/ state.last = "cancelled"
    BY <1>4, Elsewhere DEF SearchWeb, At
  <2>6. summary # "waiting_approval"
    BY <2>1
  <2> QED BY <1>0, <2>4, <2>5, <2>6, CallUses
<1>5. CASE SearchNotNeeded
  <2>1. /\ denied' = denied /\ DOMAIN state' = Fields /\ state'.node = "validate_result"
        /\ state'.action = state.action /\ state'.last = state.last /\ state'.approval = state.approval
    BY <1>0, <1>5 DEF SearchNotNeeded, Update, WebDone, Fields
  <2>2. state.action.grant = "none" \/ state.last = "cancelled"
    BY <1>5, Elsewhere DEF SearchNotNeeded, At
  <2>3. OnItsWay'
    BY <2>1, <2>2 DEF OnItsWay
  <2> QED BY <2>1, <2>3, KeptUses
<1> QED BY <1>2, <1>3, <1>4, <1>5

LEMMA WorkUses ==
    ASSUME GrantInv,
           \/ ValidateResult \/ DecomposeTask \/ WorkerReports \/ ReduceWorkReports \/ WorkerCalls
           \/ PlanChangeSet \/ NothingToGenerate \/ ValidationNeedsNoApproval
           \/ ParseValidationResult \/ AskClarification
    PROVE  Carries' /\ Uses
<1>0. DOMAIN state = Fields
  BY DEF GrantInv, GraphInv, GraphTyped
<1>1. state.node \in {"validate_result", "decompose_task", "dispatch_work_units", "plan_change_set",
                     "generate_change_set", "await_validation_approval", "parse_validation_result",
                     "ask_clarification"}
  BY DEF ValidateResult, DecomposeTask, WorkerReports, ReduceWorkReports, WorkerCalls, PlanChangeSet,
         NothingToGenerate, ValidationNeedsNoApproval, ParseValidationResult, AskClarification, At
<1>2. state.action.grant = "none" \/ state.last = "cancelled"
  BY <1>1, Elsewhere
<1>3. /\ denied' = denied /\ DOMAIN state' = Fields
      /\ state'.node \in {"route_next", "dispatch_work_units", "generate_change_set",
                          "validate_change_set", "run_validation_command", "final_synthesis"}
      /\ state'.action = state.action /\ state'.last = state.last /\ state'.approval = state.approval
  <2>1. CASE ValidateResult \/ DecomposeTask \/ WorkerReports \/ ReduceWorkReports
    BY <1>0, <2>1 DEF ValidateResult, DecomposeTask, WorkerReports, ReduceWorkReports, Update, Fields, At
  <2>2. CASE WorkerCalls
    BY <1>0, <2>2 DEF WorkerCalls, UpdateRan, Fields, At
  <2>3. CASE PlanChangeSet \/ NothingToGenerate \/ ValidationNeedsNoApproval \/ AskClarification
    BY <1>0, <2>3 DEF PlanChangeSet, NothingToGenerate, ValidationNeedsNoApproval, AskClarification,
                      Update, Fields
  <2>4. CASE ParseValidationResult
    BY <1>0, <2>4 DEF ParseValidationResult, Update, Fields
  <2> QED BY <2>1, <2>2, <2>3, <2>4
<1>4. OnItsWay'
  BY <1>2, <1>3 DEF OnItsWay
<1> QED BY <1>3, <1>4, KeptUses

\* a change set with a mode's grant goes to its apply, also by way of a repair
LEMMA DraftsUse ==
    ASSUME GrantInv, GenerateChangeSet \/ ValidateChangeSet \/ RepairChangeSet \/ ApplyChangeSet
    PROVE  Carries' /\ Uses
<1>0. /\ DOMAIN state = Fields /\ NoAction.grant = "none" /\ GraphInv /\ Fits(state.action)
      /\ state.repairs \in Nat /\ OnItsWay /\ Waits
  BY DEF GrantInv, Carries, GraphInv, GraphTyped, NoAction, Action
<1>1. CASE GenerateChangeSet
  <2> DEFINE a == state.action
  <2>1. PICK r \in Results(a) : \E p :
          UpdateRan([Ran(a, r) EXCEPT
                      !.node = "validate_change_set", !.stage = "after_change_plan",
                      !.proposal = p,
                      !.repairs = IF p = "invalid" /\ @ < 1 THEN @ + 1 ELSE @], a, r)
    BY <1>1 DEF GenerateChangeSet
  <2>2. PICK p : UpdateRan([Ran(a, r) EXCEPT
                      !.node = "validate_change_set", !.stage = "after_change_plan",
                      !.proposal = p,
                      !.repairs = IF p = "invalid" /\ @ < 1 THEN @ + 1 ELSE @], a, r)
    BY <2>1
  <2>3. DOMAIN Ran(a, r) = Fields /\ Ran(a, r).action = NoAction /\ Ran(a, r).last = r
    BY <1>0, RanFields DEF GraphInv
  <2>4. r # "waiting_approval"
    BY <1>0, <1>1, CallsReturn DEF GenerateChangeSet
  <2>5. /\ state'.node = "validate_change_set" /\ state'.action = NoAction /\ state'.last = r
        /\ effect' = Effect(a, r) /\ denied' = denied
    BY <2>2, <2>3 DEF UpdateRan, Fields
  <2> QED BY <1>0, <2>4, <2>5, CallUses
<1>2. CASE ValidateChangeSet
  <2>1. PICK p \in Verdicts :
         LET auto  == p = "valid" /\ mode = "accept_edits"
             asked == p = "valid" /\ mode = "default"
             a     == IF auto THEN Action("apply_change_set", "mode") ELSE state.action
         IN Update([state EXCEPT !.node = EdgeAfterValidation(AfterChangePlan(p, a)),
                                 !.stage = "after_change_plan",
                                 !.proposal = p, !.action = a,
                                 !.approval = IF asked THEN "change_set" ELSE @,
                                 !.stop = IF asked THEN "waiting_approval" ELSE @])
    BY <1>2 DEF ValidateChangeSet
  <2> DEFINE auto  == p = "valid" /\ mode = "accept_edits"
             asked == p = "valid" /\ mode = "default"
             a     == IF auto THEN Action("apply_change_set", "mode") ELSE state.action
             n     == EdgeAfterValidation(AfterChangePlan(p, a))
  <2>2. /\ DOMAIN state' = Fields /\ state'.node = n /\ state'.proposal = p /\ state'.action = a
        /\ state'.approval = (IF asked THEN "change_set" ELSE state.approval)
        /\ state'.last = state.last /\ denied' = denied
    BY <1>0, <2>1 DEF Update, Fields
  <2>3. At("validate_change_set") /\ ~denied /\ state.approval = "none"
    BY <1>2 DEF ValidateChangeSet, GrantInv, GraphInv, Ending, Asking, At
  <2>4. state.action.grant = "none" \/ state.last = "cancelled"
    BY <2>3, Elsewhere DEF At
  <2>5. state.last # "waiting_approval"
    BY <1>0, <2>3, <2>4 DEF Waits
  <2>6. n \in {"repair_change_set", "await_approval", "apply_change_set", "final_synthesis", "raised"}
    BY DEF EdgeAfterValidation
  <2>7. auto => /\ a.grant # "none" /\ a.type = "apply_change_set" /\ p = "valid"
                /\ n \in {"repair_change_set", "apply_change_set"}
    BY <2>5 DEF EdgeAfterValidation, AfterChangePlan, Action
  <2>8. ~auto => a = state.action
    OBVIOUS
  <2> HIDE DEF auto, asked, a, n
  <2>9. OnItsWay'
    BY <2>2, <2>4, <2>5, <2>7, <2>8 DEF OnItsWay, At
  <2>10. Waits' /\ Questions'
    BY <2>2, <2>5, <2>6 DEF Waits, Questions, At
  <2>11. Uses
    BY <2>4 DEF Uses
  <2> QED BY <2>9, <2>10, <2>11 DEF Carries
<1>3. CASE RepairChangeSet
  <2>1. /\ At("repair_change_set") /\ denied' = denied
        /\ DOMAIN state' = Fields /\ state'.node = "route_next" /\ state'.stage = "after_change_plan"
        /\ state'.repairs = state.repairs + 1 /\ state'.action = state.action /\ state'.last = state.last
        /\ state'.approval = state.approval /\ state'.proposal = state.proposal
    BY <1>0, <1>3 DEF RepairChangeSet, Update, Fields
  <2>2. state'.repairs >= 1
    BY <1>0, <2>1
  <2>3. OnItsWay'
    BY <1>0, <2>1, <2>2 DEF OnItsWay, At
  <2> QED BY <2>1, <2>3, KeptUses
<1>4. CASE ApplyChangeSet
  <2> DEFINE a == state.action
  <2>1. PICK r \in Results(a) :
          UpdateRan([Ran(a, r) EXCEPT
                        !.node = "select_validation_commands", !.stage = "after_tool_result",
                        !.apply = IF r = "success" THEN "applied" ELSE "failed",
                        !.proposal = IF r = "success" THEN "applied" ELSE "valid",
                        !.stop = IF r = "success" THEN "none" ELSE "failed"], a, r)
    BY <1>4 DEF ApplyChangeSet
  <2>2. DOMAIN Ran(a, r) = Fields /\ Ran(a, r).action = NoAction /\ Ran(a, r).last = r
    BY <1>0, RanFields DEF GraphInv
  <2>3. a.type = "apply_change_set"
    BY <1>4 DEF ApplyChangeSet, GrantInv, GraphInv, Placed
  <2>4. r # "waiting_approval"
    BY <1>0, <2>3, CallsReturn
  <2>5. /\ state'.node = "select_validation_commands" /\ state'.action = NoAction /\ state'.last = r
        /\ effect' = Effect(a, r) /\ denied' = denied
    BY <2>1, <2>2 DEF UpdateRan, Fields
  <2> QED BY <1>0, <2>4, <2>5, CallUses
<1> QED BY <1>1, <1>2, <1>3, <1>4

\* the commands that check the applied files
LEMMA ChecksUse ==
    ASSUME GrantInv, SelectValidationCommands \/ PreviewCommand \/ RunValidationCommand
    PROVE  Carries' /\ Uses
<1>0. /\ DOMAIN state = Fields /\ NoAction.grant = "none" /\ GraphInv /\ Fits(state.action)
      /\ OnItsWay /\ Waits
  BY DEF GrantInv, Carries, GraphInv, GraphTyped, NoAction, Action
<1>1. CASE SelectValidationCommands
  <2>1. /\ At("select_validation_commands") /\ denied' = denied
        /\ DOMAIN state' = Fields /\ state'.node = "preview_command"
        /\ state'.action \in {state.action, Action("preview_command", "none")}
        /\ state'.approval = state.approval /\ state'.last = state.last
    BY <1>0, <1>1 DEF SelectValidationCommands, Update, Fields
  <2>2. state.action.grant = "none" \/ state.last = "cancelled"
    BY <2>1, Elsewhere DEF At
  <2>3. Action("preview_command", "none").grant = "none"
    BY DEF Action
  <2>4. OnItsWay'
    BY <2>1, <2>2, <2>3 DEF OnItsWay
  <2>5. Waits' /\ Questions'
    BY <1>0, <2>1, <2>2 DEF Waits, Questions, At
  <2> QED BY <2>2, <2>4, <2>5 DEF Carries, Uses
<1>2. CASE PreviewCommand
  <2> DEFINE a == state.action
  <2>1. At("preview_command") /\ denied' = denied /\ state.approval = "none"
    BY <1>0, <1>2 DEF PreviewCommand, Update, UpdateRan, GraphInv, Asking, At
  <2>2. a.grant = "none" \/ state.last = "cancelled"
    BY <2>1, Elsewhere DEF At
  <2>3. CASE a.type # "preview_command"
    <3>1. /\ DOMAIN state' = Fields /\ state'.node = "await_validation_approval"
          /\ state'.action = a /\ state'.last = state.last /\ state'.approval = state.approval
      BY <1>0, <1>2, <2>3 DEF PreviewCommand, Update, Fields
    <3>2. OnItsWay'
      BY <2>2, <3>1 DEF OnItsWay
    <3> QED BY <2>1, <3>1, <3>2, KeptUses
  <2>4. CASE a.type = "preview_command"
    <3>1. PICK r \in Results(a) :
              UpdateRan([Ran(a, r) EXCEPT
                  !.node = "await_validation_approval",
                  !.action = IF r = "success" THEN Action("run_validation_command", "none") ELSE @,
                  !.approval = IF r = "waiting_approval" THEN "validation" ELSE @,
                  !.stop = CASE r = "success" -> @ [] r = "waiting_approval" -> r [] OTHER -> "failed",
                  !.failing = r \notin {"success", "waiting_approval"}], a, r)
      BY <1>2, <2>4 DEF PreviewCommand
    <3>2. /\ DOMAIN Ran(a, r) = Fields /\ Ran(a, r).action = NoAction /\ Ran(a, r).last = r
          /\ r # "waiting_approval" => Ran(a, r).approval = "none"
      BY <1>0, <2>1, RanFields DEF GraphInv
    <3>3. /\ state'.node = "await_validation_approval"
          /\ state'.action \in {Action("run_validation_command", "none"), NoAction}
          /\ state'.approval = (IF r = "waiting_approval" THEN "validation" ELSE "none")
          /\ state'.last = r /\ effect' = Effect(a, r)
      BY <3>1, <3>2 DEF UpdateRan, Fields
    <3>4. state'.action.grant = "none"
      BY <1>0, <3>3 DEF Action
    <3> QED BY <2>1, <2>2, <3>3, <3>4, CallUses
  <2> QED BY <2>3, <2>4
<1>3. CASE RunValidationCommand
  <2> DEFINE a == state.action
  <2>1. At("run_validation_command") /\ denied' = denied
    BY <1>3 DEF RunValidationCommand, Update, UpdateRan
  <2>2. CASE state.stop = "approval_denied" \/ a.type # "run_validation_command"
    <3>1. a.grant = "none" \/ state.last = "cancelled"
      BY <1>0, <2>1, <2>2 DEF OnItsWay, At
    <3>2. /\ DOMAIN state' = Fields /\ state'.node = "parse_validation_result"
          /\ state'.action = a /\ state'.last = state.last /\ state'.approval = state.approval
      BY <1>0, <1>3, <2>2 DEF RunValidationCommand, Update, Fields
    <3>3. OnItsWay'
      BY <3>1, <3>2 DEF OnItsWay
    <3> QED BY <2>1, <3>2, <3>3, KeptUses
  <2>3. CASE ~(state.stop = "approval_denied" \/ a.type # "run_validation_command")
    <3>1. PICK r \in Results(a) : UpdateRan([Ran(a, r) EXCEPT !.node = "parse_validation_result"], a, r)
      BY <1>3, <2>3 DEF RunValidationCommand
    <3>2. /\ DOMAIN Ran(a, r) = Fields /\ Ran(a, r).action = NoAction /\ Ran(a, r).last = r
          /\ r = "waiting_approval" => Ran(a, r).approval = "validation"
      BY <1>0, <2>3, RanFields DEF GraphInv, Subject
    <3>3. /\ state'.node = "parse_validation_result" /\ state'.action = NoAction /\ state'.last = r
          /\ state'.approval = Ran(a, r).approval /\ effect' = Effect(a, r)
      BY <3>1, <3>2 DEF UpdateRan, Fields
    <3> QED BY <1>0, <2>1, <3>2, <3>3, CallUses
  <2> QED BY <2>2, <2>3
<1> QED BY <1>1, <1>2, <1>3

\* the git workflow calls its own actions, and drops others without a grant
LEMMA GitUses ==
    ASSUME GrantInv, GitCommit \/ GitPush \/ GitReview \/ GitPropose
    PROVE  Carries' /\ Uses
<1>0. /\ DOMAIN state = Fields /\ NoAction.grant = "none" /\ GraphInv /\ Fits(state.action) /\ OnItsWay
  BY DEF GrantInv, Carries, GraphInv, GraphTyped, NoAction, Action
<1>1. CASE GitPropose
  <2>1. /\ At("git_workflow_graph")
        /\ state.action.type \notin {"git_commit", "git_push", "github_create_pr"}
        /\ state'.node = "await_commit_approval" /\ state'.action = NoAction
        /\ state'.approval = "git_commit" /\ state'.last \in {"cancelled", "success", "failed"}
    BY <1>0, <1>1 DEF GitPropose, Update, Fields
  <2>2. state.action.grant = "none" \/ state.last = "cancelled"
    BY <1>0, <2>1 DEF OnItsWay, At
  <2> QED BY <1>0, <2>1, <2>2 DEF Carries, OnItsWay, Waits, Questions, Uses, At
<1>2. CASE GitCommit \/ GitPush \/ GitReview
  <2> DEFINE a == state.action
             Leaves(r, s) ==
               /\ s \in {Ran(a, r), [Ran(a, r) EXCEPT !.git = @ \cup {"started"}]}
               /\ \E type \in {"git_push", "github_create_pr"} :
                    state' \in {GitDone(s), GitDone([s EXCEPT !.approval = type, !.stop = "waiting_approval"])}
               /\ effect' = Effect(a, r) /\ denied' = denied
  <2>1. PICK r \in Results(a) : \E s : Leaves(r, s)
    BY <1>2 DEF GitCommit, GitPush, GitReview, Propose, UpdateRan
  <2>2. PICK s : Leaves(r, s)
    BY <2>1
  <2>3. r = "waiting_approval" => Subject(a.type) \in Asked
    BY <1>0, CallsReturn
  <2>4. r = "waiting_approval" => Subject(a.type) # "none"
    BY <2>3 DEF Asked, CalledAgain, GitWrites, WebTools
  <2>5. /\ DOMAIN Ran(a, r) = Fields /\ Ran(a, r).action = NoAction /\ Ran(a, r).last = r
        /\ r = "waiting_approval" => Ran(a, r).approval # "none"
    BY <1>0, <2>4, RanFields DEF GraphInv
  <2>6. /\ DOMAIN s = Fields /\ s.action = NoAction /\ s.last = r
        /\ r = "waiting_approval" => s.approval # "none"
    BY <2>2, <2>5 DEF Fields
  <2>7. /\ state'.node = "route_next" /\ state'.action = NoAction /\ state'.last = r
        /\ r = "waiting_approval" => state'.approval # "none"
    <3>1. CASE state' = GitDone(s)
      BY <2>6, <3>1 DEF GitDone, Fields
    <3>2. ASSUME NEW type \in {"git_push", "github_create_pr"},
                 state' = GitDone([s EXCEPT !.approval = type, !.stop = "waiting_approval"])
          PROVE  <2>7
      BY <2>6, <3>2 DEF GitDone, Fields
    <3> QED BY <2>2, <3>1, <3>2
  <2> QED BY <1>0, <2>2, <2>7, CallUses
<1> QED BY <1>1, <1>2

LEMMA StopsUse ==
    ASSUME GrantInv, Suspend \/ FinalSynthesis \/ UserCancels
    PROVE  Carries' /\ Uses
<1>0. DOMAIN state = Fields /\ OnItsWay /\ Waits /\ Questions
  BY DEF GrantInv, Carries, GraphInv, GraphTyped
<1>1. CASE Suspend \/ UserCancels
  <2>1. state' = state /\ denied' = denied /\ state.node # "END"
    BY <1>1 DEF Suspend, UserCancels, Interrupted, At
  <2> QED BY <1>0, <2>1 DEF Carries, OnItsWay, Waits, Questions, Uses, At
<1>2. CASE FinalSynthesis
  <2>1. /\ At("final_synthesis") /\ denied' = denied /\ state'.node = "END"
        /\ state'.action = state.action /\ state'.last = state.last /\ state'.approval = state.approval
    BY <1>0, <1>2 DEF FinalSynthesis, Update, Fields
  <2>2. state.action.grant = "none" \/ state.last = "cancelled"
    BY <2>1, Elsewhere DEF At
  <2> QED BY <1>0, <2>1, <2>2 DEF Carries, OnItsWay, Waits, Questions, Uses, At
<1> QED BY <1>1, <1>2

\* an answer finds nothing with a grant pending; what is allowed is on its way
LEMMA AnswersUse ==
    ASSUME GrantInv, Allow \/ Deny
    PROVE  Carries' /\ Uses
<1>0. DOMAIN state = Fields /\ NoAction.grant = "none" /\ OnItsWay /\ Waits /\ Questions
  BY DEF GrantInv, Carries, GraphInv, GraphTyped, NoAction, Action
<1>1. Interrupted /\ ~denied
  BY DEF Allow, Deny, Answered, GrantInv, GraphInv, Ending, Placed
<1>2. state.action.grant = "none" \/ state.last = "cancelled"
  BY <1>1, Elsewhere DEF Interrupted, At
<1>3. CASE Allow
  <2> DEFINE a == Action(Granted(state.approval), state.approval)
             s == [state EXCEPT !.action = a, !.approval = "none", !.stop = "none",
                                !.stage = "after_interrupt_resume"]
  <2>1. state' = Resumed(s) /\ denied' = denied
    BY <1>3 DEF Allow, Answered
  <2>2. /\ DOMAIN s = Fields /\ s.action = a /\ s.approval = "none" /\ s.last = state.last
        /\ s.stop = "none" /\ s.stage = "after_interrupt_resume"
    BY <1>0 DEF Fields
  <2>3. a.grant = state.approval /\ a.type = Granted(state.approval)
    BY DEF Action
  <2> HIDE DEF a, s
  <2>4. /\ state'.action = a /\ state'.last = state.last /\ state'.stop = "none"
        /\ \/ At("await_approval") /\ state'.node = "route_next" /\ state'.stage = "after_interrupt_resume"
           \/ At("await_validation_approval") /\ state'.node = "run_validation_command"
           \/ At("await_commit_approval") /\ state'.node = "route_next" /\ state'.stage = "after_tool_result"
    BY <1>1, <2>1, <2>2 DEF Resumed, Interrupted, At, GitDone, Fields
  <2>5. At("await_validation_approval") => a.type = "run_validation_command"
    BY <1>0, <1>1, <2>3 DEF Questions, Interrupted, At, Granted, GrantedCommand, CalledAgain, GitWrites, WebTools
  <2>6. At("await_commit_approval") => a.type = "git_commit" /\ state.last # "waiting_approval"
    BY <1>0, <2>3 DEF Questions, Granted, CalledAgain, GitWrites
  <2>7. OnItsWay'
    BY <2>4, <2>5, <2>6 DEF OnItsWay, At
  <2>8. Waits'
    <3>1. state.last = "waiting_approval" => state.approval # "none"
      BY <1>0, <1>1, <1>2 DEF Waits
    <3> QED BY <2>3, <2>4, <3>1 DEF Waits
  <2>9. Questions'
    BY <2>4 DEF Questions, At
  <2> QED BY <1>2, <2>7, <2>8, <2>9 DEF Carries, Uses
<1>4. CASE Deny
  <2> DEFINE s == [Refused EXCEPT !.stop = "approval_denied"]
  <2>1. state' = Resumed(s) /\ denied' = TRUE
    BY <1>4 DEF Deny, Answered
  <2>2. DOMAIN s = Fields /\ s.action = state.action /\ s.last = state.last
    BY <1>0 DEF Refused, Fields
  <2> HIDE DEF s
  <2>3. /\ state'.action = state.action /\ state'.last = state.last
        /\ state'.node \in {"route_next", "run_validation_command"}
    BY <1>1, <2>1, <2>2 DEF Resumed, Interrupted, At, GitDone, Fields
  <2> QED BY <1>2, <2>1, <2>3 DEF Carries, OnItsWay, Waits, Questions, Uses, At
<1> QED BY <1>3, <1>4

LEMMA StepsUse ==
    ASSUME GrantInv, Next
    PROVE  Carries' /\ Uses
<1>1. CASE GraphStep
  BY <1>1, RoutesUse, ToolsUse, WorkUses, DraftsUse, ChecksUse, GitUses, StopsUse DEF GraphStep
<1> QED BY <1>1, AnswersUse, StopsUse DEF Next

LEMMA GrantContinues == GrantInv /\ [Next]_vars => GrantInv'
<1> SUFFICES ASSUME GrantInv, [Next]_vars PROVE GrantInv'
  OBVIOUS
<1>1. GraphInv'
  BY GraphSteps DEF GrantInv
<1>2. CASE UNCHANGED vars
  BY <1>1, <1>2 DEF vars, GrantInv, Carries, OnItsWay, Waits, Questions, At
<1> QED BY <1>1, <1>2, StepsUse DEF GrantInv

(* An approval is used: whatever is pending or chosen, however the graph is    *)
(* resumed and routed, the action it allows runs before the run ends or the    *)
(* action is replaced, unless a cancellation came between.                    *)
THEOREM ApprovalsAreUsed == Spec => GrantIsUsed
<1>1. ASSUME GrantInv, [Next]_vars
      PROVE  [state.action.grant # "none"
                => \/ state'.action = state.action /\ state'.node # "END"
                   \/ effect' = state.action
                   \/ cancelled \/ state.last = "cancelled"]_vars
  BY <1>1, StepsUse DEF Uses
<1> QED BY <1>1, GrantStarts, GrantContinues, PTL DEF Spec, GrantIsUsed
==============================================================================
