------------------------------- MODULE ToolTurn -------------------------------
(***************************************************************************)
(* Tool calls of a run: ToolOrchestrator.execute_tool with its hooks, the   *)
(* permission decision and the tool's effect, among the clients of the API  *)
(* that meanwhile change the permission mode, remember or revoke command    *)
(* approvals, run commands themselves and cancel the run.                   *)
(*                                                                         *)
(* The graph builds one orchestrator per action (_execute_pending_action);  *)
(* a subagent uses one for all its steps, with non-mutating tools.          *)
(***************************************************************************)
EXTENDS Permissions, Sequences

CONSTANTS
    Proposed,       \* payloads the planner or the model may propose to the graph
    SubagentTools,  \* payloads a subagent may propose
    Rewrites,       \* payloads a pre-tool hook may put in the place of another
    MaxCalls,       \* bound: tool calls of the run
    MaxMeanwhile    \* bound: steps of other clients of the API

\* what is proposed is no answer of the user's: it carries no decision, no
\* approval id and no wish to be remembered
ASSUME ToolTurnAssumption ==
    /\ Proposed \cup SubagentTools \cup Rewrites \subseteq Payloads
    /\ \A p \in Proposed \cup SubagentTools : ~p.allow /\ p.id = NoId
    /\ \A p \in Proposed \cup SubagentTools \cup Rewrites :
         ~p.remember /\ (p.tool \in CommandTools <=> p.cmd # NoCommand)
    /\ MaxCalls \in Nat /\ MaxMeanwhile \in Nat

VARIABLES
    setting,   \* permissions.mode of the configuration file
    session,   \* _SESSION_APPROVALS: the risk each pattern was remembered with
    cancelled, \* is the run cancelled or cancelling?
    orch,      \* the orchestrator: whose it is, its mode, its prior denials
    turn,      \* the call: its stage, its payload, does its result wait for approval?
    effect,    \* what the last call did
    granted,   \* history: what the user has allowed, as <<tool, pattern>>
    calls, meanwhile

toolVars == <<setting, session, cancelled, orch, turn, effect, granted, calls, meanwhile>>

Stages == {"hook", "decide", "call", "post", "waiting", "done"}
Effects == {"none", "read", "edit", "git", "remote", "network", "external", "command"}
NoPayload == [tool |-> "final_answer", cmd |-> NoCommand, allow |-> FALSE, id |-> NoId,
              remember |-> FALSE, private |-> FALSE]
Quiet == [kind |-> "none", payload |-> NoPayload, setting |-> "default", mode |-> "default"]

ToolInit ==
    /\ setting \in Modes
    /\ session = [p \in Patterns |-> "none"]
    /\ cancelled = FALSE
    /\ orch = [owner |-> "nobody", mode |-> setting, denials |-> {}]
    /\ turn = [stage |-> "done", payload |-> NoPayload, waits |-> FALSE]
    /\ effect = Quiet
    /\ granted = {}
    /\ calls = 0
    /\ meanwhile = 0

At(stage) == turn.stage = stage
End(stage) == turn' = [turn EXCEPT !.stage = stage]

----------------------------------------------------------------------------
(* The owner of the orchestrator.                                           *)
Build(owner) == orch' = [owner |-> owner, mode |-> setting, denials |-> {}]
\* validate_input has passed; execute_tool starts unless the run is cancelled
Begin(p) ==
    /\ turn' = [stage |-> IF cancelled THEN "done" ELSE "hook", payload |-> p, waits |-> FALSE]
    /\ effect' = Quiet
    /\ calls < MaxCalls
    /\ calls' = calls + 1
    /\ UNCHANGED <<setting, session, cancelled, meanwhile>>

GraphAction ==
    /\ At("done")
    /\ Build("graph")
    /\ \E p \in Proposed : Begin(p)
    /\ UNCHANGED granted

SubagentStarts ==
    /\ At("done")
    /\ Build("subagent")
    /\ \E p \in SubagentTools : Begin(p)
    /\ UNCHANGED granted

SubagentStep ==
    /\ At("done") /\ orch.owner = "subagent"
    /\ \E p \in SubagentTools : Begin(p)
    /\ UNCHANGED <<orch, granted>>

\* the user allows what a graph action waits for: the graph calls the tool again
\* with the decision; whatever is no write and no web tool is a command to it
AllowedPayload(p, remember) ==
    IF p.tool \in ApplyTools \cup DirectWriteTools \cup GitWriteTools \cup NetworkTools
    THEN [p EXCEPT !.allow = TRUE]
    ELSE [p EXCEPT !.tool = IF p.tool = "run_validation_command" THEN @ ELSE "run_approved_command",
                   !.allow = TRUE, !.remember = remember,
                   !.id = IF p.cmd = NoCommand THEN NoId ELSE ApprovalId(p.cmd)]

Grant(p) == granted' = granted \cup {<<p.tool, IF p.cmd = NoCommand THEN NoId ELSE PatternOf[p.cmd]>>}

UserAllows ==
    /\ At("waiting")
    /\ Build("graph")
    /\ \E remember \in BOOLEAN : Begin(AllowedPayload(turn.payload, remember))
    /\ Grant(turn.payload)

UserDenies ==
    /\ At("waiting")
    /\ End("done")
    /\ UNCHANGED <<setting, session, cancelled, orch, effect, granted, calls, meanwhile>>

----------------------------------------------------------------------------
(* execute_tool.  A hook may leave the input, put another command in its      *)
(* place (the decision and the id it carries stay), refuse it, or            *)
(* return an input that is no object or fails the tool's validation.        *)
PreToolHook ==
    /\ At("hook")
    /\ \/ End("decide")
       \/ \E p \in {q \in Rewrites : q.tool = turn.payload.tool /\ turn.payload.cmd # NoCommand} :
            turn' = [turn EXCEPT !.stage = "decide",
                                 !.payload = [p EXCEPT !.allow = turn.payload.allow, !.id = turn.payload.id]]
       \/ End("done")
    /\ UNCHANGED <<setting, session, cancelled, orch, effect, granted, calls, meanwhile>>

\* the graph stops at a result that waits for approval; a subagent hands it to
\* its model as it hands any other
Waits == IF orch.owner = "graph" THEN "waiting" ELSE "done"

Remember(p, d) == IF d = "allow" THEN orch.denials ELSE orch.denials \cup {Signature(p)}

Decide ==
    LET p == turn.payload
        base == CheckPermission(orch.mode, p, setting, session)
        decision == Evaluate(orch.mode, p, base, orch.denials)
    IN
    /\ At("decide")
    /\ End(CASE decision.d = "allow" -> "call" [] decision.d = "ask" -> Waits [] decision.d = "deny" -> "done")
    /\ orch' = [orch EXCEPT !.denials = Remember(p, decision.d)]
    /\ UNCHANGED <<setting, session, cancelled, effect, granted, calls, meanwhile>>

----------------------------------------------------------------------------
(* tool.call, by what it does to the world.                                 *)
Did(kind, p) == effect' = [kind |-> kind, payload |-> p, setting |-> setting, mode |-> orch.mode]
Failed == effect' = Quiet

\* run_command_with_policy classifies the command again, by the settings and
\* the approvals of now
MayRun(c, id) ==
    LET preview == Preview(c, setting, session) IN
    /\ ~preview.blocked
    /\ preview.needs => id = ApprovalId(c) \/ Remembered(c, session)

RunCommand(c, id, remember, p) ==
    IF MayRun(c, id)
    THEN /\ Did(IF c \in ReadOnly THEN "read" ELSE "command", p)
         /\ session' = IF remember THEN [session EXCEPT ![PatternOf[c]] = Risk(c)] ELSE session
    ELSE Failed /\ UNCHANGED session

\* full_access approves for itself what carries no approval id
CallRun(p) ==
    /\ p.tool \in RunTools
    /\ RunCommand(p.cmd, IF p.id = NoId /\ orch.mode = "full_access" THEN ApprovalId(p.cmd) ELSE p.id,
                  p.remember, p)

\* what the other tools do; a tool that fails has done nothing, and the tools
\* of code providers always fail
WriteEffect(p) == IF p.allow \/ orch.mode \in {"accept_edits", "full_access"} THEN "edit" ELSE "none"
ApplyEffect(p) == IF p.allow THEN "edit" ELSE "none"
GitEffect(p) == CASE p.tool \in {"git_branch_create", "git_commit"} -> "git"
                  [] p.tool = "git_push" -> "remote"
                  [] OTHER -> "none"
ToolEffect(p) ==
    CASE p.tool \in DirectWriteTools -> WriteEffect(p)
      [] p.tool \in ApplyTools -> ApplyEffect(p)
      [] p.tool \in GitWriteTools -> GitEffect(p)
      [] p.tool \in NetworkTools -> "network"
      [] OTHER -> "none"

\* a preview changes nothing; it waits when the command needs an approval that
\* full_access does not give
PreviewTools == CommandTools \ RunTools
PreviewWaits(p) ==
    LET preview == Preview(p.cmd, setting, session) IN
    /\ p.cmd \notin Malformed
    /\ preview.needs
    /\ preview.blocked \/ orch.mode # "full_access"

\* the tools of MCP servers are called in McpTurn
CallTool(p) ==
    /\ p.tool \notin RunTools \cup McpTools
    /\ \/ ToolEffect(p) # "none" /\ Did(ToolEffect(p), p)
       \/ Failed
    /\ UNCHANGED session

\* a tool that raises skips the post-tool hooks
Call ==
    /\ At("call")
    /\ CallRun(turn.payload) \/ CallTool(turn.payload)
    /\ turn' = [turn EXCEPT !.stage = "post",
                            !.waits = turn.payload.tool \in PreviewTools /\ PreviewWaits(turn.payload)]
    /\ UNCHANGED <<setting, cancelled, orch, granted, calls, meanwhile>>

\* a hook may put a result of its own in the place of the tool's
PostToolHook ==
    /\ At("post")
    /\ End(IF turn.waits THEN Waits ELSE "done") \/ End("done")
    /\ UNCHANGED <<setting, session, cancelled, orch, effect, granted, calls, meanwhile>>

----------------------------------------------------------------------------
(* Other clients of the API, while the call is at any stage.                *)
Meanwhile ==
    /\ meanwhile < MaxMeanwhile
    /\ meanwhile' = meanwhile + 1
    /\ UNCHANGED <<orch, turn, calls>>

UpdatePermissionMode ==
    /\ Meanwhile
    /\ \E mode \in Modes \ {setting} : setting' = mode
    /\ UNCHANGED <<session, cancelled, effect, granted>>

\* POST /commands/run without a run: a command the user runs with its approval id
CommandsRun ==
    /\ Meanwhile
    /\ \E c \in Commands \ Malformed, remember \in BOOLEAN :
         /\ ~Preview(c, setting, session).blocked
         /\ granted' = granted \cup {<<"run_approved_command", PatternOf[c]>>}
         /\ session' = IF remember THEN [session EXCEPT ![PatternOf[c]] = Risk(c)] ELSE session
    /\ UNCHANGED <<setting, cancelled, effect>>

RevokeApproval ==
    /\ Meanwhile
    /\ \E p \in Patterns : session[p] # "none" /\ session' = [session EXCEPT ![p] = "none"]
    /\ UNCHANGED <<setting, cancelled, effect, granted>>

CancelRun ==
    /\ Meanwhile
    /\ cancelled' = TRUE
    /\ UNCHANGED <<setting, session, effect, granted>>

ToolNext ==
    \/ GraphAction \/ SubagentStarts \/ SubagentStep \/ UserAllows \/ UserDenies
    \/ PreToolHook \/ Decide \/ Call \/ PostToolHook
    \/ UpdatePermissionMode \/ CommandsRun \/ RevokeApproval \/ CancelRun

ToolSpec == ToolInit /\ [][ToolNext]_toolVars
----------------------------------------------------------------------------
(* What leaves the machine was allowed by the user: every push, by git_push  *)
(* or by a command, follows an answer "allow" for that tool or that pattern  *)
(* of commands, in every mode, whatever a hook or another client does.       *)
Granted(tools, pattern) == \E t \in tools : <<t, pattern>> \in granted
RemoteIsApproved ==
    /\ effect.kind = "remote" => Granted({effect.payload.tool}, NoId)
    /\ effect.kind = "command" /\ effect.payload.cmd \in Pushes =>
         Granted(CommandTools, PatternOf[effect.payload.cmd])

(* A command that may change something runs by an answer for its pattern or  *)
(* in full_access, and never when the settings of that moment forbid it.     *)
CommandIsAuthorised ==
    effect.kind = "command" =>
        /\ effect.mode = "full_access" \/ Granted(CommandTools, PatternOf[effect.payload.cmd])
        /\ ~Blocked(effect.payload.cmd, effect.setting)

(* The modes that promise to write nothing keep it: a call decided in them    *)
(* reads, or fetches what the user allowed it to fetch.                      *)
ReadOnlyModesWriteNothing ==
    effect.mode \in {"plan_only", "proposal_only", "auto_readonly"} =>
        /\ effect.kind \in {"none", "read", "network"}
        /\ effect.kind = "network" => Granted({effect.payload.tool}, NoId)

=============================================================================
