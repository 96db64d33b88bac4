----------------------------- MODULE Permissions -----------------------------
(***************************************************************************)
(* Whether a tool call may run: the decisions of agent_core/permissions.py, *)
(* the check_permission of each family of tools, the permission profile of  *)
(* the settings and the command policy of command_service.py.  Operators    *)
(* only; ToolTurn is the program that uses them.                            *)
(*                                                                         *)
(* A payload is [tool, cmd, allow, id, remember, private]: the tool, the    *)
(* command it carries, whether it carries approval_decision "allow", the    *)
(* approval id it carries, remember_for_session, and whether its URL is      *)
(* private.  Wording, patterns of rules and audit records are left out.     *)
(***************************************************************************)
EXTENDS Integers, FiniteSets

CONSTANTS
    Commands,   \* the commands somebody may propose
    Malformed,  \* those validate_argv_shape refuses (shell wrappers, ...)
    ReadOnly,   \* those _is_read_only_command accepts
    Dangerous,  \* destructive ones and those that dump secrets
    Outside,    \* those that name a path outside the repository
    Pushes,     \* git push, glab mr create and glab mr update
    PatternOf,  \* the words an approval of the command stands for
    Rules       \* the rules a PermissionPolicy is built with

NoCommand == "no command"
NoId == "no id"
Patterns == {PatternOf[c] : c \in Commands}

Modes == {"default", "plan_only", "proposal_only", "accept_edits", "auto_readonly",
          "full_access", "routine_safe", "headless_safe"}

ProposalTools == {"generate_edit", "generate_change_set", "validate_change_set"}
ApplyTools == {"apply_change_set"}
DirectWriteTools == {"create_file", "modify_file", "delete_file", "rename_file"}
GitWriteTools == {"git_branch_create", "git_commit", "git_push", "github_create_pr", "gitlab_create_mr"}
RemoteWriteTools == {"git_push", "github_create_pr", "gitlab_create_mr"}
RunTools == {"run_approved_command", "run_validation_command"}
CommandTools == RunTools \cup {"preview_command", "inspect_git_state"}
NetworkTools == {"search_web", "fetch_url"}
ReadSearchTools == {"inspect_repo_tree", "search_files", "search_text", "read_file", "read_many_files",
                    "analyze_repository", "summarize_web_evidence", "ask_clarification", "final_answer"}
StatusDiffTools == {"git_status", "git_diff"}
ContextTools == {"refresh_context_pack", "compact_thread_context", "git_log"}
McpTools == {"mcp_tool"}
Tools == ProposalTools \cup ApplyTools \cup DirectWriteTools \cup GitWriteTools \cup CommandTools
           \cup NetworkTools \cup ReadSearchTools \cup StatusDiffTools \cup ContextTools \cup McpTools

Payloads == [tool : Tools, cmd : Commands \cup {NoCommand}, allow : BOOLEAN,
             id : Patterns \cup {NoId}, remember : BOOLEAN, private : BOOLEAN]

ASSUME PermissionsAssumption ==
    /\ NoCommand \notin Commands
    /\ PatternOf \in [Commands -> STRING]
    /\ NoId \notin Patterns
    /\ Malformed \cup ReadOnly \cup Dangerous \cup Outside \cup Pushes \subseteq Commands
    /\ ReadOnly \cap Pushes = {}

----------------------------------------------------------------------------
(* The permission profile of the settings, as far as decisions read it.     *)
AllowCommandRun(setting) == setting # "plan_only"
AllowOutsideRepo(setting) == setting = "full_access"
AllowNetwork(mode) == mode = "full_access"

(* _classify_command.  session maps a pattern to the risk it was remembered *)
(* with; the approval id of a command is a hash of repository and pattern.  *)
Risks == {"none", "low", "medium"}
Risk(c) == IF c \in ReadOnly THEN "low" ELSE "medium"
\* mutant: the id is a hash of the repository alone
ApprovalIdOfRepo(c) == CHOOSE p \in Patterns : TRUE
ApprovalId(c) == PatternOf[c]
NoPreview == [cmd |-> NoCommand, blocked |-> FALSE, readOnly |-> FALSE, needs |-> FALSE]
Blocked(c, setting) ==
    \/ c = NoCommand
    \/ ~AllowCommandRun(setting)
    \/ c \in Outside /\ ~AllowOutsideRepo(setting)
    \/ c \in Dangerous
Remembered(c, session) == session[PatternOf[c]] = Risk(c)
Preview(c, setting, session) ==
    IF Blocked(c, setting)
    THEN [cmd |-> c, blocked |-> TRUE, readOnly |-> FALSE, needs |-> TRUE]
    ELSE [cmd |-> c, blocked |-> FALSE, readOnly |-> c \in ReadOnly,
          needs |-> c \notin ReadOnly /\ ~Remembered(c, session)]

----------------------------------------------------------------------------
(* Decisions and the rules of the modes.                                    *)
Sources == {"base_safety", "workspace_path", "provider_network", "command_policy", "project",
            "user", "session", "mode", "tool_default"}
Precedence == [s \in Sources |->
    CASE s = "base_safety" -> 1 [] s = "workspace_path" -> 2 [] s = "provider_network" -> 3
      [] s = "command_policy" -> 4 [] s = "project" -> 5 [] s \in {"user", "session"} -> 6
      [] s = "mode" -> 7 [] s = "tool_default" -> 8]
Weight == [d \in {"deny", "ask", "allow"} |-> CASE d = "deny" -> 3 [] d = "ask" -> 2 [] d = "allow" -> 1]

Decision(d, source, preview) == [d |-> d, source |-> source, preview |-> preview]
ByMode(decision, d) == [decision EXCEPT !.d = d, !.source = "mode"]

ExplicitApproval(p) == p.allow \/ p.id # NoId

RemoteWrite(p, decision) ==
    \/ p.tool \in RemoteWriteTools
    \/ (IF decision.preview # NoPreview THEN decision.preview.cmd ELSE p.cmd) \in Pushes

GuardAsks(p, decision) == RemoteWrite(p, decision) /\ ~p.allow /\ decision.d = "allow"
Guarded(p, decision) == IF GuardAsks(p, decision) THEN ByMode(decision, "ask") ELSE decision

AutoReadonlyAllows(p, decision) ==
    \/ p.tool \in ReadSearchTools \cup StatusDiffTools
    \/ p.tool \in CommandTools /\ decision.preview.readOnly /\ ~decision.preview.needs

\* mutant: commands are left to the command policy
MutatesFiles(p, decision) == p.tool \in ApplyTools \cup DirectWriteTools \cup GitWriteTools
Mutates(p, decision) ==
    \/ p.tool \in ApplyTools \cup DirectWriteTools \cup GitWriteTools
    \/ p.tool \in CommandTools /\ ~decision.preview.readOnly

ModeDenies(mode, p, decision) ==
    \/ /\ mode = "plan_only"
       /\ p.tool \notin ProposalTools \cup ReadSearchTools
       /\ ~(p.tool \in NetworkTools /\ ExplicitApproval(p))
    \/ mode = "proposal_only" /\ Mutates(p, decision)
    \/ mode = "auto_readonly" /\ ~AutoReadonlyAllows(p, decision)
    \/ mode = "headless_safe" /\ Guarded(p, decision).d = "ask"

LocalEdit(p) == p.tool \in ApplyTools \cup (DirectWriteTools \ {"delete_file"})

ModeAllows(mode, p, decision) ==
    /\ decision.d = "ask"
    /\ \/ mode = "accept_edits" /\ LocalEdit(p)
       \/ mode = "full_access" /\ p.tool \notin RemoteWriteTools \cup {"delete_file"}

ModeGuards(mode, p) ==
    \/ mode \in {"full_access", "routine_safe", "headless_safe"}
    \/ mode = "accept_edits" /\ ~LocalEdit(p)

ModeRules(mode, p, decision) ==
    IF decision.d = "deny" THEN decision
    ELSE IF ModeDenies(mode, p, decision) THEN ByMode(decision, "deny")
    ELSE IF ModeAllows(mode, p, decision) THEN ByMode(decision, "allow")
    ELSE IF ModeGuards(mode, p) THEN
        LET guarded == Guarded(p, decision) IN
        IF mode = "routine_safe" /\ guarded.d = "ask" THEN ByMode(guarded, "ask") ELSE guarded
    ELSE decision

----------------------------------------------------------------------------
(* check_permission of each family of tools, before the rules of the mode.  *)
RunDecision(p, setting, session) ==
    LET preview == Preview(p.cmd, setting, session) IN
    IF p.cmd \in Malformed THEN Decision("deny", "base_safety", NoPreview)
    ELSE IF preview.blocked THEN Decision("deny", "command_policy", preview)
    ELSE IF preview.readOnly /\ ~preview.needs THEN Decision("allow", "command_policy", preview)
    ELSE IF p.id = ApprovalId(p.cmd) THEN Decision("allow", "command_policy", preview)
    ELSE Decision("ask", "command_policy", preview)

NetworkDecision(mode, p) ==
    IF p.private THEN Decision("deny", "provider_network", NoPreview)
    ELSE IF p.allow \/ AllowNetwork(mode) THEN Decision("allow", "provider_network", NoPreview)
    ELSE Decision("ask", "provider_network", NoPreview)

GatedDecision(p) == Decision(IF p.allow THEN "allow" ELSE "ask", "project", NoPreview)

ToolDecision(mode, p, setting, session) ==
    CASE p.tool \in RunTools -> RunDecision(p, setting, session)
      [] p.tool \in NetworkTools -> NetworkDecision(mode, p)
      [] p.tool \in ApplyTools \cup DirectWriteTools \cup GitWriteTools -> GatedDecision(p)
      [] OTHER -> Decision("allow", "tool_default", NoPreview)

\* an external tool always asks, whatever it carries; the rules of the mode
\* meet its question in evaluate only
CheckPermission(mode, p, setting, session) ==
    IF p.tool \in McpTools THEN Decision("ask", "tool_default", NoPreview)
    ELSE ModeRules(mode, p, ToolDecision(mode, p, setting, session))

----------------------------------------------------------------------------
(* PermissionPolicy.evaluate.                                               *)
BaseRule(p, base) == [source |-> base.source, tools |-> {p.tool}, d |-> base.d, priority |-> Precedence[base.source]]

Before(r, s) ==
    \/ Precedence[r.source] < Precedence[s.source]
    \/ Precedence[r.source] = Precedence[s.source] /\ r.priority > s.priority
    \/ /\ Precedence[r.source] = Precedence[s.source] /\ r.priority = s.priority
       /\ Weight[r.d] > Weight[s.d]

\* a policy is given rules, one of which comes first; none speaks for the base
\* safety, and none makes a question of a command's allowance
ASSUME RulesAssumption ==
    /\ \A r \in Rules :
         /\ r.source \in Sources \ {"base_safety"} /\ r.d \in {"deny", "ask", "allow"} /\ r.priority \in Int
         /\ r.d = "ask" => r.tools \cap RunTools = {}
    /\ \A matched \in SUBSET Rules : matched # {} => \E r \in matched : \A s \in matched : ~Before(s, r)

Selected(p, base) ==
    LET matched == {r \in Rules : p.tool \in r.tools} \cup {BaseRule(p, base)} IN
    CHOOSE r \in matched : \A s \in matched : ~Before(s, r)

BaseStands(base, rule) ==
    /\ ~(rule.source = "base_safety" /\ rule.d = "deny")
    /\ \/ base.preview # NoPreview /\ base.d # "allow"
       \/ base.d = "deny"
       \/ base.d = "ask" /\ rule.d = "allow" /\ rule.source # "base_safety"

BySelected(p, base) ==
    LET rule == Selected(p, base) IN
    IF BaseStands(base, rule) THEN base ELSE Decision(rule.d, rule.source, base.preview)

(* permission_action_signature: what makes two calls the same action.       *)
Signature(p) == <<p.tool, p.cmd, p.id, p.private>>

(* _apply_denial_tracking: an action asked about or denied before is never   *)
(* asked about again by the same orchestrator.                              *)
Tracked(p, decision, denials) ==
    IF Signature(p) \in denials /\ decision.d = "ask"
    THEN Decision("deny", "base_safety", decision.preview) ELSE decision

\* mutant: the tool has applied the rules of the mode already
EvaluateOnce(mode, p, base, denials) == Tracked(p, BySelected(p, base), denials)
Evaluate(mode, p, base, denials) == Tracked(p, ModeRules(mode, p, BySelected(p, base)), denials)
=============================================================================
