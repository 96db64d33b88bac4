--------------------------- MODULE McpTurn_proofs ---------------------------
(***************************************************************************)
(* What McpTurn promises, for every set of commands, rules, proposals,      *)
(* hooks and servers that its assumptions allow and any number of calls.    *)
(*                                                                         *)
(* First the decisions, which are operators: what an "allow" of evaluate    *)
(* leaves possible in each mode.  Then the invariant: a payload carries no  *)
(* answer that the user has not given (Answered), no approval is remembered *)
(* that was not given (SessionAnswered), a call carries a decision          *)
(* (CallDecided), a call of a server's tool is in the registry by the       *)
(* user's wish (RegistryInv), and a connection says only what the server    *)
(* did (LinkInv).  The properties follow from what these say of a call.     *)
(***************************************************************************)
EXTENDS McpTurn, SequenceTheorems, TLAPS

Previews == [cmd : Commands \cup {NoCommand}, blocked : BOOLEAN, readOnly : BOOLEAN, needs : BOOLEAN]
Decisions == [d : {"deny", "ask", "allow"}, source : Sources, preview : Previews]

\* the order in which the rules are sorted is transitive
LEMMA BeforeIsTransitive ==
    ASSUME NEW r, NEW s, NEW t,
           \A x \in {r, s, t} : x.source \in Sources /\ x.d \in {"deny", "ask", "allow"} /\ x.priority \in Int,
           Before(r, s), Before(s, t)
    PROVE  Before(r, t)
<1>1. \A x \in {r, s, t} : Precedence[x.source] \in Int /\ Weight[x.d] \in Int
  BY DEF Precedence, Weight, Sources
<1> QED
  BY <1>1 DEF Before

\* the rule evaluate selects is a matching one or the tool's own decision
LEMMA SelectedIsMatched ==
    ASSUME NEW p, NEW base \in Decisions
    PROVE  LET rule == Selected(p, base) IN
           \/ rule \in Rules /\ p.tool \in rule.tools
           \/ rule = BaseRule(p, base)
<1> DEFINE mine == {r \in Rules : p.tool \in r.tools}
           last == BaseRule(p, base)
           matched == mine \cup {last}
<1>1. /\ last.source = base.source /\ last.source \in Sources
      /\ last.d \in {"deny", "ask", "allow"} /\ last.priority \in Int
  BY DEF BaseRule, Decisions, Precedence, Sources
<1>2. ~Before(last, last)
  <2>1. Precedence[last.source] \in Int /\ Weight[last.d] \in Int
    BY <1>1 DEF Precedence, Weight, Sources
  <2> QED BY <1>1, <2>1 DEF Before
<1>3. \E r \in matched : \A s \in matched : ~Before(s, r)
  <2>1. CASE mine = {}
    BY <1>2, <2>1
  <2>2. CASE mine # {}
    <3>1. PICK r \in mine : \A s \in mine : ~Before(s, r)
      <4>1. mine \in SUBSET Rules
        OBVIOUS
      <4> QED BY <4>1, <2>2, RulesAssumption
    <3>2. CASE ~Before(last, r)
      BY <3>1, <3>2
    <3>3. CASE Before(last, r)
      <4>1. ASSUME NEW s \in mine, Before(s, last) PROVE FALSE
        <5>1. \A x \in {s, last, r} : x.source \in Sources /\ x.d \in {"deny", "ask", "allow"} /\ x.priority \in Int
          BY <1>1, RulesAssumption
        <5>2. Before(s, r)
          BY ONLY <5>1, <4>1, <3>3, BeforeIsTransitive
        <5> QED BY <5>2, <3>1
      <4> QED BY <4>1, <1>2
    <3> QED BY <3>2, <3>3
  <2> QED BY <2>1, <2>2
<1>4. Selected(p, base) \in matched
  BY <1>3 DEF Selected
<1> QED BY <1>4

\* a preview is of the command asked about, and calls read-only what is
LEMMA PreviewsAreTyped ==
    ASSUME NEW c \in Commands \cup {NoCommand}, NEW profile \in Modes, NEW approvals
    PROVE  /\ NoPreview \in Previews
           /\ Preview(c, profile, approvals) \in Previews
           /\ Preview(c, profile, approvals).cmd = c
           /\ Preview(c, profile, approvals).readOnly => c \in ReadOnly
<1>1. Blocked(c, profile) \in BOOLEAN /\ Remembered(c, approvals) \in BOOLEAN
  BY DEF Blocked, Remembered
<1> QED
  BY <1>1 DEF Preview, Previews, NoPreview

\* check_permission of each family of tools makes a decision
LEMMA BasesAreTyped ==
    ASSUME NEW p \in Payloads, NEW mode \in Modes, NEW profile \in Modes, NEW approvals
    PROVE  ToolDecision(mode, p, profile, approvals) \in Decisions
<1>1. NoPreview \in Previews /\ Preview(p.cmd, profile, approvals) \in Previews
  BY PreviewsAreTyped DEF Payloads
<1> QED
  BY <1>1 DEF ToolDecision, RunDecision, NetworkDecision, GatedDecision, Decision, Decisions, Sources

\* the rules of a mode change a decision's verdict, never its preview
LEMMA ModesKeepDecisions ==
    ASSUME NEW p, NEW mode \in Modes, NEW decision \in Decisions
    PROVE  /\ ModeRules(mode, p, decision) \in Decisions
           /\ ModeRules(mode, p, decision).preview = decision.preview
           /\ ModeRules(mode, p, decision).source \in {decision.source, "mode"}
           /\ Guarded(p, decision) \in Decisions
BY DEF ModeRules, Guarded, ByMode, Decisions, Sources

\* what remains allowed after the rules of a mode
LEMMA WhatTheModesAllow ==
    ASSUME NEW p, NEW mode \in Modes, NEW decision \in Decisions,
           ModeRules(mode, p, decision).d = "allow"
    PROVE  /\ ~ModeDenies(mode, p, decision)
           /\ decision.d \in {"allow", "ask"}
           /\ decision.d = "ask" => ModeAllows(mode, p, decision)
           /\ decision.d = "allow" /\ ModeGuards(mode, p) => ~GuardAsks(p, decision)
BY DEF ModeRules, Guarded, ByMode, Decisions, ModeAllows

\* what an orchestrator has decided about before the rules of the modes meet it
\* for the second time
Weighed(mode, p, profile, approvals) == BySelected(p, CheckPermission(mode, p, profile, approvals))

\* the decision evaluate weighs is one, with the preview of the tool's
LEMMA WeighedIsTyped ==
    ASSUME NEW p \in Payloads, NEW mode \in Modes, NEW profile \in Modes, NEW approvals
    PROVE  /\ CheckPermission(mode, p, profile, approvals) \in Decisions
           /\ CheckPermission(mode, p, profile, approvals).source # "base_safety"
                \/ CheckPermission(mode, p, profile, approvals).d = "deny"
           /\ Weighed(mode, p, profile, approvals) \in Decisions
           /\ Weighed(mode, p, profile, approvals).preview = CheckPermission(mode, p, profile, approvals).preview
<1> DEFINE first == ToolDecision(mode, p, profile, approvals)
           base == CheckPermission(mode, p, profile, approvals)
<1>1. first \in Decisions /\ (first.source = "base_safety" => first.d = "deny")
  <2>1. first.source = "base_safety" => first.d = "deny"
    BY DEF ToolDecision, RunDecision, NetworkDecision, GatedDecision, Decision
  <2> QED BY <2>1, BasesAreTyped
<1>2. base \in Decisions /\ (base.source = "base_safety" => base.d = "deny")
  <2>1. NoPreview \in Previews
    BY DEF NoPreview, Previews
  <2>2. CASE p.tool \in McpTools
    BY <2>1, <2>2 DEF CheckPermission, Decision, Decisions, Sources
  <2>3. CASE p.tool \notin McpTools
    <3>1. base = ModeRules(mode, p, first)
      BY <2>3 DEF CheckPermission
    <3>2. first.source = "base_safety" => ModeRules(mode, p, first) = first
      BY <1>1 DEF ModeRules
    <3> QED BY <1>1, <3>1, <3>2, ModesKeepDecisions
  <2> QED BY <2>2, <2>3
<1>3. Selected(p, base).d \in {"deny", "ask", "allow"} /\ Selected(p, base).source \in Sources
  BY <1>2, SelectedIsMatched, RulesAssumption DEF BaseRule, Decisions
<1> QED
  BY <1>2, <1>3 DEF Weighed, BySelected, Decision, Decisions

\* no rule allows what the tool itself does not
LEMMA RulesAnswerNoQuestion ==
    ASSUME NEW p \in Payloads, NEW mode \in Modes, NEW profile \in Modes, NEW approvals,
           CheckPermission(mode, p, profile, approvals).d # "allow"
    PROVE  Weighed(mode, p, profile, approvals).d # "allow"
<1> DEFINE base == CheckPermission(mode, p, profile, approvals)
           rule == Selected(p, base)
<1>1. base \in Decisions
  BY WeighedIsTyped
<1>2. \/ rule \in Rules /\ p.tool \in rule.tools
      \/ rule = BaseRule(p, base)
  BY <1>1, SelectedIsMatched
<1>3. rule.source = "base_safety" => rule.d # "allow"
  BY <1>2, RulesAssumption DEF BaseRule
<1> QED
  BY <1>1, <1>3 DEF Weighed, BySelected, BaseStands, Decision, Decisions

\* the denials of before allow nothing
LEMMA EvaluatedIsTyped ==
    ASSUME NEW p \in Payloads, NEW mode \in Modes, NEW profile \in Modes, NEW approvals, NEW denials
    PROVE  LET base == CheckPermission(mode, p, profile, approvals)
               decision == Evaluate(mode, p, base, denials) IN
           /\ decision.d \in {"deny", "ask", "allow"}
           /\ decision.d = "allow" => ModeRules(mode, p, Weighed(mode, p, profile, approvals)).d = "allow"
<1> DEFINE weighed == Weighed(mode, p, profile, approvals)
<1>1. ModeRules(mode, p, weighed) \in Decisions
  BY WeighedIsTyped, ModesKeepDecisions
<1> QED
  BY <1>1 DEF Evaluate, Tracked, Weighed, Decision, Decisions

\* a tool is of one family only
LEMMA OneFamilyDecides ==
    ASSUME NEW p, NEW mode, NEW profile, NEW approvals
    PROVE  /\ p.tool \in RunTools => ToolDecision(mode, p, profile, approvals) = RunDecision(p, profile, approvals)
           /\ p.tool \in NetworkTools => ToolDecision(mode, p, profile, approvals) = NetworkDecision(mode, p)
           /\ p.tool \in GitWriteTools => ToolDecision(mode, p, profile, approvals) = GatedDecision(p)
<1>1. /\ RunTools \cap NetworkTools = {} /\ RunTools \cap (ApplyTools \cup DirectWriteTools \cup GitWriteTools) = {}
      /\ NetworkTools \cap (ApplyTools \cup DirectWriteTools \cup GitWriteTools) = {}
  BY DEF RunTools, NetworkTools, ApplyTools, DirectWriteTools, GitWriteTools
<1>2. p.tool \in RunTools => ToolDecision(mode, p, profile, approvals) = RunDecision(p, profile, approvals)
  BY <1>1 DEF ToolDecision
<1>3. p.tool \in NetworkTools => ToolDecision(mode, p, profile, approvals) = NetworkDecision(mode, p)
  BY <1>1 DEF ToolDecision
<1>4. p.tool \in GitWriteTools => ToolDecision(mode, p, profile, approvals) = GatedDecision(p)
  BY <1>1 DEF ToolDecision
<1> QED
  BY <1>2, <1>3, <1>4

\* a remote write is allowed only if the payload carries the user's answer
LEMMA RemoteToolsAsk ==
    ASSUME NEW p \in Payloads, NEW mode \in Modes, NEW profile \in Modes, NEW approvals,
           ModeRules(mode, p, Weighed(mode, p, profile, approvals)).d = "allow",
           p.tool \in RemoteWriteTools
    PROVE  p.allow
<1> SUFFICES ASSUME ~p.allow PROVE FALSE
  BY DEF Payloads
<1> DEFINE first == ToolDecision(mode, p, profile, approvals)
           base == CheckPermission(mode, p, profile, approvals)
           weighed == Weighed(mode, p, profile, approvals)
<1>1. p.tool \in GitWriteTools /\ p.tool \notin McpTools \cup RunTools \cup NetworkTools
  BY DEF RemoteWriteTools, GitWriteTools, McpTools, RunTools, NetworkTools
<1>2. first.d = "ask" /\ first \in Decisions
  BY <1>1, BasesAreTyped, OneFamilyDecides DEF GatedDecision, Decision
<1>3. \A decision : ~ModeAllows(mode, p, decision)
  BY DEF ModeAllows, LocalEdit, RemoteWriteTools, ApplyTools, DirectWriteTools
<1>4. base.d # "allow"
  BY <1>1, <1>2, <1>3, WhatTheModesAllow DEF CheckPermission
<1>5. weighed.d # "allow" /\ weighed \in Decisions
  BY <1>4, RulesAnswerNoQuestion, WeighedIsTyped
<1> QED
  BY <1>3, <1>5, WhatTheModesAllow

\* and so is a command that pushes, in full_access, without an approval id
LEMMA PushesAsk ==
    ASSUME NEW p \in Payloads, NEW profile \in Modes, NEW approvals,
           ModeRules("full_access", p, Weighed("full_access", p, profile, approvals)).d = "allow",
           p.tool \in RunTools, p.cmd \in Pushes, p.id = NoId
    PROVE  p.allow
<1> DEFINE mode == "full_access"
           first == ToolDecision(mode, p, profile, approvals)
           base == CheckPermission(mode, p, profile, approvals)
           weighed == Weighed(mode, p, profile, approvals)
<1> SUFFICES ASSUME ~p.allow PROVE FALSE
  BY DEF Payloads
<1>1. mode \in Modes /\ p.tool \notin McpTools
  BY DEF Modes, RunTools, McpTools
<1>2. p.cmd \in Commands /\ p.cmd \notin ReadOnly /\ p.cmd # NoCommand /\ ApprovalId(p.cmd) # NoId
  BY PermissionsAssumption DEF ApprovalId, Patterns
<1>3. first \in Decisions /\ first = RunDecision(p, profile, approvals) /\ base = ModeRules(mode, p, first)
  BY <1>1, BasesAreTyped, OneFamilyDecides DEF CheckPermission
<1>4. first.d # "allow" /\ (first.d = "ask" => first.preview = Preview(p.cmd, profile, approvals))
  BY <1>2, <1>3, PreviewsAreTyped DEF RunDecision, Decision
<1>5. weighed \in Decisions /\ weighed.preview = first.preview
  BY <1>1, <1>3, WeighedIsTyped, ModesKeepDecisions
<1>6. first.d = "ask"
  <2>1. CASE first.d = "deny"
    <3>1. base.d = "deny"
      BY <1>3, <2>1 DEF ModeRules
    <3>2. weighed.d = "deny"
      BY <3>1 DEF Weighed, BySelected, BaseStands, Decision
    <3> QED BY <3>2, <1>1, <1>5, WhatTheModesAllow
  <2> QED BY <2>1, <1>3, <1>4 DEF Decisions
<1>7. RemoteWrite(p, weighed)
  <2>1. weighed.preview.cmd = p.cmd
    BY <1>2, <1>4, <1>5, <1>6, PreviewsAreTyped
  <2> QED BY <2>1 DEF RemoteWrite
<1>8. weighed.d # "ask"
  <2>1. SUFFICES ASSUME weighed.d = "ask" PROVE FALSE
    OBVIOUS
  <2>2. ~ModeDenies(mode, p, first) /\ ModeAllows(mode, p, first)
    BY <1>6 DEF ModeDenies, ModeAllows, RunTools, RemoteWriteTools
  <2>3. base.d = "allow"
    BY <1>3, <1>6, <2>2 DEF ModeRules, ByMode, Decisions
  <2>4. Selected(p, base).d = "ask"
    BY <2>1, <2>3 DEF Weighed, BySelected, BaseStands, Decision
  <2>5. base \in Decisions
    BY <1>1, WeighedIsTyped
  <2>6. Selected(p, base) \in Rules /\ p.tool \in Selected(p, base).tools
    BY <2>3, <2>4, <2>5, SelectedIsMatched DEF BaseRule
  <2> QED BY <2>4, <2>6, RulesAssumption
<1>9. weighed.d = "allow" /\ ModeGuards(mode, p)
  BY <1>1, <1>5, <1>8, WhatTheModesAllow DEF ModeGuards
<1> QED
  BY <1>1, <1>5, <1>7, <1>9, WhatTheModesAllow DEF GuardAsks

\* what the modes that write nothing allow
LEMMA ReadOnlyModesAllow ==
    ASSUME NEW p \in Payloads, NEW mode \in {"plan_only", "proposal_only", "auto_readonly"},
           NEW profile \in Modes, NEW approvals,
           ModeRules(mode, p, Weighed(mode, p, profile, approvals)).d = "allow"
    PROVE  /\ p.tool \notin ApplyTools \cup DirectWriteTools \cup GitWriteTools \cup McpTools
           /\ p.tool \in NetworkTools => p.allow \/ p.id # NoId
           /\ p.tool \in RunTools => p.cmd \in ReadOnly
<1> DEFINE first == ToolDecision(mode, p, profile, approvals)
           base == CheckPermission(mode, p, profile, approvals)
           weighed == Weighed(mode, p, profile, approvals)
<1>1. mode \in Modes /\ \A decision : ~ModeAllows(mode, p, decision)
  BY DEF Modes, ModeAllows
<1>2. weighed \in Decisions /\ weighed.d = "allow" /\ ~ModeDenies(mode, p, weighed)
  BY <1>1, WeighedIsTyped, WhatTheModesAllow
<1>3. base.d = "allow"
  BY <1>1, <1>2, RulesAnswerNoQuestion
<1>4. p.tool \notin McpTools /\ base = ModeRules(mode, p, first) /\ first \in Decisions
  BY <1>1, <1>3, BasesAreTyped DEF CheckPermission, Decision
<1>5. first.d = "allow" /\ weighed.preview = first.preview
  <2>1. first.d = "allow"
    BY <1>1, <1>3, <1>4, WhatTheModesAllow
  <2>2. weighed.preview = base.preview /\ base.preview = first.preview
    BY <1>1, <1>4, WeighedIsTyped, ModesKeepDecisions
  <2> QED BY <2>1, <2>2
<1>6. p.tool \notin ApplyTools \cup DirectWriteTools \cup GitWriteTools
  BY <1>2 DEF ModeDenies, Mutates, AutoReadonlyAllows, ApplyTools, DirectWriteTools, GitWriteTools,
              ProposalTools, ReadSearchTools, NetworkTools, StatusDiffTools, CommandTools, RunTools
<1>7. p.tool \in NetworkTools => p.allow
  <2>1. p.tool \in NetworkTools => p.tool \notin RunTools /\ mode # "full_access"
    BY DEF NetworkTools, RunTools
  <2> QED
    BY <1>5, <2>1, OneFamilyDecides DEF NetworkDecision, AllowNetwork, Decision, Payloads
<1>8. p.tool \in RunTools => p.cmd \in ReadOnly
  <2>1. SUFFICES ASSUME p.tool \in RunTools PROVE p.cmd \in ReadOnly
    OBVIOUS
  <2>2. mode # "plan_only" /\ first.preview.readOnly
    BY <1>2, <1>5, <2>1 DEF ModeDenies, Mutates, AutoReadonlyAllows, ProposalTools, ReadSearchTools,
              NetworkTools, StatusDiffTools, CommandTools, RunTools
  <2>3. first.preview = Preview(p.cmd, profile, approvals)
    BY <2>1, <1>5, OneFamilyDecides DEF RunDecision, Decision
  <2> QED
    BY <1>1, <2>2, <2>3, PreviewsAreTyped DEF Payloads
<1> QED
  BY <1>4, <1>6, <1>7, <1>8

----------------------------------------------------------------------------
(* The inductive invariant.                                                 *)
ReadOnlyModes == {"plan_only", "proposal_only", "auto_readonly"}
Owners == {"nobody", "graph", "subagent"}
Signatures == Tools \X (Commands \cup {NoCommand}) \X (Patterns \cup {NoId}) \X BOOLEAN

TurnTyped ==
    /\ setting \in Modes
    /\ session \in [Patterns -> Risks]
    /\ cancelled \in BOOLEAN
    /\ orch \in [owner : Owners, mode : Modes, denials : SUBSET Signatures]
    /\ turn \in [stage : Stages, payload : Payloads, waits : BOOLEAN]
    /\ effect \in [kind : Effects, payload : Payloads, setting : Modes, mode : Modes]
    /\ calls \in Nat /\ meanwhile \in Nat

\* what a payload carries of the user's answers, the user has given
Answered(p) ==
    /\ p.cmd # NoCommand => p.tool \in CommandTools
    /\ p.id # NoId => p.tool \in RunTools /\ Granted(CommandTools, p.id)
    /\ p.allow /\ p.cmd # NoCommand => p.id # NoId
    /\ p.allow /\ p.tool \notin CommandTools => Granted({p.tool}, NoId)
    /\ p.remember /\ p.cmd # NoCommand => p.id = ApprovalId(p.cmd)

\* and what is remembered of a command that is not read-only
SessionAnswered == \A q \in Patterns : session[q] = "medium" => Granted(CommandTools, q)

\* what a decision "allow" has left possible
Decided(mode, p) ==
    /\ p.tool \in RemoteWriteTools => p.allow
    /\ mode = "full_access" /\ p.tool \in RunTools /\ p.cmd \in Pushes /\ p.id = NoId => p.allow
    /\ mode \in ReadOnlyModes =>
         /\ p.tool \notin ApplyTools \cup DirectWriteTools \cup GitWriteTools \cup McpTools
         /\ p.tool \in NetworkTools => p.allow \/ p.id # NoId
         /\ p.tool \in RunTools => p.cmd \in ReadOnly

CallDecided == At("call") => Decided(orch.mode, turn.payload)

EffectsHold == RemoteIsApproved /\ CommandIsAuthorised /\ ReadOnlyModesWriteNothing

TurnInv == TurnTyped /\ Answered(turn.payload) /\ SessionAnswered /\ CallDecided /\ EffectsHold

----------------------------------------------------------------------------
\* the constants are what they are assumed to be
LEMMA ProposalsAreTyped ==
    /\ Proposed \subseteq Payloads /\ SubagentTools \subseteq Payloads /\ Rewrites \subseteq Payloads
    /\ NoPayload \in Payloads /\ Quiet \in [kind : Effects, payload : Payloads, setting : Modes, mode : Modes]
    /\ \A c \in Commands : ApprovalId(c) \in Patterns /\ ApprovalId(c) = PatternOf[c] /\ c # NoCommand
                             /\ ApprovalId(c) # NoId
BY ToolTurnAssumption, PermissionsAssumption
   DEF NoPayload, Quiet, Payloads, Tools, ReadSearchTools, Effects, Modes, ApprovalId, Patterns

\* the payload of an allowed call
LEMMA AllowedIsTyped ==
    ASSUME NEW p \in Payloads, NEW remember \in BOOLEAN
    PROVE  AllowedPayload(p, remember) \in Payloads
<1>1. p.cmd # NoCommand => ApprovalId(p.cmd) \in Patterns
  BY ProposalsAreTyped DEF Payloads
<1>2. "run_approved_command" \in Tools
  BY DEF Tools, CommandTools, RunTools
<1> QED
  BY <1>1, <1>2 DEF AllowedPayload, Payloads

\* the beginning of a call
LEMMA BeginIsTyped ==
    ASSUME TurnTyped, NEW p \in Payloads, Begin(p)
    PROVE  /\ turn' \in [stage : Stages, payload : Payloads, waits : BOOLEAN]
           /\ effect' \in [kind : Effects, payload : Payloads, setting : Modes, mode : Modes]
           /\ calls' \in Nat /\ setting' = setting /\ session' = session /\ cancelled' = cancelled
           /\ meanwhile' = meanwhile
BY ProposalsAreTyped DEF TurnTyped, Begin, Stages

\* every step of ToolTurn keeps the types
LEMMA TurnsAreTyped == TurnTyped /\ ToolNext => TurnTyped'
<1> SUFFICES ASSUME TurnTyped, ToolNext PROVE TurnTyped'
  OBVIOUS
<1> USE DEF TurnTyped
<1>1. ASSUME NEW owner \in Owners, Build(owner) PROVE orch' \in [owner : Owners, mode : Modes, denials : SUBSET Signatures]
  BY <1>1 DEF Build
<1>2. CASE GraphAction
  BY <1>1, <1>2, BeginIsTyped, ProposalsAreTyped DEF GraphAction, Owners
<1>3. CASE SubagentStarts
  BY <1>1, <1>3, BeginIsTyped, ProposalsAreTyped DEF SubagentStarts, Owners
<1>4. CASE SubagentStep
  BY <1>4, BeginIsTyped, ProposalsAreTyped DEF SubagentStep
<1>5. CASE UserAllows
  <2>1. PICK remember \in BOOLEAN : Begin(AllowedPayload(turn.payload, remember))
    BY <1>5 DEF UserAllows
  <2>2. AllowedPayload(turn.payload, remember) \in Payloads
    BY AllowedIsTyped
  <2> QED BY <1>1, <1>5, <2>1, <2>2, BeginIsTyped DEF UserAllows, Owners
<1>6. CASE UserDenies
  BY <1>6 DEF UserDenies, End, Stages
<1>7. CASE PreToolHook
  <2>1. \A p \in Rewrites : [p EXCEPT !.allow = turn.payload.allow, !.id = turn.payload.id] \in Payloads
    BY ProposalsAreTyped DEF Payloads
  <2>2. turn' \in [stage : Stages, payload : Payloads, waits : BOOLEAN]
    BY <1>7, <2>1 DEF PreToolHook, End, Stages
  <2> QED BY <1>7, <2>2 DEF PreToolHook
<1>8. CASE Decide
  <2>1. Signature(turn.payload) \in Signatures
    BY DEF Signature, Signatures, Payloads
  <2>2. \A d : Remember(turn.payload, d) \in SUBSET Signatures
    BY <2>1 DEF Remember
  <2>3. orch' \in [owner : Owners, mode : Modes, denials : SUBSET Signatures]
    BY <1>8, <2>2 DEF Decide
  <2>4. turn' \in [stage : Stages, payload : Payloads, waits : BOOLEAN]
    <3>1. Evaluate(orch.mode, turn.payload, CheckPermission(orch.mode, turn.payload, setting, session), orch.denials).d
            \in {"deny", "ask", "allow"}
      BY EvaluatedIsTyped
    <3> QED BY <1>8, <3>1 DEF Decide, End, Stages, Waits
  <2> QED BY <1>8, <2>3, <2>4 DEF Decide
<1>9. CASE Call
  <2>1. turn' \in [stage : Stages, payload : Payloads, waits : BOOLEAN]
    BY <1>9 DEF Call, Stages, PreviewWaits
  <2>2. \A kind \in Effects : Did(kind, turn.payload) =>
          effect' \in [kind : Effects, payload : Payloads, setting : Modes, mode : Modes]
    BY DEF Did
  <2>3. Failed => effect' \in [kind : Effects, payload : Payloads, setting : Modes, mode : Modes]
    BY ProposalsAreTyped DEF Failed
  <2>4. ToolEffect(turn.payload) \in Effects
    BY DEF ToolEffect, Effects, WriteEffect, ApplyEffect, GitEffect
  <2>5. CASE CallRun(turn.payload)
    <3>1. session' \in [Patterns -> Risks]
      BY <2>5 DEF CallRun, RunCommand, Risk, Risks
    <3> QED BY <1>9, <2>1, <2>2, <2>3, <2>5, <3>1 DEF Call, CallRun, RunCommand, Effects
  <2>6. CASE CallTool(turn.payload)
    BY <1>9, <2>1, <2>2, <2>3, <2>4, <2>6 DEF Call, CallTool
  <2> QED BY <1>9, <2>5, <2>6 DEF Call
<1>10. CASE PostToolHook
  BY <1>10 DEF PostToolHook, End, Stages, Waits
<1>11. CASE UpdatePermissionMode
  BY <1>11 DEF UpdatePermissionMode, Meanwhile
<1>12. CASE CommandsRun
  <2>1. \A c \in Commands : [session EXCEPT ![PatternOf[c]] = Risk(c)] \in [Patterns -> Risks]
    BY DEF Risk, Risks, Patterns
  <2>2. session' \in [Patterns -> Risks]
    BY <1>12, <2>1 DEF CommandsRun
  <2> QED BY <1>12, <2>2 DEF CommandsRun, Meanwhile
<1>13. CASE RevokeApproval
  BY <1>13 DEF RevokeApproval, Meanwhile, Risks
<1>14. CASE CancelRun
  BY <1>14 DEF CancelRun, Meanwhile
<1> QED
  BY <1>2, <1>3, <1>4, <1>5, <1>6, <1>7, <1>8, <1>9, <1>10, <1>11, <1>12, <1>13, <1>14 DEF ToolNext

\* what the user has allowed stays in the history
LEMMA GrantsGrow == ToolNext => granted \subseteq granted'
BY DEF ToolNext, GraphAction, SubagentStarts, SubagentStep, UserAllows, UserDenies, PreToolHook, Decide,
       Call, PostToolHook, UpdatePermissionMode, CommandsRun, RevokeApproval, CancelRun, Grant

\* an answer that was given remains given
LEMMA AnswersLast ==
    ASSUME NEW p, Answered(p), granted \subseteq granted'
    PROVE  Answered(p)'
BY DEF Answered, Granted

\* no step puts an answer in a payload that was not given
LEMMA AnswersAreKept == TurnTyped /\ Answered(turn.payload) /\ ToolNext => Answered(turn.payload)'
<1> SUFFICES ASSUME TurnTyped, Answered(turn.payload), ToolNext PROVE Answered(turn.payload)'
  OBVIOUS
<1> DEFINE p == turn.payload
<1>0. granted \subseteq granted' /\ p \in Payloads /\ turn \in [stage : Stages, payload : Payloads, waits : BOOLEAN]
  BY GrantsGrow DEF TurnTyped
<1>1. turn'.payload = p => Answered(turn.payload)'
  BY <1>0, AnswersLast DEF Answered, Granted
<1>2. CASE GraphAction \/ SubagentStarts \/ SubagentStep
  <2>1. turn'.payload \in Proposed \cup SubagentTools
    BY <1>2 DEF GraphAction, SubagentStarts, SubagentStep, Begin
  <2> QED BY <2>1, ToolTurnAssumption DEF Answered
<1>3. CASE UserAllows
  <2>1. PICK remember \in BOOLEAN : turn'.payload = AllowedPayload(p, remember)
    BY <1>3 DEF UserAllows, Begin
  <2>2. <<p.tool, IF p.cmd = NoCommand THEN NoId ELSE PatternOf[p.cmd]>> \in granted'
    BY <1>3 DEF UserAllows, Grant
  <2>3. CASE p.tool \in ApplyTools \cup DirectWriteTools \cup GitWriteTools \cup NetworkTools
    <3>1. turn'.payload = [p EXCEPT !.allow = TRUE]
      BY <2>1, <2>3 DEF AllowedPayload
    <3>2. p.tool \notin CommandTools
      BY <2>3 DEF ApplyTools, DirectWriteTools, GitWriteTools, NetworkTools, CommandTools, RunTools
    <3>3. p.cmd = NoCommand /\ <<p.tool, NoId>> \in granted'
      BY <2>2, <3>2 DEF Answered
    <3> QED BY <1>0, <3>1, <3>2, <3>3 DEF Answered, Granted, Payloads
  <2>4. CASE p.tool \notin ApplyTools \cup DirectWriteTools \cup GitWriteTools \cup NetworkTools
    <3>1. /\ turn'.payload.tool \in RunTools /\ turn'.payload.cmd = p.cmd
          /\ turn'.payload.id = IF p.cmd = NoCommand THEN NoId ELSE ApprovalId(p.cmd)
      BY <1>0, <2>1, <2>4 DEF AllowedPayload, Payloads, RunTools
    <3>2. p.cmd # NoCommand => ApprovalId(p.cmd) = PatternOf[p.cmd] /\ ApprovalId(p.cmd) # NoId /\ p.tool \in CommandTools
      BY <1>0, ProposalsAreTyped DEF Payloads, Answered
    <3> QED BY <2>2, <3>1, <3>2 DEF Answered, Granted, CommandTools
  <2> QED BY <2>3, <2>4
<1>4. CASE PreToolHook
  <2>1. CASE turn'.payload = p
    BY <1>1, <2>1
  <2>2. CASE turn'.payload # p
    <3>1. PICK q \in Rewrites : /\ q.tool = p.tool /\ p.cmd # NoCommand
                                /\ turn'.payload = [q EXCEPT !.allow = p.allow, !.id = p.id]
      BY <1>0, <1>4, <2>2 DEF PreToolHook, End
    <3>2. q \in Payloads /\ ~q.remember /\ q.tool \in CommandTools
      BY <3>1, ToolTurnAssumption DEF Answered
    <3> QED BY <1>0, <3>1, <3>2 DEF Answered, Granted, Payloads
  <2> QED BY <2>1, <2>2
<1>5. CASE UserDenies \/ Decide \/ Call \/ PostToolHook
  BY <1>0, <1>1, <1>5 DEF UserDenies, Decide, Call, PostToolHook, End
<1>6. CASE UpdatePermissionMode \/ CommandsRun \/ RevokeApproval \/ CancelRun
  BY <1>1, <1>6 DEF UpdatePermissionMode, CommandsRun, RevokeApproval, CancelRun, Meanwhile
<1> QED
  BY <1>2, <1>3, <1>4, <1>5, <1>6 DEF ToolNext

\* no step remembers an approval that was not given
LEMMA SessionIsKept == TurnTyped /\ Answered(turn.payload) /\ SessionAnswered /\ ToolNext => SessionAnswered'
<1> SUFFICES ASSUME TurnTyped, Answered(turn.payload), SessionAnswered, ToolNext PROVE SessionAnswered'
  OBVIOUS
<1> DEFINE p == turn.payload
<1>0. granted \subseteq granted' /\ p \in Payloads /\ session \in [Patterns -> Risks]
  BY GrantsGrow DEF TurnTyped
<1>1. session' = session => SessionAnswered'
  BY <1>0 DEF SessionAnswered, Granted
<1>2. CASE Call
  <2>1. CASE session' = session
    BY <1>1, <2>1
  <2>2. CASE session' # session
    <3>1. /\ p.cmd # NoCommand /\ p.remember
          /\ session' = [session EXCEPT ![PatternOf[p.cmd]] = Risk(p.cmd)]
      BY <1>2, <2>2 DEF Call, CallTool, CallRun, RunCommand, MayRun, Preview, Blocked
    <3>2. Granted(CommandTools, PatternOf[p.cmd])
      BY <1>0, <3>1, ProposalsAreTyped DEF Answered, Payloads
    <3> QED BY <1>0, <3>1, <3>2 DEF SessionAnswered, Granted
  <2> QED BY <2>1, <2>2
<1>3. CASE CommandsRun
  <2>1. PICK c \in Commands : /\ <<"run_approved_command", PatternOf[c]>> \in granted'
                              /\ session' \in {session, [session EXCEPT ![PatternOf[c]] = Risk(c)]}
    BY <1>3 DEF CommandsRun
  <2>2. "run_approved_command" \in CommandTools
    BY DEF CommandTools, RunTools
  <2> QED BY <1>0, <2>1, <2>2 DEF SessionAnswered, Granted
<1>4. CASE RevokeApproval
  BY <1>0, <1>4 DEF RevokeApproval, SessionAnswered, Granted
<1>5. CASE GraphAction \/ SubagentStarts \/ SubagentStep \/ UserAllows
  BY <1>1, <1>5 DEF GraphAction, SubagentStarts, SubagentStep, UserAllows, Begin
<1>6. CASE UserDenies \/ PreToolHook \/ Decide \/ PostToolHook
  BY <1>1, <1>6 DEF UserDenies, PreToolHook, Decide, PostToolHook
<1>7. CASE UpdatePermissionMode \/ CancelRun
  BY <1>1, <1>7 DEF UpdatePermissionMode, CancelRun
<1> QED
  BY <1>2, <1>3, <1>4, <1>5, <1>6, <1>7 DEF ToolNext

\* a call has been decided about, and the decision fits it until it is over
LEMMA CallsAreDecided == TurnTyped /\ CallDecided /\ ToolNext => CallDecided'
<1> SUFFICES ASSUME TurnTyped, CallDecided, ToolNext, At("call")' PROVE Decided(orch.mode, turn.payload)'
  BY DEF CallDecided
<1> DEFINE p == turn.payload
<1>1. CASE Decide
  <2> DEFINE base == CheckPermission(orch.mode, p, setting, session)
             decision == Evaluate(orch.mode, p, base, orch.denials)
  <2>1. p \in Payloads /\ orch.mode \in Modes /\ setting \in Modes
    BY DEF TurnTyped
  <2>2. decision.d = "allow"
    <3>1. decision.d \in {"deny", "ask", "allow"}
      BY <2>1, EvaluatedIsTyped
    <3> QED BY <1>1, <3>1 DEF Decide, End, At, Waits, TurnTyped
  <2>3. ModeRules(orch.mode, p, Weighed(orch.mode, p, setting, session)).d = "allow"
    BY <2>1, <2>2, EvaluatedIsTyped
  <2>4. Decided(orch.mode, p)
    <3>1. p.tool \in RemoteWriteTools => p.allow
      BY <2>1, <2>3, RemoteToolsAsk
    <3>2. orch.mode = "full_access" /\ p.tool \in RunTools /\ p.cmd \in Pushes /\ p.id = NoId => p.allow
      BY <2>1, <2>3, PushesAsk
    <3>3. orch.mode \in ReadOnlyModes =>
            /\ p.tool \notin ApplyTools \cup DirectWriteTools \cup GitWriteTools \cup McpTools
            /\ p.tool \in NetworkTools => p.allow \/ p.id # NoId
            /\ p.tool \in RunTools => p.cmd \in ReadOnly
      BY <2>1, <2>3, ReadOnlyModesAllow DEF ReadOnlyModes
    <3> QED BY <3>1, <3>2, <3>3 DEF Decided
  <2>5. orch'.mode = orch.mode /\ turn'.payload = p
    BY <1>1 DEF Decide, End, TurnTyped
  <2> QED BY <2>4, <2>5 DEF Decided
<1>2. CASE UpdatePermissionMode \/ CommandsRun \/ RevokeApproval \/ CancelRun
  BY <1>2 DEF UpdatePermissionMode, CommandsRun, RevokeApproval, CancelRun, Meanwhile, CallDecided, At, Decided
<1>3. CASE GraphAction \/ SubagentStarts \/ SubagentStep \/ UserAllows
  BY <1>3 DEF GraphAction, SubagentStarts, SubagentStep, UserAllows, Begin, At
<1>4. CASE UserDenies \/ PreToolHook \/ Call \/ PostToolHook
  BY <1>4 DEF UserDenies, PreToolHook, Call, PostToolHook, End, At, TurnTyped, Waits
<1> QED
  BY <1>1, <1>2, <1>3, <1>4 DEF ToolNext

\* a step that does nothing to the world breaks no property of the effect
LEMMA EffectsLast ==
    ASSUME EffectsHold, granted \subseteq granted', effect' = effect
    PROVE  EffectsHold'
BY DEF EffectsHold, RemoteIsApproved, CommandIsAuthorised, ReadOnlyModesWriteNothing, Granted

\* and neither does one that forgets it
LEMMA QuietHolds == effect' = Quiet => EffectsHold'
BY DEF Quiet, EffectsHold, RemoteIsApproved, CommandIsAuthorised, ReadOnlyModesWriteNothing

\* a command that runs and is not read-only has an answer for its pattern, or
\* full_access has given it the approval id of a command that is no push
LEMMA CommandsHold ==
    ASSUME TurnInv, At("call"), CallRun(turn.payload), granted \subseteq granted'
    PROVE  EffectsHold'
<1> DEFINE p == turn.payload
           id == IF p.id = NoId /\ orch.mode = "full_access" THEN ApprovalId(p.cmd) ELSE p.id
<1>1. /\ p \in Payloads /\ p.tool \in RunTools /\ Answered(p) /\ Decided(orch.mode, p)
      /\ session \in [Patterns -> Risks] /\ setting \in Modes /\ orch.mode \in Modes
  BY DEF TurnInv, TurnTyped, CallDecided, CallRun
<1>2. CASE MayRun(p.cmd, id)
  <2>1. /\ effect' = [kind |-> IF p.cmd \in ReadOnly THEN "read" ELSE "command", payload |-> p,
                      setting |-> setting, mode |-> orch.mode]
    BY <1>2 DEF CallRun, RunCommand, Did
  <2>2. CASE p.cmd \in ReadOnly
    BY <2>1, <2>2 DEF EffectsHold, RemoteIsApproved, CommandIsAuthorised, ReadOnlyModesWriteNothing
  <2>3. CASE p.cmd \notin ReadOnly
    <3>1. ~Blocked(p.cmd, setting) /\ (id = ApprovalId(p.cmd) \/ Remembered(p.cmd, session))
      BY <1>2, <2>3 DEF MayRun, Preview
    <3>2. p.cmd \in Commands /\ ApprovalId(p.cmd) = PatternOf[p.cmd] /\ ApprovalId(p.cmd) # NoId
          /\ PatternOf[p.cmd] \in Patterns
      BY <1>1, <3>1, ProposalsAreTyped DEF Blocked, Payloads
    <3>3. Remembered(p.cmd, session) => Granted(CommandTools, PatternOf[p.cmd])
      BY <2>3, <3>2 DEF Remembered, Risk, TurnInv, SessionAnswered
    <3>4. p.id = ApprovalId(p.cmd) => Granted(CommandTools, PatternOf[p.cmd])
      BY <1>1, <3>2 DEF Answered
    <3>5. orch.mode = "full_access" \/ Granted(CommandTools, PatternOf[p.cmd])
      BY <3>1, <3>3, <3>4
    <3>6. p.cmd \in Pushes => Granted(CommandTools, PatternOf[p.cmd])
      <4>1. p.cmd \in Pushes /\ orch.mode = "full_access" => p.id # NoId
        BY <1>1, <3>2, PermissionsAssumption DEF Decided, Answered
      <4> QED BY <3>1, <3>3, <3>4, <4>1
    <3>7. orch.mode \notin ReadOnlyModes
      BY <1>1, <2>3 DEF Decided
    <3>8. CommandIsAuthorised'
      BY <2>1, <3>1, <3>5 DEF CommandIsAuthorised, Granted
    <3>9. RemoteIsApproved'
      BY <2>1, <2>3, <3>6 DEF RemoteIsApproved, Granted
    <3>10. ReadOnlyModesWriteNothing'
      BY <2>1, <3>7 DEF ReadOnlyModesWriteNothing, ReadOnlyModes
    <3> QED BY <3>8, <3>9, <3>10 DEF EffectsHold
  <2> QED BY <2>2, <2>3
<1>3. CASE ~MayRun(p.cmd, id)
  BY <1>3, QuietHolds DEF CallRun, RunCommand, Failed
<1> QED BY <1>2, <1>3

\* the tools that run no command do what the decision allows
LEMMA ToolsHold ==
    ASSUME TurnInv, At("call"), CallTool(turn.payload), granted \subseteq granted'
    PROVE  EffectsHold'
<1> DEFINE p == turn.payload
<1>1. /\ p \in Payloads /\ p.tool \notin RunTools \cup McpTools /\ Answered(p) /\ Decided(orch.mode, p)
  BY DEF TurnInv, TurnTyped, CallDecided, CallTool
<1>2. CASE Failed
  BY <1>2, QuietHolds DEF Failed
<1>3. CASE ToolEffect(p) # "none" /\ Did(ToolEffect(p), p)
  <2>1. effect' = [kind |-> ToolEffect(p), payload |-> p, setting |-> setting, mode |-> orch.mode]
    BY <1>3 DEF Did
  <2>2. /\ ToolEffect(p) \in {"none", "edit", "git", "remote", "network"}
        /\ ToolEffect(p) = "remote" => p.tool = "git_push"
        /\ ToolEffect(p) = "network" => p.tool \in NetworkTools
        /\ ToolEffect(p) \in {"edit", "git", "remote"} => p.tool \in ApplyTools \cup DirectWriteTools \cup GitWriteTools
    BY DEF ToolEffect, WriteEffect, ApplyEffect, GitEffect, DirectWriteTools, ApplyTools, GitWriteTools, NetworkTools
  <2>3. ToolEffect(p) = "remote" => Granted({p.tool}, NoId)
    <3>1. p.tool = "git_push" => p.allow /\ p.tool \notin CommandTools
      BY <1>1 DEF Decided, RemoteWriteTools, CommandTools, RunTools
    <3> QED BY <1>1, <2>2, <3>1 DEF Answered
  <2>4. orch.mode \in ReadOnlyModes /\ ToolEffect(p) = "network" => Granted({p.tool}, NoId)
    <3>1. p.tool \in NetworkTools => p.tool \notin CommandTools /\ p.tool \notin RunTools
      BY DEF NetworkTools, CommandTools, RunTools
    <3> QED BY <1>1, <2>2, <3>1 DEF Answered, Decided
  <2>5. orch.mode \in ReadOnlyModes => ToolEffect(p) \in {"none", "network"}
    BY <1>1, <2>2 DEF Decided
  <2>6. RemoteIsApproved'
    BY <2>1, <2>2, <2>3 DEF RemoteIsApproved, Granted
  <2>7. CommandIsAuthorised'
    BY <2>1, <2>2 DEF CommandIsAuthorised
  <2>8. ReadOnlyModesWriteNothing'
    BY <2>1, <2>4, <2>5 DEF ReadOnlyModesWriteNothing, ReadOnlyModes, Granted
  <2> QED BY <2>6, <2>7, <2>8 DEF EffectsHold
<1> QED BY <1>2, <1>3 DEF CallTool

\* every step of ToolTurn keeps the properties of the effect
LEMMA EffectsAreKept == TurnInv /\ ToolNext => EffectsHold'
<1> SUFFICES ASSUME TurnInv, ToolNext PROVE EffectsHold'
  OBVIOUS
<1>0. granted \subseteq granted' /\ EffectsHold
  BY GrantsGrow DEF TurnInv
<1>1. CASE GraphAction \/ SubagentStarts \/ SubagentStep \/ UserAllows
  BY <1>1, QuietHolds DEF GraphAction, SubagentStarts, SubagentStep, UserAllows, Begin
<1>2. CASE Call
  BY <1>0, <1>2, CommandsHold, ToolsHold DEF Call
<1>3. CASE UserDenies \/ PreToolHook \/ Decide \/ PostToolHook
  BY <1>0, <1>3, EffectsLast DEF UserDenies, PreToolHook, Decide, PostToolHook
<1>4. CASE UpdatePermissionMode \/ CommandsRun \/ RevokeApproval \/ CancelRun
  BY <1>0, <1>4, EffectsLast DEF UpdatePermissionMode, CommandsRun, RevokeApproval, CancelRun
<1> QED BY <1>1, <1>2, <1>3, <1>4 DEF ToolNext

\* the invariant of ToolTurn holds at first
LEMMA TurnStarts == ToolInit => TurnInv
<1> SUFFICES ASSUME ToolInit PROVE TurnInv
  OBVIOUS
<1>1. TurnTyped
  BY ProposalsAreTyped DEF ToolInit, TurnTyped, Owners, Stages, Risks
<1>2. Answered(turn.payload)
  BY DEF ToolInit, NoPayload, Answered
<1>3. SessionAnswered /\ CallDecided
  BY DEF ToolInit, SessionAnswered, CallDecided, At
<1>4. EffectsHold
  BY DEF ToolInit, Quiet, EffectsHold, RemoteIsApproved, CommandIsAuthorised, ReadOnlyModesWriteNothing
<1> QED BY <1>1, <1>2, <1>3, <1>4 DEF TurnInv

\* and is kept by every step of it
LEMMA TurnSteps == TurnInv /\ ToolNext => TurnInv'
<1> SUFFICES ASSUME TurnInv, ToolNext PROVE TurnInv'
  OBVIOUS
<1> QED
  BY TurnsAreTyped, AnswersAreKept, SessionIsKept, CallsAreDecided, EffectsAreKept DEF TurnInv

----------------------------------------------------------------------------
(* The registry and the connection.                                         *)
States == {"on", "off", "absent"}
Lines == [kind : {"result", "error", "noise", "request", "closed"}, id : 0..2]
Links == [stage : {"none", "initialize", "tools/call", "closed"}, http : BOOLEAN, asked : SUBSET {1, 2},
          out : Seq(Lines), alive : BOOLEAN, noise : Nat, ran : BOOLEAN,
          said : {"nothing", "executed", "not executed"}, clash : BOOLEAN]

RegistryTyped ==
    /\ file \in [Servers -> States]
    /\ job \in [op : {"none", "enable", "test", "add"}, server : Servers, servers : [Servers -> States]]
    /\ link \in Links

CallsMcp == turn.payload.tool \in McpTools

\* the tool of a server is in the registry by the user's wish, and no call of it
\* goes on without
RegistryInv ==
    /\ RegistryTyped
    /\ \A s \in Servers : file[s] = "on" => s \in wish
    /\ loaded => wanted
    /\ (At("decide") \/ At("call")) /\ CallsMcp => loaded
    /\ OnlyWantedServersRun

\* a server lives as long as its call; the only results it writes for request 2
\* come from the tool
LinkInv ==
    /\ Waiting => At("call") /\ CallsMcp /\ link.said = "nothing"
    /\ link.alive => Waiting
    /\ \A i \in DOMAIN link.out : link.out[i].kind = "result" /\ link.out[i].id = 2 => link.ran
    /\ ExecutedHasRun

McpInv == TurnInv /\ RegistryInv /\ LinkInv

\* a call that has not connected
LEMMA NoLinkIsTyped ==
    /\ NoLink \in Links /\ NoLink.stage = "none" /\ NoLink.out = <<>> /\ ~NoLink.alive /\ NoLink.said = "nothing"
    /\ DOMAIN NoLink.out = {}
BY EmptySeq DEF NoLink, Links

\* the invariant holds at first
LEMMA McpStarts == McpInit => McpInv
<1> SUFFICES ASSUME McpInit PROVE McpInv
  OBVIOUS
<1>1. TurnInv
  BY TurnStarts DEF McpInit
<1>2. RegistryInv
  <2>1. job \in [op : {"none", "enable", "test", "add"}, server : Servers, servers : [Servers -> States]]
    BY McpAssumption DEF McpInit, NoJob, States
  <2>2. file \in [Servers -> States] /\ \A s \in Servers : file[s] = "on" => s \in wish
    BY DEF McpInit, States
  <2> QED
    BY <2>1, <2>2, NoLinkIsTyped
       DEF McpInit, ToolInit, RegistryInv, RegistryTyped, At, OnlyWantedServersRun, Quiet
<1>3. LinkInv
  BY NoLinkIsTyped DEF McpInit, LinkInv, Waiting, ExecutedHasRun
<1> QED BY <1>1, <1>2, <1>3 DEF McpInv


\* what a step of ToolTurn may do to the call of a server's tool: it begins none
\* behind the back of the registry, carries none out, and ends none
LEMMA ToolStepsCallNoServer ==
    ASSUME TurnTyped, ToolNext
    PROVE  /\ effect' # effect => effect'.kind # "external"
           /\ calls' # calls => effect'.kind # "external" /\ ~At("call") /\ ~At("call")' /\ ~At("decide")'
           /\ At("call") /\ CallsMcp => turn' = turn
           /\ At("decide")' \/ At("call")' =>
                (CallsMcp' <=> CallsMcp) /\ (At("hook") \/ At("decide") \/ At("call"))
<1> USE DEF TurnTyped
<1>1. CASE GraphAction \/ SubagentStarts \/ SubagentStep \/ UserAllows
  <2>1. effect' = Quiet /\ turn.stage \in {"done", "waiting"}
    BY <1>1 DEF GraphAction, SubagentStarts, SubagentStep, UserAllows, Begin, At
  <2>2. turn'.stage \in {"done", "hook"}
    BY <1>1 DEF GraphAction, SubagentStarts, SubagentStep, UserAllows, Begin
  <2> QED BY <2>1, <2>2 DEF Quiet, At
<1>2. CASE UserDenies \/ PostToolHook
  BY <1>2 DEF UserDenies, PostToolHook, End, At, Waits, Stages
<1>3. CASE PreToolHook
  <2>1. At("hook") /\ effect' = effect /\ calls' = calls
    BY <1>3 DEF PreToolHook
  <2>2. turn'.payload.tool = turn.payload.tool
    <3>1. \A q \in Rewrites : [q EXCEPT !.allow = turn.payload.allow, !.id = turn.payload.id].tool = q.tool
      BY ProposalsAreTyped DEF Payloads
    <3> QED BY <1>3, <3>1 DEF PreToolHook, End
  <2> QED BY <2>1, <2>2 DEF At, CallsMcp
<1>4. CASE Decide
  <2>1. turn'.payload = turn.payload /\ At("decide") /\ effect' = effect /\ calls' = calls
    BY <1>4 DEF Decide, End
  <2> QED BY <2>1 DEF At, CallsMcp
<1>5. CASE Call
  <2>1. At("call") /\ calls' = calls /\ ~CallsMcp
    BY <1>5 DEF Call, CallRun, CallTool, CallsMcp, RunTools, McpTools
  <2>2. effect'.kind # "external"
    BY <1>5 DEF Call, CallRun, CallTool, RunCommand, Did, Failed, Quiet, ToolEffect, WriteEffect, ApplyEffect, GitEffect
  <2>3. turn'.stage = "post"
    BY <1>5 DEF Call
  <2> QED BY <2>1, <2>2, <2>3 DEF At
<1>6. CASE UpdatePermissionMode \/ CommandsRun \/ RevokeApproval \/ CancelRun
  BY <1>6 DEF UpdatePermissionMode, CommandsRun, RevokeApproval, CancelRun, Meanwhile, At, CallsMcp, Stages
<1> QED
  BY <1>1, <1>2, <1>3, <1>4, <1>5, <1>6 DEF ToolNext

\* a step of ToolTurn keeps the invariant
LEMMA ToolStepsKeep == McpInv /\ ToolStep => McpInv'
<1> SUFFICES ASSUME McpInv, ToolStep PROVE McpInv'
  OBVIOUS
<1>1. TurnTyped /\ RegistryInv /\ LinkInv /\ ToolNext /\ Load /\ UNCHANGED <<file, job, wish>> /\ ~Unknown
  BY DEF McpInv, TurnInv, ToolStep
<1>2. TurnInv'
  BY <1>1, TurnSteps DEF McpInv
<1>3. link' \in {link, NoLink} /\ RegistryTyped'
  BY <1>1, NoLinkIsTyped DEF Load, RegistryInv, RegistryTyped
<1>4. RegistryInv'
  <2>1. loaded' => wanted'
    BY <1>1, McpAssumption DEF Load, RegistryInv, IsEnabled
  <2>2. (At("decide") \/ At("call"))' /\ CallsMcp' => loaded'
    BY <1>1, ToolStepsCallNoServer DEF Load, RegistryInv, Unknown, CallsMcp
  <2>3. OnlyWantedServersRun'
    BY <1>1, ToolStepsCallNoServer DEF Load, RegistryInv, OnlyWantedServersRun
  <2> QED BY <1>1, <1>3, <2>1, <2>2, <2>3 DEF RegistryInv
<1>5. LinkInv'
  <2>1. CASE link' = NoLink
    BY <2>1, NoLinkIsTyped DEF LinkInv, Waiting, ExecutedHasRun
  <2>2. CASE link' = link
    <3>1. Waiting => At("call")' /\ CallsMcp'
      BY <1>1, ToolStepsCallNoServer DEF LinkInv, At, CallsMcp
    <3> QED BY <1>1, <2>2, <3>1 DEF LinkInv, Waiting, ExecutedHasRun
  <2> QED BY <1>3, <2>1, <2>2
<1> QED BY <1>2, <1>4, <1>5 DEF McpInv

\* the steps that touch neither the payload nor what it needs
LEMMA TurnStays ==
    ASSUME TurnInv, UNCHANGED <<setting, session, cancelled, orch, granted, calls>>, meanwhile' \in Nat,
           turn' \in [stage : Stages, payload : Payloads, waits : BOOLEAN], turn'.payload = turn.payload,
           At("call")' => At("call"),
           effect' \in [kind : Effects, payload : Payloads, setting : Modes, mode : Modes], EffectsHold'
    PROVE  TurnInv'
<1>1. TurnTyped'
  BY DEF TurnInv, TurnTyped
<1>2. Answered(turn.payload)' /\ SessionAnswered'
  BY DEF TurnInv, Answered, SessionAnswered, Granted
<1>3. CallDecided'
  BY DEF TurnInv, CallDecided, Decided
<1> QED BY <1>1, <1>2, <1>3 DEF TurnInv

\* a tool that is not registered
LEMMA UnknownToolKeeps == McpInv /\ UnknownTool => McpInv'
<1> SUFFICES ASSUME McpInv, UnknownTool PROVE McpInv'
  OBVIOUS
<1>1. /\ turn' = [turn EXCEPT !.stage = "done"] /\ turn' \in [stage : Stages, payload : Payloads, waits : BOOLEAN]
      /\ turn'.payload = turn.payload /\ turn'.stage = "done" /\ At("hook")
  BY DEF McpInv, TurnInv, TurnTyped, UnknownTool, Unknown, End, Stages
<1>2. EffectsHold'
  BY EffectsLast DEF McpInv, TurnInv, UnknownTool
<1>3. TurnInv'
  BY <1>1, <1>2, TurnStays DEF McpInv, TurnInv, TurnTyped, UnknownTool, At
<1>4. RegistryInv'
  BY <1>1 DEF McpInv, UnknownTool, mcpVars, RegistryInv, RegistryTyped, OnlyWantedServersRun, At
<1>5. LinkInv'
  BY <1>1 DEF McpInv, UnknownTool, mcpVars, LinkInv, Waiting, ExecutedHasRun, At
<1> QED BY <1>3, <1>4, <1>5 DEF McpInv

\* no client of the API enables a server against the user's wish
LEMMA AdministerKeeps == McpInv /\ Administer => McpInv'
<1> SUFFICES ASSUME McpInv, Administer PROVE McpInv'
  OBVIOUS
<1>1. /\ UNCHANGED <<setting, session, cancelled, orch, turn, effect, granted, calls, loaded, link, wanted>>
      /\ meanwhile' \in Nat
  BY DEF Administer, SwitchOff, Discover, DiscoveryFails, WriteBack, Add, DiscoveryEnds, Administers,
         Meanwhile, toolVars, McpInv, TurnInv, TurnTyped
<1>2. TurnInv'
  <2>1. EffectsHold'
    BY <1>1, EffectsLast DEF McpInv, TurnInv
  <2> QED BY <1>1, <2>1, TurnStays DEF McpInv, TurnInv, TurnTyped, At
<1>3. RegistryTyped /\ \A s \in Servers : file[s] = "on" => s \in wish
  BY DEF McpInv, RegistryInv
<1>4. RegistryTyped' /\ (\A s \in Servers : file[s] = "on" => s \in wish)'
  <2>1. CASE \E s \in Servers, state \in {"off", "absent"} : SwitchOff(s, state)
    BY <1>1, <1>3, <2>1 DEF SwitchOff, RegistryTyped, States
  <2>2. CASE \E s \in Servers, op \in {"enable", "test", "add"} : Discover(op, s)
    BY <1>1, <1>3, <2>2 DEF Discover, RegistryTyped, States
  <2>3. CASE DiscoveryFails \/ WriteBack \/ Add
    <3>1. NoJob \in [op : {"none", "enable", "test", "add"}, server : Servers, servers : [Servers -> States]]
      BY McpAssumption DEF NoJob, States
    <3>2. CASE DiscoveryFails
      BY <1>1, <1>3, <3>1, <3>2 DEF DiscoveryFails, DiscoveryEnds, RegistryTyped
    <3>3. CASE WriteBack
      BY <1>1, <1>3, <3>1, <3>3 DEF WriteBack, DiscoveryEnds, RegistryTyped, States
    <3>4. CASE Add
      BY <1>1, <1>3, <3>1, <3>4 DEF Add, DiscoveryEnds, RegistryTyped, States
    <3> QED BY <2>3, <3>2, <3>3, <3>4
  <2> QED BY <2>1, <2>2, <2>3 DEF Administer
<1>5. RegistryInv'
  BY <1>1, <1>4 DEF McpInv, RegistryInv, OnlyWantedServersRun, At, CallsMcp
<1>6. LinkInv'
  BY <1>1 DEF McpInv, LinkInv, Waiting, ExecutedHasRun, At, CallsMcp
<1> QED BY <1>2, <1>5, <1>6 DEF McpInv

\* the effect of a server's tool, and of none
LEMMA ExternalHolds ==
    ASSUME TurnInv, At("call"), CallsMcp,
           (effect' = effect /\ granted' = granted) \/ Did("external", turn.payload)
    PROVE  /\ EffectsHold'
           /\ effect' \in [kind : Effects, payload : Payloads, setting : Modes, mode : Modes]
<1>1. CASE effect' = effect /\ granted' = granted
  BY <1>1, EffectsLast DEF TurnInv, TurnTyped
<1>2. CASE Did("external", turn.payload)
  <2>1. orch.mode \notin ReadOnlyModes
    BY DEF TurnInv, CallDecided, Decided, CallsMcp
  <2>2. effect' = [kind |-> "external", payload |-> turn.payload, setting |-> setting, mode |-> orch.mode]
    BY <1>2 DEF Did
  <2>3. EffectsHold'
    BY <2>1, <2>2 DEF EffectsHold, RemoteIsApproved, CommandIsAuthorised, ReadOnlyModesWriteNothing, ReadOnlyModes
  <2> QED BY <2>2, <2>3 DEF TurnInv, TurnTyped, Effects
<1> QED BY <1>1, <1>2

\* the parts of a step of the call that are the same in all of them
LEMMA CallStays ==
    ASSUME McpInv, At("call"), CallsMcp, Calling,
           effect' = effect \/ Did("external", turn.payload),
           turn' \in {turn, [turn EXCEPT !.stage = "post"]}, link' \in Links
    PROVE  TurnInv' /\ RegistryInv'
<1>1. /\ turn' \in [stage : Stages, payload : Payloads, waits : BOOLEAN] /\ turn'.payload = turn.payload
      /\ turn'.stage \in {"call", "post"}
  BY DEF McpInv, TurnInv, TurnTyped, Stages, At
<1>2. UNCHANGED <<setting, session, cancelled, orch, granted, calls, meanwhile, file, job, loaded, wish, wanted>>
  BY DEF Calling
<1>3. EffectsHold' /\ effect' \in [kind : Effects, payload : Payloads, setting : Modes, mode : Modes]
  BY <1>2, ExternalHolds DEF McpInv
<1>4. TurnInv'
  BY <1>1, <1>2, <1>3, TurnStays DEF McpInv, TurnInv, TurnTyped
<1>5. loaded /\ wanted
  BY DEF McpInv, RegistryInv
<1>6. RegistryInv'
  BY <1>2, <1>5 DEF McpInv, RegistryInv, RegistryTyped, OnlyWantedServersRun
<1> QED BY <1>4, <1>6

\* the end of a call
LEMMA CallEnds ==
    ASSUME NEW what \in {"executed", "not executed"}, NEW l \in Links, Said(what, l), TurnTyped
    PROVE  /\ turn' = [turn EXCEPT !.stage = "post"] /\ effect' = effect /\ link' \in Links
           /\ link'.stage = "closed" /\ link'.out = <<>> /\ ~link'.alive /\ link'.said = what
           /\ link'.http = l.http /\ link'.ran = l.ran /\ link'.clash = l.clash
<1>1. turn' = [turn EXCEPT !.stage = "post"] /\ effect' = effect
  BY DEF Said, End
<1>2. link' = [l EXCEPT !.stage = "closed", !.said = what, !.asked = {}, !.out = <<>>, !.alive = FALSE]
  BY DEF Said
<1>3. <<>> \in Seq(Lines)
  BY EmptySeq
<1> QED BY <1>1, <1>2, <1>3 DEF Links

\* what is written to the lines a client has still to read
LEMMA LinesAreKept ==
    ASSUME NEW out \in Seq(Lines)
    PROVE  /\ \A line \in Lines : /\ Append(out, line) \in Seq(Lines)
                                  /\ \A i \in DOMAIN Append(out, line) :
                                       Append(out, line)[i] = line \/ (i \in DOMAIN out /\ Append(out, line)[i] = out[i])
           /\ out # <<>> => /\ Head(out) = out[1] /\ 1 \in DOMAIN out /\ Tail(out) \in Seq(Lines)
                            /\ \A i \in DOMAIN Tail(out) : i + 1 \in DOMAIN out /\ Tail(out)[i] = out[i + 1]
<1>1. Len(out) \in Nat /\ DOMAIN out = 1 .. Len(out)
  BY LenProperties
<1>2. ASSUME NEW line \in Lines
      PROVE  /\ Append(out, line) \in Seq(Lines)
             /\ \A i \in DOMAIN Append(out, line) :
                  Append(out, line)[i] = line \/ (i \in DOMAIN out /\ Append(out, line)[i] = out[i])
  <2>1. /\ Append(out, line) \in Seq(Lines) /\ Len(Append(out, line)) = Len(out) + 1
        /\ \A i \in 1 .. Len(out) : Append(out, line)[i] = out[i]
        /\ Append(out, line)[Len(out) + 1] = line
    BY AppendProperties
  <2>2. DOMAIN Append(out, line) = 1 .. Len(out) + 1
    BY <2>1, LenProperties
  <2>3. \A i \in 1 .. Len(out) + 1 : i = Len(out) + 1 \/ i \in 1 .. Len(out)
    BY <1>1
  <2>4. \A i \in DOMAIN Append(out, line) :
          Append(out, line)[i] = line \/ (i \in DOMAIN out /\ Append(out, line)[i] = out[i])
    <3>1. ASSUME NEW i \in DOMAIN Append(out, line)
          PROVE  Append(out, line)[i] = line \/ (i \in DOMAIN out /\ Append(out, line)[i] = out[i])
      <4>1. i = Len(out) + 1 \/ i \in 1 .. Len(out)
        BY <2>2, <2>3, <3>1, Zenon
      <4>2. CASE i = Len(out) + 1
        BY <2>1, <4>2, Zenon
      <4>3. CASE i \in 1 .. Len(out)
        BY <1>1, <2>1, <4>3, Zenon
      <4> QED BY <4>1, <4>2, <4>3
    <3> QED BY <3>1, Zenon
  <2> QED BY <2>1, <2>4
<1>3. ASSUME out # <<>>
      PROVE  /\ Head(out) = out[1] /\ 1 \in DOMAIN out /\ Tail(out) \in Seq(Lines)
             /\ \A i \in DOMAIN Tail(out) : i + 1 \in DOMAIN out /\ Tail(out)[i] = out[i + 1]
  <2>1. /\ Tail(out) \in Seq(Lines) /\ Len(Tail(out)) = Len(out) - 1 /\ Len(out) \in Nat \ {0}
        /\ \A i \in 1 .. Len(Tail(out)) : Tail(out)[i] = out[i + 1]
    BY <1>3, HeadTailProperties, EmptySeq
  <2>2. DOMAIN Tail(out) = 1 .. Len(Tail(out))
    BY <2>1, LenProperties
  <2>3. Head(out) = out[1]
    OBVIOUS
  <2> QED BY <1>1, <2>1, <2>2, <2>3
<1> QED BY <1>2, <1>3

Results(l) == \A i \in DOMAIN l.out : l.out[i].kind = "result" /\ l.out[i].id = 2 => l.ran

\* a step of the call that leaves it waiting
LEMMA CallGoesOn ==
    ASSUME McpInv, Calling, turn' = turn, effect' = effect \/ Did("external", turn.payload),
           At("call"), CallsMcp, link' \in Links, Waiting', Results(link'), link'.said = "nothing"
    PROVE  McpInv'
<1>1. (At("call") /\ CallsMcp)'
  BY DEF At, CallsMcp
<1>2. LinkInv'
  BY <1>1 DEF LinkInv, Results, ExecutedHasRun
<1> QED BY <1>2, CallStays DEF McpInv

\* a step that ends it
LEMMA CallIsOver ==
    ASSUME McpInv, Calling, NEW what \in {"executed", "not executed"}, NEW l \in Links, Said(what, l),
           At("call"), CallsMcp, what = "executed" /\ ~l.http => l.ran \/ l.clash
    PROVE  McpInv'
<1>1. TurnTyped
  BY DEF McpInv, TurnInv
<1>2. /\ turn' = [turn EXCEPT !.stage = "post"] /\ effect' = effect /\ link' \in Links
      /\ link'.stage = "closed" /\ link'.out = <<>> /\ ~link'.alive /\ link'.said = what
      /\ link'.http = l.http /\ link'.ran = l.ran /\ link'.clash = l.clash
  BY <1>1, CallEnds
<1>3. DOMAIN link'.out = {}
  <2>1. DOMAIN <<>> = {}
    BY NoLinkIsTyped, Zenon
  <2> QED BY <1>2, <2>1, Zenon
<1>4. LinkInv'
  BY <1>2, <1>3 DEF LinkInv, Waiting, ExecutedHasRun
<1> QED BY <1>2, <1>4, CallStays DEF McpInv

\* the lines a server writes
LEMMA LinesAreTyped ==
    /\ \A id \in {1, 2}, kind \in {"result", "error"} :
         Line(kind, id) \in Lines /\ Line(kind, id).kind = kind /\ Line(kind, id).id = id
    /\ \A line \in {Line("noise", 0), Line("request", 1), Line("request", 2), Line("closed", 0)} :
         line \in Lines /\ line.kind # "result"
BY DEF Line, Lines

\* a server that writes a line
LEMMA WritingKeeps ==
    ASSUME McpInv, link.alive, NEW line \in Lines, NEW l \in Links, Writes(line, l),
           l.stage = link.stage, l.out = link.out, l.ran = link.ran, l.said = link.said,
           line.kind = "result" /\ line.id = 2 => link.ran
    PROVE  McpInv'
<1>1. link.out \in Seq(Lines) /\ Results(link) /\ At("call") /\ CallsMcp /\ Waiting /\ link.said = "nothing"
  BY DEF McpInv, RegistryInv, RegistryTyped, LinkInv, Links, Results
<1>2. link' = [l EXCEPT !.out = Append(@, line)] /\ Calling /\ turn' = turn /\ effect' = effect
  BY DEF Writes
<1>3. Append(l.out, line) \in Seq(Lines)
  BY <1>1, LinesAreKept
<1>4. /\ link' \in Links /\ link'.out = Append(link.out, line) /\ link'.ran = link.ran
      /\ link'.said = link.said /\ link'.stage = link.stage
  BY <1>2, <1>3 DEF Links
<1>5. Results(link')
  <2>1. \A i \in DOMAIN link'.out : link'.out[i] = line \/ (i \in DOMAIN link.out /\ link'.out[i] = link.out[i])
    BY <1>1, <1>4, LinesAreKept
  <2> QED BY <1>1, <1>4, <2>1 DEF Results
<1> QED BY <1>1, <1>2, <1>4, <1>5, CallGoesOn DEF Waiting

\* whatever the server does
LEMMA ServerKeeps == McpInv /\ (ServerAnswers \/ ServerSpeaks \/ ServerCloses \/ ServerRuns) => McpInv'
<1> SUFFICES ASSUME McpInv, ServerAnswers \/ ServerSpeaks \/ ServerCloses \/ ServerRuns PROVE McpInv'
  OBVIOUS
<1>0. /\ link \in Links /\ link.asked \in SUBSET {1, 2} /\ link.noise \in Nat
      /\ link.alive => At("call") /\ CallsMcp /\ Waiting /\ link.said = "nothing"
  BY DEF McpInv, RegistryInv, RegistryTyped, LinkInv, Links
<1>1. CASE ServerAnswers
  <2>1. PICK id \in link.asked, kind \in {"result", "error"} :
          /\ id = 2 /\ kind = "result" => link.ran
          /\ Writes(Line(kind, id), [link EXCEPT !.asked = @ \ {id}])
    BY <1>1 DEF ServerAnswers
  <2> DEFINE l == [link EXCEPT !.asked = @ \ {id}]
  <2>0. link.asked \ {id} \in SUBSET {1, 2}
    BY <1>0
  <2>2. Line(kind, id) \in Lines /\ Line(kind, id).kind = kind /\ Line(kind, id).id = id
    BY <1>0, LinesAreTyped
  <2>3. l \in Links /\ l.stage = link.stage /\ l.out = link.out /\ l.ran = link.ran /\ l.said = link.said
    BY <1>0, <2>0 DEF Links
  <2>4. link.alive
    BY <1>1 DEF ServerAnswers
  <2> QED BY <2>1, <2>2, <2>3, <2>4, WritingKeeps
<1>2. CASE ServerSpeaks
  <2>1. PICK line \in {Line("noise", 0), Line("request", 1), Line("request", 2)} :
          Writes(line, [link EXCEPT !.noise = @ + 1])
    BY <1>2 DEF ServerSpeaks
  <2> DEFINE l == [link EXCEPT !.noise = @ + 1]
  <2>0. link.noise + 1 \in Nat
    BY <1>0
  <2>2. line \in Lines /\ line.kind # "result"
    BY LinesAreTyped
  <2>3. l \in Links /\ l.stage = link.stage /\ l.out = link.out /\ l.ran = link.ran /\ l.said = link.said
    BY <1>0, <2>0 DEF Links
  <2>4. link.alive
    BY <1>2 DEF ServerSpeaks
  <2> QED BY <2>1, <2>2, <2>3, <2>4, WritingKeeps
<1>3. CASE ServerCloses
  <2> DEFINE l == [link EXCEPT !.alive = FALSE]
  <2>1. Line("closed", 0) \in Lines /\ Line("closed", 0).kind # "result"
    BY LinesAreTyped
  <2>2. l \in Links /\ l.stage = link.stage /\ l.out = link.out /\ l.ran = link.ran /\ l.said = link.said
    BY <1>0 DEF Links
  <2>3. link.alive /\ Writes(Line("closed", 0), l)
    BY <1>3 DEF ServerCloses
  <2> QED BY <2>1, <2>2, <2>3, WritingKeeps
<1>4. CASE ServerRuns
  <2>1. link' = [link EXCEPT !.ran = TRUE] /\ link.alive
    BY <1>4 DEF ServerRuns
  <2>2. link' \in Links /\ link'.ran /\ link'.stage = link.stage /\ link'.said = link.said
    BY <1>0, <2>1 DEF Links
  <2>3. Calling /\ turn' = turn /\ Did("external", turn.payload)
    BY <1>4 DEF ServerRuns
  <2>4. Results(link')
    BY <2>2 DEF Results
  <2> QED BY <1>0, <2>1, <2>2, <2>3, <2>4, CallGoesOn DEF Waiting
<1> QED BY <1>1, <1>2, <1>3, <1>4

\* a client that connects, or posts its one request
LEMMA ConnectingKeeps == McpInv /\ (Start \/ CannotStart \/ Post) => McpInv'
<1> SUFFICES ASSUME McpInv, Start \/ CannotStart \/ Post PROVE McpInv'
  OBVIOUS
<1>0. At("call") /\ CallsMcp /\ Calling
  BY DEF Start, CannotStart, Post, Connecting, CallsMcp
<1>1. CASE Start
  <2>1. link' = [NoLink EXCEPT !.stage = "initialize", !.asked = {1}, !.alive = TRUE]
    BY <1>1 DEF Start
  <2>2. link' \in Links /\ link'.out = NoLink.out /\ link'.said = "nothing" /\ link'.stage = "initialize"
    BY <2>1, NoLinkIsTyped DEF Links
  <2>3. Results(link')
    BY <2>2, NoLinkIsTyped DEF Results
  <2>4. turn' = turn /\ effect' = effect
    BY <1>1 DEF Start
  <2> QED BY <1>0, <2>2, <2>3, <2>4, CallGoesOn DEF Waiting
<1>2. CASE CannotStart
  <2>1. Said("not executed", NoLink)
    BY <1>2 DEF CannotStart, NotExecuted
  <2> QED BY <1>0, <2>1, NoLinkIsTyped, CallIsOver
<1>3. CASE Post
  <2>1. PICK ran \in BOOLEAN, said \in {"executed", "not executed"} :
          /\ End("post")
          /\ link' = [NoLink EXCEPT !.stage = "closed", !.http = TRUE, !.ran = ran, !.said = said]
          /\ IF ran THEN Did("external", turn.payload) ELSE UNCHANGED effect
    BY <1>3 DEF Post
  <2>2. /\ link' \in Links /\ link'.out = NoLink.out /\ ~link'.alive /\ link'.http
        /\ link'.stage = "closed"
    BY <2>1, NoLinkIsTyped DEF Links
  <2>3. LinkInv'
    BY <2>2, NoLinkIsTyped DEF LinkInv, Waiting, ExecutedHasRun
  <2>4. turn' = [turn EXCEPT !.stage = "post"] /\ (effect' = effect \/ Did("external", turn.payload))
    BY <2>1 DEF End
  <2> QED BY <1>0, <2>2, <2>3, <2>4, CallStays DEF McpInv
<1> QED BY <1>1, <1>2, <1>3

\* a client that waits for an answer
LEMMA WaitingKeeps == McpInv /\ (ReadResponse \/ TimesOut) => McpInv'
<1> SUFFICES ASSUME McpInv, ReadResponse \/ TimesOut PROVE McpInv'
  OBVIOUS
<1>0. /\ link \in Links /\ link.out \in Seq(Lines) /\ Results(link) /\ Waiting /\ Calling
      /\ At("call") /\ CallsMcp /\ link.said = "nothing"
  BY DEF McpInv, RegistryInv, RegistryTyped, LinkInv, Links, Results, ReadResponse, TimesOut
<1>1. NotExecuted(link) => McpInv'
  BY <1>0, CallIsOver DEF NotExecuted
<1>2. CASE TimesOut
  BY <1>1, <1>2 DEF TimesOut
<1>3. CASE ReadResponse
  <2> DEFINE line == Head(link.out)
  <2>1. /\ link.out # <<>> /\ line \in Lines
        /\ link.out # <<>> => Tail(link.out) \in Seq(Lines)
    BY <1>0, <1>3, HeadTailProperties DEF ReadResponse
  <2>2. line.kind = "result" /\ line.id = 2 => link.ran
    BY <1>0, <2>1, LinesAreKept DEF Results
  \* the client reads on, having written a request or not
  <2>3. ASSUME NEW stage \in {"initialize", "tools/call"}, NEW asked \in SUBSET {1, 2},
               link' = [link EXCEPT !.stage = stage, !.asked = asked, !.out = Tail(@)],
               turn' = turn, effect' = effect
        PROVE  McpInv'
    <3>1. /\ link' \in Links /\ link'.out = Tail(link.out) /\ link'.ran = link.ran
          /\ link'.said = link.said /\ link'.stage = stage
      BY <1>0, <2>1, <2>3 DEF Links
    <3>2. Results(link')
      BY <1>0, <2>1, <3>1, LinesAreKept DEF Results
    <3> QED BY <1>0, <2>3, <3>1, <3>2, CallGoesOn DEF Waiting
  <2>4. CASE line.kind = "closed"
    BY <1>1, <1>3, <2>4 DEF ReadResponse, Answers
  <2>5. CASE Answers(line) /\ line.kind = "error"
    BY <1>1, <1>3, <2>5 DEF ReadResponse
  <2>6. CASE Answers(line) /\ line.kind # "error" /\ link.stage = "initialize"
    <3>1. CallTheTool
      BY <1>3, <2>6 DEF ReadResponse, Answers
    <3>2. CASE ~link.alive
      BY <1>1, <3>1, <3>2 DEF CallTheTool
    <3>3. CASE link.alive
      <4>1. /\ turn' = turn /\ effect' = effect
            /\ link' = [link EXCEPT !.stage = "tools/call", !.asked = @ \cup {2}, !.out = Tail(@)]
        BY <3>1, <3>3 DEF CallTheTool
      <4>2. link.asked \cup {2} \in SUBSET {1, 2}
        BY <1>0 DEF Links
      <4> QED BY <2>3, <4>1, <4>2
    <3> QED BY <3>2, <3>3
  <2>7. CASE Answers(line) /\ line.kind # "error" /\ link.stage # "initialize"
    <3> DEFINE l == [link EXCEPT !.clash = line.kind = "request"]
    <3>1. Said("executed", l)
      BY <1>3, <2>7 DEF ReadResponse, Answers
    <3>2. l \in Links /\ l.ran = link.ran /\ l.clash = (line.kind = "request")
      BY <1>0 DEF Links
    <3>3. line.id = 2 /\ line.kind \in {"result", "request"}
      BY <2>7 DEF Answers, Request
    <3> QED BY <1>0, <2>2, <3>1, <3>2, <3>3, CallIsOver
  <2>8. CASE ~Answers(line) /\ line.kind # "closed"
    <3>1. turn' = turn /\ effect' = effect /\ link' = [link EXCEPT !.out = Tail(@)]
      BY <1>3, <2>8 DEF ReadResponse
    <3>2. link' = [link EXCEPT !.stage = link.stage, !.asked = link.asked, !.out = Tail(@)]
      BY <1>0, <3>1 DEF Links
    <3>3. link.stage \in {"initialize", "tools/call"} /\ link.asked \in SUBSET {1, 2}
      BY <1>0 DEF Waiting, Links
    <3> QED BY <2>3, <3>1, <3>2, <3>3
  <2> QED BY <2>4, <2>5, <2>6, <2>7, <2>8
<1> QED BY <1>2, <1>3

----------------------------------------------------------------------------
(* Every state a run may reach satisfies the invariant: no length of the run, *)
(* number of servers, commands, hooks or rules breaks it.                    *)
THEOREM McpInvHolds == McpSpec => []McpInv
<1>1. McpInit => McpInv
  BY McpStarts
<1>2. McpInv /\ [McpNext]_<<toolVars, mcpVars>> => McpInv'
  <2> SUFFICES ASSUME McpInv, [McpNext]_<<toolVars, mcpVars>> PROVE McpInv'
    OBVIOUS
  <2>1. CASE ToolStep
    BY <2>1, ToolStepsKeep
  <2>2. CASE UnknownTool
    BY <2>2, UnknownToolKeeps
  <2>3. CASE Administer
    BY <2>3, AdministerKeeps
  <2>4. CASE McpCall
    BY <2>4, ServerKeeps, ConnectingKeeps, WaitingKeeps DEF McpCall
  <2>5. CASE UNCHANGED <<toolVars, mcpVars>>
    <3>1. TurnInv'
      BY <2>5 DEF toolVars, McpInv, TurnInv, TurnTyped, Answered, SessionAnswered, CallDecided, Decided,
                  EffectsHold, RemoteIsApproved, CommandIsAuthorised, ReadOnlyModesWriteNothing, Granted, At
    <3>2. RegistryInv'
      BY <2>5 DEF toolVars, mcpVars, McpInv, RegistryInv, RegistryTyped, OnlyWantedServersRun, CallsMcp, At
    <3>3. LinkInv'
      BY <2>5 DEF toolVars, mcpVars, McpInv, LinkInv, Waiting, ExecutedHasRun, CallsMcp, At
    <3> QED BY <3>1, <3>2, <3>3 DEF McpInv
  <2> QED BY <2>1, <2>2, <2>3, <2>4, <2>5 DEF McpNext
<1> QED BY <1>1, <1>2, PTL DEF McpSpec

(* Whatever rules a policy has and whatever the clients of the API and the    *)
(* hooks do, what is pushed was allowed by the user.                         *)
THEOREM PushesAreApproved == McpSpec => []RemoteIsApproved
<1>1. McpInv => RemoteIsApproved
  BY DEF McpInv, TurnInv, EffectsHold
<1> QED BY <1>1, McpInvHolds, PTL

(* A command runs by an answer for its pattern or in full_access, and by the   *)
(* settings of that moment.                                                  *)
THEOREM CommandsAreAuthorised == McpSpec => []CommandIsAuthorised
<1>1. McpInv => CommandIsAuthorised
  BY DEF McpInv, TurnInv, EffectsHold
<1> QED BY <1>1, McpInvHolds, PTL

(* plan_only, proposal_only and auto_readonly write nothing, whatever the      *)
(* tools, the rules and the servers are.                                     *)
THEOREM ReadOnlyModesHold == McpSpec => []ReadOnlyModesWriteNothing
<1>1. McpInv => ReadOnlyModesWriteNothing
  BY DEF McpInv, TurnInv, EffectsHold
<1> QED BY <1>1, McpInvHolds, PTL

(* However many requests change mcp.json at once, a server that runs a tool   *)
(* was one the user had enabled.                                             *)
THEOREM ServersAreWanted == McpSpec => []OnlyWantedServersRun
<1>1. McpInv => OnlyWantedServersRun
  BY DEF McpInv, RegistryInv
<1> QED BY <1>1, McpInvHolds, PTL

(* However long a server talks, "executed" over stdio means that the tool ran, *)
(* or that the server made a request of its own under the number of the call. *)
THEOREM ExecutedMeansRun == McpSpec => []ExecutedHasRun
<1>1. McpInv => ExecutedHasRun
  BY DEF McpInv, LinkInv
<1> QED BY <1>1, McpInvHolds, PTL
=============================================================================
