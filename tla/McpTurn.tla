------------------------------ MODULE McpTurn ------------------------------
(***************************************************************************)
(* The tools of MCP servers: mcp.json and the clients of the API that       *)
(* change it, the registry a tool call loads from it, and the connection    *)
(* over which the adapter calls the server's tool, composed with ToolTurn.  *)
(*                                                                         *)
(* A server is a process of its own: it reads a request, runs the tool,     *)
(* answers or not, writes lines that are no answer, and ends when it likes. *)
(***************************************************************************)
EXTENDS ToolTurn

CONSTANTS
    Servers,   \* the servers mcp.json may name
    Called,    \* the one whose tool the planner may propose
    Enabled,   \* those that are configured and enabled when the run starts
    MaxNoise   \* bound: the lines of a server that answer nothing

ASSUME McpAssumption == Called \in Servers /\ Enabled \subseteq Servers /\ MaxNoise \in Nat

VARIABLES
    file,    \* mcp.json: what it says of each server
    job,     \* a request that lists a server's tools, and the servers it has read
    loaded,  \* is the tool in the registry of the call?
    link,    \* the connection of the call
    wish,    \* history: the servers the user has enabled since they were last
             \* switched off, or a discovery under way has enabled again
    wanted   \* history: was the called server one of these when the call began?

mcpVars == <<file, job, loaded, link, wish, wanted>>

NoJob == [op |-> "none", server |-> Called, servers |-> [s \in Servers |-> "absent"]]

\* _request counts the ids: the handshake is the first request, the call the second
NoLink == [stage |-> "none", http |-> FALSE, asked |-> {}, out |-> <<>>, alive |-> FALSE,
           noise |-> 0, ran |-> FALSE, said |-> "nothing", clash |-> FALSE]

McpInit ==
    /\ ToolInit
    /\ file = [s \in Servers |-> IF s \in Enabled THEN "on" ELSE "absent"]
    /\ job = NoJob /\ loaded = FALSE /\ link = NoLink
    /\ wish = Enabled /\ wanted = FALSE

----------------------------------------------------------------------------
(* The registry of a call.                                                  *)
\* mcp.json is read again for each orchestrator
IsEnabled(s) == file[s] = "on"

\* an orchestrator is built with the adapters of the servers enabled then; the
\* other tools are always in it
Load ==
    IF calls' # calls
    THEN LET isMcp == turn'.payload.tool \in McpTools IN
         /\ loaded' = (isMcp /\ IsEnabled(Called)) /\ wanted' = (isMcp /\ Called \in wish)
         /\ link' = NoLink
    ELSE /\ UNCHANGED <<loaded, wanted>>
         /\ link' = IF At("post") THEN NoLink ELSE link

\* a tool that is not registered: the action fails before any hook
Unknown == At("hook") /\ turn.payload.tool \in McpTools /\ ~loaded

UnknownTool ==
    /\ Unknown /\ End("done")
    /\ UNCHANGED <<setting, session, cancelled, orch, effect, granted, calls, meanwhile, mcpVars>>

ToolStep == ~Unknown /\ ToolNext /\ Load /\ UNCHANGED <<file, job, wish>>

----------------------------------------------------------------------------
(* The clients of the API.                                                  *)
Administers == Meanwhile /\ UNCHANGED <<setting, session, cancelled, effect, granted, loaded, link, wanted>>

\* disable_mcp_server, remove_mcp_server
SwitchOff(s, state) ==
    /\ Administers
    /\ file[s] \notin {"absent", state}
    /\ file' = [file EXCEPT ![s] = state]
    /\ wish' = wish \ {s}
    /\ UNCHANGED job

\* enable, test and add connect to the server first; enable and test have read
\* mcp.json before, and an unknown server is refused
Discover(op, s) ==
    /\ Administers /\ job = NoJob
    /\ op = "test" => file[s] # "absent"
    /\ job' = [op |-> op, server |-> s, servers |-> file]
    /\ UNCHANGED <<file, wish>>

DiscoveryEnds == UNCHANGED <<toolVars, loaded, link, wanted>> /\ job # NoJob /\ job' = NoJob

\* the server is not there, or answers with an error
DiscoveryFails == DiscoveryEnds /\ UNCHANGED <<file, wish>>

\* the servers as they were read are written back, with the new record
WriteBack ==
    /\ DiscoveryEnds /\ job.op \in {"enable", "test"}
    /\ file' = IF job.op = "test" THEN job.servers ELSE [job.servers EXCEPT ![job.server] = "on"]
    /\ wish' = wish \cup {s \in Servers : file'[s] = "on" /\ (s = job.server \/ file[s] # "on")}

\* mutant: the servers as they were before the discovery are written back
AddWithoutReading ==
    /\ DiscoveryEnds /\ job.op = "add"
    /\ file' = [job.servers EXCEPT ![job.server] = "on"]
    /\ wish' = wish \cup {job.server}

\* add_custom_mcp_server reads mcp.json when it knows the tools
Add ==
    /\ DiscoveryEnds /\ job.op = "add"
    /\ file' = [file EXCEPT ![job.server] = "on"]
    /\ wish' = wish \cup {job.server}

Administer ==
    \/ \E s \in Servers, state \in {"off", "absent"} : SwitchOff(s, state)
    \/ \E s \in Servers, op \in {"enable", "test", "add"} : Discover(op, s)
    \/ DiscoveryFails \/ WriteBack \/ Add

----------------------------------------------------------------------------
(* The connection of a call.                                                *)
Connecting == At("call") /\ turn.payload.tool \in McpTools /\ link.stage = "none"
Waiting == link.stage \in {"initialize", "tools/call"}
Request == IF link.stage = "initialize" THEN 1 ELSE 2

Calling ==
    UNCHANGED <<setting, session, cancelled, orch, granted, calls, meanwhile,
                file, job, loaded, wish, wanted>>

\* MCPToolAdapter.call: "executed" is what the payload of the result says; the
\* server is terminated before
Said(what, l) ==
    /\ End("post")
    /\ link' = [l EXCEPT !.stage = "closed", !.said = what, !.asked = {}, !.out = <<>>, !.alive = FALSE]
    /\ UNCHANGED effect

NotExecuted(l) == Said("not executed", l)

\* Popen and the first request of the handshake
Start ==
    /\ Connecting /\ Calling /\ UNCHANGED <<turn, effect>>
    /\ link' = [NoLink EXCEPT !.stage = "initialize", !.asked = {1}, !.alive = TRUE]

CannotStart == Connecting /\ Calling /\ NotExecuted(NoLink)

\* MCPHttpClient: one POST, whose answer is taken whatever its id
Post ==
    /\ Connecting /\ Calling
    /\ \E ran \in BOOLEAN, said \in {"executed", "not executed"} :
         /\ End("post")
         /\ link' = [NoLink EXCEPT !.stage = "closed", !.http = TRUE, !.ran = ran, !.said = said]
         /\ IF ran THEN Did("external", turn.payload) ELSE UNCHANGED effect

\* what the server does: it runs the tool ...
ServerRuns ==
    /\ link.alive /\ 2 \in link.asked /\ ~link.ran
    /\ Calling /\ UNCHANGED turn
    /\ link' = [link EXCEPT !.ran = TRUE]
    /\ Did("external", turn.payload)

Writes(line, l) ==
    Calling /\ UNCHANGED <<turn, effect>> /\ link' = [l EXCEPT !.out = Append(@, line)]

Line(kind, id) == [kind |-> kind, id |-> id]

\* ... answers a request, with its result or an error ...
ServerAnswers ==
    /\ link.alive
    /\ \E id \in link.asked, kind \in {"result", "error"} :
         /\ id = 2 /\ kind = "result" => link.ran
         /\ Writes(Line(kind, id), [link EXCEPT !.asked = @ \ {id}])

\* ... logs, notifies, answers another's request, or makes one of its own ...
ServerSpeaks ==
    /\ link.alive /\ link.noise < MaxNoise
    /\ \E line \in {Line("noise", 0), Line("request", 1), Line("request", 2)} :
         Writes(line, [link EXCEPT !.noise = @ + 1])

\* ... and closes its output, when the reader thread puts the sentinel
ServerCloses == link.alive /\ Writes(Line("closed", 0), [link EXCEPT !.alive = FALSE])

\* mutant: whatever the server writes next is taken as the answer
AnyLine(line) == line.kind # "closed"

\* what _read_response takes as the answer of a request: it looks at the id only
Answers(line) == line.kind \in {"result", "error", "request"} /\ line.id = Request

\* the handshake is over: the notification and the call are written
CallTheTool ==
    IF link.alive
    THEN /\ UNCHANGED <<turn, effect>>
         /\ link' = [link EXCEPT !.stage = "tools/call", !.asked = @ \cup {2}, !.out = Tail(@)]
    ELSE NotExecuted(link)

ReadResponse ==
    /\ Waiting /\ link.out # <<>> /\ Calling
    /\ LET line == Head(link.out) IN
       CASE line.kind = "closed" -> NotExecuted(link)
         [] Answers(line) /\ line.kind = "error" -> NotExecuted(link)
         [] Answers(line) /\ line.kind # "error" ->
              IF link.stage = "initialize" THEN CallTheTool
              ELSE Said("executed", [link EXCEPT !.clash = line.kind = "request"])
         [] OTHER -> UNCHANGED <<turn, effect>> /\ link' = [link EXCEPT !.out = Tail(@)]

TimesOut == Waiting /\ Calling /\ NotExecuted(link)

McpCall ==
    \/ Start \/ CannotStart \/ Post \/ ReadResponse \/ TimesOut
    \/ ServerRuns \/ ServerAnswers \/ ServerSpeaks \/ ServerCloses

McpNext == ToolStep \/ UnknownTool \/ Administer \/ McpCall

McpSpec == McpInit /\ [][McpNext]_<<toolVars, mcpVars>>
----------------------------------------------------------------------------
(* The tool of a server runs only if the user had the server enabled when    *)
(* the call began, whatever requests were changing mcp.json; only an enable  *)
(* or a test that was under way may have undone a disable.                   *)
OnlyWantedServersRun == effect.kind = "external" => wanted

(* A result that says "executed" over stdio is the server's answer to this    *)
(* call: the tool has run, whatever else the server wrote, however late.     *)
(* Only a request of the server's own with that number may be mistaken.      *)
ExecutedHasRun == link.said = "executed" /\ ~link.http => link.ran \/ link.clash

=============================================================================
