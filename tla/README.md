# OpenPatch (RepoOperator) in TLA+

TLA+ models of the local worker of RepoOperator: the Python process that runs a
coding agent on a user's repository, asks the user before it changes anything,
and keeps every run, queue and approval in small JSON files. Paths below are
relative to `src/apps/local-worker/src/repooperator_worker/` (written `W/`)
unless they start with `src/`.

* [1. The system](#1-the-system): parts, state, operations, interactions
* [2. The modules](#2-the-modules): what models what
* [3. The runs](#3-the-runs): what each check shows, and its bounds
* [4. Fairness](#4-fairness)
* [5. The proofs](#5-the-proofs)
* [6. Findings](#6-findings) and [observations](#7-observations)
* [8. What is not modelled](#8-what-is-not-modelled) and [the plan](#9-plan)

To repeat a check: `tlc -config RunRaces.cfg MCRunLifecycle`, and so on for each
run of section 3; `tlapm RunLifecycle_proofs.tla`, and so on for each module of
section 5.

## 1. The system

One worker process serves HTTP (FastAPI; every route is a plain `def`, so each
request has a thread of its own). There is no database and no scheduler: state
is in files that are read and rewritten whole, in the memory of the process,
and in LangGraph's checkpoints.

| Part | Code | State it keeps | Operations |
| --- | --- | --- | --- |
| Run lifecycle | `W/services/agent_run_coordinator.py`, `W/services/event_service.py`, `W/main.py` | `meta.json` (status, pending approval, result), `control.json` (cancel flag, steering), `events.jsonl` of each run; `_RUN_LOCK`; the locals of the stream generator | start (plain or streamed), append event, defer, wait for approval, resume, cancel, steer, list and expire, reap after a restart, prune |
| Message queue | `W/services/agent_run_coordinator.py` | `queue.json` of each thread; `_COORDINATOR_LOCK`; the call stack of nested runs | enqueue, withdraw, steer with a queued message, drain when a run completes |
| Change set | `W/agent_core/change_set.py`, `W/agent_core/apply_change_set.py`, `W/agent_core/graph/nodes/apply.py` | the user's files, the backup directories, the proposal in `meta.json` | validate, ask, answer, apply (rename, delete, modify, create) |
| Agent graph | `W/agent_core/graph/` | the LangGraph state: pending action, pending approval, stop reason, stage, proposal, budgets | one node per step; conditional edges |
| Choice of the action | `W/agent_core/graph_routes.py`, `agentic_loop.py`, `task_policy.py`, `edit_target_selection.py`, `planner.py`, final synthesis | the evidence of the run: actions taken, their results, plan, budget | ask the choosers in turn, gate, run, recover, draft and check the answer |
| Tools and permissions | `W/agent_core/tool_orchestrator.py`, `W/agent_core/tools/`, `W/agent_core/permissions.py`, `W/services/permissions_service.py` | permission mode, denials of an orchestrator | validate, check cancellation, hooks, decide, ask, call |
| Commands | `W/services/command_service.py` | commands remembered for the session | preview, approve, remember, revoke, run |
| MCP servers | `W/services/mcp_service.py`, `W/services/mcp_client.py`, `W/agent_core/mcp.py` | `mcp.json`; one process and pipe per call | add, enable, test, disable, remove, handshake and call |
| Conversation context | `W/services/thread_context_service.py`, `W/agent_core/context_service.py`, `context_packer.py`, `context_budget.py` | the sidecar file of a thread; the cache of context packets | expand a request, remember, collect, pack, update |
| Repository index | `W/agent_core/index/` | a SQLite file per repository | build, refresh, apply a delta, query |
| Repositories | `W/services/repo_service.py`, `git_service.py`, `active_repository.py` | the checkout, `active-repository.json`, the id of the current open | open, clone, check out, branch, commit, push |
| Threads, memory, routines | `W/services/thread_service.py`, ... | one JSON file each | upsert, list, delete |
| HTTP API, web UI, CLI | `W/api/`, `src/apps/web`, `src/packages` | none that is shared | the users' calls |

`PROJECT.json` lists every part with its source files.

How they interact. A request starts a run: `start_run` executes the graph in the
thread of the request, `stream_run` in a background thread, whose events the
generator of the HTTP response reads from `events.jsonl`. The graph reads
`meta.json` and `control.json` at its cancellation checks. When it needs an
approval it is interrupted, the run becomes `waiting_approval` and the thread
ends; a later request resumes the graph from its checkpoint. When a run
completes, its thread drains the conversation's queue by calling `start_run`
for the oldest queued message, which drains again when it completes. Requests
that cancel, steer, list or expire change the same files from their own threads.

What is hard in it:

* `_RUN_LOCK` is taken by `start_active_run`, `append_run_event` and
  `complete_active_run` only. Cancel, steer, wait, expire and prune read a file,
  decide, and write the whole file back. Any two of them may overlap.
* The end of a cancelled stream is handed over from the worker thread to the
  generator through a local variable of the request, and the generator dies
  with its client.
* `resume_approval` leaves the status at `waiting_approval` while it resumes, so
  a second answer, an expiry and a cancellation are accepted at that time.
* The drain is recursive and shared by every run of a conversation.
* An apply writes file after file, without a rollback, next to a user who edits.
* A command, a mode, a remembered approval, an MCP server may change between the
  decision on a call and the call.
* The index, the sidecar and the context cache are read and rewritten while the
  user, the agent and other runs change what they describe.
* Opening a repository is a sequence of git subprocesses that any other request
  may interrupt.
* Nineteen choosers, the model and its gates overrule each other on what to do next.
* The process may stop between any two writes; on start, `reap_orphaned_runs`
  decides which runs were in flight.

What makes each part correct:

* *Run lifecycle*: the run's own threads, and nobody else, end it while they
  execute it; exactly one of them does; the stream ends after that end and does
  end; a status comes with its payload; a run that has ended stays as it is; a
  run that executes, or is cancelled, gets to an end.
* *Queue*: a message is run at most once, in order, never after it was
  withdrawn, and its outcome is recorded.
* *Change set*: no content of the user is lost without a backup, nothing outside
  the proposal is touched, validation and apply agree, a proposal is applied once.
* *Agent graph*: an approval that is granted is used for the action it was asked
  for and for nothing else; a denial stops the run; a commit is offered on good
  work only; the loop reaches its end or the user.
* *Permissions, tools, MCP*: nothing leaves the machine, runs or is written
  without the authority the mode asks for, at the moment it happens; what is
  reported as done was done; a server the user does not want does not run.
* *Choice of the action*: an edit concerns files that were read, it is tried
  before the run ends, nothing is repeated for ever, questions come after
  looking, and the answer claims nothing that did not happen.
* *Index*: its counts are those of its rows, a stale row is noticed, and a query
  that nothing disturbed answers from the tree as it is.
* *Context*: a conversation keeps what it must remember, hands out files of its
  own repository only, and shows fresh texts that fit the model.
* *Repositories*: the newest open decides what is active, answers tell what is
  so, and no branch loses a commit.

`PROJECT.json`, "hazards", lists at their lines the ways these can go wrong.

## 2. The modules

| Module | Models | Checked by |
| --- | --- | --- |
| `RunLifecycle` | one run: its two files, the lock, and every thread that touches them | `MCRunLifecycle`, `RunLifecycle_proofs` |
| `RunPromise` | what the run store promises of a status, abstractly | implemented by `RunLifecycle` (`PromiseSpec`) |
| `MessageQueue` | `queue.json` of one conversation, its drains and requests | `MCMessageQueue`, `Services_proofs` |
| `ChangeSet` | `validate_change_set` and the order of the changes, as operators | used by `ApplyChangeSet` |
| `ApplyChangeSet` | the sandbox check of a proposal, the answers to its approval, the disk, the user, crashes | `MCApplyChangeSet`, `ApplyChangeSet_proofs` |
| `AgentGraph` | the graph of one run: its state, nodes, routes, subgraphs, supervisor, interrupts | `MCAgentGraph`, `AgentGraph_proofs` |
| `Permissions` | the decision on a tool and on a command, as operators | used by `ToolTurn` |
| `ToolTurn` | the turn of a tool call among other clients of the API | extended by `McpTurn` |
| `McpTurn` | `mcp.json`, its clients, and the exchange with a server, composed with `ToolTurn` | `MCToolTurn`, `McpTurn_proofs` |
| `EditTargets` | the files an edit is about, as operators | used by `Chooser` |
| `TaskPolicy` | evidence, recovery, plan and questions, as operators | used by `Chooser` |
| `FinalAnswer` | how the answer is drafted, repaired and checked, as operators | used by `Chooser` |
| `Chooser` | the loop that chooses, runs and answers | `MCChooser`, `Chooser_proofs` |
| `CodebaseIndex` | the index, its operations step by step, and the working tree | `MCCodebaseIndex`, `CodebaseIndex_proofs` |
| `ContextPacker` | budgets and packing of a context, as operators | used by `ThreadContext` |
| `ThreadContext` | what a conversation remembers and a run is shown | `MCThreadContext`, `ThreadContext_proofs` |
| `Repositories` | requests that open or write one checkout | `MCRepositories`, `Services_proofs` |
| `..._proofs` | theorems about the module of that name; `Services_proofs`, about `MessageQueue` and `Repositories` (section 5) | TLAPS |

Definitions whose comment begins with "mutant" are plausible wrong versions of
the definition next to them. No specification uses them; they measure the
properties: with the definition replaced by its mutant, TLC finds the property
violated.

### RunLifecycle

`meta` and `control` are the two JSON files, reduced to what the handlers test:
the status, whether a pending approval and an answer are recorded, the
cancellation flag, whether there is steering not yet consumed. `lock` is
`_RUN_LOCK`. Each thread has a place `pc[t]`, the copy of a file it has read and
not yet written back (`seen[t]`, `seenControl[t]`), and what it is about to
record (`plan[t]`). `deferred`, `events` and `cursor` are the locals and the
input of the generator. A handler that reads, decides and writes back is two
actions, so every overlap of two handlers is a behaviour of the model:

| Code | Actions |
| --- | --- |
| `start_active_run` | `StartRun` |
| graph (external to this module) | `GraphEnds`, `GraphRaises`; `ConsumeRead`, `ConsumeWrite` for `consume_steering` |
| `start_run`, `resume_approval` after the graph | `RecordEvents`, then `Wait*` or `Complete*` |
| worker thread of `stream_run` | `EmitEvent`, `EmitSeesCancel`, `EmitFinal`, `DecideTerminal`, `Defer` |
| `wait_for_approval` | `WaitRead`, `WaitWrite`, `AppendLast` |
| `complete_active_run` | `CompleteRead`, `CompleteWrite`, holding the lock between them |
| generator of `stream_run` | `StreamRead`, `StreamSettled`, `StreamTake`, `StreamStatus`, `ClientLeaves` |
| `cancel_run`, `request_run_cancellation` | `CancelCheck`, `ControlRead`, `CancelFlag`, `CancelRead`, `CancelWrite`, `AppendLast` |
| `steer_run` | `SteerCheck`, `ControlRead`, `SteerWrite`, `AppendLast` |
| `get_active_runs`, `_expire_stale_waiting_run` | `ExpireRead`, `ExpireWrite` |
| restart, `reap_orphaned_runs` | `Restart` |

One read or one write of a file is atomic here.

### MessageQueue

Operations under `_COORDINATOR_LOCK` are one action. `steer_run` looks its
message up before and marks it after, so it is two. `stack[d]` is the nesting of
`start_run` inside `_drain_queue_after_run` on thread `d`; `phase[d]` is where
the innermost call is. Only a completed run drains; a cancelled or waiting run
returns to the drain that called it and a failed one raises to it, and each
marks its message as the code does. `started` and `withdrawn` are history
variables for the properties.

### ChangeSet and ApplyChangeSet

A proposal is a set of changes; what the validators find in the *text* of a
change is an attribute of the change, what they find on the *disk* is computed.
`Kind` says whether a path is text, binary, under `.git` or unsafe, and
`Resolved` is what `Path.resolve()` makes of a path, so symbolic links are
there. `Backup` and `Write` are two actions; a user may edit, another answer may
write and the process may stop between them. Contents are tagged by their
origin (`old`, `edit`, `new`) so that the properties can ask where the user's
original went.

Before the approval `CreateWorktree` and `CheckInSandbox` model
`validate_proposal_in_sandbox`: the worktree holds any `HEAD` of the bound, which
need not be what the user's tree holds; the changes are applied to it in their
order; the verdict goes into the proposal. Nobody else knows the worktree, so its
steps are not interleaved with others; validation commands inside it are left
out, as production passes none. `Base` gives a path the model invented the file
it is grounded to.

### AgentGraph

`state` is the LangGraph state, reduced to what some route or node tests. Every
node of `build_repooperator_state_graph` between `route_next` and `END` that is
in scope is an action of the same name, with the subgraph it invokes; the git
subgraph, which is interrupted in its middle, is `GitPropose` and the answer, or
one of `GitCommit`, `GitPush`, `GitReview`. `route_next_node` is six actions,
one per return.

| Code | Definitions |
| --- | --- |
| `routes.py`, the functions `route_after_*` | `AfterToolResult`, `AfterValidation`, `AfterChangePlan`, `AfterApproval`, `AfterResume`, `FinalOrContinue`, `FinalOrAction`, chosen by `RouteByStage` |
| `route_next_node` | `RoutePending`, `RouteStopped`, `RouteBudgetSpent`, `RouteCancelled`, `RouteGit`, `RouteChoose` |
| `ToolOrchestrator.execute_tool`, `_execute_pending_action` | `Results`, `Ran`, `Effect` |
| `await_approval_node` | `Suspend`, then `Allow` or `Deny`; `Granted` is the action an approval becomes |
| nodes of `nodes/*.py` | the action of that name |

An action carries the approval that allows it (`grant`), which is how the
properties know what the user was asked. Fields:

| Field of `state` | Field of `RepoOperatorGraphState` |
| --- | --- |
| `node` | `next_node`, and the edge taken |
| `action`, `approval`, `stop`, `stage` | `pending_action`, kind of `pending_approval`, `stop_reason`, `routing_stage` |
| `last` | status of the latest of `action_results` |
| `proposal`, `repairs`, `apply` | `change_set_proposal`, `repair_attempts`, `apply_status` |
| `selected`, `failing` | `validation_command_selection`, `post_apply_validation_status == "failed"` |
| `git` | `git_workflow`: non-empty, and `commit_proposed` |
| `web` | `_web_research_needed`: fixed by the task, until a web tool was called |
| `turns` | `loop_iteration` |

`DecomposeTask`, `WorkerCalls`, `WorkerReports` and `ReduceWorkReports` are the
supervisor: the work units of a broad task, their dispatch, one bounded loop of
a worker with its own tools, and the return to `route_next` with the chosen
action still pending. `MaxSteps` stands for the worker's budget, and the
deterministic fallback of a worker is one with no call. The tools of external
servers (`mcp_tool`) are in no menu of the graph: section 7 says why.

### Permissions, ToolTurn and McpTurn

`Permissions` computes the decision on a call from a few attributes: the family
of the tool, whether the command is read-only, dangerous, outside of the
repository or a push, the mode, the remembered approvals, the rules of a team,
the denials so far. `Permissions!Evaluate` is the orchestrator's use of it.

`ToolTurn` is one call after another: `GraphAction` or `SubagentStep`, then
`PreToolHook`, `Decide`, `Call`, `PostToolHook`; a question waits for
`UserAllows` or `UserDenies`, after which the graph builds a new orchestrator and
decides again. `UpdatePermissionMode`, `CommandsRun`, `RevokeApproval` and
`CancelRun` are other clients, at any moment. `effect` records what the last
call did with the mode and setting of that moment; `granted` is what the user
has allowed. A hook replaces a command by another command of the same tool;
rules match the name of a tool; provider tools for pull requests fail. What is
proposed carries no decision of the user, no approval id and no wish to remember:
these come from an answer only.

`McpTurn` adds to each step of `ToolTurn` the registry that is loaded from
`mcp.json` when an orchestrator is built (`Load`), the requests that change that
file (`SwitchOff` in one step; `Discover`, `DiscoveryEnds`, `WriteBack` and `Add`
around a discovery that takes time), and the call: `Start`, the handshake, the
call, and `ReadResponse` line by line from a server that may run the tool, answer,
log, make requests of its own and end at any time. One discovery is under way at
a time; a repository's own `mcp.json` and the process tree below a server are
left out; HTTP servers are the one step `Post`.

### EditTargets, TaskPolicy, FinalAnswer and Chooser

`core` is the evidence record (`AgentCoreState`): the request with what the
heuristics recognise in it as attributes, the actions taken and their results,
plan, budget, proposal, stop reason. `Chooser` is the loop: `TakeTurn` with the
budget, the choosers of `graph_routes.py` in their order, the model's proposal and
the gates of `agentic_loop.py`, then one action per kind of tool with every
result it may have, the recovery, the user's answer, and `AnswerUser`.

`FinalAnswer` distinguishes the texts a model may write by what the checks look
for: a plain text, a claim to have edited, a note to itself, a denial to have
read, a placeholder, a claim about the repository without evidence, a text the
repository dictated, and one that leaks the prompt. `Opening` drafts, `Repaired`
validates and rewrites it, and `FinalAnswer` applies the last checks in the order
of `finalization.py`. Texts that the code composes itself are taken not to look
faulty. Steering, the review tool, subagents and the context packet are left out.

The loops of the code over files and candidates are the recursive functions `Keep`
(what is kept of a list, in its order) and `Best` (the ranking), and the first row
of a table (`FirstRow`, `FirstOf`, `FirstUsable`) its chains of early returns.

### CodebaseIndex

`db` is what the connection sees and `saved` what the last commit left, so that
`Restart` and a failing job roll back what was not committed. The index's lock
allows one job at a time; a job takes its items one by one, and indexing one file
is `CheckPasses`, `Stats`, `Hashes`, `Stores`, between which `TreeStep` may write
any file. A content is a member of a small set with its terms and symbols; a
stamp (size and mtime) is a number that every write makes new.

### ContextPacker and ThreadContext

`ThreadContext` follows a run of a conversation from its request to its end:
`Understands` (expansion from the sidecar), `RemembersRead`/`Remembers` and
`UpdateLoads`/`UpdateSaves` (read, merge, and write in place, with the truncated
file in between: `Truncates`), `Keys`, `CollectHit`, `CollectMiss`, `ReadsNamed`
(the cached packet and its fingerprint), the work, and what is packed for the
model, an operator of every working state (`Shown`). `CollectMiss` is always
possible and stands for the TTL, a forced refresh and a change of the active
repository. Requests carry no history of their own and one kind of reference.
`ContextPacker` has the budgets of `context_budget.py` in characters.

### Repositories

git is external: a branch is the set of its commits and one subprocess is one
step, of any of the requests. `current` is the id of the current open, which an
open marks first, tests before it records the active repository, and clears.
Checks that follow each other without a write between them are one step. `Fail`
is a refusal, a timeout, a failing subprocess. Tags, detached heads, deletion of
branches on origin, `record_recent_project` and the read-only routes are left out.

### How they are linked

These modules meet in the code and are linked by what they take from each other. `RunLifecycle` sees a graph that ends, waits or raises
(`GraphEnds`, `GraphRaises`); `AgentGraph` is how it gets there, and sees of the
run its status, with `Suspend` for `WaitWrite` and `Answered` for
`ResumeApproval`. `MessageQueue` sees runs start and end. `ApplyChangeSet` is
what one `apply_change_set` of the graph does to the disk when it is answered
twice, which `RunLifecycle` shows to be possible. `ToolTurn` is what the graph's
`Results` abstracts; `Chooser` is what `RouteChoose` leaves open.

## 3. The runs

| Run | Bounds | Shows |
| --- | --- | --- |
| `RunRaces` | one streamed run, one answer, one cancelling, one steering and one polling request; the client may leave; restarts | `OwnThreadsEndTheRun`, `EndIsOwedOnce`: who may end a run, that one thread at most owes its end and none after `[DONE]`; `StatusHasPayload`: no stale write parts a status from its payload; `PromiseSpec`, the refinement |
| `RunSettling` | the same without the steering request, the client stays | `RunSettles`, `StreamEnds` |
| `StreamHangs` | a streamed run and one cancelling request | a finding, section 6 |
| `QueueRaces` | three messages, two threads that drain, one steering request, two branches, restarts | `RunsAtMostOnce`, `WithdrawnNeverRuns`, `StartedInOrder`, `StartedSettles` |
| `ApplyRaces` | a sandbox of any `HEAD`, two answers, change sets of one or two of eleven changes over six paths, edits of two of the files, crashes | `ValidatedApplies`, `AppliedShows`, `OriginalsAreKept`, `Untouched` |
| `ApplyTwice` | two answers, one or two modifications | a finding, section 6 |
| `GraphRoutes` | five turns, ten kinds of action, two permission modes, any subset of the kinds of task, workers of two steps, cancellations at any step | `AllowRunsWhatWasAsked`, `DeniedRunsNothing`, `GrantIsUsed`, `CommitFollowsGoodApply`, `GraphSettles` |
| `ToolTurns` | three calls of seventeen payloads, or of a subagent's four, two steps of other clients, two MCP servers of which one is enabled, one line of noise | `RemoteIsApproved`, `CommandIsAuthorised`, `ReadOnlyModesWriteNothing`, `OnlyWantedServersRun`, `ExecutedHasRun` |
| `Chooses` | twenty-six requests, a repository of four texts and a picture, any result of every tool, one proposal of a model, one failure | `NothingTwice`, `EndsInTime`, `LooksBeforeAsking`, `TriesTheEdit`, `HonestAnswer`, `EditsWhatWasRead` |
| `IndexFollows` | two source files and a picture, three contents, two writes, an index of at most two files, a commit after every file | `CountsMatch`, `StaleIsNoticed`, `QuietQueryIsFresh` |
| `ContextFollows` | two runs, a repository of four files and another of one, three requests, two models, one write of the user, deletion of the thread or restart | `OnlyOwnFiles`, `RemembersTheConversation`, `PackFits`, `PacketIsFresh` |
| `RepositoryRaces` | three requests, each another of nine jobs, two branches, three commits, others push to one branch | `ActiveIsNewest`, `AnswersTell`, `KeepsCommits` |

Why these bounds. *RunLifecycle*: requests of one kind run the same handler on
the same two files, so what two of a kind can do to each other is what the
worker thread and one of them do; the second answer to an approval is `r1`. The
proofs remove the bound for every property but liveness. *MessageQueue*: three
messages are the least with one running, one queued before and one behind it;
`MaxWaiting` bounds how many runs in a row stop for an approval. *ApplyChangeSet*:
rename onto a deleted or a created file, and the order of two changes, need two
changes and three files; the fourth path lies under `.git`, the fifth is a link,
the sixth is invented. *AgentGraph*: an edit with its repair, application and
check, followed by the commit that is offered for it, takes two turns, its
repetition four; the fifth ends the run. `web`, `task` and the mode are any.
*ToolTurn*: a call that asks, is allowed and runs is one call, its repetition
with a remembered approval a second, a revoked or reclassified one a third; each
needs one or two steps of a client to go wrong (`MaxMeanwhile`). *McpTurn*: an
`enable` and a `disable` that overlap are two requests. *Chooser*: there is one
request for each combination of attributes that some chooser treats differently;
the model's one proposal comes at any turn. The proofs remove these bounds for
four of the five properties. *CodebaseIndex*: a file that changes
during its indexing, and another that is waiting, are two files; a change and
its undoing two writes; `MaxFiles` below the number of files makes the walk stop;
the proofs remove these bounds for all three properties. *ThreadContext*: an
overlap is of two runs; the texts are sized such that one more file no longer
fits. *Repositories*: the one that is overtaken, the newest, and one that writes
between two of its subprocesses are three requests.

Symmetry is used where nothing tells the members apart and no liveness is
checked: the drivers of `ThreadContext`, the requests of `Repositories`.

`CHECK_DEADLOCK FALSE` in the configurations whose system may stop: every answer
has been given and applied, the bounded requests have been made, or the graph is
at its end.

## 4. Fairness

A thread that may go on does: weak fairness on the steps of each handler, drain,
generator and worker thread, and on the node that is next in the graph. What
the user, the client and the process may do (cancel, answer, leave, edit,
restart) is never fair. Two assumptions are stronger. `GraphEnds` has strong
fairness: a graph that is interrupted and steered again and again ends at last,
which is what `AgentGraph` shows of it up to the pending search of section 7.
`UsersRest` says users send finitely many requests to one run: the generator
takes a deferred completion only after a read that found no new event
(`W/services/agent_run_coordinator.py:232-246`), and every request appends one,
so a user who never rests keeps the stream open.

`GraphSettles` exempts a pending search that is not needed (section 7); nothing
else is exempted. `GrantIsUsed` exempts cancelled runs, the ones whose cancellation
was overwritten included. The other modules state no
liveness. That the agent's loop ends needs no fairness to state: `EndsInTime` says
that each step uses up some of a measure of turns, approvals and repairs, so that
whatever goes on does not go on for ever; `RunsAreShort` (section 5) bounds it.

## 5. The proofs

`RunLifecycle_proofs` proves with TLAPS, for every set of threads, from the one
assumption `ThreadsAssumption` (the sets of threads of each kind are disjoint,
and `ClientMayLeave` is a Boolean; TLC evaluates it in every run of the module):

| Theorem | States |
| --- | --- |
| `TypeCorrect` | `Spec => []TypeOK` |
| `InvHolds` | `Spec => [](TypeOK /\ Inv)` |
| `ExclusiveEnd` | `Spec => []EndIsOwedOnce` |
| `OwnEnd` | `Spec => []OwnThreadsEndTheRun` |
| `PayloadHolds` | `Spec => []StatusHasPayload` |
| `KeepsPromise` | `Spec => PromiseSpec`, the refinement |

The argument. `EndIsOwedOnce` alone is not inductive: a thread about to write the
end of a run must be known to be the only one, at every place it passes on the
way. `Inv` is `PlansFit` and `HandOver`. `PlansFit` says that what a thread is
about to record fits its place in the handler, so a write only has outcomes of
its own kind. `HandOver` follows the right to end the run from the worker thread
through `deferred` to the generator: while the run is owned no other thread is
at a place that ends it, a fresh thread owes nothing, and a finished stream has
nothing deferred. Each step either keeps the right where it is, or moves it with
its old owner giving it up in the same step. `StatusHasPayload` and the
refinement need only that each write records status and payload together.

`CodebaseIndex_proofs` proves, for any finite set of files, any contents with any
terms and symbols, and any bounds (`FilesAssumption`, `TextAssumption`,
`BoundAssumption`):

| Theorem | States |
| --- | --- |
| `IndexTyped` | `Spec => []TypeOK` |
| `CountsAlwaysMatch` | `Spec => []CountsMatch` |
| `StaleAlwaysNoticed` | `Spec => []StaleIsNoticed` |
| `QuietQueriesAreFresh` | `Spec => []QuietQueryIsFresh` |

The argument. The counts are inductive with the types: taking a file out of the
rows takes one holder from each of its terms, storing it gives one, and a term's
holders are a finite set (`RemovedCounted`, `StoredCounted`, on which every
action of the index rests). `StaleInv` adds that no stamp (of a file, of a row,
of what a job has noted) is ahead of the clock; a write's stamp is, so a row
written from an earlier reading can never bear the stamp of a later file, and a
row that bears its file's stamp was read after that file's last write. `QuietInv`
says of a job during which nothing was written that each file is still waiting
for its turn or is settled, that is, its row agrees with the file; when the job
answers nothing waits. It needs `StaleInv` for the rows that the refresh skips.


`McpTurn_proofs` proves, of a tool call composed with the servers of `mcp.json`,
for any commands, rules, hooks, proposals and servers:

| Theorem | States |
| --- | --- |
| `McpInvHolds` | `Spec => []McpInv`, the inductive invariant |
| `PushesAreApproved` | `Spec => []RemoteIsApproved` |
| `CommandsAreAuthorised` | `Spec => []CommandIsAuthorised` |
| `ReadOnlyModesHold` | `Spec => []ReadOnlyModesWriteNothing` |
| `ServersAreWanted` | `Spec => []OnlyWantedServersRun` |
| `ExecutedMeansRun` | `Spec => []ExecutedHasRun` |

The assumptions are `PermissionsAssumption`, `RulesAssumption` (every set of rules
has a first one in the order of `evaluate`, and no rule of a team turns the
decision on a command of `full_access` back into a question, which section 7
explains), `ToolTurnAssumption` and `McpAssumption`. The argument begins with what
a decision leaves possible: the rule that is selected matches or is the tool's
own decision (`SelectedIsMatched`), and an "allow" of `evaluate` for a push or for
a server's tool, or in a mode that only reads, rests on an answer of the user or
is of a tool that does neither (`PushesAsk`, `RemoteToolsAsk`,
`ReadOnlyModesAllow`). The invariant then has to say, at every place between the
decision and the effect, that the answer which the payload, the session or the
call carries was given: `Answered`, `SessionAnswered`, `CallDecided`. `RegistryInv`
relates the registry a call was built with to what the user wished when it was
loaded, although `mcp.json` may by then hold something else; `LinkInv` says that
a line which bears the number of the call was written by a server that ran the
tool, or that made a request of its own under this number.

`Services_proofs` proves theorems about two modules that share nothing. Of
`MessageQueue`, for any messages, contexts, threads and steering requests:

| Theorem | States |
| --- | --- |
| `QueueInvHolds` | `QueueSpec => [](QueueInv /\ Held)`, the inductive invariant |
| `RunsOnce` | `QueueSpec => []RunsAtMostOnce` |
| `WithdrawnIsFinal` | `QueueSpec => []WithdrawnNeverRuns` |
| `OrderIsKept` | `QueueSpec => []StartedInOrder` |

The invariant is that of a message that was started or withdrawn none is queued
again (`NeverBack`, against the steering request that writes a status it read
earlier), that the file holds each message once and in the order of its arrival
(`FileKeeps`), and that what still waits stands behind everything of its context
that has started (`Ordered`). `Held` keeps what a steering request or a nested
drain holds from being a message that was never queued.

Of `Repositories`, for any requests, branches and commits:

| Theorem | States |
| --- | --- |
| `NewestIsActive` | `Spec => []ActiveIsNewest` |
| `AnswersAreTrue` | `Spec => []AnswersTell` |
| `CommitsAreKept` | `Spec => KeepsCommits` |

The first needs `Leads`: as long as the newest open works it has the mark and
nobody else is between the test and the write, unless it came there late. The
second needs `TellInv`: for every place of every kind of request, what one that
nobody has disturbed has achieved and read by then (the branch is there, is
checked out, has these commits), and that whoever writes the checkout disturbs
all the others at work. The third needs `Grounded`: who goes to `git checkout -B`
has found the branch missing, and no request gets past the clone of a checkout
that is not there.

`AgentGraph_proofs` proves of the graph, for any menu of actions without
`mcp_tool`, any budgets and any results of the tools:

| Theorem | States |
| --- | --- |
| `GraphInvHolds` | `Spec => []GraphInv`, the inductive invariant |
| `AllowedRuns` | `Spec => AllowRunsWhatWasAsked` |
| `DenialIsFinal` | `Spec => []DeniedRunsNothing` |
| `CommitsAreOffered` | `Spec => CommitFollowsGoodApply` |
| `ApprovalsAreUsed` | `Spec => GrantIsUsed` |

None of them is inductive, since a grant or a denial is used many nodes
after it was given. `GraphTyped` holds, besides the types, that a grant is the
one for what the action does and that a change set is applied on a grant only;
`Placed` says with which pending actions each node can be reached; `Asking`, that
nothing comes between an open question and its interrupt; `Ending`, that after a
denial only the nodes on the way to the answer follow; `Offered`, why the git
workflow was entered. That a grant is used needs to follow it from the answer to
the action: `Questions` says where the graph goes from each question when it is
allowed, `Waits`, that a grant not yet used has its action pending, and
`OnItsWay`, that the graph is at a node from which that action is the next to run.

`ApplyChangeSet_proofs` proves, for any proposals, paths, links between them,
answers, edits and restarts:

| Theorem | States |
| --- | --- |
| `ApplyInvHolds` | `Spec => []ApplyInv`, the inductive invariant |
| `NothingIsLost` | `Spec => OriginalsAreKept` |
| `ChangesTouchTheirOwn` | `Spec => Untouched` |
| `AppliedIsSeen` | `Spec => []AppliedShows` |
| `ValidationIsKept` | `Spec => []ValidatedApplies` |

`ApplyInv` says that whoever is about to write has a change left, and that the
file it works on is an original only if a copy of it exists or the user replaced
it. It survives the write of another answer, since the only write that moves an
original is a rename, which copied it first. That there is a first change at all
needs that a valid proposal names each path once (`ValidIsOneEach`,
`FirstExists`). `ShownInv` adds for `AppliedShows` that renames go where no
change finds a file, which validation sees to (`Apart`). `SureInv` is for
`ValidatedApplies`: the sandbox and the checkout that began alike go through the
same trees as the same changes are applied to them, so what went well in the one
goes well in the other until somebody else writes; it needs that nobody answers
before the approval is asked for.

`ThreadContext_proofs` proves, for any repositories, files, texts, requests,
models and threads of a conversation, from `PackerAssumption` and
`ThreadContextAssumption` (sizes of texts are natural numbers, a repository has
finitely many files, the bounds are numbers):

| Theorem | States |
| --- | --- |
| `ContextIsFresh` | `Spec => []PacketIsFresh` |
| `ConversationIsRemembered` | `Spec => []RemembersTheConversation` |
| `FilesAreOwn` | `Spec => []OnlyOwnFiles` |
| `PacketsFit` | `Spec => []PackFits` |

`FreshInv` ties a cached packet to the texts at the time of its fingerprint, and
what a run read itself to the texts since. `TalkInv` says of the sidecar that it
holds the conversation as far as it was written, or that a writer is in the middle
of it, and of a run that updates it what it loaded. `OwnInv` says that the files
of every stage (the sidecar's record of a repository, what a run expanded,
collected, read, and packs) are of the repository they were recorded for.
`PackFits` is about sums over files of whatever number. `StampInv` gives every
stage finite sets of files, `PackInv` what is packed from them; that a part has no
larger sum than the whole, and that each gathering stays in its budget, is proved
by induction on the number of files, for the concrete set at hand
(`LeastElement`, `NatIsReached`, `PartsAreReached`, `GatheringIsDefined`), since
the library's induction theorems take an operator as a parameter.

`Chooser_proofs` proves of the loop, for any repository, requests, results of
searches, classes of commands and menu of a model's proposals, from
`EditTargetsAssumption` and `ChooserAssumption` (files are listed once per place,
every command has a class, named files are lists, a model names commands that have
a class and only asks in the name of an approval):

| Theorem | States |
| --- | --- |
| `AnswersAreHonest` | `Spec => []HonestAnswer` |
| `LooksFirst` | `Spec => []LooksBeforeAsking` |
| `EditsAreInformed` | `Spec => EditsWhatWasRead` |
| `NothingIsRepeated` | `Spec => NothingTwice` |
| `ChangesAreTried` | `Spec => []TriesTheEdit` |
| `TurnsAreBounded` | `Spec => [](...)`: at most `HardLimit` turns, the plan at one of its steps |
| `RunsEnd` | `Spec => EndsInTime` |
| `RunsAreShort` | `Spec => [](StepsAhead \in 0..(6 * HardLimit + 2))` |
| `LoopTyped` | `Spec => []TypeOK` |

The argument has three parts. What an answer may say is followed through the
tables of `FinalAnswer` (`FirstRowHolds`, to `FinalAnswerIsHonest`): it holds for
every record of a run, so the invariant of `AnswersAreHonest` only has to say that
the answer is given once. What may be chosen: each of the nineteen choosers
proposes nothing, or one of the sorts of actions of `SortOf` with the reason for it
(it gathers evidence; it answers because the choosers are through, `Finishes`; it
asks with `Evidenced`; it edits its own targets, `OwnEdit`; it is the model's and
was `Allowed`), so whatever wins is of such a sort (`ChosenIsSorted`). What a step
does: every step of `Next` chooses, stops, commits, allows, answers or observes a
result that fits its action (`StepsAre`). `RunInv` keeps that the actions and
results of the record fit each other. `LookInv` adds the question to it. `EditInv`
adds that the loop goes on only after a generation that brought changes or named no
file, because a generation counts its files as read without having their contents;
hence before a first or repeated edit what counts as read has contents
(`ReadBeforeEdit`), and targets are read files (`TargetsAreRead`). `TryInv` adds
that an approved write shows, and that a command which waited for the user has run,
is asked about, or runs next: so where `CommandStep` gives up, it failed.

`NothingTwice` is again about the choosers: each proposes nothing, an end, the
model's wish, or something unlike all that was taken (`Fresh`, `ChoosersAreFresh`).
Where a chooser looks for an earlier action of the same type, query or command
itself, that is the test it makes. Where it reads, it rests on the lists of files
being `News`: files of a result, each once, none of them read. For the files that
names stand for and the files found, both recursive, that is shown by induction on
the length of the list (`StaysIn`, `LocatingIsDefined`, `GatheringIsDefined`). A
reading of unread files is new because a successful reading read one of its files
(`NoReadingTwice`), which `RunInv` keeps.

The end of a run: `StepsAhead` counts six for each turn left and adds what is left
of this turn: choosing, running, asking, running what was allowed, answering. A
loop without end could only lie in an approved action that asks again.
`Aware` excludes it: what the user allowed is neither a generation nor a preview,
and no generation is put before the user, so that nothing that was approved waits
(`ChoiceIsNotAllowed`). So every step goes `Forward`: on within its turn, or from
the choice to the next one. The measure starts at 110 and is never negative
(`InBudget`), so a run takes at most 110 steps; since it may also do nothing at
all, that it does end is left to fairness. `LoopTyped` needs of the choosers where
their actions come from (`ChoiceIsOwn`), of the tools that each fault is counted
(`ToolsAreCounted`), and of the tables of `FinalAnswer` that they give a run that
has ended an answer with a text.

The model was changed for these proofs where it could not be reasoned about
(`Keep`, `Best` and `FirstOf` in the place of folds and selections whose operator
is a parameter) and where requests beyond the ones of the run showed it wrong:
`LooksBeforeAsking`, and a property that counted the turns of an edit, had held for
those requests only. Section 7 says which requests these are; three of them are now
in the run.

Model-checked only: the four liveness properties (`RunSettles`, `StreamEnds`,
`StartedSettles`, `GraphSettles`), since fairness and `ENABLED` are out of this
prover's reach. Every other property that a passing run checks is a theorem. What a
recursively defined value is for every input is proved here only by induction over
one concrete set of numbers; an induction principle with a predicate as its
parameter cannot be instantiated.

## 6. Findings

* `SettledStreamCloses` (`StreamHangs`): a stale write of a cancelling request
  can put `cancelling` back over a run that has ended, after which the generator
  of its stream polls for ever.
* `AppliedOnce` (`ApplyTwice`): two answers to one approval both pass the test
  "This proposal has already been applied." and both apply it.

## 7. Observations

What the models or the reading behind them show, beside the two findings.

*Runs and queue.*

* `wait_for_approval` overwrites the status it finds (`agent_run_coordinator.py:451`).
  A cancellation that comes before it is lost, and the approval can be allowed
  and run. In the git workflow the opposite happens: the diff that saw the
  cancellation leaves `cancelled` as the latest result, and an approved commit
  is then dropped on the way to `git_commit`.
* A run in `waiting_approval` that is cancelled becomes `cancelling` and stays so
  until a restart: no thread executes it, `resume_approval` refuses it, and the
  expiry looks at waiting runs only. `event_service.py:153` tells the user that it
  "will stop this run at the next safe checkpoint".
* A cancelled stream whose client leaves stays `cancelling`: its completion was
  a local of the generator.
* The age after which a waiting run expires is measured from its start, while
  the docstring (`event_service.py:283`) speaks of the time it waits.
* Whether the queue is drained is decided on the local status
  (`agent_run_coordinator.py:82`), which may differ from what was recorded.

*Change sets.*

* A denial says "No files were modified." (`nodes/apply.py:80`) also when
  another answer of the same approval is applying the proposal.
* `_safe_target` resolves a path before it asks whether it is a symbolic link
  (`apply_change_set.py:178`), so that test never fires.
* After `generate_edit`, an approved apply writes the files, but a run that ends
  without the offer of a commit is answered "No files were modified in this run.",
  because the generation's own proposal still says `applied: false`
  (`final_synthesis.py:166`, `:584`); `src/tests/golden_traces/approved_change_set_apply.json:41`
  expects `claims_files_applied`.
* The diff of the sandbox does not show files that were created, and a crash
  leaves its worktree, which nothing removes.

*Graph.*

* `route_after_evidence` and `route_after_apply` are never taken: a later node
  has always set another stage before `route_next` reads it.
* An invalid proposal is usually not generated again: the edit subgraph has used
  up the one attempt to repair it.
* `parse_validation_result` drops the stop reason `failed` of an apply that
  failed, so the run goes on after it.
* `git_await_push_approval_node` proposes a push also when the commit failed. A
  commit that is approved within the git subgraph is run by `execute_tool`, so
  the push and review that follow a commit in `git_workflow_graph` are not
  proposed. After an allowed commit the answer is still the preview that "has not
  committed anything" (`nodes/git.py:273`).
* A validation command that asks for its approval only when it is run loses its
  stop reason in `parse_validation_result`; the next chosen action is replaced by
  the approval, or, when the budget is spent, the run ends with it open.
* A pending action is routed before the budget and the cancellation are tested.
* A `search_web` the planner chose, for a task the heuristic does not count as
  web research, is neither executed nor dropped; LangGraph's recursion limit ends
  it with an exception (`nodes/web.py:68`). The comment above (`:55`) describes
  this fault, cured for `fetch_url` only.
* The model may call `validate_change_set` (`tools/registry.py:56`); in the graph
  that action ends at an edge of `validate_change_set` that has no entry for
  `plan_change_set` (`builder.py:186`), and the run fails.
* An allowed approval of a kind that `await_approval_node` does not list becomes
  `run_approved_command` with the approval's command; an MCP tool has none, so the
  tool is not called, although `src/docs/architecture.md:124` says that it is
  invoked after the approval.
* `dispatch_work_units` tests dependencies against the reports from before it, so
  analysis, validation, documentation and git units never run; a worker's question
  to the user is dropped; no edge leads to the node `supervisor`.

*Permissions, tools, MCP.*

* A command whose approval was remembered for the session is previewed as allowed,
  but `RunApprovedCommandTool.check_permission` asks again; the comment at
  `command_service.py:215` says it must not.
* A blocked command's preview needs an approval, which is asked for and, when
  allowed, refused. `headless_safe` says it cannot prompt, yet a preview may wait.
* `accept_edits` allows a change set the model proposes, which is then refused for
  lack of a decision; the edits of the graph itself bring one.
* The remembered approval stands for the first words of a command; a post-tool
  hook that denies reports "skipped" although the effect happened; prior denials
  last as long as one orchestrator.
* `mcp.json` is read, changed and written around a discovery of up to 30 s: `enable`
  and `test` undo what other requests did meanwhile; `add` reads again. A server's
  own request with the number of the pending one is taken as its answer; after a
  timeout the result says it was not executed, though the server may have run it;
  `_drain_stderr` has no timeout of its own. Over HTTP an empty body is a success.
* Two tools with the same slug make `get_default_tool_registry` raise.
* In `full_access` a rule of the kind "ask" for a command tool gets a `git push`
  allowed without an answer: the mode has turned the question about the command
  into "allow", the rule turns it into a question again, and
  `apply_mode_rules_to_decision` allows that one before the guard for remote writes
  is asked (`permissions.py:329`, `:507`), although the comment at
  `permissions.py:505` says "only dangerous REMOTE writes (push / PR / MR) still
  require an explicit decision". The worker builds its policy without rules
  (`tool_orchestrator.py:45`); only tests give it some.

*Choice and answer.*

* The missing-file chooser asks after any search, also one that found candidates.
* A failed command always leads to the recovery's answer, also for a change request;
  the JSON planner has no edit gate.
* A plain request for an edit may use up its eight turns on evidence and stop with
  `max_loop_iterations`, with neither an edit nor a question. Without any fault: the
  request names one file and a URL, and its terms are found weakly in nine
  other files; the agent fetches, reads the named file, lists, searches, reads the
  nine in three turns and the README in one. With one fault: the reading of the named
  file fails, the search of the recovery finds five files or more, and while
  `EditEvidence` proposes the failed file again and again (a repetition, so not
  taken) `SearchCandidateStep` reads one of them a turn. In a repository as small as
  that of the run an edit comes to an end in time, unless it also asks for a command,
  is only a hint in a question, or was already made. No document promises more, so
  what is stated is that a run ends at all (`EndsInTime`), not with what.
* A question that follows up on nothing (no terms, symbols or files) and hints at an
  edit is asked back without any look: `_edit_requested` of `task_policy.py` says no
  edit, `edit_requested` of `planner.py` says one, so neither the follow-up's nor the
  edit's evidence is gathered. "Add a weather widget" holds a term that is off topic
  (`intent.py:97`) and is answered as off topic although it asks for a change.
* The comment at `nodes/finalization.py:207` speaks of scope and meta answers; only
  the off-topic one is applied again. A question of the model's own that is written
  anew is not checked again.

*Index, context, repositories.*

* A file that changes between hash and text and changes back leaves postings that
  stay until its next change (`Torn`). Above `MAX_INDEX_FILES` the refresh drops
  indexed files that exist, as `stat_signature` has no suffix gate, contrary to its
  comment. Updates of mtime only, and removals, are committed by a later job. A file
  whose indexing raises stops every build at it. `built_at_ns` survives a rebuild.
* A conversation that switches its repository forgets its last task; overlapping
  runs lose each other's; a torn write loses the first task as well, which
  "must survive the completion-time rewrite". The fingerprint of the cache has
  neither git status nor commits. A packet keeps its texts after an apply.
  Thread ids with a "." are normalised in two ways.
* An open does not fast-forward an existing branch; one that is overtaken still
  checks out its branch; `git_checkout` leaves the active repository as it is; a
  failed commit leaves the files staged.
* `RoutineStore` is built per request, so its lock excludes nothing;
  `cancel_routine_run` leaves the queued message.

## 8. What is not modelled

`PROJECT.json`, "components", gives the reason for each part. In short: text
(prompts, wording, ranking, patterns of commands and paths) is an input, reduced
to what it is recognised as; HTTP and model providers are a choice of outcomes;
the web UI and the CLI are the users. Checkpoints are LangGraph's own; routines
have no scheduler in the code; settings, IDE bridge and debug routes are a value
read and replaced; the trace harness is test support.

Within the modelled parts: reads and writes of the JSON files of runs and queue
are atomic (the sidecar of a conversation is not); runs are not pruned; threads'
own files (`upsert_thread`) are left out; in the graph, analysis batches, routines
and hooks that block a call are left out, and the file and command budgets are
the loop budget (`Chooser` has all three). Stamps of files never come back to a
value they had. Each module's comment at its head says what else it leaves out.

## 9. Plan

1. *Proofs*: a measure like `StepsAhead` for `AgentGraph`, whose steering and whose
   pending search of section 7 it has to count; for which repositories an edit comes
   to an end within its turns.
2. *Run store*: torn reads of files written in place and `prune_run_history` next
   to `list` and `poll`; an abstract store of whole records that it should implement.
3. *Threads and routines*: the conditional upsert by two requests, the messages a
   routine queues.
4. *Graph*: analysis batches, hooks that block, and `ToolTurn` in the place of
   `Results`.
