# A formal model of YouMi Agent

YouMi Agent is an asyncio framework for multi-agent applications: a task
gateway accepts work over HTTP, a MasterAgent plans it and hands it to
sub-agents, in its own process or in others, agents talk over a message bus,
call language models and tools through circuit breakers, remember what they
did, and repair and promote their tools after a task; a scheduler wakes agents
periodically, and a GUI lets people converse with a master. This directory holds
TLA+ modules translated from that source, TLC configurations that check them on
small instances, and TLAPS proofs that hold for instances of every size.

Almost everything runs in one event loop. Code between two `await`s that
suspend is therefore one atomic step of the models, and every such `await` is a
place where other coroutines may run, where the code may be cancelled, and where
what was read before may be stale. The actions are cut exactly there. The
exceptions are what runs in threads or processes of its own: the statements of
the tool store and of the global knowledge (worker threads on one SQLite
connection) and isolated sub-agents.

## 1. Inventory of the system

| Component | State it keeps | Operations | Talks to | What is hard |
|---|---|---|---|---|
| Task gateway (`youmi/gateway`) | bounded queue with join counter, bounded registry, worker tasks, event hub (subscribers, closed tasks), SSE generators | submit, start, stop (drain / timeout / cancel), worker loop, publish / subscribe / close, stream | calls the executor; HTTP clients | workers, streams and stop() interleave; queue and registry at their limits; cancellation at every await |
| Gateway executor (`gateway/executor.py`) | MasterAgent per tenant, lock, conversation and sub-agents of each MasterAgent | execute, factory, reset between tasks, aclose | called by workers; owns MasterAgents | lazy construction across an await; lock and cancellation; state surviving from task to task |
| GUI back end (`gui/engine`, `gui/persistence`) | sessions, members, open messages, tool stacks, active session, tracker; `state.json` and a message file per session | create / delete session, add member, send message, tool and stream hooks, restart | MasterAgent, browsers | sessions have a lock each, but share the master, the stacks, the active session and the tracker |
| Resilience (`core/resilience.py`) and its users | breaker state, failure count, half-open slots, retry attempt | before_call, record_success / failure, retry_async | LLM service, tools | results arriving in another state than their call was admitted in; cancelled probes |
| LLM client (`llm/client.py`) | breaker, the response a stream builds | chat, chat_stream | LLM service | a stream that breaks may be retried only while nothing of it was passed on |
| Workflow (`coordinator/plan.py`, `planner.py`, `plan_memory.py`) | dependency graph, layers, step results; plans of earlier tasks and their vectors | validate, get_execution_order, execute; search, adapt, generate, save | model, sub-agents | cycles against diamonds, duplicate dependencies, retries while dependants wait; templates overwritten while being adapted |
| Message broker (`bus/broker.py`) | queues, two membership tables, tenants, pending ACKs, callbacks | subscribe, unsubscribe, create_workflow, publish, wait, ack, close | agents, bus server | publish is suspended by callbacks; tables must agree |
| Bus server (`bus/server.py`) | connections, tenants, push loops | connection handler, push loop, stop | broker, bus clients | overlapping connections of one agent; ACK before send; stop against new clients |
| Bus client (`bus/ws_client.py`) | socket, connected flag, receive and heartbeat tasks | connect, reconnect, disconnect | bus server | attempts that fail half-way, breaks during reconnection |
| Scheduler (`scheduler/__init__.py`) | task table, run counts, loops, running flag | add / remove / enable, start, stop, run_once | one Agent | loops share the Agent; start during stop; names used again |
| Agent core (`core/agent.py`, `core/tool_executor.py`, `core/hooks.py`) | status, iteration, conversation, what waits for an answer | initialize, run, chat_turn(_stream), tool calls, tool requests | LLM client, tools, bus, master | every await may be cancelled or answered late; each tool call needs one answer |
| Tool approval (`mcp/approval.py`, `coordinator/tool_approval.py`) | approval records, review queue | submit, evaluate, approve, deny, listener | agents, master, user | time-out against late answer; two deciders |
| Tool vault, context, bridge, MCP server (`mcp/`) | whitelist, tiers and last use of tools, vault, routes of providers | search, confirmed load, promote, recycle, grant, call, (un)register provider | agents, providers | schemas shown to the model and permissions change at different times |
| MasterAgent and sub-agents (`coordinator/master.py`, `subprocess_agent.py`, `_subprocess_entry.py`) | records and status of sub-agents, processes, the queue of waiters | create, run in place, launch, wait, terminate, reset | bus, child processes | all children answer into one queue; crash, hang, late feedback |
| Memory (`memory/`) | messages, long term, summary, session id; stored sessions | on_message, summarise, compact, save, restore | model, SQLite or files | messages arrive while a summary is written; crash while saving |
| Post-task pipeline and guardian (`coordinator/post_task.py`, `tool_guardian.py`, `fix_strategies.py`) | pending reports, attempts, batch under repair, experiences | collect, report, repair, verify, retry, escalate, promote | bus, tool store, global knowledge, model | runs in the background on what the next task resets; two drivers repair one tool |
| Global knowledge (`knowledge/global_memory.py`) | entries and vectors of all tenants on one connection | add, batch add, mark, delete, search | guardian, pipeline | shared transaction; neighbours taken before the tenant filter |
| Tool store and versions (`mcp/tool_store.py`, `mcp/version_router.py`, `core/versioning.py`) | rows of versions with branch, parent, head flag and date | upsert, create, branch, merge, roll back, promote, mark, delete; get, list, chain, tree, resolve | vault, guardian, pipeline, skill ingest | statements of overlapping calls share the open transaction; several ideas of a head |

`PROJECT.json` lists every component with its status, and under `hazards` the
places where this code is hard to test, with the properties aimed at each. Where the
code does not prevent what can go wrong, the model has it and the properties except
it: the hazard's note says what they except and what they then still show.

## 2. Modules

| Module | Models | State and actions |
|---|---|---|
| `TaskLifecycle` | abstract promise of the gateway | a task's status: submitted once, started at most once, one final outcome |
| `TaskGateway` | `gateway/service, queue, registry, worker, events, api` | submit (`Submit`, `ResumePut`), worker loop (`TakeTask`, `FinishTask`, `WorkerCancelled`), pool (`StartPool`, `StopDrain`, `JoinReturns`, `DrainTimeout`, `CancelWorkers`, `StopNow`, `StopDone`), SSE endpoint (`OpenStream`, `BeginStream`, `ReceiveEvent`, `Disconnect`) |
| `MasterExecutor` | `gateway/executor.py`, reset and destroy of the master, entry of `chat_turn` | `Call`, `FactoryReturns/Raises`, `EnterLock`, `ResetReturns/Raises`, `CreateSubAgent`, `TurnEnds`, `CallCancelled`, `AClose`, `DestroyMaster`, `CloseDone`; the lock is its queue of waiters with the holder at the head |
| `EngineBridge` | `gui/engine/bridge, tracker, hook_bridge`, `gui/persistence/store`, the coordinator's tools | commands of the users, a turn from its lock to its release (`Advance`, `Chunk`, `CallTool`, `SubCall`, `AgentDelta`), `Restart` from what is on disk |
| `MCFrontEnds` | the deployment | either of the two ways to drive a master |
| `CircuitBreaker` | `core/resilience.py` and the call protocol of its users | `Begin`, `Rejected`, `Succeeds`, `AttemptFails`, `BackoffOver`, `CallFails`, `BusinessError`, `Cancelled`, `Reset`, `RecoveryElapses` |
| `LLMClient` | `chat_stream` | EXTENDS `CircuitBreaker`: `Opened`, chunks, `StreamEnds`, `StreamBreaks`, `StreamRetries` superposed on the breaker's own actions |
| `PlanGraph` | `validate`, `_detect_cycle`, `get_execution_order` | the iterations of the depth-first search and of the layering, in any order of the lists |
| `WorkflowResult` | abstract promise of a workflow | one final result per step, after its dependencies', skipped exactly when fail_fast demands it |
| `WorkflowExecutor` | `WorkflowExecutor` | layers, gather or serial loop, attempts, retries, timeouts, cancellation |
| `PlanMemory` | `plan_memory.py` | rows and vectors, the searches, `Upsert` and `SaveVector` |
| `Workflow` | composition: `planner.py`, the conversation of `master.py` | `Search`, `Adapt`, `Ask`, then `PlanGraph` and `WorkflowExecutor` over one plan, `Save`, `Vector`, and other masters that save |
| `MessageBus` | `bus/broker.py` | all operations of `InProcessBroker`; a publish is cut at the callbacks it awaits |
| `BusServer` | `bus/server.py` | EXTENDS `MessageBus`: handlers and push loops drive the broker's own operators |
| `BusClient` | `bus/ws_client.py` | connect, receive loop with reconnection, heartbeat loop, disconnect |
| `MCBusServer` | the deployment | one run for both ends of the WebSocket, which share no state: `end` says which of them a behaviour is of |
| `Scheduler` | `scheduler/__init__.py`, `Agent.initialize`, frame of `Agent.run` | registration, loops, run_once, start, stop, and the Agent status they share |
| `ToolAccess` | `mcp/bridge, context, vault, cone, server, audit_gate, approval` | whitelist, tiers, search, load, recycling, routes, approval records |
| `AgentLoop` | `core/agent.py`, `core/tool_executor.py`, `coordinator/tool_approval.py` | EXTENDS `ToolAccess`: `run`, `chat_turn`, `chat_turn_stream`, tool requests over the bus and the master's listener, cancellation |
| `AgentMemory` | `memory/` | three strategies, compactor, sessions in SQLite or files |
| `SubAgents` | `run_sub_agent`, `subprocess_agent.py`, `_subprocess_entry.py`, the server's queues and push loops | calls in place and isolated, the shared queue of answers, the life of each process, of which an agent may have several, and of the queue its bus id has on the server |
| `MasterRun` | composition: `Agent.run()` of a master | EXTENDS `AgentMemory`, `SubAgents`: `MasterStep` are the steps of the master's event loop (iterations, tool jobs, session end, cancellation), `ChildStep` those of the other processes; restart |
| `GlobalMemory` | `knowledge/global_memory.py` | insert and commit of each writer on one connection, rollback, searches |
| `ToolGuardian` | `tool_guardian.py`, `fix_strategies.py` | EXTENDS `GlobalMemory`: queue, batches, repair, verification, retry, escalation |
| `Evolution` | `post_task.py`, the life cycle of `master.py` | EXTENDS `ToolGuardian`: tasks, their pipelines, promotion |
| `ToolStore` | version tree of `mcp/tool_store.py`, rules of `core/versioning.py` | one action per SQL statement, or run of reads, of each operation; the table as the connection sees it and as committed |
| `ToolStoreReads` | the queries of `tool_store.py`, `version_router.py` | operators over the rows of `ToolStore` |
| other `MC*` | model values for TLC | constants only |
| `*Proofs` | TLAPS proofs | section 6 |

Operators whose name is a definition's name followed by `_` and a word are
*mutants*: plausible bugs of that definition, one for each property.
`PROJECT.json` pairs them; substituting one makes TLC report the property, which
shows that the property depends on that code.

Variables commented *history* record what has happened so that a property can
speak about it; no action's guard reads them.

## 3. What each run checks

All runs let the environment act at any time: cancel, break connections, call
stop(), crash where something is persisted. Most properties in the
configurations are conjunctions of named parts:

| Run | Property | Parts |
|---|---|---|
| Gateway | `PipelineExact` | `TypeOK`, `NoDuplicateWork`, `QueueAccounting` |
| | `ClientsInformed` | `LiveRecordsKept`, `RegistryBound`, `HubConsistent`, `StreamInOrder`, `NoStuckStream`, `EndedStreamSawOutcome` |
| | `DrainLosesNothing`, `LifecycleSpec` | |
| | `Progress` | `TaskFinishes`, `StreamEnds`, `StopReturns` |
| Executor | `TurnsSerialised` | `TypeOK`, `OneTurnAtATime` |
| | `MastersIsolated` | `TenantIsolation`, `FreshSubAgents` |
| | `MastersClosed` | `NoUseAfterDestroy`, `TenantsClosed` |
| | `GuiSound` | `FiledOnce`, `TurnsInOrder`, `StreamsAttended`, `StacksMatch`, `SavedSound`, `CompleteOnce` |
| | `CallReturns`, `TurnsEnd` | |
| Agent | `AccessSound` | `HotIsAllowed`, `HotIsFresh`, `AllowedIsShown`, `RoutesLead`, `ResponsesHonoured` |
| | `ConversationSound`, `DecisionsFinal`, `RunReturns` | |
| Master | `SubAgentsSound` | `WorkersAttended`, `ProcessesServed`, `WaitersMatch`, `InPlaceHonest`, `QuietRunsMatch` |
| | `MemorySound` | `InOrder`, `NewestKept`, `FiledOnce`, `SessionsSound` |
| | `SummariesCover`, `RunEnds` | |
| Evolution | `EvolutionSound` | `ReportsKept`, `AttemptsSound`, `ExperiencesOnce`, `PromotionEarned` |
| | `KnowledgeSound` | `TenantsApart`, `StoredStays`, `ResolvedIsFixed`, `SearchFinds` |
| | `Settles` | |
| Workflow | `ExecutionSound` | `RejectsExactlyBadPlans`, `CycleIsReal`, `LayersCorrect`, `TypeOK`, `FollowsLayers`, `DepsSettled`, `SerialMeansOne`, `AllSettled` |
| | `PlansSound` | `OnlyValidPlans`, `TemplatesKept` |
| | `ImplementsResult`, `Ends` | |
| Breaker | `TripsInTime` | `TypeOK` (with the retry budget), `ClosedMeansHealthy` |
| | `StreamExact` | `ResponseExact`, `GivenOnce` |
| | `SlotsHeld`, `Recovers` | |
| Broker | `BrokerSound` | `TypeOK`, `MembershipAgrees`, `SenderOrder`, `AckTracked`, `TenantIsolation`, `BroadcastStaysInWorkflow` |
| Server | `ServerSound` | `ServerTypeOK`, `MembershipAgrees`, `ConnectedIsServed`, `LoopRuns`, `SameTenant`, `AckedHasArrived`, `CleanAfterStop` |
| | `ServerProgress` | `PushDelivers`, `StopReturns` |
| | `SocketsSound` | `ClientTypeOK`, `ConnectedReceives`, `DisconnectedIsClosed` |
| | `ReconnectSettles` | |
| Scheduler | `SchedulerSound` | `TypeOK` (with max_runs), `OneRunAtATime`, `AgentAvailable`, `StopIsComplete`, `TasksAreScheduled` |
| | `StopEnds`, `WithdrawnStaysOut` | |
| Store | `StoreSound` | `HeadsSound` (`OneHead`, `HeadsAgree`), `HistoryIsTree`, `VersionsAscend`, `StableStays`, `QueriesAgree`, `PathsResolve`, `ContentSound` (`NoWayAroundPromotion`, `PromotionKeepsContent`, `MergeKeepsBoth`), `CallsAtomic` |
| | `HistoryKept` | |
| Heads | `UniqueHead` (TLC refutes it) | |

**Gateway** (2 tasks, 2 workers, 1 stream, queue of 1, registry of 1). The
limits are as small as they can be so that `put` blocks and eviction happens
with two tasks. A record is in one place, the join counter is exact also after
cancellations, a live record is never evicted, the registry is over its limit
only when nothing can be evicted, hub and streams agree, a stream shows statuses
in order and is never left without the terminal signal, and a drain that
completed lost nothing. `EndedStreamSawOutcome` needs its exception: the
endpoint looks the record up when the request arrives and again when the
generator starts; if the task was evicted in between, the stream ends without
showing anything. `LifecycleSpec` is refinement of `TaskLifecycle`.

**Executor** (gateway: 4 calls of 2 tenants; GUI: 3 users and 2 sessions of 2
tenants, 2 sub-agent ids, 1 workflow step, and four budgets of turns, tool calls
and other commands, each an alternative initial state). Gateway: of two
MasterAgents of one tenant built by racing first calls only the cached one is
destroyed by aclose(), and `TenantsClosed` claims no more. GUI: each session's
lock keeps its own turns apart (`TurnsInOrder`), while everything else is shared
by turns of different sessions; the properties state what survives that:
messages are filed once, streams belong to something that runs, the stacks hold
exactly the open tool messages, the disk has what a restart needs. What does not
survive it is listed in section 8.

**Agent** (one agent through `run`, `chat_turn` and `chat_turn_stream`, with and
without a whitelist; a tool it has, an ordinary one and a risky, sensitive one;
one recycling age, 2 iterations, 2 requests, 1 late decision or intervention).
`AccessSound` relates what the model is shown to what the bridge allows, over
loading, recycling, granting, denial and disappearing providers. `AllowedIsShown`
speaks of the tools the vault had when the context was built: the agent's own
tools arrive at `initialize()`, after it, and stay COLD until they are loaded.
`ResponsesHonoured` and `DecisionsFinal` are the race of a request's time-out
with its answer: an agent may read the answer to an earlier request as that to a
later one, and then still holds only tools it may call. `ConversationSound`
excepts what `dangling` names.

**Master** (7 set-ups of strategy, model, backend, in-place and isolated agents, and
bus; 2 processes of each agent at a time; a buffer of 1 message, an interval and a
limit of 3; 2 runs, 1 fault, 1 restart). The bus is absent, has nobody subscribed as
"master" (`deaf`), somebody (`heard`), or its server besides runs in the master's
own event loop (`hosted`). Every working process has a call that waits for it and
every connected one a queue, except where an agent has been called while a process
that a cancelled `launch()` left behind still lived (`doubled`): the run reaches
such a process that works for nobody, and one whose loss captures the server, with
the one fault and the second run. Waiters are exactly the waiting calls, in-place
results are honest; what is recorded of an isolated agent is its own only while no
call overlapped another, timed out or met a fault (`QuietRunsMatch`), since all
answers come through one queue. `SummariesCover` says that no message leaves the
memory for a summary that does not speak of it. The bounds have the interval above
`Buffer + 1`, as the defaults 20 and 10 have (`summary.py:55`), and so reach the
exception of section 8: while one caller waits for its summary, the answer to the
other cuts the list below the interval. `NewestKept` says that what arrives during
the model call is kept.
`RunEnds` holds though children crash, hang or never answer, unless the server's
event loop is the master's and has been captured.

**Evolution** (2 tasks, a known and an unknown tool, batch of 2, 2 attempts, 1
fault, cancellation or act of a user). No report is lost or repaired twice by the
listener and the guardian's own tool, attempts are counted only for open
reports, a sub-agent's calls enter one pipeline's experience, a promotion was
earned. `StoredStays` and `ResolvedIsFixed` except writes that raise: a rollback
on the shared connection takes with it what others have not committed. `Settles`:
again and again nothing is open, and every pipeline has ended.

**Workflow** (every graph over 3 steps, one dependency possibly listed twice, for
`execute()` alone; for conversations a row, a join, a cyclic plan and one with a
repeated id; 3 tasks, 1 retry of a step and of the planner). Algorithms against
reference definitions (a set without a minimal element, the longest path), the
executor against the layers, refinement of `WorkflowResult`, and plans that come
from the memory although others overwrite it. Three steps are the fewest with a
diamond's shared dependency, a cycle behind a tail, and a skipped step's
dependant.

**Breaker** (3 callers, one a stream, 2 cancellable; threshold 2, 2 probes, 1
retry, 2 chunks per attempt). `ClosedMeansHealthy` counts, in a history variable,
consecutive failures from all callers; `SlotsHeld` and `Recovers` except the
half-open periods in which a probe was cancelled. A probe that outlives its
half-open period is not counted in the next one, so more probes may run than
`half_open_max_calls`; the model has this behaviour and no property denies it.
`StreamExact` compares the response with what one attempt sent: nothing of a
failed attempt, tool calls put together by index, no piece given twice.

**Broker** (3 agents, 2 tenants, 2 messages, one workflow and the direct
addresses, one agent with a callback). `BroadcastStaysInWorkflow` excepts agents
that left while publish was suspended and came back: they still receive the
broadcast. Point-to-point messages are delivered whatever the receiver's
workflow.

**Server** (3 connections of 2 agents, one tenant each). The properties name the
exceptions the code has: an agent whose connections overlapped may be
unregistered by the cleanup of the old one, and its push loop then spins without
yielding; a message is acknowledged when it is dequeued, so it is lost when the
connection breaks before the send; joining a further workflow moves an agent to
the default tenant. The client's end (4 sockets, 2 attempts) is checked by the same
run. Its exceptions: an attempt that was dialled and not confirmed leaves its
socket open and `is_connected` true; the heartbeat loop is not restarted after a
reconnection.

**Scheduler** (one name, two jobs for it, two starts, run_once). `WithdrawnStaysOut`: no
loop begins a run of a job that is removed or at that moment disabled, also when the
name has been added again. Exceptions: two
initialisations that overlap let two runs overlap; an exception or cancellation
of `run()` outside its `try` (in on_start, the self-check, the first memory
entry, or after it) leaves the Agent RUNNING or COMPLETED and every later
heartbeat skipped; loops started while stop() waits are forgotten by it; a task
added while the scheduler runs gets no loop.

**Store** (2 callers, 3 calls, definitions of 2 fields, an empty store and one with
a branch). The calls run on worker threads over one connection, so what one
commits or rolls back includes what the other has written. `HistoryKept` and
`NoWayAroundPromotion` hold in spite of that. The other parts speak of calls that
do not overlap (`Alone`) or stores they left in order (`Undisturbed`); without
that premise TLC refutes them: two overlapping create_version clear each other's
flag and leave no head, a UNIQUE failure of one undoes the insertion of the
other, which then returns a tool_id that is not stored, and a merge is based on a
target that has moved. Further exceptions are the code's: delete_tool assigns no
new head; an upsert below the head stores a row that is not flagged and yet is
the latest created, which is what get_tool, get_head_version and create_version
take for the head (`past.lowered`); `bump="major"` takes a candidate to 1.0.0
without promotion. Three calls are enough for a branch, an edit and its merge,
and for a failing call between two statements of another. That a store in order
has a flagged head also excepts `past.lowered`: see **Heads**.

**Heads** (1 caller, 4 calls) is expected to fail. `UniqueHead` is what the comment at
the UPDATE of `upsert_tool` promises, one flagged head on main whenever no call is
under way and nothing was deleted. Section 8 tells the history that breaks it; with
three calls it holds.

Deadlock is not checked: every instance has finitely many tasks, calls,
messages, runs or sockets and really stops when they are used up.

## 4. Bounds and abstractions

Sets of tasks, calls, messages, users and connections are finite and each element
is used once. What callers and the environment may do is bounded by constants
whose comments begin with *bound*: `MaxWorkflows`, `Senders`, `MaxStarts`,
`Manual`, `MaxTimes`, `MaxRepeats`, `MaxCalls`, `Kinds`, `Declared`, `MaxChunks`,
`MaxActs`, `MaxAsks`, `MaxTurns`, `MaxDecisions`, `MaxFaults`, `MaxRuns`,
`MaxJobs`, `MaxRestarts`, `Processes`, `Budgets`. Capacities, thresholds, retry counts and
numbers of attempts are the code's own parameters with small values. Payloads,
prompts, formatting and logging are left out. Durations are abstracted to the
order of events: a timeout may strike whenever it is armed. Counters are cut off
where no test distinguishes their values.

Per module:

- `ToolStore`: a definition is a function from fields to values, since diff and
  merge treat nested documents path by path; dates are distinct; changelogs, tags
  and aliases of a version go in one step with its row.
- `LLMClient`: a piece of text is the place it was sent from; chunks that hold
  nothing, usage and audit records are left out; a stream that ends without
  `[DONE]` is a success, as in the code.
- `AgentLoop`: a message is what the protocol with the model tells apart; scores
  of a search are any part of what passes its filters; whitelisted tools are in the
  vault when the context is built; the `warm_tools` layer is the one of the current
  iteration.
- `AgentMemory`: a message is its number, a summary the set of messages it speaks
  of; the compactor weighs all messages alike. A SQLite save is one step, a file
  save truncates and then writes.
- `SubAgents`: an agent has at most as many processes at a time as `Processes` has
  for it; `create_sub_agent` makes an agent with an id that no living process has; a
  restart happens when no child is alive. A child's inbox is filled when a message
  is published, by one of the processes that are connected with the addressee's id:
  the broker's queue, the wire and the client's queue are one. Tenants are left to
  `MasterExecutor`; one background note at a time.
- `Workflow`: `execute()` does not validate the frozen plan again; other masters
  save between the conversation's own steps, not during validation or execution;
  scores are nearness; the row limits of queries are not reached.
- `Evolution`: a task has one sub-agent with one tool; the marks of one repair are
  one step; an entry's vector is part of its transaction, as in the code.
- `EngineBridge`: events to browsers, texts and colours are left out, also the
  system messages of `_message_sending`; sub-agent ids are interchangeable; a user is
  one WebSocket. The open messages are a set: their order would show only if two
  messages of one session were closed at once, which `StreamsAttended` excludes.

## 5. Fairness

Weak fairness is assumed only of steps the process itself takes: the event loop
runs every ready coroutine; executor calls, model and tool calls, attempts and
agent runs end because HTTP timeouts, `max_iterations`, `wait_for` and the
time-outs of waits bound them; sleeps and timeouts elapse. Where one coroutine
does the work (an agent's run, the background of `Evolution`, a user's turn)
fairness is of the disjunction of its steps, and does not choose an outcome.
Nothing is assumed of clients, users, other masters, of child processes, callers
of start(), stop() and submit(), of cancellation, of broken links, of a server's
answers, nor of the outcome of an attempt. `Recovers` states its assumption on the
target as its premise. There is no strong fairness.

## 6. What is proved

Every theorem is of a specification of section 2 as the runs check it, for all
values of its constants that satisfy the module's assumption. The assumptions ask
that sets of tasks, workers, tools and steps are finite where the code keeps them in
memory, that bounds are natural numbers, that declared versions are triples of
numbers and that plans have the shape the planner's parser gives them. They are
named (`GatewayAssumption`, `WorkflowAssumption`, ...), and TLC evaluates them.
Each invariant was run through TLC before it was proved.

`TaskGatewayProofs`: `PipelineExact`, `ClientsInformed`, `DrainLosesNothing`,
`LifecycleSpec` and `EvictsOldestFirst`. The central inductive invariant is the
pipeline: types, the join counter, and that a record is in at most one of put, queue
and worker with the status that goes with the place. Each part needs the others:
that the counter falls by one needs that a worker held the record, that a cancelled
worker's record is nowhere else needs the statuses. The refinement proof maps each
action to a life-cycle step or a stutter under this invariant. For the drain, the
invariant adds that what was promised is finished or still in the pipeline; join()
returning means an empty pipeline, by the counter. For the clients, what a stream
has been told (`Told`) is an ascending part of its task's statuses up to the present
one; and whatever is evicted, the registry exceeds its limit only by records that
are not finished, because the eviction loop stops at the smallest finished record
that remains. `EvictsOldestFirst` needs three tasks to be broken and is proved
rather than run.

`MasterProofs`, of the executor: `TurnsSerialised`, `MastersIsolated` and `MastersClosed`. The
lock's queue has no duplicates and exactly the calls that wait or are inside, cached
MasterAgents were built for their tenant, and once closing begins no call is
active. `Closable` says that a tenant with a MasterAgent has one in the cache and
that every cached one is destroyed or on the list of those still to be.

`MasterProofs`, of a run: `SubAgentsSound`, `MemorySound` and `SummariesCover`, for
any agents, set-ups and sizes of the memory. The inductive invariant has a part for
each of the two modules that `MasterRun` composes. Of the sub-agents (`SubInv`):
`CallsHeld` says that what a tool has still to call is idle, and that an isolated
call has one process of its agent in hand; `TasksAttended` that a child with the
task still in its queue has a call that waits for it, without which a child that
reads it late would work for nobody; `Strays` that a process no call has in hand
was left by a cancelled call and has no successor, unless its agent is `doubled`,
and that two living processes of an agent make it so: this is why a TASK can only
reach the process of its own call, and why the end of one process takes the queue
of no other;
`InPlaceResults` that an in-place result is its own
agent's, also after the agent has been dropped from the list; `QuietCalls` what
makes the one queue of answers safe while nothing went wrong: one isolated call at a
time, at most one message, and that from the agent of this call, whose process is
over. Of the memory (`MemoryInv`): `Arrivals` bounds everything by what has arrived,
`Asked` says who may wait for the model for what, `Filed` that a message being
classified is in neither term and in one question only, `Covered` that the last
answer of a session takes off only what it was asked about or what came later, and
that whatever a list of at least the interval's length holds above the buffer is in
the question of one of the callers, and `Saved` that the id being saved is no older
than any stored. `Covered` needs no relation between interval and buffer. That it
survives the other caller's answer needs `InOrder` and `NewestKept`: what is older
than the buffer is decided by counting from the newest message.

`ToolStoreProofs`: `HistoryKept`, `NoWayAroundPromotion` and `StoreSound`. For the
first, the open transaction has every committed version that no deletion selected,
so that neither a commit nor a rollback, by whichever call, loses one; every write
statement is shown to keep all versions. For the second, a call about to insert
carries a version that follows its recorded parent's by its kind. For the third,
`SeqInv` says what holds as long as no two calls have overlapped. Between two
calls the table is `Good`: one row for an id and for a date, a tree under a single
root on main, numbers that ascend along main, and on every branch a flag exactly on
the newest row. Within a call, what it has read is still so, since nobody else
writes: its date is later than every row's, its parent is stored, the number it is
about to insert is above the others, the content it carries is that of the head it
promotes or a merge of both sides. Between the INSERT and the UPDATE that clears the
flags, `Good` holds but for the flags of the call's branch. After a deletion the tree,
and after an upsert below the head the order and the flags, are no longer claimed,
as in the properties. What the readers see follows from `Good` alone: a table with
dates is finite, the number of newer rows is a bijection onto the places of the
chain, so the chain is sorted, starts with the head, ends with the root, and is the
tree's branch reversed.

`ServiceProofs`, of the scheduler: `SchedulerSound` and `WithdrawnStaysOut`. The Agent's status goes
with the stage of the one process that executes (`Exclusive`, unless two
initialisations overlapped), some process accounts for every status that is not idle
(`Available`, unless `run()` was left by an exception outside its `try`), each live
loop is in the list that start() or stop() keeps (`Tracking`), and the loops of the
last start() are not those stop() cancels (`Latest`).

`ServiceProofs`, of the GUI: `GuiSound`, for any users, sessions and sub-agents. A
step of a turn closes some open messages and opens or files at most one new one
(`Does`); what such a step keeps is shown once (`TurnStep`), and each handler is
shown to be one. The inductive invariant adds to `GuiSound` what the handlers rely
on. `Unique`: an id belongs to one message, open or filed, and the turn it names has
counted it, so that the next id is new, also after a restart. `Queued`: the turn that
answers holds the head of its session's lock, so that two turns never answer in one
session, whoever has moved or cleared the active session meanwhile. `OrderOf`: the
history of a session ends with the turn that answers in it; a text closed by another
turn's tool call still goes to the session it was opened in, and there only the turn
that answers can have opened one. `Voices`: the message that chunks go to is a text of
the master, so that the end of a turn closes no tool message. A question is filed
when no text of its turn can be there yet, since its number is larger than any used.

`BusProofs`: `BrokerSound` of the broker alone, with publications that callbacks
suspend; `ServerSound` of the server in front of it; `SocketsSound` of the client.
The broker's invariant says what a suspended publication may rely on: the agents
it has still to serve are of the message's tenant and have not received it, and it
is its sender's latest. The server's ties registration, tenant and connection of
an agent together for as long as no two of its connections have overlapped, and says
where a dequeued message may be; that sender and receiver are of one tenant is
claimed until an additional subscribe (`server.py:273`) moves the receiver to the
default one. The client's says that a socket held open is the
attended one or left by an attempt that was not confirmed.

`WorkflowProofs`: `ExecutionSound`, `PlansSound` and the refinement
`ImplementsResult`, for every plan over any finite set of steps. Of the depth-first
search: the path is a chain of dependencies, what it has left has no cycle through
it, so a cycle it reports is one, and a plan it accepts has a minimal element in
every set of steps. Of the layering: the in-degree of a step is the number of its
dependencies not yet placed, which makes the layers the longest paths; the sum over
a set is treated by descent to a smallest counterexample, since the prover has no
induction. Of the composition: the plan executed is the one that was validated.

`AgentProofs`: `AccessSound`, `ConversationSound` and `DecisionsFinal`, for any
tools, whitelist and permissions. Every step is first put into one of five classes
by what it does to whitelist and tiers (`Effect`: nothing but a use, an activation,
an injection from outside, the turn of the clock, the loss of the agent), and the
parts about them are proved for the classes. `Approvals` carries the tools an answer
names through mailbox and listener to the agent, however late.
Its part on the breaker: `TripsInTime` and `SlotsHeld`. The failure count equals the
history's streak while the breaker is closed, and a call in backoff has budget left.
`StreamsUseTheBreaker` shows that `LLMClient` implements `CircuitBreaker`
(`StreamSpec => Spec`): each step of a stream is a step of the call protocol or leaves
the breaker alone. Both invariants then hold of streams too.
Its part on what a stream collects: `StreamExact`, for any deltas and any number of
chunks. The inductive invariant is `Exact`, stated of the deltas sent so far: text,
reasoning, each call and what the caller was given are the parts of the attempt's
chunks that they should be. A part of a sequence is the list of its places in order
of rank (`Sorted`), so that no fold is needed: a chunk adds one place above all
others and the part is lengthened by one (`PartGrows`). A retry starts from nothing
because nothing was received, which `Exact` ties to nothing having been given; and a
caller in backoff has an empty stream.

`EvolutionProofs`: `KnowledgeSound` and `EvolutionSound`. For the first, and the parts
`ExperiencesOnce` and `PromotionEarned` of the second, each step of the guardian, of a pipeline or
of a user is first reduced to what it does to the memory (`Remembers`): until a
write raises, what is shown or committed is lost only by a deletion, and neither a
fix nor a mark goes astray. `Storing` says what a pipeline has stored by each of its
phases, `Fixing` that a driver about to mark entries has its fix on record, and
`Collecting` that one pipeline at most has yet to collect and finds no agent that
another has counted. The writers of the pipelines are assumed to be distinct, and
no driver or user is one: an id in the model names its writer, where the code draws
a fresh `entry_id` for each entry.
`ReportsKept` and `AttemptsSound` have an invariant of their own, `RInv`. A report in
work is a triple of its driver, the group of the driver's batch and its place in the
group (`Held`), so that the reports are counted as a set. A batch moves reports from
the queue into work, one triple for each (`Groups`, by the ranks of the tools' first
places; `HeldTaken`), and turning to the next group takes the first group's triples
out (`HeldNext`). `AttemptsSound` alone is not inductive: a report is open while its
repair is being committed, and the attempts must be zero by then. `Retrying` says so:
a tool with attempts is known to the server, has attempts left, and has a report that
waits or is in a group which is not at its commit. The number of drivers is assumed to be
finite.

Only model-checked, and why:

- all liveness (`Progress`, `CallReturns`, `TurnsEnd`, `RunReturns`, `RunEnds`,
  `Settles`, `Ends`, `Recovers`, `ServerProgress`, `ReconnectSettles`, `StopEnds`),
  which rests on `ENABLED`: outside the prover;
- `UniqueHead` is false.

## 7. Plan

The core (what accepts, executes and transports work) was modelled first, then
what an agent does in a run, the master with its sub-agents and memory, plans and
their memory, what a task leaves behind, and the GUI. Every safety property of a run
is proved. Left to model: `broadcast_envelope` of the bus server, the cancellation of
a run while the memory itself waits for the model; the registry and rules of `coordinator/handoff.py` (the
wait of one agent for its delegate is in `AgentLoop`); the fan-out of GUI events to
browsers; aliases, tags, dependencies and vectors of the tool store.

## 8. Observed divergences

Behaviours met while modelling that a maintainer may want to look at. The models
have them, and properties that would forbid them name the exception.

*Executor, breaker, server.* `reset_for_new_task` (`coordinator/master.py:785`)
keeps the conversation, though `gateway/executor.py:71` says the context is
isolated. A cancelled half-open probe (`llm/client.py:352`) never reports, which
`core/resilience.py:102` asks of the caller, and keeps its slot. The cleanup by agent
id (`bus/server.py:238`) also unregisters a connection that has come back.

*GUI.* `active_session_id` is one for all turns: adding a member or the end of one
turn clears it under another, whose tool messages then go to another session or
stay open, and whose events have no tenant (`gui/engine/bridge.py:495`). Turns of
different sessions share the master and its conversation. A tool's result goes to
the newest open message of its agent. Running a sub-agent again adds its step
before the limit is checked (`coordinator_ops.py:81`). Deleting a session whose turn
runs brings its message file back.

*Sub-agents and memory.* A child's feedback has no `success` field, so the
result of every isolated agent is FAILED (`coordinator/subprocess_agent.py:163`,
`master.py:511`); nobody subscribes as `master` over a WebSocket (`master.py` reads
`_ws_url`, the client has `_url`); a task sent before its child has subscribed is
lost. A cancellation while `launch()` sleeps (`subprocess_agent.py:287`) leaves the
child running, for up to 300 seconds without a task, though `launch_and_run` means to
make sure that it exits (line 346): the `try` begins after the launch. Called again,
the agent gets a second process with the same bus id. The server has one queue for
both (`server.py:214`), so that the first may take the TASK; when the call is over
only the second is terminated, and the first works on. When one of the two
connections ends, the cleanup drops the queue, and the push loop of the other
(`server.py:291`) asks again and again without suspending: the server's event loop is
captured, and the master's run with it if that is where the server runs. The messages of a restored session never reach the
strategy; summary and long-term strategies flush before the session is saved;
`start_session` replaces the restored id. A failed summary still drops the
messages, and two summaries under way overwrite each other (`strategies/summary.py`).
With a `summary_interval` above `buffer_size + 1`, as in the defaults of 20 and 10
(lines 55, 56), one caller's answer cuts the list to the buffer while the other
waits; what arrives next starts no summary, and the other's answer then cuts off
messages that neither summary speaks of. Messages that arrive during the last summary
are cleared with the rest, which line 148 says it covers.

*Agent and tools.* Only the first of several tool calls is executed, and a hook's
block leaves a call without an answer (`core/agent.py:1509`). A cancellation during
the preparation of a run leaves the status RUNNING. Confirming the reload of a
warm tool answers "reused" and loads nothing (`mcp/bridge.py:779`).
`approve_tool_request` approves all of an agent's pending records.
`add_allowed_tool` gives an unrestricted agent a whitelist. Removing a provider
removes routes another provider has taken over (`mcp/server.py:126`).

*Guardian, knowledge, store.* A repair reads, asks the model and writes
(`tool_guardian.py:383` to `417`): a manual update in between is lost. A batch is
lost when the listener is cancelled in it. Entries without a vector are invisible to
a search that finds any vector. The pipeline promotes the newest head, whichever it
is when it comes to it (`post_task.py:565`). `vec0` filters by success after it has
taken its neighbours, so failures hide a good plan (`plan_memory.py`).
`create_branch` says an existing branch is refused (`tool_store.py:1034`), but forks
it again once main has moved. Changelogs, tags and dependencies go to the newest
row of any branch, while `get_tool` reads main only.

*Head of the store* (run Heads). `upsert_tool` of a version that is stored keeps
that row's `is_head`, because `ON CONFLICT DO UPDATE` does not set it
(`tool_store.py:602`), and then clears the flag of every other version of main. If
the flagged head was another one, no version is flagged, and `list_tools` no longer
shows the tool. It takes four calls: upsert 1.0.0; upsert 0.0.1, stored below the
head and yet the latest created; `create_version`, which follows the latest created
and takes the flag with 0.1.0; upsert 1.0.0 again. The comment at line 629 says that
main keeps one head.

## 9. Not modelled

Security (pure functions over strings), built-in tools (I/O wrappers), evaluation
and experiment scripts (batch computations), the GUI's front end and mock engine
(presentation and a test double), the mock LLM server, tracing and the audit ring
buffer (observers), token counting, embeddings and similarity scores (numeric
data), parsing of JSON out of model answers, schema migration. Of modelled
components: `broadcast_envelope` of the bus server, which nothing calls, a cancellation
while the memory waits for the model, jitter of the backoff, prompt layers, skills and plugins of an agent,
read-only endpoints and requests, the local queue of the bus client, which passes
messages through, and keyword search over memory.
