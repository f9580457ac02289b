----------------------------- MODULE AgentLoop ------------------------------
(***************************************************************************)
(* One agent of youmi/core/agent.py with its tool execution                *)
(* (tool_executor.py), on top of ToolAccess: run(), the ReAct loop of a    *)
(* sub-agent with its self-check, and chat_turn / chat_turn_stream, the    *)
(* loop of a conversation.  Beside it the master, whose listener answers   *)
(* the agent's TOOL_REQUESTs (coordinator/tool_approval.py), and whoever   *)
(* cancels the run.  Steps end where the code awaits something that really *)
(* suspends: the LLM, the bus, a tool's handler, the memory.               *)
(* The content of a message is abstracted to what the protocol with the    *)
(* LLM tells apart: an assistant message that asks for tool calls, and the *)
(* tool message that answers one.                                          *)
(***************************************************************************)
EXTENDS ToolAccess

CONSTANTS Setups,       \* entry point of the agent, and whether it has a whitelist
          MaxIter,      \* max_iterations
          TopK,         \* top_k of the master's search
          MaxAsks,      \* bound: capabilities one self-check finds missing
          MaxTurns,     \* bound: runs or chat turns, for each entry point
          MaxDecisions  \* bound: cancellations and interventions

ASSUME LoopAssumption ==
    /\ Setups \subseteq {"run", "chat", "stream"} \X BOOLEAN
    /\ MaxIter \in Nat \ {0} /\ TopK \in Nat /\ MaxAsks \in Nat

VARIABLES
    mode,       \* the entry point in use: "run", "chat" or "stream"
    status,     \* AgentStatus
    pc,         \* where the current run or turn is; "off" between them
    iter,       \* _iteration_count
    toAsk,      \* missing capabilities not asked for yet
    talk,       \* _consecutive_no_tool of a streamed turn
    current,    \* the tool being executed
    conv,       \* the conversation's tool calls: all answered ("clean"), the one in
                \* execution not yet ("open"), or one that never will be ("dangling")
    mailbox,    \* messages of the bus for the agent
    requests,   \* TOOL_REQUESTs in the master's mailbox
    listening,  \* the master's listener task exists
    handling,   \* the request the listener is answering
    pending,    \* the agent is in _pending_tool_requests
    queued,     \* the agent is in _manual_review_queue
    enlisted,   \* the agent is in the master's _sub_agents
    turns, decisions   \* what the bounds count

loopVars   == <<iter, talk, current>>
masterVars == <<requests, listening, handling, pending, queued, enlisted>>
countVars  == <<turns, decisions>>
vars == <<accessVars, mode, status, pc, toAsk, loopVars, conv, mailbox, masterVars, countVars>>

NoRequest == [at |-> "idle", approved |-> FALSE, manual |-> FALSE, tools |-> {}]
Looping == {"loop", "thinking", "retrying", "calling", "replied"}

Keep == UNCHANGED <<mode, toAsk, mailbox, masterVars>>
KeepAll == Keep /\ UNCHANGED accessVars

LoopInit ==
    /\ AccessInit
    /\ (\E s \in Setups : mode = s[1] /\ limited = s[2]) /\ status = "created" /\ pc = "off"
    /\ iter = 0 /\ toAsk = 0 /\ talk = 0 /\ current = "none"
    /\ conv = "clean"
    /\ mailbox = <<>> /\ requests = 0 /\ listening = TRUE /\ handling = NoRequest
    /\ pending = FALSE /\ queued = FALSE /\ enlisted = TRUE
    /\ turns = 0 /\ decisions = 0
-----------------------------------------------------------------------------
(* Entering a run or a turn.                                               *)

\* initialize: the agent's own provider is registered, the status is IDLE.
Initialize ==
    /\ status = "created" /\ pc = "off"
    /\ Register("own")
    /\ status' = "idle"
    /\ UNCHANGED <<mode, pc, toAsk, loopVars, conv, mailbox, masterVars, countVars>>

\* run: only an IDLE agent; on_start and the self-check's LLM call follow.
StartRun ==
    /\ mode = "run" /\ enlisted /\ status = "idle" /\ pc = "off" /\ turns < MaxTurns[mode]
    /\ status' = "running" /\ pc' = "checking"
    /\ iter' = 0 /\ turns' = turns + 1
    /\ UNCHANGED <<talk, current, conv, decisions>>
    /\ KeepAll

\* The session and the conversation are started anew, the task is stored.
BeginLoop == pc' = "loop" /\ conv' = "clean"

\* _self_check_task is content, or cannot tell.
CheckPassed ==
    /\ pc = "checking"
    /\ BeginLoop
    /\ UNCHANGED <<status, loopVars, countVars>> /\ KeepAll

\* request_tool: a TOOL_REQUEST is broadcast, then a message awaited.
Ask(n) ==
    /\ toAsk' = n /\ requests' = requests + 1 /\ pc' = "asking"
    /\ UNCHANGED <<conv, listening, handling, pending, queued, enlisted>>

\* The self-check names missing capabilities: the first is asked for.
CheckFailed ==
    /\ pc = "checking"
    /\ \E n \in 1..MaxAsks : Ask(n)
    /\ UNCHANGED <<accessVars, mode, status, loopVars, mailbox, countVars>>

\* request_tool returns, with the first message that arrived (whatever it
\* answers) or without one after its timeout; the next capability follows.
\* Mutant: the wait has no timeout.
AskReturns_NoTimeout ==
    /\ pc = "asking" /\ mailbox # <<>>
    /\ mailbox' = Tail(mailbox)
    /\ IF toAsk > 1 THEN Ask(toAsk - 1)
       ELSE toAsk' = 0 /\ BeginLoop /\ UNCHANGED masterVars
    /\ UNCHANGED <<accessVars, mode, status, loopVars, countVars>>
AskReturns ==
    /\ pc = "asking"
    /\ mailbox' = IF mailbox = <<>> THEN mailbox ELSE Tail(mailbox)
    /\ IF toAsk > 1 THEN Ask(toAsk - 1)
       ELSE toAsk' = 0 /\ BeginLoop /\ UNCHANGED masterVars
    /\ UNCHANGED <<accessVars, mode, status, loopVars, countVars>>

\* chat_turn and chat_turn_stream: no status is required and none is set;
\* the conversation of the earlier turns is kept.
StartTurn ==
    /\ mode \in {"chat", "stream"} /\ status = "idle" /\ pc = "off" /\ turns < MaxTurns[mode]
    /\ pc' = "loop" /\ iter' = 0 /\ talk' = 0 /\ turns' = turns + 1
    /\ UNCHANGED <<status, current, conv, decisions>>
    /\ KeepAll
-----------------------------------------------------------------------------
(* The ReAct loop.                                                         *)

\* _observe builds the prompt (layers, hook, compaction), then the LLM is asked.
Observe == pc' = "thinking"

\* A new iteration: the tool context moves to its next turn.
NextIteration ==
    /\ pc = "loop" /\ iter < MaxIter
    /\ iter' = iter + 1 /\ Observe
    /\ AdvanceTurn
    /\ UNCHANGED <<status, talk, current, conv, countVars>> /\ Keep

\* The end of a run or turn: run() records COMPLETED or FAILED and goes on to
\* on_stop, a turn leaves the agent IDLE.
Finish(result) ==
    /\ pc' = "stopping"
    /\ status' = IF mode = "run" THEN result ELSE status

OutOfBudget ==
    /\ pc = "loop" /\ iter = MaxIter
    /\ Finish("completed")
    /\ UNCHANGED <<loopVars, conv, countVars>> /\ KeepAll

\* _call_llm: the request is under way (a broken stream is repeated without
\* streaming).
AwaitsLLM == pc \in {"thinking", "retrying"}

\* _think: the LLM answers in plain text, or a hook blocks the call.
Respond ==
    /\ AwaitsLLM
    /\ Finish("completed")
    /\ UNCHANGED <<loopVars, conv, countVars>> /\ KeepAll

\* A streamed turn of an agent with tools reminds the model up to three times
\* in a row before it takes a plain text as final (unless the text repeats
\* itself).
Remind ==
    /\ mode = "stream" /\ AwaitsLLM /\ OwnTools # {} /\ talk < 3
    /\ talk' = talk + 1 /\ pc' = "loop"
    /\ UNCHANGED <<status, iter, current, conv, countVars>> /\ KeepAll

\* The LLM call, a hook or the compaction raises.
ThinkRaises ==
    /\ AwaitsLLM
    /\ Finish("failed")
    /\ UNCHANGED <<loopVars, conv, countVars>> /\ KeepAll

\* chat_turn_stream on "400 Bad Request": every tool message and every
\* assistant message with tool calls is dropped and the LLM is asked again
\* without tools.
Recover400 ==
    /\ mode = "stream" /\ pc = "thinking"
    /\ conv' = "clean" /\ pc' = "retrying"
    /\ UNCHANGED <<status, loopVars, countVars>> /\ KeepAll

\* The assistant message enters the conversation: native tool calls are
\* unanswered until a tool message follows (only the first is executed), a
\* call parsed from plain text is not one the API knows of.
AppendCalls(native, parallel) ==
    conv' = IF parallel \/ conv = "dangling" THEN "dangling"
            ELSE IF native THEN "open" ELSE conv

\* The call is answered in the same step it is appended in.
AppendAnswered(parallel) == conv' = IF parallel THEN "dangling" ELSE conv

\* The tool message of the call in execution.
Answer == conv' = IF conv = "open" THEN "clean" ELSE conv

\* After _act: _inject_convergence_reminders (run only: user messages for the
\* LLM) and _reflect; the loop goes on.
Reflect == pc' = "loop" /\ current' = "none"

\* The before_tool_call hook blocks the call: no tool message at all.
CallBlocked(native) ==
    /\ conv' = IF native THEN "dangling" ELSE conv
    /\ Reflect
    /\ UNCHANGED accessVars

\* The breaker of the tool is open: a tool message carries the error.
\* Mutant: the tool message is forgotten.
CallRejected_Silent(native, parallel) ==
    /\ AppendCalls(native, parallel)
    /\ Reflect
    /\ UNCHANGED accessVars
CallRejected(native, parallel) ==
    /\ AppendAnswered(parallel)
    /\ Reflect
    /\ UNCHANGED accessVars

\* An answer that needs no handler: its tool message is appended at once.
AnswerNow(parallel) ==
    /\ AppendAnswered(parallel)
    /\ current' = "none"
    /\ pc' = "replied"

\* search_new_tools is served by the bridge itself: search, rejection, load.
CallMeta(parallel) ==
    /\ \/ MetaSearch \/ LoadUnknown
       \/ \E t \in Tools \ Hot : MetaReject(t)
       \/ \E t \in Tools : LoadReused(t) \/ LoadBlocked(t) \/ LoadManual(t) \/ LoadPassed(t)
    /\ AnswerNow(parallel)

\* ToolBridge.call_tool of another tool: one off the whitelist is refused,
\* one without a route is an error, any other reaches its provider's handler.
CallDenied(t, parallel) ==
    /\ ~CheckPermission(t)
    /\ AnswerNow(parallel)
    /\ UNCHANGED accessVars

CallUnrouted(t, parallel) ==
    /\ CheckPermission(t) /\ ~Routed(t)
    /\ UseTool(t)
    /\ AnswerNow(parallel)

CallDispatched(t, native, parallel) ==
    /\ CheckPermission(t) /\ Routed(t)
    /\ AppendCalls(native, parallel)
    /\ current' = t
    /\ pc' = "calling"
    /\ UNCHANGED accessVars

\* Native calls may name any tool; _parse_text_tool_calls finds only names of
\* the agent's registry, and is the only way when no schemas were sent.
Named(native) == IF native THEN Tools ELSE OwnTools

\* _think returns a tool call and _act executes it: through the hook, the
\* breaker and the bridge.
ThinkCalls ==
    /\ AwaitsLLM
    /\ \E native, parallel \in BOOLEAN :
        /\ native => pc = "thinking"
        /\ parallel => native
        /\ \/ CallBlocked(native)
           \/ CallRejected(native, parallel)
           \/ CallMeta(parallel)
           \/ \E t \in Named(native) :
                \/ CallDenied(t, parallel)
                \/ CallUnrouted(t, parallel)
                \/ CallDispatched(t, native, parallel)
    /\ talk' = 0
    /\ UNCHANGED <<status, iter, countVars>> /\ Keep

\* The handler returns or fails: the usage is recorded, the tool message
\* appended, the memory written or the guardian told.
ToolReturns ==
    /\ pc = "calling"
    /\ current' = "none"
    /\ UseTool(current)
    /\ Answer
    /\ pc' = "replied"
    /\ UNCHANGED <<status, iter, talk, countVars>>
    /\ Keep

\* asyncio.wait_for expires, in the handler or while its result is stored:
\* the call failed, and a tool message is appended, a second one in the
\* latter case.
ToolTimeout ==
    /\ pc \in {"calling", "replied"}
    /\ Answer
    /\ Reflect
    /\ UNCHANGED <<status, iter, talk, countVars>>
    /\ KeepAll

\* The result is stored; storing may raise, which makes the call a failure.
ToolStored ==
    /\ pc = "replied"
    /\ Reflect
    /\ UNCHANGED <<status, iter, talk, conv, countVars>> /\ KeepAll

\* on_stop and the end of the session, or the reply of the turn.
Stop ==
    /\ pc = "stopping" /\ pc' = "off"
    /\ status' = IF mode = "run" THEN status ELSE "idle"
    /\ UNCHANGED <<loopVars, conv, countVars>> /\ KeepAll

\* The task is cancelled (run_sub_agent's own timeout, a closed chat): only
\* the loop of run() resets the status, and a call in flight stays without
\* its tool message.
Cancel ==
    /\ pc \notin {"off", "delegating"} /\ decisions < MaxDecisions /\ decisions' = decisions + 1
    /\ pc' = "off" /\ current' = "none" /\ toAsk' = 0
    /\ status' = IF mode = "run" /\ pc \in Looping THEN "idle" ELSE status
    /\ conv' = IF conv = "open" THEN "dangling" ELSE conv
    /\ UNCHANGED <<accessVars, mode, iter, talk, mailbox, masterVars, turns>>

\* handoff: a TASK is published and the first message awaited, whatever it is,
\* or the timeout.
Handoff ==
    /\ mode = "run" /\ pc = "off" /\ decisions < MaxDecisions /\ decisions' = decisions + 1
    /\ pc' = "delegating"
    /\ UNCHANGED <<status, loopVars, conv, turns>> /\ KeepAll

DelegationReturns ==
    /\ pc = "delegating" /\ pc' = "off"
    /\ mailbox' = IF mailbox = <<>> THEN mailbox ELSE Tail(mailbox)
    /\ UNCHANGED <<accessVars, mode, status, toAsk, loopVars, conv, masterVars, countVars>>
-----------------------------------------------------------------------------
(* The master: its listener, the user's decisions, the end of the task.    *)

\* The listener takes a request and searches the vault and its own tools.
HandleRequest ==
    /\ listening /\ handling.at = "idle" /\ requests > 0
    /\ requests' = requests - 1 /\ pending' = TRUE
    /\ handling' = [NoRequest EXCEPT !.at = "searching"]
    /\ UNCHANGED <<accessVars, mode, status, pc, toAsk, loopVars, conv, mailbox,
                   listening, queued, enlisted, countVars>>

\* A match is judged by evaluate without its risk.  One sensitive tool sends
\* the request to a person; otherwise every match is recorded, approved and
\* activated on the agent's bridge before the answer is published.
OrderOf(S) == CHOOSE s \in [1..Cardinality(S) -> S] : {s[i] : i \in DOMAIN s} = S

Records(S, decision) ==
    [i \in 1..Cardinality(S) |->
        [tool |-> OrderOf(S)[i], level |-> Evaluate(OrderOf(S)[i], FALSE), decision |-> decision]]

SensitiveMatches(S) == {t \in S : Evaluate(t, FALSE) = "manual"}

DecideRequest ==
    /\ handling.at = "searching"
    /\ \E S \in {U \in SUBSET vault : Cardinality(U) <= TopK} :
        LET manual == SensitiveMatches(S) # {} IN
        /\ handling' = [at |-> "responding", manual |-> manual, tools |-> S,
                        approved |-> S # {} /\ ~manual]
        /\ queued' = (queued \/ manual)
        /\ records' = records \o (IF manual THEN Records(SensitiveMatches(S), "pending")
                                  ELSE Records(S, "approved"))
        /\ IF S # {} /\ ~manual THEN Activate(S)
           ELSE UNCHANGED <<limited, allowed, contextVars, rejected, lineages>>
    /\ UNCHANGED <<serverVars, mode, status, pc, toAsk, loopVars, conv,
                   mailbox, requests, listening, pending, enlisted, countVars>>

\* The TOOL_RESPONSE is published, whether or not the agent still waits.
RespondRequest ==
    /\ handling.at = "responding"
    /\ mailbox' = Append(mailbox, [approved |-> handling.approved, tools |-> handling.tools])
    /\ pending' = handling.manual
    /\ handling' = NoRequest
    /\ UNCHANGED <<accessVars, mode, status, pc, toAsk, loopVars, conv, requests,
                   listening, queued, enlisted, countVars>>

\* A status message of a peer is delivered to the agent's mailbox.
PeerMessage ==
    /\ mode = "run" /\ decisions < MaxDecisions /\ decisions' = decisions + 1
    /\ mailbox' = Append(mailbox, [approved |-> FALSE, tools |-> {}])
    /\ UNCHANGED <<accessVars, mode, status, pc, toAsk, loopVars, conv, masterVars, turns>>

\* on_stop of the master cancels the listener, at whatever it is doing.
ListenerStops ==
    /\ listening /\ decisions < MaxDecisions /\ decisions' = decisions + 1
    /\ listening' = FALSE /\ handling' = NoRequest
    /\ UNCHANGED <<accessVars, mode, status, pc, toAsk, loopVars, conv, mailbox,
                   requests, pending, queued, enlisted, turns>>

\* approve_tool_request: the named tools are activated; every pending record
\* of the agent counts as approved.
ApproveToolRequest(t) ==
    /\ enlisted
    /\ decisions < MaxDecisions /\ decisions' = decisions + 1
    /\ Activate({t})
    /\ records' = [i \in DOMAIN records |-> Decided("approved", i)]
    /\ pending' = FALSE /\ queued' = FALSE
    /\ UNCHANGED <<serverVars, mode, status, pc, toAsk, loopVars, conv,
                   mailbox, requests, listening, handling, enlisted, turns>>

\* deny_tool_request: the entry of the review queue stays.
DenyToolRequest ==
    /\ decisions < MaxDecisions /\ decisions' = decisions + 1
    /\ records' = [i \in DOMAIN records |-> Decided("denied", i)]
    /\ pending' = FALSE
    /\ UNCHANGED <<limited, allowed, contextVars, rejected, lineages, serverVars, mode, status,
                   pc, toAsk, loopVars, conv, mailbox, requests, listening, handling, queued,
                   enlisted, turns>>

\* Calls of the bridge's public operations outside the loop, and the server
\* that drops a provider.
Operate ==
    /\ decisions < MaxDecisions /\ decisions' = decisions + 1
    /\ \/ SearchAndConfirm
       \/ pc = "off" /\ \E t \in Tools : InjectContext({t})
       \/ \E p \in providers : Unregister(p)
    /\ UNCHANGED <<mode, status, pc, toAsk, loopVars, conv, mailbox, masterVars, turns>>

\* reset_tool_permissions: the whitelist the agent was connected with.
ResetToolPermissions ==
    /\ allowed' = essential
    /\ limited' = (essential # {})

\* reset_for_new_task: permissions as at the start, the agent destroyed, the
\* requests and the queue forgotten, decided records dropped.
ResetForNewTask ==
    /\ mode = "run" /\ pc = "off" /\ enlisted
    /\ enlisted' = FALSE
    /\ ResetToolPermissions
    /\ status' = IF status \in {"completed", "failed"} THEN status ELSE "destroyed"
    /\ listening' = FALSE /\ handling' = NoRequest /\ pending' = FALSE /\ queued' = FALSE
    /\ records' = SelectSeq(records, LAMBDA r : r.decision = "pending")
    /\ UNCHANGED <<contextVars, rejected, lineages, serverVars, mode, pc, toAsk, loopVars,
                   conv, mailbox, requests, countVars>>
-----------------------------------------------------------------------------
AgentStep ==
    \/ Initialize \/ StartRun \/ CheckPassed \/ CheckFailed \/ AskReturns
    \/ StartTurn \/ NextIteration \/ OutOfBudget \/ Respond \/ Remind \/ ThinkRaises \/ Recover400
    \/ ThinkCalls \/ ToolReturns \/ ToolTimeout \/ ToolStored \/ Stop
    \/ DelegationReturns

MasterStep == HandleRequest \/ DecideRequest \/ RespondRequest

Intervention ==
    \/ Cancel \/ Handoff \/ PeerMessage \/ ListenerStops \/ DenyToolRequest \/ Operate \/ ResetForNewTask
    \/ \E t \in Tools : ApproveToolRequest(t)

Next == AgentStep \/ MasterStep \/ Intervention

Spec == LoopInit /\ [][Next]_vars

\* The agent's own steps are taken eventually: every await in them ends, the
\* LLM's and the tool's by a timeout.
FairSpec == Spec /\ WF_vars(AgentStep)
-----------------------------------------------------------------------------
(* Properties.                                                             *)

\* Created with a whitelist and still known to the master.
Supervised == enlisted /\ essential # {}

\* What the context shows to the LLM and what the bridge lets it call are kept
\* apart; whatever the agent, the user or the listener activates, a HOT tool
\* is on the whitelist.
HotIsAllowed == Supervised => Hot \subseteq allowed /\ ContextSchemas = Offered

\* When the LLM is asked, no tool is HOT that is not essential and was not
\* used for recycle_after_turns turns.
HotIsFresh == pc \in {"thinking", "retrying"} => Idle(RecycleAfter) = {}

\* No tool the agent may use is lost to the model: recycled or not, a
\* whitelisted tool is offered for a call or listed in the "warm_tools" layer.
\* (A tool of its own that reaches the vault only at initialize, after the
\* context was built, has no tier there and is not shown.)
AllowedIsShown == Supervised => allowed \cap SharedTools \subseteq Offered \cup WarmListed

\* A route never leads to a provider that is gone (a KeyError in the server).
RoutesLead == \A t \in Tools : route[t] \in providers \cup {"none"}

\* An approval that waits for the agent, or is about to be sent, names only
\* tools the agent can already call, even when the agent's own wait for it
\* has timed out and a later request reads it.
ResponsesHonoured ==
    Supervised =>
        /\ handling.approved => handling.tools \subseteq allowed
        /\ \A i \in DOMAIN mailbox : mailbox[i].approved => mailbox[i].tools \subseteq allowed

AccessSound == HotIsAllowed /\ HotIsFresh /\ AllowedIsShown /\ RoutesLead /\ ResponsesHonoured

\* When the loop is about to ask the LLM no executed tool call is without its
\* tool message: breaker, timeout, refusal, missing route and error each leave
\* an answer, also after a cancelled turn.  (A hook's block, a parallel call
\* and the cancelled call itself leave a call nobody answers: `dangling`.)
ConversationSound == pc \in {"loop", "thinking", "stopping"} => conv # "open"

\* A decision on an approval record is final while the master keeps the
\* record: an approval by the user and a denial by the master never overrule
\* each other, whichever comes late.
DecisionsFinal ==
    [][enlisted' => \A i \in DOMAIN records :
          records[i].decision # "pending" => records'[i] = records[i]]_vars

\* A run or a turn that is entered is left again.
RunReturns == (pc # "off") ~> (pc = "off")

=============================================================================
