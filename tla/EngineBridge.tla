---------------------------- MODULE EngineBridge ----------------------------
(***************************************************************************)
(* The GUI's side of a MasterAgent: EngineBridge (gui/engine/bridge.py),   *)
(* which files what a turn says under its session, the GUIHookBridge that  *)
(* shows tool calls, the WorkflowTracker and the Store on disk.  A user is *)
(* one WebSocket: its commands are handled one after the other, those of   *)
(* different users interleave at every await.  Turns of one session are    *)
(* serialised by the session's lock; turns of different sessions share the *)
(* master, active_session_id, the open messages, the tool stacks and the   *)
(* tracker.  Events to the browsers, texts and colours are left out.       *)
(***************************************************************************)
EXTENDS Naturals, SequencesExt

CONSTANTS Users, UserTenant,        \* open WebSockets and their principal's tenant
          Sessions, SessionTenant,
          SubAgents,                \* ids of the sub-agents the master may create
          Master,                   \* the master's agent_id
          Stored,                   \* what state.json may hold at the first start
          NoOne,                    \* no active session, no tracker
          MaxSteps,                 \* WorkflowTracker._max
          Budgets                   \* bounds: how many messages, tool calls, and other
                                    \* commands and restarts, tried as alternatives

ASSUME BridgeAssumption ==
    /\ DOMAIN UserTenant = Users /\ DOMAIN SessionTenant = Sessions
    /\ Stored \subseteq SUBSET Sessions
    /\ Master \notin SubAgents /\ NoOne \notin Sessions
    /\ MaxSteps \in Nat
    /\ Budgets \subseteq [turns : Nat, calls : Nat, acts : Nat]

VARIABLES
    live,       \* EngineBridge.sessions
    members,    \* Session.member_ids, without the master
    cards,      \* EngineBridge.cards, without the master's
    saved,      \* state.json: what load_state would return
    files,      \* messages/<session>.json; <<>> when there is none
    gone,       \* history: the sessions whose deletion returned
    open,       \* _open: the messages that are not closed yet
    active,     \* active_session_id
    locks,      \* _session_locks: the holder first, then its waiters
    turn,       \* each user's send_user_message: where it is and its locals
    stacks,     \* GUIHookBridge.tool_stacks
    tracker,    \* the turn whose WorkflowTracker is EngineBridge.tracker
    progress,   \* the WorkflowTracker of each turn
    subs,       \* MasterAgent._sub_agents: "none", "ready", "done", or "lost" at a restart
    left        \* the messages, tool calls and other acts that are left

stateVars   == <<live, members, cards, saved>>
messageVars == <<files, open>>
runVars     == <<active, locks, stacks, tracker, progress, subs>>
guiVars == <<stateVars, messageVars, gone, runVars, turn, left>>

Agents == SubAgents \cup {Master}
MaxTurns == CHOOSE n \in {x.turns : x \in Budgets} : \A x \in Budgets : x.turns <= n
Turns == Users \X (1..MaxTurns)

\* Between two commands: `n` turns were begun so far.
Quiet(n) == [pc |-> "idle", session |-> NoOne, n |-> n, made |-> 0,
             msg |-> 0, sub |-> NoOne, tracker |-> NoOne]
Answering(u) == turn[u].pc \notin {"idle", "waiting"}
-----------------------------------------------------------------------------
(* Store: save_state replaces state.json in one step, append_message reads *)
(* and replaces the session's file.                                        *)

StateOf(ss, ms, cs) == [sessions |-> ss, members |-> ms, cards |-> cs]

\* append_message for each of the records, in some order: _open keeps them in
\* the order of their opening, but no two that are closed at once are of one
\* session.
Filed(fs, records) ==
    [s \in Sessions |-> fs[s] \o SetToSeq({r \in records : r.session = s})]
-----------------------------------------------------------------------------
(* Messages.  A message id is the turn that opened it and a number.        *)

NewId(u, k) == <<<<u, turn[u].n>>, turn[u].made + k>>
Message(id, agent, session, kind) ==
    [id |-> id, agent |-> agent, session |-> session, kind |-> kind]

IsOpen(id) == \E r \in open : r.id = id

\* close_message: an id that is not open is ignored.
StillOpen(ids) == {r \in open : r.id \notin ids}
Closing(ids)   == {r \in open : r.id \in ids}

\* The agent's open assistant messages, which split_agent_stream closes.
StreamsOf(agent) == {r.id : r \in {q \in open : q.agent = agent /\ q.kind = "text"}}
SplitStream(agent) ==
    /\ open' = StillOpen(StreamsOf(agent))
    /\ files' = Filed(files, Closing(StreamsOf(agent)))

\* stream_agent_delta: the first piece of a sub-agent's reasoning opens a
\* message in the active session, the next ones lengthen it.
AgentDelta(u) ==
    LET id == NewId(u, 1) IN
    /\ turn[u].pc = "running" /\ active # NoOne
    /\ StreamsOf(turn[u].sub) = {}
    /\ open' = open \cup {Message(id, turn[u].sub, active, "text")}
    /\ turn' = [turn EXCEPT ![u].made = @ + 1]
    /\ UNCHANGED <<stateVars, files, gone, runVars, left>>
-----------------------------------------------------------------------------
(* GUIHookBridge: a tool call of an agent is a message on its stack.       *)

\* _before_tool, with the call's next state `pc`; nothing is shown without
\* an active session.
BeforeTool(u, agent, pc) ==
    /\ left.calls > 0 /\ left' = [left EXCEPT !.calls = @ - 1]
    /\ \/ /\ active = NoOne
          /\ turn' = [turn EXCEPT ![u].pc = pc]
          /\ UNCHANGED <<messageVars, stacks>>
       \/ LET id == NewId(u, 1) IN
          /\ active # NoOne
          /\ open' = StillOpen(StreamsOf(agent)) \cup {Message(id, agent, active, "tool")}
          /\ files' = Filed(files, Closing(StreamsOf(agent)))
          /\ stacks' = [stacks EXCEPT ![agent] = Append(@, id)]
          /\ turn' = [turn EXCEPT ![u].pc = pc, ![u].made = @ + 1]
    /\ UNCHANGED <<stateVars, gone, active, locks, tracker, progress, subs>>

\* _after_tool: the newest message of the agent's stack gets the result,
\* whichever call it was opened for.
AfterTool(u, agent, pc) ==
    /\ \/ /\ active = NoOne \/ stacks[agent] = <<>>
          /\ UNCHANGED <<messageVars, stacks>>
       \/ LET top == stacks[agent][Len(stacks[agent])] IN
          /\ active # NoOne /\ stacks[agent] # <<>>
          /\ stacks' = [stacks EXCEPT ![agent] = SubSeq(@, 1, Len(@) - 1)]
          /\ open' = StillOpen({top})
          /\ files' = Filed(files, Closing({top}))
    /\ turn' = [turn EXCEPT ![u].pc = pc, ![u].sub = IF pc = "streaming" THEN NoOne ELSE @,
                            ![u].tracker = IF pc = "streaming" THEN NoOne ELSE @]
    /\ UNCHANGED <<stateVars, gone, active, locks, tracker, progress, subs, left>>
-----------------------------------------------------------------------------
(* WorkflowTracker: one per turn, named by it.                             *)

\* `told` counts the workflow_complete events.
NewTracker == [steps |-> [a \in SubAgents |-> "none"], told |-> 0]
Planned(t) == {a \in SubAgents : progress[t].steps[a] # "none"}

\* all_done, of a tracker's steps.
AllDone(steps) ==
    /\ \E a \in SubAgents : steps[a] # "none"
    /\ \A a \in SubAgents : steps[a] \in {"none", "done", "failed"}

CanCreateMore(t) == t # NoOne => Cardinality(Planned(t)) < MaxSteps

\* on_create_sub_agent: an agent that has a step keeps it.
OnCreate(t, a) ==
    [progress EXCEPT ![t].steps[a] = IF @ = "none" THEN "pending" ELSE @]

OnStart(t, a) ==
    [progress EXCEPT ![t].steps[a] = IF @ = "pending" THEN "running" ELSE @]

\* on_run_sub_agent_done and _check_all_done: the end of the workflow is
\* announced once.
OnDone(t, a, status) ==
    IF progress[t].steps[a] = "none" THEN progress
    ELSE LET steps == [progress[t].steps EXCEPT ![a] = status]
         IN  [progress EXCEPT ![t] =
                [steps |-> steps,
                 told |-> IF AllDone(steps) /\ @.told = 0 THEN 1 ELSE @.told]]
-----------------------------------------------------------------------------
(* Sessions and members.                                                   *)

\* One of the acts the bounds leave.
Act == left.acts > 0 /\ left' = [left EXCEPT !.acts = @ - 1]

MaySee(u, s) == s \in live /\ UserTenant[u] = SessionTenant[s]

\* create_session: a new id, in the tenant of the user.
CreateSession(u, s) ==
    /\ Act
    /\ turn[u].pc = "idle" /\ s \notin live \cup gone
    /\ UserTenant[u] = SessionTenant[s]
    /\ live' = live \cup {s}
    /\ saved' = StateOf(live', members, cards)
    /\ UNCHANGED <<members, cards, messageVars, gone, runVars, turn>>

\* delete_session: out of the table, its file removed, the state saved.  A
\* turn of the session that runs or waits is not told.
DeleteSession(u, s) ==
    /\ Act
    /\ turn[u].pc = "idle" /\ MaySee(u, s)
    /\ live' = live \ {s} /\ gone' = gone \cup {s}
    /\ members' = [members EXCEPT ![s] = {}]
    /\ files' = [files EXCEPT ![s] = <<>>]
    /\ saved' = StateOf(live', members', cards)
    /\ UNCHANGED <<cards, open, runVars, turn>>

\* The ids not used yet; they are interchangeable.
Fresh == {a \in SubAgents : subs[a] = "none"}

\* on_sub_agent_created: a card, and the active session gets a member.
JoinsSession(a, session) ==
    /\ cards' = cards \cup {a}
    /\ members' = IF session \in live THEN [members EXCEPT ![session] = @ \cup {a}] ELSE members
    /\ saved' = StateOf(live, members', cards')
    /\ UNCHANGED live

\* The patched create_sub_agent, once the limit is passed.
Created(session) ==
    LET a == CHOOSE x \in Fresh : TRUE IN
    /\ Fresh # {}
    /\ subs' = [subs EXCEPT ![a] = "ready"]
    /\ JoinsSession(a, session)

\* add_member: no await inside; the active session is cleared at the end,
\* whoever had set it.
AddMember(u, s) ==
    /\ Act
    /\ turn[u].pc = "idle" /\ MaySee(u, s)
    /\ active' = NoOne
    /\ \/ UNCHANGED <<stateVars, subs>>
       \/ CanCreateMore(tracker) /\ Created(s)
    /\ UNCHANGED <<messageVars, gone, locks, stacks, tracker, progress, turn>>
-----------------------------------------------------------------------------
(* send_user_message.                                                      *)

\* The session is looked up, then its lock is asked for.
SendUserMessage(u, s) ==
    /\ turn[u].pc = "idle" /\ left.turns > 0 /\ MaySee(u, s)
    /\ left' = [left EXCEPT !.turns = @ - 1]
    /\ locks' = [locks EXCEPT ![s] = Append(@, u)]
    /\ turn' = [turn EXCEPT ![u].pc = "waiting", ![u].session = s]
    /\ UNCHANGED <<stateVars, messageVars, gone, active, stacks, tracker, progress, subs>>

\* Mutant: the lock is new for every message.
LockGranted_NoWait(u) ==
    LET s == turn[u].session
        t == <<u, turn[u].n + 1>>
    IN
    /\ turn[u].pc = "waiting"
    /\ active' = s
    /\ files' = Filed(files, {Message(<<t, 1>>, u, s, "user")})
    /\ open' = open \cup {Message(<<t, 2>>, Master, s, "text")}
    /\ tracker' = t
    /\ turn' = [turn EXCEPT ![u] = [Quiet(t[2]) EXCEPT !.pc = "streaming", !.session = s,
                                                       !.made = 2, !.msg = 2]]
    /\ UNCHANGED <<stateVars, gone, locks, stacks, progress, subs, left>>
\* With the lock: the session becomes the active one, the user's message is
\* filed, a new tracker is in place and the master's first message open.
LockGranted(u) ==
    LET s == turn[u].session
        t == <<u, turn[u].n + 1>>
    IN
    /\ turn[u].pc = "waiting" /\ Head(locks[s]) = u
    /\ active' = s
    /\ files' = Filed(files, {Message(<<t, 1>>, u, s, "user")})
    /\ open' = open \cup {Message(<<t, 2>>, Master, s, "text")}
    /\ tracker' = t
    /\ turn' = [turn EXCEPT ![u] = [Quiet(t[2]) EXCEPT !.pc = "streaming", !.session = s,
                                                       !.made = 2, !.msg = 2]]
    /\ UNCHANGED <<stateVars, gone, locks, stacks, progress, subs, left>>

CurrentMsg(u) == <<<<u, turn[u].n>>, turn[u].msg>>

\* A chunk of the master: when a tool call, of this turn or another, has
\* closed the message, a new one is opened.
Chunk(u) ==
    /\ turn[u].pc = "streaming" /\ ~IsOpen(CurrentMsg(u))
    /\ open' = open \cup {Message(NewId(u, 1), Master, turn[u].session, "text")}
    /\ turn' = [turn EXCEPT ![u].made = @ + 1, ![u].msg = turn[u].made + 1]
    /\ UNCHANGED <<stateVars, files, gone, runVars, left>>

\* The master calls a tool: create_sub_agent, run_sub_agent or another one.
CallTool(u) ==
    /\ turn[u].pc = "streaming"
    /\ \E tool \in {"tool", "create", "run"} : BeforeTool(u, Master, tool)

ToolReturns(u) == turn[u].pc \in {"tool", "called"} /\ AfterTool(u, Master, "streaming")

\* The tool create_sub_agent: a sub-agent of the role that has not run yet is
\* used again, at the limit (or with bad arguments) none is created.
CreateTool(u) ==
    /\ turn[u].pc = "create"
    /\ turn' = [turn EXCEPT ![u].pc = "called"]
    /\ \/ UNCHANGED <<stateVars, subs, progress>>
       \/ \E a \in SubAgents :
             /\ subs[a] = "ready"
             /\ progress' = OnCreate(tracker, a)
             /\ UNCHANGED <<stateVars, subs>>
       \/ /\ CanCreateMore(tracker)
          /\ Created(active)
          /\ progress' = OnCreate(tracker, CHOOSE x \in Fresh : TRUE)
    /\ UNCHANGED <<messageVars, gone, active, locks, stacks, tracker, left>>

\* The tool run_sub_agent up to the sub-agent's first await; it keeps the
\* tracker it found.  An unknown id ends the call.
RunTool(u) ==
    /\ turn[u].pc = "run"
    /\ \/ /\ turn' = [turn EXCEPT ![u].pc = "called"]
          /\ UNCHANGED progress
       \/ \E a \in SubAgents :
             /\ subs[a] \in {"ready", "done"}
             /\ progress' = OnStart(tracker, a)
             /\ turn' = [turn EXCEPT ![u].pc = "running", ![u].sub = a, ![u].tracker = tracker]
    /\ UNCHANGED <<stateVars, messageVars, gone, active, locks, stacks, tracker, subs, left>>

\* The running sub-agent calls a tool of its own.
SubCall(u) == turn[u].pc = "running" /\ BeforeTool(u, turn[u].sub, "subtool")
SubReturns(u) == turn[u].pc = "subtool" /\ AfterTool(u, turn[u].sub, "running")

\* The sub-agent's run returns: its output is filed (_broadcast_sub_result),
\* then its open stream is closed, then the tracker is told.
RunEnds(u) ==
    LET a == turn[u].sub
        shown == IF active = NoOne THEN {} ELSE {Message(NewId(u, 1), a, active, "text")}
    IN
    /\ turn[u].pc = "running"
    /\ \E output \in {{}, shown}, status \in {"done", "failed"} :
          /\ files' = Filed(Filed(files, output), Closing(StreamsOf(a)))
          /\ progress' = OnDone(turn[u].tracker, a, status)
          /\ turn' = [turn EXCEPT ![u].pc = "called", ![u].made = @ + Cardinality(output)]
    /\ open' = StillOpen(StreamsOf(a))
    /\ subs' = [subs EXCEPT ![a] = "done"]
    /\ UNCHANGED <<stateVars, gone, active, locks, stacks, tracker, left>>

\* The run raises, or is cancelled by the tool's timeout: the stream is
\* closed, the tracker is not told.
RunRaises(u) ==
    /\ turn[u].pc = "running"
    /\ SplitStream(turn[u].sub)
    /\ turn' = [turn EXCEPT ![u].pc = "called"]
    /\ UNCHANGED <<stateVars, gone, runVars, left>>

\* The end of the turn: the master's message is closed, the active session
\* cleared (whoever had set it) and the lock released.
LeaveTurn(u) ==
    /\ active' = NoOne
    /\ locks' = [locks EXCEPT ![turn[u].session] = Tail(@)]
    /\ turn' = [turn EXCEPT ![u] = Quiet(@.n)]
    /\ saved' = StateOf(live, members, cards)

\* Mutant: one way out keeps the session's lock.
StreamEnds_KeepsLock(u) ==
    /\ turn[u].pc = "streaming"
    /\ active' = NoOne
    /\ turn' = [turn EXCEPT ![u] = Quiet(@.n)]
    /\ open' = StillOpen({CurrentMsg(u)})
    /\ files' = Filed(files, Closing({CurrentMsg(u)}))
    /\ UNCHANGED <<locks, saved, live, members, cards, gone, stacks, tracker, progress, subs, left>>
StreamEnds(u) ==
    /\ turn[u].pc = "streaming"
    /\ open' = StillOpen({CurrentMsg(u)})
    /\ files' = Filed(files, Closing({CurrentMsg(u)}))
    /\ LeaveTurn(u)
    /\ UNCHANGED <<live, members, cards, gone, stacks, tracker, progress, subs, left>>

\* The engine raises: the error is shown in a message of its own when the
\* master's is closed already.
StreamRaises(u) ==
    /\ turn[u].pc = "streaming" /\ ~IsOpen(CurrentMsg(u))
    /\ files' = Filed(files, {Message(NewId(u, 1), Master, turn[u].session, "text")})
    /\ LeaveTurn(u)
    /\ UNCHANGED <<live, members, cards, open, gone, stacks, tracker, progress, subs, left>>
-----------------------------------------------------------------------------
\* The server is killed and starts again with what is on disk; a deletion may
\* have been cut between the removal of the file and the new state.
Restart ==
    /\ Act
    /\ live' = saved.sessions /\ members' = saved.members /\ cards' = saved.cards
    /\ \/ UNCHANGED files
       \/ \E s \in live : files' = [files EXCEPT ![s] = <<>>]
    /\ open' = {} /\ active' = NoOne /\ tracker' = NoOne
    /\ locks' = [s \in Sessions |-> <<>>]
    /\ stacks' = [a \in Agents |-> <<>>]
    /\ turn' = [u \in Users |-> Quiet(turn[u].n)]
    /\ progress' = [t \in Turns |-> NewTracker]
    /\ subs' = [a \in SubAgents |-> IF subs[a] = "none" THEN "none" ELSE "lost"]
    /\ UNCHANGED <<saved, gone>>

GuiInit ==
    /\ live \in Stored
    /\ members = [s \in Sessions |-> {}] /\ cards = {}
    /\ saved = StateOf(live, members, cards)
    /\ files = [s \in Sessions |-> <<>>] /\ gone = {} /\ open = {}
    /\ active = NoOne /\ tracker = NoOne
    /\ locks = [s \in Sessions |-> <<>>]
    /\ turn = [u \in Users |-> Quiet(0)]
    /\ stacks = [a \in Agents |-> <<>>]
    /\ progress = [t \in Turns |-> NewTracker]
    /\ subs = [a \in SubAgents |-> "none"]
    /\ left \in Budgets

\* What the server does of itself for a turn.
Advance(u) ==
    \/ LockGranted(u) \/ ToolReturns(u) \/ CreateTool(u) \/ RunTool(u)
    \/ SubReturns(u) \/ RunEnds(u) \/ RunRaises(u)
    \/ StreamEnds(u) \/ StreamRaises(u)

GuiNext ==
    \/ \E u \in Users :
          \/ Advance(u)
          \/ Chunk(u) \/ CallTool(u) \/ SubCall(u) \/ AgentDelta(u)
          \/ \E s \in Sessions : \/ CreateSession(u, s) \/ DeleteSession(u, s)
                                 \/ AddMember(u, s) \/ SendUserMessage(u, s)
    \/ Restart

\* The loop resumes every ready turn, and every stream, tool and sub-agent
\* ends (iterations and requests are bounded).
GuiFairness == \A u \in Users : WF_guiVars(Advance(u))

GuiSpec == GuiInit /\ [][GuiNext]_guiVars /\ GuiFairness
-----------------------------------------------------------------------------
(* Properties *)

AllFiled == UNION {ToSet(files[s]) : s \in Sessions}

\* What a history shows of a turn itself: the question and the answers.
IsText(r) == r.kind = "user" \/ (r.agent = Master /\ r.kind = "text")
SameTurn(r, q) == r.id[1] = q.id[1]

\* close_message: a message is filed once, in the file of its session, and no
\* longer open when it is; also when a tool call of another turn closes it.
FiledOnce ==
    /\ \A s \in Sessions : \A i, j \in 1..Len(files[s]) :
          files[s][i].id = files[s][j].id => i = j
    /\ \A r \in AllFiled : ~IsOpen(r.id)
    /\ \A s, z \in Sessions : s # z =>
          \A r \in ToSet(files[s]), q \in ToSet(files[z]) : r.id # q.id

\* The lock of a session: its history shows one turn after the other, each
\* turn's question before its answers, although the turns of other sessions
\* split its messages and move the active session.
InOrder(f) ==
    \A i, j \in 1..Len(f) :
        i < j /\ IsText(f[i]) /\ IsText(f[j]) /\ SameTurn(f[i], f[j]) =>
            /\ f[j].kind = "text"
            /\ \A k \in i..j : IsText(f[k]) => SameTurn(f[i], f[k])

TurnsInOrder == \A s \in Sessions : InOrder(files[s])

\* No stream is left open when what feeds it has ended: the master's belongs
\* to a turn that is running, a sub-agent's to a run of it, and each has at
\* most one in a session.
StreamsAttended ==
    /\ \A r \in open : r.kind = "text" =>
          IF r.agent = Master
          THEN \E u \in Users : Answering(u) /\ r.id = CurrentMsg(u) /\ r.session = turn[u].session
          ELSE \E u \in Users : turn[u].pc \in {"running", "subtool"} /\ turn[u].sub = r.agent
    /\ \A r, q \in open :
          r.kind = "text" /\ q.kind = "text" /\ r.agent = q.agent /\ r.session = q.session => r = q

\* The stacks of the hook bridge hold the open tool messages, each once, also
\* when calls of two turns alternate or the active session is cleared.
StacksMatch ==
    \A a \in Agents :
        /\ ToSet(stacks[a]) = {r.id : r \in {q \in open : q.agent = a /\ q.kind = "tool"}}
        /\ IsInjective(stacks[a])

\* What is on disk is what a restart needs: the sessions, their members, and
\* no session whose deletion was acknowledged.
SavedSound ==
    /\ saved = StateOf(live, members, cards)
    /\ \A s \in live : members[s] \subseteq cards
    /\ gone \cap live = {}

\* The end of a turn's workflow is announced once, although a sub-agent may be
\* run again, or by the turns of two sessions, after it.
CompleteOnce == \A t \in Turns : progress[t].told <= 1

\* What the users of the GUI find in their sessions.
GuiSound ==
    /\ FiledOnce /\ TurnsInOrder /\ StreamsAttended
    /\ StacksMatch /\ SavedSound /\ CompleteOnce

\* Every turn that was asked for is answered and leaves the lock of its
\* session to the next one.
TurnsEnd == \A u \in Users : []<>(turn[u].pc = "idle")
=============================================================================
