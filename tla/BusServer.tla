----------------------------- MODULE BusServer ------------------------------
(***************************************************************************)
(* BusServer (youmi/bus/server.py): the WebSocket front of an              *)
(* InProcessBroker.  One handler coroutine and one push loop per           *)
(* connection, both keyed by the agent id the client sent.  The broker's   *)
(* operations are those of MessageBus; on_message is not used here.        *)
(***************************************************************************)
EXTENDS MessageBus

CONSTANTS Conns,        \* WebSocket connections
          AgentOf,      \* the agent_id of a connection's subscribe envelope
          Appends       \* workflows that clients join by a later envelope

ASSUME ServerAssumption ==
    /\ AgentOf \in [Conns -> Agents] /\ Appends \subseteq Workflows
    /\ Msgs \cap {"off", "loop"} = {} /\ None \notin Conns

VARIABLES
    conn,         \* the handler of a connection: new, open or closed
    wire,         \* connections over which frames get through
    connections,  \* _connections
    srvTenant,    \* _agent_tenants.get(agent, "default")
    pushing,      \* _push_loop: off, loop (waiting), or the message it sends
    stuck,        \* a push loop spins without ever yielding to the loop
    phase,        \* up, closing, waiting (for the handlers) or stopped
    stopList,     \* connections stop() has still to close
    arrived,      \* history: messages that reached an agent's client
    overlapped    \* history: agents that were back before the server had
                  \* noticed the end of their previous connection

serverVars == <<conn, wire, connections, srvTenant, pushing, stuck, phase, stopList, arrived, overlapped>>
allVars    == <<vars, serverVars>>
-----------------------------------------------------------------------------
(* _handle_connection *)

\* Is a client of this agent still connected, and does the server think so?
Connected(a)   == \E c \in wire : AgentOf[c] = a /\ conn[c] = "open"
StillOpen(a)   == \E c \in Conns : AgentOf[c] = a /\ conn[c] = "open"

\* The first envelope: authenticate, subscribe, register, start pushing.
Connect(c, w) ==
    LET a == AgentOf[c] IN
    /\ ~stuck /\ conn[c] = "new" /\ phase \in {"up", "closing"}
    /\ ~Connected(a)
    /\ overlapped' = IF StillOpen(a) THEN overlapped \cup {a} ELSE overlapped
    /\ DoSubscribe(a, w, TenantOf[a])
    /\ conn' = [conn EXCEPT ![c] = "open"]
    /\ wire' = wire \cup {c}
    /\ connections' = [connections EXCEPT ![a] = c]
    /\ srvTenant' = [srvTenant EXCEPT ![a] = TenantOf[a]]
    /\ pushing' = [pushing EXCEPT ![c] = "loop"]
    /\ UNCHANGED <<pubVars, got, stuck, phase, stopList, arrived>>

\* An invalid token: error envelope, close, and nothing to clean up.
Unauthorized(c) ==
    /\ ~stuck /\ conn[c] = "new" /\ phase \in {"up", "closing"}
    /\ conn' = [conn EXCEPT ![c] = "closed"]
    /\ UNCHANGED <<vars, wire, connections, srvTenant, pushing, stuck, phase, stopList, arrived, overlapped>>

\* The tenants a message may get: the one registered for its sender.
Attributed(a) == {srvTenant[a]}

\* A message envelope: the sender's tenant is forced upon it.
ClientPublish(c, m, to, w) ==
    /\ ~stuck /\ conn[c] = "open" /\ c \in wire /\ mail[m] = None /\ AgentOf[c] \in Senders
    /\ \E n \in Attributed(AgentOf[c]) :
          DoPublish(m, [from |-> AgentOf[c], to |-> to, wf |-> w, tenant |-> n])
    /\ UNCHANGED <<got, serverVars>>

\* A further subscribe envelope joins a workflow; it names no tenant.
AppendSubscribe(c, w) ==
    /\ ~stuck /\ conn[c] = "open" /\ c \in wire /\ w \in Appends \ subs[AgentOf[c]]
    /\ DoSubscribe(AgentOf[c], w, Default)
    /\ UNCHANGED <<pubVars, got, serverVars>>

\* The network fails or the client leaves.
LinkBreaks(c) ==
    /\ ~stuck /\ c \in wire
    /\ wire' = wire \ {c}
    /\ UNCHANGED <<vars, conn, connections, srvTenant, pushing, stuck, phase, stopList, arrived, overlapped>>

\* The handler notices the end of its connection: cancel the push loop, then
\* _cleanup_agent, by agent id.
HandlerEnds(c) ==
    LET a == AgentOf[c] IN
    /\ ~stuck /\ conn[c] = "open" /\ c \notin wire
    /\ conn' = [conn EXCEPT ![c] = "closed"]
    /\ pushing' = [pushing EXCEPT ![c] = "off"]
    /\ connections' = [connections EXCEPT ![a] = None]
    /\ srvTenant' = [srvTenant EXCEPT ![a] = Default]
    /\ DoUnsubscribe(a)
    /\ UNCHANGED <<pubVars, got, wire, stuck, phase, stopList, arrived, overlapped>>
-----------------------------------------------------------------------------
(* _push_loop *)

\* wait_for_message returns: the message has left the queue and counts as
\* acknowledged before it is sent.
PushTake(c) ==
    LET a == AgentOf[c] IN
    /\ ~stuck /\ pushing[c] = "loop" /\ phase \in {"up", "closing"}
    /\ TakeFirst(a)
    /\ pushing' = [pushing EXCEPT ![c] = Head(box[a])]
    /\ UNCHANGED <<subscribed, subs, members, tenant, counter, observed, pubVars,
                   conn, wire, connections, srvTenant, stuck, phase, stopList, arrived, overlapped>>

\* The agent has no queue: wait_for_message returns None at once, without
\* suspending, and the loop calls it again for ever.
PushSpins(c) ==
    /\ ~stuck /\ pushing[c] = "loop" /\ phase = "up" /\ AgentOf[c] \notin subscribed
    /\ stuck' = TRUE
    /\ UNCHANGED <<vars, conn, wire, connections, srvTenant, pushing, phase, stopList, arrived, overlapped>>

\* Mutant: a message whose sending suspends is taken as sent.
PushSend_Drops(c) ==
    /\ ~stuck /\ pushing[c] \in Msgs
    /\ pushing' = [pushing EXCEPT ![c] = "loop"]
    /\ UNCHANGED <<vars, conn, wire, connections, srvTenant, stuck, phase, stopList, arrived, overlapped>>

\* websocket.send: the message arrives, or the connection is gone, which
\* either ends the loop or is not noticed yet.
PushSend(c) ==
    /\ ~stuck /\ pushing[c] \in Msgs
    /\ \/ /\ c \in wire
          /\ arrived' = [arrived EXCEPT ![AgentOf[c]] = Append(@, pushing[c])]
          /\ pushing' = [pushing EXCEPT ![c] = "loop"]
       \/ /\ c \notin wire
          /\ \E p \in {"loop", "off"} : pushing' = [pushing EXCEPT ![c] = p]
          /\ UNCHANGED arrived
    /\ UNCHANGED <<vars, conn, wire, connections, srvTenant, stuck, phase, stopList, overlapped>>
-----------------------------------------------------------------------------
(* stop *)

Stop ==
    /\ ~stuck /\ phase = "up"
    /\ phase' = "closing"
    /\ stopList' = {connections[a] : a \in Agents} \ {None}
    /\ UNCHANGED <<vars, conn, wire, connections, srvTenant, pushing, stuck, arrived, overlapped>>

\* Close one registered connection and unsubscribe its agent.
StopOne(c) ==
    /\ ~stuck /\ phase = "closing" /\ c \in stopList
    /\ stopList' = stopList \ {c}
    /\ wire' = wire \ {c}
    /\ DoUnsubscribe(AgentOf[c])
    /\ UNCHANGED <<pubVars, got, conn, connections, srvTenant, pushing, stuck, phase, arrived, overlapped>>

\* Mutant: the listener is closed, late connections are not.
StopListening_KeepsLinks ==
    /\ ~stuck /\ phase = "closing" /\ stopList = {}
    /\ phase' = "waiting"
    /\ connections' = [a \in Agents |-> None]
    /\ UNCHANGED <<vars, conn, wire, srvTenant, pushing, stuck, stopList, arrived, overlapped>>

\* Forget the connections and close the listener, which ends the others.
StopListening ==
    /\ ~stuck /\ phase = "closing" /\ stopList = {}
    /\ phase' = "waiting"
    /\ wire' = {}
    /\ connections' = [a \in Agents |-> None]
    /\ UNCHANGED <<vars, conn, srvTenant, pushing, stuck, stopList, arrived, overlapped>>

\* wait_closed: every handler has ended; then the broker is closed.
StopDone ==
    /\ ~stuck /\ phase = "waiting" /\ \A c \in Conns : conn[c] # "open"
    /\ phase' = "stopped"
    /\ DoClose
    /\ UNCHANGED <<pubVars, got, conn, wire, connections, srvTenant, pushing, stuck, stopList, arrived, overlapped>>
-----------------------------------------------------------------------------
ServerInit ==
    /\ Init
    /\ conn = [c \in Conns |-> "new"] /\ wire = {}
    /\ connections = [a \in Agents |-> None]
    /\ srvTenant = [a \in Agents |-> Default]
    /\ pushing = [c \in Conns |-> "off"] /\ stuck = FALSE
    /\ phase = "up" /\ stopList = {}
    /\ arrived = [a \in Agents |-> <<>>] /\ overlapped = {}

ServerNext ==
    \/ \E c \in Conns, w \in Workflows \cup {None} : Connect(c, w)
    \/ \E c \in Conns, m \in Msgs, to \in Agents \cup {None}, w \in Workflows \cup {None} :
          ClientPublish(c, m, to, w)
    \/ \E c \in Conns, w \in Workflows : AppendSubscribe(c, w)
    \/ \E c \in Conns : \/ Unauthorized(c) \/ LinkBreaks(c) \/ HandlerEnds(c)
                        \/ PushTake(c) \/ PushSpins(c) \/ PushSend(c) \/ StopOne(c)
    \/ Stop \/ StopListening \/ StopDone

\* The loop runs every ready coroutine; websockets' keepalive reports a
\* broken connection to its handler.
ServerFairness ==
    /\ \A c \in Conns : /\ WF_allVars(PushTake(c)) /\ WF_allVars(PushSend(c))
                        /\ WF_allVars(HandlerEnds(c)) /\ WF_allVars(StopOne(c))
    /\ WF_allVars(StopListening) /\ WF_allVars(StopDone)

ServerSpec == ServerInit /\ [][ServerNext]_allVars

ServerFairSpec == ServerSpec /\ ServerFairness
-----------------------------------------------------------------------------
(* Properties *)

\* Every variable stays in its range.
ServerTypeOK ==
    /\ TypeOK
    /\ conn \in [Conns -> {"new", "open", "closed"}] /\ wire \subseteq Conns
    /\ connections \in [Agents -> Conns \cup {None}]
    /\ srvTenant \in [Agents -> Tenants]
    /\ pushing \in [Conns -> Msgs \cup {"off", "loop"}] /\ stuck \in BOOLEAN
    /\ phase \in {"up", "closing", "waiting", "stopped"} /\ stopList \subseteq Conns
    /\ arrived \in [Agents -> Seq(Msgs)] /\ overlapped \subseteq Agents

\* A client that is connected is served: its agent is registered under this
\* connection and has its queue, whatever became of earlier connections of
\* the same agent, unless one of those was not yet noticed to be broken.
ConnectedIsServed ==
    phase = "up" => \A c \in wire : conn[c] = "open" =>
        LET a == AgentOf[c] IN
        \/ a \in subscribed /\ connections[a] = c /\ srvTenant[a] = TenantOf[a]
        \/ a \in overlapped

\* No coroutine of the server captures the event loop, unless connections
\* of one agent have overlapped.
LoopRuns == stuck => overlapped # {}

\* Across the wire, too, a queue holds only messages sent from its own
\* tenant: between agents without overlapping connections, as long as the
\* receiver has not been moved to the default tenant by a later subscribe.
SameTenant ==
    \A a \in Agents : tenant[a] = TenantOf[a] => \A i \in 1..Len(box[a]) :
        LET from == mail[box[a][i]].from IN
        TenantOf[from] = TenantOf[a] \/ {a, from} \cap overlapped # {}

\* stop() leaves nothing behind, also of clients that connected while the
\* others were being closed.
CleanAfterStop ==
    phase = "stopped" =>
        /\ subscribed = {} /\ acks = {}
        /\ \A a \in Agents : connections[a] = None /\ srvTenant[a] = Default
        /\ \A c \in Conns : pushing[c] = "off"

\* At-least-once delivery, as far as it goes: a message that is no longer
\* queued and no longer awaiting an ACK has reached the client, is just
\* being sent, or was lost with a connection of its agent that broke.
AckedHasArrived ==
    \A a \in Agents, m \in AckMsgs :
        InSeq(got[a], m) /\ <<m, a>> \notin acks
            => \/ InSeq(arrived[a], m)
               \/ \E c \in Conns : AgentOf[c] = a /\ pushing[c] = m
               \/ \E c \in Conns \ wire : AgentOf[c] = a /\ conn[c] # "new"

\* A queued message reaches its client, unless the client's link or the
\* server goes down or its connections overlap.
PushDelivers ==
    \A a \in Agents, m \in Msgs :
        InSeq(box[a], m) ~> \/ InSeq(arrived[a], m) \/ ~Connected(a)
                            \/ phase # "up" \/ a \in overlapped \/ stuck

\* stop() returns.
StopReturns == phase = "closing" ~> phase = "stopped"

\* A connected client is registered in every table of server and broker, what
\* is sent over the wire reaches its receiver and nobody else's, the event loop
\* keeps running and stop() leaves nothing behind.
ServerSound ==
    /\ ServerTypeOK /\ MembershipAgrees /\ ConnectedIsServed /\ LoopRuns
    /\ SameTenant /\ AckedHasArrived /\ CleanAfterStop

\* Queued messages go out and stop() comes to an end.
ServerProgress == PushDelivers /\ StopReturns
=============================================================================
