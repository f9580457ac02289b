----------------------------- MODULE BusClient ------------------------------
(***************************************************************************)
(* BusClient (youmi/bus/ws_client.py): connect with its attempts, the      *)
(* receive loop that reconnects by itself, the heartbeat loop and          *)
(* disconnect, over a network that loses connections and a server that     *)
(* may not answer.  One receive task exists at a time: the one that meets  *)
(* the end of its connection reconnects, and its successor takes over.     *)
(* Messages are those of BusServer and are left out.                       *)
(***************************************************************************)
EXTENDS Naturals

CONSTANTS Socks,       \* sockets; each dial takes a fresh one
          MaxAttempts, \* max_reconnect_attempts
          NoSocket

ASSUME ClientAssumption ==
    /\ MaxAttempts \in Nat \ {0} /\ NoSocket \notin Socks

VARIABLES
    ws,        \* _ws
    connected, \* _connected
    user,      \* the caller's connect(): idle, dial, confirm or backoff
    recv,      \* _recv_task: none, recv, or in _reconnect: sleep, confirm
    attempt,   \* the attempt of connect() or _reconnect()
    beats,     \* heartbeat tasks alive, named by the socket they began with
    beatTask,  \* _heartbeat_task
    held,      \* sockets the client process has open
    up,        \* sockets whose peer still answers
    used,      \* sockets dialled so far
    orphans    \* history: sockets whose subscription was never confirmed

taskVars == <<user, recv, attempt>>
beatVars == <<beats, beatTask>>
clientVars     == <<ws, connected, taskVars, beatVars, held, up, used, orphans>>

IsConnected == connected /\ ws # NoSocket
-----------------------------------------------------------------------------
\* ws_connect succeeds: _ws is overwritten, whatever it held.
Dial(s) ==
    /\ s \notin used
    /\ ws' = s /\ connected' = TRUE
    /\ held' = held \cup {s} /\ up' = up \cup {s} /\ used' = used \cup {s}

\* ConnectionClosed: the library has closed the socket.
Gone(s) == held' = held \ {s}

\* History: the attempt fails after its dial.
Orphan == orphans' = orphans \cup {ws}

\* Mutant: the attempts are not counted.
Failed_Endless(retry) == retry /\ attempt' = 1

\* After a failed attempt: the next one, or none is left.
Failed(retry) ==
    /\ retry = (attempt < MaxAttempts)
    /\ attempt' = IF retry THEN attempt + 1 ELSE 0
-----------------------------------------------------------------------------
(* connect *)

\* A caller connects, or tries again after connect() has raised.
Connects ==
    /\ user = "idle" /\ recv = "none"
    /\ user' = "dial" /\ attempt' = 1
    /\ UNCHANGED <<ws, connected, recv, beatVars, held, up, used, orphans>>

\* The dial succeeds; the subscribe envelope is sent.
Dials(s) ==
    /\ user = "dial" /\ Dial(s)
    /\ user' = "confirm"
    /\ UNCHANGED <<recv, attempt, beatVars, orphans>>

\* The subscription is confirmed: start both loops.
Subscribed ==
    /\ user = "confirm" /\ ws \in up
    /\ user' = "idle" /\ recv' = "recv" /\ attempt' = 0
    /\ beats' = beats \cup {ws} /\ beatTask' = ws
    /\ UNCHANGED <<ws, connected, held, up, used, orphans>>

\* An error envelope (authentication): close and raise, no retry.
Rejected ==
    /\ user = "confirm" /\ ws \in up
    /\ user' = "idle" /\ attempt' = 0
    /\ Gone(ws) /\ up' = up \ {ws}
    /\ ws' = NoSocket /\ connected' = FALSE
    /\ UNCHANGED <<recv, beatVars, used, orphans>>

\* Refused, lost or unanswered: _ws and _connected stay as they are.
AttemptFails ==
    /\ \/ user = "dial" /\ UNCHANGED <<held, orphans>>
       \/ user = "confirm" /\ ws \notin up /\ Gone(ws) /\ Orphan
       \/ user = "confirm" /\ UNCHANGED held /\ Orphan
    /\ \E retry \in BOOLEAN : Failed(retry) /\ user' = IF retry THEN "backoff" ELSE "idle"
    /\ UNCHANGED <<ws, connected, recv, beatVars, up, used>>

\* reconnect_interval has passed.
BackoffOver ==
    /\ user = "backoff" /\ user' = "dial"
    /\ UNCHANGED <<ws, connected, recv, attempt, beatVars, held, up, used, orphans>>
-----------------------------------------------------------------------------
(* _recv_loop and _reconnect *)

\* The network or the server drops a connection.
SocketBreaks(s) ==
    /\ s \in up
    /\ up' = up \ {s}
    /\ UNCHANGED <<ws, connected, taskVars, beatVars, held, used, orphans>>

\* recv() raises ConnectionClosed.
RecvCloses ==
    /\ recv = "recv" /\ ws \notin up
    /\ connected' = FALSE
    /\ recv' = "sleep" /\ attempt' = 1
    /\ Gone(ws)
    /\ UNCHANGED <<ws, user, beatVars, up, used, orphans>>

\* The interval is over and the dial succeeds.
Redials(s) ==
    /\ recv = "sleep" /\ Dial(s)
    /\ recv' = "confirm"
    /\ UNCHANGED <<user, attempt, beatVars, orphans>>

\* Confirmed: a new receive loop, and only that.
Resubscribed ==
    /\ recv = "confirm" /\ ws \in up
    /\ recv' = "recv" /\ attempt' = 0
    /\ UNCHANGED <<ws, connected, user, beatVars, held, up, used, orphans>>

\* Rejected: no further attempt; the server closes the socket.
ReconnectRejected ==
    /\ recv = "confirm" /\ ws \in up
    /\ recv' = "none" /\ attempt' = 0
    /\ connected' = FALSE
    /\ Gone(ws) /\ up' = up \ {ws}
    /\ UNCHANGED <<ws, user, beatVars, used, orphans>>

\* Refused, lost or unanswered: the next attempt, or none is left.
ReconnectFails ==
    /\ \/ recv = "sleep" /\ UNCHANGED <<held, orphans>>
       \/ recv = "confirm" /\ ws \notin up /\ Gone(ws) /\ Orphan
       \/ recv = "confirm" /\ UNCHANGED held /\ Orphan
    /\ \E retry \in BOOLEAN : Failed(retry) /\ recv' = IF retry THEN "sleep" ELSE "none"
    /\ UNCHANGED <<ws, connected, user, beatVars, up, used>>
-----------------------------------------------------------------------------
\* A heartbeat task wakes: it ends when the client is not connected or the
\* send meets a closed connection.
HeartbeatWakes(b) ==
    /\ b \in beats
    /\ ~connected \/ ws \notin up
    /\ beats' = beats \ {b}
    /\ UNCHANGED <<ws, connected, taskVars, beatTask, held, up, used, orphans>>

\* Mutant: a reconnecting receive loop is not cancelled.
Disconnect_KeepsLoop ==
    /\ user = "idle" /\ (ws # NoSocket \/ recv # "none")
    /\ connected' = FALSE
    /\ recv' = IF recv = "recv" THEN "none" ELSE recv
    /\ beats' = beats \ {beatTask} /\ beatTask' = NoSocket
    /\ Gone(ws) /\ up' = up \ {ws} /\ ws' = NoSocket
    /\ UNCHANGED <<user, attempt, used, orphans>>

\* disconnect (and unsubscribe, close): cancel the loops, close the socket.
Disconnect ==
    /\ user = "idle" /\ (ws # NoSocket \/ recv # "none")
    /\ connected' = FALSE
    /\ recv' = "none" /\ attempt' = 0
    /\ beats' = beats \ {beatTask} /\ beatTask' = NoSocket
    /\ Gone(ws) /\ up' = up \ {ws} /\ ws' = NoSocket
    /\ UNCHANGED <<user, used, orphans>>
-----------------------------------------------------------------------------
ClientInit ==
    /\ ws = NoSocket /\ connected = FALSE
    /\ user = "idle" /\ recv = "none" /\ attempt = 0
    /\ beats = {} /\ beatTask = NoSocket
    /\ held = {} /\ up = {} /\ used = {} /\ orphans = {}

ClientNext ==
    \/ \E s \in Socks : Dials(s) \/ Redials(s) \/ SocketBreaks(s) \/ HeartbeatWakes(s)
    \/ Connects \/ Subscribed \/ Rejected \/ AttemptFails \/ BackoffOver
    \/ RecvCloses \/ Resubscribed \/ ReconnectRejected \/ ReconnectFails
    \/ Disconnect

\* Timers fire, awaits on the network end by an answer, an error or the
\* five-second timeout, and ready coroutines are resumed.
ClientFairness ==
    /\ WF_clientVars(BackoffOver) /\ WF_clientVars(RecvCloses)
    /\ WF_clientVars(AttemptFails \/ Subscribed \/ Rejected \/ \E s \in Socks : Dials(s))
    /\ WF_clientVars(ReconnectFails \/ Resubscribed \/ ReconnectRejected \/ \E s \in Socks : Redials(s))

ClientSpec == ClientInit /\ [][ClientNext]_clientVars

ClientFairSpec == ClientSpec /\ ClientFairness
-----------------------------------------------------------------------------
(* Properties *)

\* Every variable stays in its range; no more than max_reconnect_attempts
\* attempts are made.
ClientTypeOK ==
    /\ ws \in Socks \cup {NoSocket} /\ connected \in BOOLEAN
    /\ user \in {"idle", "dial", "confirm", "backoff"}
    /\ recv \in {"none", "recv", "sleep", "confirm"}
    /\ attempt \in 0..MaxAttempts
    /\ beats \subseteq Socks /\ beatTask \in Socks \cup {NoSocket}
    /\ up \cup held \cup orphans \subseteq used /\ used \subseteq Socks

\* Outside connect() and _reconnect, a client that is_connected receives:
\* what the server pushes does not vanish in an unread socket, unless the
\* last attempt was dialled and never confirmed.
ConnectedReceives ==
    IsConnected /\ user = "idle" => recv # "none" \/ ws \in orphans

\* disconnect() disconnects: a client without a socket has no loop that
\* could open one, and holds none open but those of unconfirmed attempts.
DisconnectedIsClosed ==
    ws = NoSocket /\ user = "idle" => held \subseteq orphans /\ recv = "none"

\* A lost connection is either replaced or given up for good, and connect()
\* returns or raises.
ReconnectSettles ==
    /\ recv \in {"sleep", "confirm"} ~> recv \in {"recv", "none"}
    /\ user # "idle" ~> user = "idle"

\* The client's view of its connection is true: it receives while it is
\* connected and holds nothing when it is not.
SocketsSound == ClientTypeOK /\ ConnectedReceives /\ DisconnectedIsClosed
=============================================================================
