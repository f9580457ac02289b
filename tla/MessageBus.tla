----------------------------- MODULE MessageBus -----------------------------
(***************************************************************************)
(* InProcessBroker (youmi/bus/broker.py): per-agent queues, workflow       *)
(* membership, tenants and ACK tracking.  The lock of subscribe and        *)
(* unsubscribe is never held across an await and the queues are unbounded, *)
(* so the only place where another coroutine can run is the callback       *)
(* (on_message) awaited between two targets of one publish.                *)
(***************************************************************************)
EXTENDS Naturals, Sequences, FiniteSets

CONSTANTS Agents,
          MaxWorkflows,  \* bound on create_workflow; ids are 1..MaxWorkflows
          Tenants, Default,
          TenantOf,      \* the tenant an agent belongs to
          Msgs,
          AckMsgs,       \* TASK and FEEDBACK messages, which get an ack_id
          Observers,     \* agents for which on_message may be called
          Senders,       \* agents that publish (a bound of the runs)
          None

Workflows == 1..MaxWorkflows

\* WorkflowMessage, as far as the broker looks at it.
Envelopes == [from : Agents, to : Agents \cup {None}, wf : Workflows \cup {None},
              tenant : Tenants]

ASSUME BusAssumption ==
    /\ MaxWorkflows \in Nat
    /\ Default \in Tenants /\ TenantOf \in [Agents -> Tenants]
    /\ AckMsgs \subseteq Msgs /\ Observers \subseteq Agents /\ Senders \subseteq Agents
    /\ None \notin Agents /\ None \notin Workflows /\ None \notin Msgs
    /\ None \notin Envelopes

VARIABLES
    subscribed,  \* the keys of _queues, _subscriptions and _agent_tenants
    subs,        \* _subscriptions
    members,     \* _workflow_members
    tenant,      \* _agent_tenants.get(agent, "default")
    counter,     \* _workflow_counter
    observed,    \* agents with a callback in _callbacks
    box,         \* _queues
    acks,        \* _pending_acks, as pairs <<message, agent>>
    mail,        \* the message published under an id, or None
    todo,        \* targets the suspended publish of a message still has to serve
    left,        \* history: those of them that left meanwhile
    got,         \* history: messages an agent took from its queue
    sent         \* history: publications in order

brokerVars == <<subscribed, subs, members, tenant, counter, observed, box, acks>>
pubVars    == <<mail, todo, left, sent>>
vars       == <<brokerVars, pubVars, got>>

InSeq(s, x) == \E i \in 1..Len(s) : s[i] = x
-----------------------------------------------------------------------------
(* Registration *)

\* subscribe: an existing queue is kept, the tenant is always overwritten.
DoSubscribe(a, w, n) ==
    /\ subscribed' = subscribed \cup {a}
    /\ tenant' = [tenant EXCEPT ![a] = n]
    /\ subs' = [subs EXCEPT ![a] = @ \cup ({w} \ {None})]
    /\ members' = [v \in Workflows |-> IF v = w THEN members[v] \cup {a} ELSE members[v]]
    /\ UNCHANGED <<counter, observed, box, acks>>

\* unsubscribe: every trace of the agent goes, except its pending ACKs.
DoUnsubscribe(a) ==
    /\ subscribed' = subscribed \ {a}
    /\ tenant' = [tenant EXCEPT ![a] = Default]
    /\ subs' = [subs EXCEPT ![a] = {}]
    /\ members' = [w \in Workflows |-> members[w] \ {a}]
    /\ observed' = observed \ {a}
    /\ box' = [box EXCEPT ![a] = <<>>]
    /\ UNCHANGED <<counter, acks>>

\* History: agents leave that suspended publications still count as targets.
Leave(S) == left' = [m \in Msgs |-> left[m] \cup (S \cap todo[m])]

\* Agents join workflows that create_workflow has returned, or none.
Subscribe(a, w) ==
    /\ w \in 1..counter \cup {None}
    /\ DoSubscribe(a, w, TenantOf[a])
    /\ UNCHANGED <<pubVars, got>>

Unsubscribe(a) ==
    /\ a \in subscribed
    /\ DoUnsubscribe(a)
    /\ Leave({a})
    /\ UNCHANGED <<mail, todo, sent, got>>

\* create_workflow: the next id, with an empty member set.
CreateWorkflow ==
    /\ counter < MaxWorkflows
    /\ counter' = counter + 1
    /\ members' = [members EXCEPT ![counter + 1] = {}]
    /\ UNCHANGED <<subscribed, subs, tenant, observed, box, acks, pubVars, got>>

\* on_message, for an agent that may not be subscribed yet.
OnMessage(a) ==
    /\ a \in Observers \ observed
    /\ observed' = observed \cup {a}
    /\ UNCHANGED <<subscribed, subs, members, tenant, counter, box, acks, pubVars, got>>
-----------------------------------------------------------------------------
(* Publishing *)

\* The agents a message is addressed to.
Candidates(msg) ==
    IF msg.to # None THEN {msg.to}
    ELSE (IF msg.wf = None THEN subscribed ELSE members[msg.wf]) \ {msg.from}

\* _resolve_targets: ... and belong to its tenant.
ResolveTargets(msg) == {a \in Candidates(msg) : tenant[a] = msg.tenant}

\* The targets publish may have served when it is suspended by a callback
\* or at its end, in any order of the set it iterates over.
Stretches(targets) ==
    LET watched == targets \cap observed \cap subscribed IN
    IF watched = {} THEN {targets}
    ELSE {S \cup {c} : S \in SUBSET (targets \ watched), c \in watched}

\* The loop of publish over these targets; one without a queue is skipped.
Deliver(m, S) ==
    /\ box' = [a \in Agents |-> IF a \in S \cap subscribed THEN Append(box[a], m) ELSE box[a]]
    /\ acks' = acks \cup (({m} \cap AckMsgs) \X (S \cap subscribed))
    /\ UNCHANGED <<subscribed, subs, members, tenant, counter, observed>>

\* publish up to its first suspension, or to its end.
DoPublish(m, msg) ==
    LET targets == ResolveTargets(msg) IN
    \E S \in Stretches(targets) :
        /\ mail' = [mail EXCEPT ![m] = msg]
        /\ sent' = Append(sent, m)
        /\ Deliver(m, S)
        /\ todo' = [todo EXCEPT ![m] = targets \ S]
        /\ UNCHANGED left

\* A sender awaits its publish before it publishes again.
SenderFree(a) == \A m \in Msgs : mail[m] # None /\ mail[m].from = a => todo[m] = {}

Publish(m, from, to, w, n) ==
    /\ mail[m] = None /\ SenderFree(from)
    /\ DoPublish(m, [from |-> from, to |-> to, wf |-> w, tenant |-> n])
    /\ UNCHANGED got

\* Mutant: the targets are resolved again after every callback.
ResumePublish_AgainAll(m) ==
    /\ mail[m] # None /\ todo[m] # {}
    /\ \E S \in Stretches(todo[m]) :
          /\ Deliver(m, ResolveTargets(mail[m]))
          /\ todo' = [todo EXCEPT ![m] = @ \ S]
    /\ UNCHANGED <<mail, left, sent, got>>

\* The callback returns (or raises, which is logged) and the loop goes on.
ResumePublish(m) ==
    /\ mail[m] # None /\ todo[m] # {}
    /\ \E S \in Stretches(todo[m]) :
          /\ Deliver(m, S)
          /\ todo' = [todo EXCEPT ![m] = @ \ S]
    /\ UNCHANGED <<mail, left, sent, got>>
-----------------------------------------------------------------------------
(* Receiving *)

\* wait_for_message returns a message, acknowledged as it is taken; a wait
\* that times out, or finds no queue, changes nothing.
TakeFirst(a) ==
    /\ box[a] # <<>>
    /\ box' = [box EXCEPT ![a] = Tail(@)]
    /\ acks' = acks \ {<<Head(box[a]), a>>}
    /\ got' = [got EXCEPT ![a] = Append(@, Head(box[a]))]

WaitForMessage(a) ==
    /\ TakeFirst(a)
    /\ UNCHANGED <<subscribed, subs, members, tenant, counter, observed, pubVars>>

\* pending_messages drains the queue and acknowledges nothing.
PendingMessages(a) ==
    /\ box[a] # <<>>
    /\ got' = [got EXCEPT ![a] = @ \o box[a]]
    /\ box' = [box EXCEPT ![a] = <<>>]
    /\ UNCHANGED <<subscribed, subs, members, tenant, counter, observed, acks, pubVars>>

\* ack, called by the receiver of drained messages.
AckMessage(a, m) ==
    /\ InSeq(got[a], m) /\ <<m, a>> \in acks
    /\ acks' = acks \ {<<m, a>>}
    /\ UNCHANGED <<subscribed, subs, members, tenant, counter, observed, box, pubVars, got>>

\* close: everything but the workflow counter is cleared.
DoClose ==
    /\ subscribed' = {} /\ observed' = {} /\ acks' = {}
    /\ subs' = [a \in Agents |-> {}] /\ members' = [w \in Workflows |-> {}]
    /\ tenant' = [a \in Agents |-> Default] /\ box' = [a \in Agents |-> <<>>]
    /\ UNCHANGED counter

Close ==
    /\ subscribed # {}
    /\ DoClose
    /\ Leave(Agents)
    /\ UNCHANGED <<mail, todo, sent, got>>
-----------------------------------------------------------------------------
Init ==
    /\ subscribed = {} /\ observed = {} /\ acks = {} /\ counter = 0
    /\ subs = [a \in Agents |-> {}] /\ members = [w \in Workflows |-> {}]
    /\ tenant = [a \in Agents |-> Default] /\ box = [a \in Agents |-> <<>>]
    /\ mail = [m \in Msgs |-> None] /\ todo = [m \in Msgs |-> {}]
    /\ left = [m \in Msgs |-> {}] /\ sent = <<>>
    /\ got = [a \in Agents |-> <<>>]

Next ==
    \/ CreateWorkflow \/ Close
    \/ \E a \in Agents, w \in Workflows \cup {None} : Subscribe(a, w)
    \/ \E a \in Agents : Unsubscribe(a) \/ OnMessage(a) \/ WaitForMessage(a) \/ PendingMessages(a)
    \/ \E a \in Agents, m \in Msgs : AckMessage(a, m)
    \/ \E m \in Msgs, from \in Senders, to \in Agents \cup {None},
          w \in Workflows \cup {None}, n \in Tenants : Publish(m, from, to, w, n)
    \/ \E m \in Msgs : ResumePublish(m)

Spec == Init /\ [][Next]_vars
-----------------------------------------------------------------------------
(* Properties *)

\* Every variable stays in its range.
TypeOK ==
    /\ subscribed \subseteq Agents /\ observed \subseteq Agents
    /\ subs \in [Agents -> SUBSET Workflows] /\ members \in [Workflows -> SUBSET Agents]
    /\ tenant \in [Agents -> Tenants] /\ counter \in 0..MaxWorkflows
    /\ box \in [Agents -> Seq(Msgs)] /\ got \in [Agents -> Seq(Msgs)]
    /\ acks \subseteq Msgs \X Agents
    /\ mail \in [Msgs -> Envelopes \cup {None}]
    /\ todo \in [Msgs -> SUBSET Agents] /\ left \in [Msgs -> SUBSET Agents] /\ sent \in Seq(Msgs)

\* The two membership tables agree, and only agents with a queue are in
\* them: a broadcast reaches exactly the agents that joined its workflow.
MembershipAgrees ==
    \A a \in Agents :
        /\ \A w \in Workflows : a \in members[w] <=> w \in subs[a]
        /\ a \notin subscribed => subs[a] = {} /\ box[a] = <<>> /\ tenant[a] = Default

\* Tenants are isolated: no queue ever holds a message of another tenant,
\* also when its agent left and came back during the publish.
TenantIsolation ==
    \A a \in Agents : \A i \in 1..Len(box[a]) : mail[box[a][i]].tenant = TenantOf[a]

\* Position of a message in the order of publication.
Rank(m) == CHOOSE i \in 1..Len(sent) : sent[i] = m

\* What an agent received and has still to receive: no message twice, and
\* the messages of one sender in the order it sent them, however other
\* publications interleave with the callbacks.
SenderOrder ==
    \A a \in Agents :
        LET h == got[a] \o box[a] IN
        \A i, j \in 1..Len(h) : i < j =>
            /\ h[i] # h[j]
            /\ mail[h[i]].from = mail[h[j]].from => Rank(h[i]) < Rank(h[j])

\* A queued message that needs an acknowledgement is tracked for its agent.
AckTracked ==
    \A a \in Agents : \A i \in 1..Len(box[a]) :
        box[a][i] \in AckMsgs => <<box[a][i], a>> \in acks

\* "Broadcasts do not cross workflows": a broadcast waits only in the
\* queues of agents that are in its workflow, unless they left while its
\* publish was suspended in a callback (and came back before it resumed).
BroadcastStaysInWorkflow ==
    \A a \in Agents : \A i \in 1..Len(box[a]) :
        LET m == box[a][i] IN
        mail[m].to = None /\ mail[m].wf # None => mail[m].wf \in subs[a] \/ a \in left[m]

\* The broker's tables agree with each other; delivery is once, in each sender's
\* order, tracked until acknowledged, and inside the tenant and the workflow a
\* message is meant for.
BrokerSound ==
    /\ TypeOK /\ MembershipAgrees
    /\ SenderOrder /\ AckTracked
    /\ TenantIsolation /\ BroadcastStaysInWorkflow
=============================================================================
