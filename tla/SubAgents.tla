----------------------------- MODULE SubAgents ------------------------------
(***************************************************************************)
(* The sub-agents of a master (coordinator/master.py): run_sub_agent runs  *)
(* one inside the master's process or, when it is isolated, in a process   *)
(* of its own (coordinator/subprocess_agent.py, _subprocess_entry.py) that *)
(* gets its task and sends its result over the message bus.                *)
(* The master reads the results of all its processes from one queue, that  *)
(* of the bus id "master"; a child reads whatever comes first.  A child's  *)
(* TOOL_REQUEST goes to everybody on the bus.  An agent may have several   *)
(* processes: a run that is cancelled while launch() sleeps leaves its     *)
(* process behind, and the next call starts another with the same bus id.  *)
(* The server (bus/server.py) has one queue for an id, which is gone when  *)
(* any connection of that id ends.                                         *)
(***************************************************************************)
EXTENDS Naturals, Sequences, FiniteSets, SequencesExt

CONSTANTS Agents, None,
          Processes,  \* bound: the processes there may be at one time
          IdOf,       \* the agent a process is started for, whose bus id it has
          MaxFaults

ASSUME SubAgentsAssumption ==
    /\ None \notin Agents \cup Processes /\ IdOf \in [Processes -> Agents] /\ MaxFaults \in Nat

VARIABLES
    isolated,  \* agents with a process of their own
    team,      \* bound: the agents that may be created
    bus,       \* "none"; "deaf" when nobody is subscribed as "master"; "heard";
               \* "hosted" when, besides, the server runs in the master's process
    enlisted,  \* _sub_agents
    status,    \* AgentStatus of the agent object in the master's process
    result,    \* SubAgentRecord.result
    job,       \* the tool call or run_all_sub_agents in progress
    call,      \* where run_sub_agent of an agent is
    got,       \* what it will record once the process has ended
    waiting,   \* calls that wait on the queue, in order
    mail,      \* the queue of "master"
    hand,      \* the process that a call has started
    proc,      \* the state of a process
    box,       \* what it has received and not read
    served,    \* bus ids that have a queue on the server
    captured,  \* the server's event loop spins in a push loop
    doubled,   \* history: agents called while an earlier process of theirs lived
    faults,    \* crashes, hangs, tool requests and cancellations so far
    troubled   \* history: a fault, a timeout or calls at the same time

childVars   == <<proc, box, served>>
processVars == <<hand, childVars, captured, doubled>>
busVars     == <<mail, waiting>>
recordVars  == <<enlisted, status, result>>
callVars    == <<job, call, got>>
subVars     == <<isolated, team, bus, recordVars, callVars, busVars, processVars, faults, troubled>>

NoJob == [kind |-> "none", todo |-> {}]
Outcome(ok, from, why) == [ok |-> ok, from |-> from, why |-> why]
NoOutcome == Outcome(FALSE, None, "none")

Connected == {"ready", "working", "stuck"}
Alive == Connected \cup {"boot"}
Calling == {a \in Agents : call[a] # "idle"}

\* The processes with the bus id of an agent: those that may still be started, those that
\* live and those that are subscribed.
Unused(a) == {p \in Processes : IdOf[p] = a /\ proc[p] = "dead"}
Living(a) == {p \in Processes : IdOf[p] = a /\ proc[p] \in Alive}
Linked(a) == {p \in Processes : IdOf[p] = a /\ proc[p] \in Connected}

\* A message sent to "master" reaches the master's queue, and anybody's a queue at all.
Heard == bus \in {"heard", "hosted"} /\ ~captured

\* A captured event loop runs nothing else, the master neither if it is the master's.
Frozen == captured /\ bus = "hosted"

SubInit ==
    /\ enlisted = {} /\ job = NoJob /\ waiting = <<>> /\ mail = <<>> /\ faults = 0 /\ troubled = FALSE
    /\ status = [a \in Agents |-> "created"]
    /\ result = [a \in Agents |-> NoOutcome]
    /\ call = [a \in Agents |-> "idle"]
    /\ got = [a \in Agents |-> NoOutcome]
    /\ hand = [a \in Agents |-> None]
    /\ proc = [p \in Processes |-> "dead"]
    /\ box = [p \in Processes |-> <<>>]
    /\ served = {} /\ captured = FALSE /\ doubled = {}

faultVars == <<faults, troubled>>
Fault == faults < MaxFaults /\ faults' = faults + 1 /\ troubled' = TRUE

\* One process for each of the agents that have a queue: the push loops of all the
\* connections of an id wait on one queue, and one of them takes the message.
Takers(agents) ==
    {T \in SUBSET Processes : \A a \in Agents :
        IF a \in agents \cap served /\ Linked(a) # {}
        THEN \E p \in Linked(a) : {q \in T : IdOf[q] = a} = {p}
        ELSE {q \in T : IdOf[q] = a} = {}}

\* A message reaches those who are subscribed when it is published.
Publish(kind, from, targets) ==
    IF captured THEN UNCHANGED <<box, mail>>
    ELSE /\ \E T \in Takers(targets) :
              box' = [p \in Processes |-> IF p \in T THEN Append(box[p], kind) ELSE box[p]]
         /\ mail' = IF None \in targets /\ Heard
                    THEN Append(mail, [kind |-> kind, from |-> from]) ELSE mail

\* A process ends, and the server drops the queue of its id, whoever else has that id.
EndProcess(p) ==
    /\ proc' = [proc EXCEPT ![p] = "dead"] /\ box' = [box EXCEPT ![p] = <<>>]
    /\ served' = IF proc[p] \in Connected THEN served \ {IdOf[p]} ELSE served
-----------------------------------------------------------------------------
(* The master's side *)

\* create_sub_agent: an agent with a new id, so with none that a process still has.
Enlist(a) ==
    /\ a \in team \ enlisted /\ job = NoJob /\ Living(a) = {}
    /\ enlisted' = enlisted \cup {a}
    /\ doubled' = doubled \ {a}
    /\ UNCHANGED <<isolated, team, bus, status, result, callVars, busVars,
                   hand, childVars, captured, faultVars>>

\* The run_sub_agent tool: any agent it is told to, even one that has run before.
RunTool(a) ==
    /\ job = NoJob /\ a \in enlisted
    /\ job' = [kind |-> "one", todo |-> {a}]
    /\ UNCHANGED <<isolated, team, bus, recordVars, call, got, busVars, processVars, faultVars>>

\* run_all_sub_agents: those without a result, one by one or all together.
RunAll(kind) ==
    LET pending == {a \in enlisted : result[a] = NoOutcome /\ status[a] \in {"created", "idle"}}
    IN  /\ job = NoJob /\ pending # {}
        /\ job' = [kind |-> kind, todo |-> pending]
        /\ UNCHANGED <<isolated, team, bus, recordVars, call, got, busVars, processVars, faultVars>>

MayCall(a) ==
    /\ a \in job.todo
    /\ job.kind = "all" \/ Calling = {}

\* The exception of one call ends a tool call and a run in sequence; gather keeps it.
Raised(a) == job' = [job EXCEPT !.todo = IF job.kind = "all" THEN @ \ {a} ELSE {}]

\* run_sub_agent inside the process: run() wants the agent idle.
CallInPlace(a) ==
    /\ MayCall(a) /\ a \notin isolated
    /\ \/ /\ status[a] \in {"created", "idle"}
          /\ status' = [status EXCEPT ![a] = "running"]
          /\ call' = [call EXCEPT ![a] = "running"]
          /\ job' = [job EXCEPT !.todo = @ \ {a}]
          /\ UNCHANGED faultVars
       \/ /\ status[a] = "created" /\ Fault   \* initialize() raises
          /\ Raised(a) /\ UNCHANGED <<status, call>>
       \/ /\ status[a] \notin {"created", "idle"}
          /\ Raised(a) /\ UNCHANGED <<status, call, faultVars>>
    /\ UNCHANGED <<isolated, team, bus, enlisted, result, got, busVars, processVars>>

\* ... and its result is recorded.
InPlaceReturns(a) ==
    /\ call[a] = "running"
    /\ \E ok \in BOOLEAN :
         /\ status' = [status EXCEPT ![a] = IF ok THEN "completed" ELSE "failed"]
         /\ result' = [result EXCEPT ![a] = Outcome(ok, a, "run")]
    /\ call' = [call EXCEPT ![a] = "idle"]
    /\ UNCHANGED <<isolated, team, bus, enlisted, job, got, busVars, processVars, faultVars>>

\* _run_isolated_sub_agent: without a bus it fails at once, otherwise launch()
\* starts a process, whether or not an earlier one of the agent still lives.
CallIsolated(a) ==
    /\ MayCall(a) /\ a \in isolated
    /\ job' = [job EXCEPT !.todo = @ \ {a}]
    /\ IF bus = "none"
       THEN /\ result' = [result EXCEPT ![a] = Outcome(FALSE, None, "error")]
            /\ UNCHANGED <<call, hand, proc, doubled>>
       ELSE /\ call' = [call EXCEPT ![a] = "launching"]
            /\ Unused(a) # {}
            /\ hand' = [hand EXCEPT ![a] = CHOOSE p \in Unused(a) : TRUE]
            /\ proc' = [proc EXCEPT ![hand'[a]] = "boot"]
            /\ doubled' = IF Living(a) = {} THEN doubled ELSE doubled \cup {a}
            /\ UNCHANGED result
    /\ troubled' = (troubled \/ Calling # {})
    /\ UNCHANGED <<isolated, team, bus, enlisted, status, got, busVars, box, served, captured, faults>>

\* After half a second launch() looks whether the process still lives, and raises
\* if not.
Launched(a) ==
    /\ call[a] = "launching"
    /\ IF proc[hand[a]] = "dead"
       THEN /\ call' = [call EXCEPT ![a] = "idle"] /\ hand' = [hand EXCEPT ![a] = None]
            /\ result' = [result EXCEPT ![a] = Outcome(FALSE, None, "error")]
       ELSE call' = [call EXCEPT ![a] = "settling"] /\ UNCHANGED <<hand, result>>
    /\ UNCHANGED <<isolated, team, bus, enlisted, status, job, got, busVars,
                   childVars, captured, doubled, faultVars>>

\* A second later the TASK is sent, whether or not the child has connected, and
\* wait_result waits on the queue of "master"; without one it returns at once.  A
\* captured server lets the connection go stale, and then publish() raises.
SendTask(a) ==
    /\ call[a] = "settling"
    /\ Publish("task", None, {a})
    /\ \/ /\ bus \in {"heard", "hosted"}
          /\ call' = [call EXCEPT ![a] = "waiting"]
          /\ waiting' = Append(waiting, a) /\ UNCHANGED got
       \/ /\ ~Heard
          /\ call' = [call EXCEPT ![a] = "killing"]
          /\ \E why \in IF captured THEN {"timeout", "error"} ELSE {"timeout"} :
                got' = [got EXCEPT ![a] = Outcome(FALSE, None, why)]
          /\ UNCHANGED waiting
    /\ troubled' = (troubled \/ ~Heard)
    /\ UNCHANGED <<isolated, team, bus, recordVars, job, hand, proc, served, captured, doubled, faults>>

\* wait_result: the first waiter takes the first message, whoever it is from.  The
\* JSON of a feedback has no "success", so that the result is always a failure.
Receive(a) ==
    /\ call[a] = "waiting" /\ mail # <<>> /\ Head(waiting) = a
    /\ got' = [got EXCEPT ![a] = Outcome(FALSE, Head(mail).from, Head(mail).kind)]
    /\ mail' = Tail(mail) /\ waiting' = Tail(waiting)
    /\ call' = [call EXCEPT ![a] = "killing"]
    /\ UNCHANGED <<isolated, team, bus, recordVars, job, processVars, faultVars>>

\* asyncio takes the getter of a wait that is given up out of the queue.
LeavesQueue(a) ==
    \E i \in 1..Len(waiting) : waiting[i] = a /\ waiting' = RemoveAt(waiting, i)

\* Mutant: the wait is only given up when the process has ended.
TimesOut_WhenDead(a) ==
    /\ call[a] = "waiting" /\ mail = <<>> /\ proc[hand[a]] = "dead"
    /\ got' = [got EXCEPT ![a] = Outcome(FALSE, None, "timeout")]
    /\ LeavesQueue(a)
    /\ call' = [call EXCEPT ![a] = "killing"]
    /\ troubled' = TRUE
    /\ UNCHANGED <<isolated, team, bus, recordVars, job, mail, processVars, faults>>

\* ... or the timeout passes.
TimesOut(a) ==
    /\ call[a] = "waiting" /\ mail = <<>>
    /\ got' = [got EXCEPT ![a] = Outcome(FALSE, None, "timeout")]
    /\ LeavesQueue(a)
    /\ call' = [call EXCEPT ![a] = "killing"]
    /\ troubled' = TRUE
    /\ UNCHANGED <<isolated, team, bus, recordVars, job, mail, processVars, faults>>

\* Mutant: only a call that timed out terminates its process.
Terminated_OnTimeout(a) ==
    /\ call[a] = "killing"
    /\ IF proc[hand[a]] \in Alive /\ got[a].why \in {"timeout", "none"}
       THEN EndProcess(hand[a]) ELSE UNCHANGED childVars
    /\ result' = IF got[a] = NoOutcome THEN result ELSE [result EXCEPT ![a] = got[a]]
    /\ got' = [got EXCEPT ![a] = NoOutcome]
    /\ call' = [call EXCEPT ![a] = "idle"] /\ hand' = [hand EXCEPT ![a] = None]
    /\ UNCHANGED <<isolated, team, bus, enlisted, status, job, busVars, captured, doubled, faultVars>>

\* The finally of launch_and_run: the process it started is terminated, and killed if
\* that is not enough; only then the result is recorded.
Terminated(a) ==
    /\ call[a] = "killing"
    /\ IF proc[hand[a]] \in Alive THEN EndProcess(hand[a]) ELSE UNCHANGED childVars
    /\ result' = IF got[a] = NoOutcome THEN result ELSE [result EXCEPT ![a] = got[a]]
    /\ got' = [got EXCEPT ![a] = NoOutcome]
    /\ call' = [call EXCEPT ![a] = "idle"] /\ hand' = [hand EXCEPT ![a] = None]
    /\ UNCHANGED <<isolated, team, bus, enlisted, status, job, busVars, captured, doubled, faultVars>>

JobDone == job # NoJob /\ job.todo = {} /\ Calling = {}

EndJob ==
    /\ JobDone
    /\ job' = NoJob
    /\ UNCHANGED <<isolated, team, bus, recordVars, call, got, busVars, processVars, faultVars>>

\* The run that made the calls is cancelled: an agent in the process is idle again,
\* a process is terminated, unless launch() has not returned a handle for it yet: it
\* is then left to itself.
CancelCalls ==
    /\ status' = [a \in Agents |-> IF call[a] = "running" THEN "idle" ELSE status[a]]
    /\ call' = [a \in Agents |-> IF call[a] \in {"settling", "waiting", "killing"}
                                 THEN "killing" ELSE "idle"]
    /\ hand' = [a \in Agents |-> IF call[a] = "launching" THEN None ELSE hand[a]]
    /\ got' = [a \in Agents |-> IF call[a] = "killing" THEN got[a] ELSE NoOutcome]
    /\ job' = [job EXCEPT !.todo = {}]
    /\ waiting' = <<>>
    /\ UNCHANGED <<isolated, team, bus, enlisted, result, mail, childVars, captured, doubled>>

DropRecords ==
    /\ enlisted' = {}
    /\ status' = [a \in Agents |-> "created"]
    /\ result' = [a \in Agents |-> NoOutcome]

\* reset_for_new_task: the agents are destroyed and their records forgotten.
DropSubAgents ==
    /\ job = NoJob
    /\ DropRecords
    /\ UNCHANGED <<isolated, team, bus, callVars, busVars, processVars, faultVars>>
-----------------------------------------------------------------------------
(* The side of the processes: _run_agent, and the server's push loop *)

restVars == <<isolated, team, bus, recordVars, callVars, hand, captured, doubled>>

\* connect() and initialize(), or the process ends with an exception: before it has
\* subscribed, as it must once the server is captured, or after.
Connects(p) ==
    /\ proc[p] = "boot"
    /\ \/ /\ ~captured
          /\ proc' = [proc EXCEPT ![p] = "ready"] /\ served' = served \cup {IdOf[p]}
          /\ UNCHANGED faultVars
       \/ /\ proc' = [proc EXCEPT ![p] = "dead"]
          /\ \/ captured /\ UNCHANGED <<served, faultVars>>
             \/ ~captured /\ Fault /\ served' \in {served, served \ {IdOf[p]}}
    /\ UNCHANGED <<box, restVars, busVars>>

\* The first message is taken for the task; anything else ends the process.
TakesTask(p) ==
    /\ proc[p] = "ready" /\ box[p] # <<>>
    /\ IF Head(box[p]) = "task"
       THEN /\ proc' = [proc EXCEPT ![p] = "working"] /\ box' = [box EXCEPT ![p] = Tail(@)]
            /\ UNCHANGED served
       ELSE EndProcess(p)
    /\ UNCHANGED <<restVars, busVars, faultVars>>

\* No task came for 300 seconds.
GivesUp(p) ==
    /\ proc[p] = "ready" /\ box[p] = <<>>
    /\ EndProcess(p)
    /\ UNCHANGED <<restVars, busVars, faultVars>>

\* request_tool: broadcast without a workflow, so to every queue but its own.
AsksForTool(p) ==
    /\ proc[p] = "working" /\ Fault
    /\ Publish("request", IdOf[p], (Agents \cup {None}) \ {IdOf[p]})
    /\ UNCHANGED <<restVars, waiting, proc, served>>

\* The run ends, the feedback is published and the process ends.
Reports(p) ==
    /\ proc[p] = "working"
    /\ mail' = IF Heard THEN Append(mail, [kind |-> "feedback", from |-> IdOf[p]]) ELSE mail
    /\ EndProcess(p)
    /\ UNCHANGED <<restVars, waiting, faultVars>>

\* A process dies, or blocks for good on its stderr, a pipe the parent never reads.
Breaks(p) ==
    /\ Fault
    /\ \/ proc[p] \in Connected /\ EndProcess(p)
       \/ proc[p] = "working" /\ proc' = [proc EXCEPT ![p] = "stuck"] /\ UNCHANGED <<box, served>>
    /\ UNCHANGED <<restVars, busVars>>

\* A push loop whose id has lost its queue asks for a message, gets None at once and
\* asks again, for ever, without letting the event loop go.
ServerSpins(p) ==
    /\ ~captured /\ proc[p] \in Connected /\ IdOf[p] \notin served
    /\ captured' = TRUE
    /\ UNCHANGED <<isolated, team, bus, recordVars, callVars, hand, doubled,
                   busVars, childVars, faultVars>>
-----------------------------------------------------------------------------
Job(a) == CallInPlace(a) \/ CallIsolated(a) \/ InPlaceReturns(a)
          \/ Launched(a) \/ SendTask(a) \/ Receive(a) \/ TimesOut(a) \/ Terminated(a)

Child(p) == Connects(p) \/ TakesTask(p) \/ GivesUp(p) \/ AsksForTool(p) \/ Reports(p) \/ Breaks(p)
            \/ ServerSpins(p)
-----------------------------------------------------------------------------
(* Properties *)

\* A process that works on a task is that of a call that waits for it or ends it: once
\* the call has returned, timed out or been cancelled, nothing goes on working.  Except
\* where the agent has been called while a process left by a cancelled launch lived:
\* that one may have taken the task, and nobody ends it.
WorkersAttended ==
    \A p \in Processes : proc[p] \in {"working", "stuck"} =>
        IF hand[IdOf[p]] = p THEN call[IdOf[p]] \in {"waiting", "killing"} ELSE IdOf[p] \in doubled

\* A process that is subscribed has a queue, so that its push loop does not spin: two
\* processes of one agent are never connected at a time, with the same exception.
ProcessesServed ==
    \A p \in Processes : proc[p] \in Connected => IdOf[p] \in served \/ IdOf[p] \in doubled

\* A call that is over has taken its place out of the queue, and the waiters are
\* exactly the calls that wait.
WaitersMatch ==
    /\ {waiting[i] : i \in 1..Len(waiting)} = {a \in Agents : call[a] = "waiting"}
    /\ \A i, j \in 1..Len(waiting) : i # j => waiting[i] # waiting[j]

\* Inside the process an agent's result is that of its own run, and says what the
\* agent's status says.
InPlaceHonest ==
    \A a \in enlisted \ isolated :
        result[a] # NoOutcome =>
            /\ result[a].from = a
            /\ status[a] = IF result[a].ok THEN "completed" ELSE "failed"

\* As long as no call overlapped another, timed out or met a fault, what is recorded
\* for an isolated agent that reported is its own feedback, no agent has had a second
\* process and the server runs.
QuietRunsMatch ==
    ~troubled => /\ doubled = {} /\ ~captured
                 /\ \A a \in isolated : /\ result[a].why \in {"none", "error", "feedback"}
                                        /\ result[a].why = "feedback" => result[a].from = a

SubAgentsSound == WorkersAttended /\ ProcessesServed /\ WaitersMatch /\ InPlaceHonest /\ QuietRunsMatch
=============================================================================
