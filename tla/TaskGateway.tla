---------------------------- MODULE TaskGateway ----------------------------
(***************************************************************************)
(* The HTTP task gateway: GatewayService over TaskRegistry, TaskQueue,     *)
(* WorkerPool and TaskEventHub (youmi/gateway/), with the SSE endpoint of  *)
(* api.py as the reader of the event hub.  Everything runs on one asyncio  *)
(* loop, so an action is the code between two awaits.  The executor is the *)
(* TaskExecutor interface: it is entered, and later returns an outcome;    *)
(* MasterExecutor models the implementation behind it.                     *)
(***************************************************************************)
EXTENDS Naturals, Sequences, FiniteSets

CONSTANTS Tasks,       \* task ids (new_task_id)
          Workers,     \* the asyncio workers of the pool
          Streams,     \* SSE requests
          MaxRecords,  \* TaskRegistry(max_records); 0 = unlimited
          MaxQueue,    \* InMemoryTaskQueue(maxsize); 0 = unbounded
          None

ASSUME GatewayAssumption ==
    /\ IsFiniteSet(Tasks) /\ IsFiniteSet(Workers)
    /\ MaxRecords \in Nat /\ MaxQueue \in Nat
    /\ None \notin Tasks

VARIABLES
    status,      \* TaskRecord.status, one shared object per task
    records,     \* TaskRegistry._records: the ids present ...
    order,       \* ... and their insertion rank (OrderedDict)
    queue,       \* asyncio.Queue items
    putting,     \* submits suspended in queue.put (queue full)
    unfinished,  \* asyncio.Queue._unfinished_tasks, what join() waits on
    job,         \* the record a worker is executing, or None
    workers,     \* workers whose asyncio.Task is alive
    phase,       \* life cycle of the pool
    drained,     \* TRUE once queue.join() returned to stop()
    promised,    \* history: queued or executing when stop(drain=True) came
    closed,      \* TaskEventHub._closed
    subs,        \* TaskEventHub._subscribers
    stream,      \* SSE request: idle, opened, live, ended or gone
    target,      \* the task an SSE request follows
    inbox,       \* the subscription's asyncio.Queue
    out          \* frames sent to the client

taskVars   == <<status, records, order>>
queueVars  == <<queue, putting, unfinished>>
poolVars   == <<job, workers, phase, drained, promised>>
streamVars == <<closed, subs, stream, target, inbox, out>>
vars       == <<taskVars, queueVars, poolVars, streamVars>>

Finished == {"completed", "failed"}

\* The terminal signal close() pushes into every subscription.
End == "end"

Phases       == {"created", "running", "draining", "joined", "cancelling", "closed"}
StreamStates == {"idle", "opened", "live", "ended", "gone"}
Events       == {"queued", "running", "completed", "failed", End}

Busy == {w \in Workers : job[w] # None}
-----------------------------------------------------------------------------
(* TaskRegistry *)

\* _evict_if_needed: the oldest finished records, as many as overflow.
Evicted(recs, ord, st) ==
    LET fin == {t \in recs : st[t] \in Finished}
    IN {t \in fin : Cardinality({u \in fin : ord[u] < ord[t]})
                      < Cardinality(recs) - MaxRecords}

\* put: write the record (an existing key keeps its rank), then evict.
PutRecord(t, st) ==
    LET recs == records \cup {t}
        ord  == IF t \in records THEN order
                ELSE [order EXCEPT ![t] = 1 + Cardinality({u \in Tasks : order[u] > 0})]
    IN /\ status' = st
       /\ order' = ord
       /\ records' = IF MaxRecords = 0 \/ Cardinality(recs) <= MaxRecords THEN recs
                     ELSE recs \ Evicted(recs, ord, st)
-----------------------------------------------------------------------------
(* TaskEventHub *)

\* publish: append the snapshot to the queue of every subscriber.
Publish(t, events) ==
    inbox' = [s \in Streams |-> IF s \in subs[t] THEN inbox[s] \o events ELSE inbox[s]]

\* close: remember the task and drop its subscriptions; the End each of
\* them receives is appended by the caller's Publish.
Close(t) ==
    /\ closed' = closed \cup {t}
    /\ subs' = [subs EXCEPT ![t] = {}]
-----------------------------------------------------------------------------
(* GatewayService.submit and the queue *)

Full == MaxQueue > 0 /\ Len(queue) >= MaxQueue

\* asyncio.Queue.put_nowait
Enqueue(t) ==
    /\ queue' = Append(queue, t)
    /\ unfinished' = unfinished + 1

\* Mutant: a task is dropped without notice when the queue is full.
Submit_Drops(t) ==
    /\ status[t] = "new"
    /\ PutRecord(t, [status EXCEPT ![t] = "queued"])
    /\ Publish(t, <<"queued">>)
    /\ IF Full THEN UNCHANGED <<queue, unfinished>> ELSE Enqueue(t)
    /\ UNCHANGED <<putting, poolVars, closed, subs, stream, target, out>>

\* submit: register, announce, then put (which suspends on a full queue).
Submit(t) ==
    /\ status[t] = "new"
    /\ PutRecord(t, [status EXCEPT ![t] = "queued"])
    /\ Publish(t, <<"queued">>)
    /\ \/ ~Full /\ Enqueue(t) /\ UNCHANGED putting
       \/ Full /\ putting' = putting \cup {t} /\ UNCHANGED <<queue, unfinished>>
    /\ UNCHANGED <<poolVars, closed, subs, stream, target, out>>

\* A suspended put resumes when a worker has made room.
ResumePut(t) ==
    /\ t \in putting /\ ~Full
    /\ putting' = putting \ {t}
    /\ Enqueue(t)
    /\ UNCHANGED <<taskVars, poolVars, streamVars>>
-----------------------------------------------------------------------------
(* WorkerPool *)

\* start: create one asyncio.Task per worker.
StartPool ==
    /\ phase = "created"
    /\ phase' = "running"
    /\ workers' = Workers
    /\ UNCHANGED <<taskVars, queueVars, job, drained, promised, streamVars>>

\* _run_worker takes a record and _execute marks it running, up to the
\* await on the executor.
TakeTask(w) ==
    /\ w \in workers /\ job[w] = None /\ phase # "cancelling"
    /\ queue # <<>>
    /\ LET t == Head(queue) IN
        /\ queue' = Tail(queue)
        /\ job' = [job EXCEPT ![w] = t]
        /\ PutRecord(t, [status EXCEPT ![t] = "running"])
        /\ Publish(t, <<"running">>)
    /\ UNCHANGED <<putting, unfinished, workers, phase, drained, promised,
                   closed, subs, stream, target, out>>

\* Mutant: close() sends no terminal signal.
FinishTask_NoSignal(w, outcome) ==
    /\ w \in workers /\ job[w] # None /\ phase # "cancelling"
    /\ PutRecord(job[w], [status EXCEPT ![job[w]] = outcome])
    /\ Publish(job[w], <<outcome>>)
    /\ Close(job[w])
    /\ job' = [job EXCEPT ![w] = None]
    /\ unfinished' = unfinished - 1
    /\ UNCHANGED <<queue, putting, workers, phase, drained, promised, stream, target, out>>

\* The executor returned (or raised, which counts as a failure): record the
\* outcome, publish it, close the event stream, task_done.
FinishTask(w, outcome) ==
    /\ w \in workers /\ job[w] # None /\ phase # "cancelling"
    /\ LET t == job[w] IN
        /\ PutRecord(t, [status EXCEPT ![t] = outcome])
        /\ Publish(t, <<outcome, End>>)
        /\ Close(t)
    /\ job' = [job EXCEPT ![w] = None]
    /\ unfinished' = unfinished - 1
    /\ UNCHANGED <<queue, putting, workers, phase, drained, promised, stream, target, out>>

\* stop(drain=True) on a started pool: wait for queue.join() ...
StopDrain ==
    /\ phase = "running"
    /\ phase' = "draining"
    /\ promised' = {queue[i] : i \in 1..Len(queue)} \cup {job[w] : w \in Busy}
    /\ UNCHANGED <<taskVars, queueVars, job, workers, drained, streamVars>>

\* Mutant: join() returns as soon as the queue is empty.
JoinReturns_QueueEmpty == queue = <<>>

\* asyncio.Queue.join: every item put has been marked done.
JoinReturns == unfinished = 0

\* ... which is released when every item is done (new submissions may still
\* be taken before stop() gets its turn) ...
Drained ==
    /\ phase = "draining" /\ JoinReturns
    /\ phase' = "joined" /\ drained' = TRUE
    /\ UNCHANGED <<taskVars, queueVars, job, workers, promised, streamVars>>

\* ... and stop() goes on to cancel the workers ...
CancelWorkers ==
    /\ phase = "joined"
    /\ phase' = "cancelling"
    /\ UNCHANGED <<taskVars, queueVars, job, workers, drained, promised, streamVars>>

\* ... or is given up after the drain timeout.
DrainTimeout ==
    /\ phase = "draining"
    /\ phase' = "cancelling"
    /\ UNCHANGED <<taskVars, queueVars, job, workers, drained, promised, streamVars>>

\* stop(drain=False), or stop() of a pool that was never started.
StopNow ==
    /\ phase \in {"created", "running"}
    /\ phase' = "cancelling"
    /\ UNCHANGED <<taskVars, queueVars, job, workers, drained, promised, streamVars>>

\* Mutant: a cancelled worker skips task_done.
WorkerCancelled_NoTaskDone(w) ==
    /\ phase = "cancelling" /\ w \in workers
    /\ workers' = workers \ {w}
    /\ job' = [job EXCEPT ![w] = None]
    /\ UNCHANGED <<taskVars, queueVars, phase, drained, promised, streamVars>>

\* Mutant: a cancelled task goes back to queued.
WorkerCancelled_Requeue(w) ==
    /\ phase = "cancelling" /\ w \in workers
    /\ workers' = workers \ {w}
    /\ job' = [job EXCEPT ![w] = None]
    /\ status' = IF job[w] = None THEN status ELSE [status EXCEPT ![job[w]] = "queued"]
    /\ unfinished' = IF job[w] = None THEN unfinished ELSE unfinished - 1
    /\ UNCHANGED <<records, order, queue, putting, phase, drained, promised, streamVars>>

\* CancelledError reaches a worker: waiting for a record it just ends; in a
\* task it leaves the record as it is and still calls task_done (finally).
WorkerCancelled(w) ==
    /\ phase = "cancelling" /\ w \in workers
    /\ workers' = workers \ {w}
    /\ job' = [job EXCEPT ![w] = None]
    /\ unfinished' = IF job[w] = None THEN unfinished ELSE unfinished - 1
    /\ UNCHANGED <<taskVars, queue, putting, phase, drained, promised, streamVars>>

\* gather() over the cancelled workers returns; the executor is closed.
StopDone ==
    /\ phase = "cancelling" /\ workers = {}
    /\ phase' = "closed"
    /\ UNCHANGED <<taskVars, queueVars, job, workers, drained, promised, streamVars>>
-----------------------------------------------------------------------------
(* GET /tasks/{id}/events *)

\* The handler: the record exists (and is the caller's tenant's).
OpenStream(s, t) ==
    /\ stream[s] = "idle" /\ t \in records
    /\ stream' = [stream EXCEPT ![s] = "opened"]
    /\ target' = [target EXCEPT ![s] = t]
    /\ UNCHANGED <<taskVars, queueVars, poolVars, closed, subs, inbox, out>>

\* _generate starts in a later loop turn: replay a finished record, get an
\* empty stream for a closed task, or subscribe.
BeginStream(s) ==
    /\ stream[s] = "opened"
    /\ LET t == target[s] IN
        \/ /\ t \in records /\ status[t] \in Finished
           /\ out' = [out EXCEPT ![s] = <<status[t]>>]
           /\ stream' = [stream EXCEPT ![s] = "ended"]
           /\ UNCHANGED subs
        \/ /\ ~(t \in records /\ status[t] \in Finished) /\ t \in closed
           /\ stream' = [stream EXCEPT ![s] = "ended"]
           /\ UNCHANGED <<subs, out>>
        \/ /\ ~(t \in records /\ status[t] \in Finished) /\ t \notin closed
           /\ subs' = [subs EXCEPT ![t] = @ \cup {s}]
           /\ stream' = [stream EXCEPT ![s] = "live"]
           /\ UNCHANGED out
    /\ UNCHANGED <<taskVars, queueVars, poolVars, closed, target, inbox>>

\* One turn of _iter: a frame goes out, or the terminal signal ends it.
ReceiveEvent(s) ==
    /\ stream[s] = "live" /\ inbox[s] # <<>>
    /\ inbox' = [inbox EXCEPT ![s] = Tail(@)]
    /\ \/ /\ Head(inbox[s]) = End
          /\ stream' = [stream EXCEPT ![s] = "ended"]
          /\ subs' = [subs EXCEPT ![target[s]] = @ \ {s}]
          /\ UNCHANGED out
       \/ /\ Head(inbox[s]) # End
          /\ out' = [out EXCEPT ![s] = Append(@, Head(inbox[s]))]
          /\ UNCHANGED <<stream, subs>>
    /\ UNCHANGED <<taskVars, queueVars, poolVars, closed, target>>

\* The client goes away; aclose() runs the generator's finally (_remove).
Disconnect(s) ==
    /\ stream[s] \in {"opened", "live"}
    /\ stream' = [stream EXCEPT ![s] = "gone"]
    /\ subs' = [subs EXCEPT ![target[s]] = @ \ {s}]
    /\ UNCHANGED <<taskVars, queueVars, poolVars, closed, target, inbox, out>>
-----------------------------------------------------------------------------
Init ==
    /\ status = [t \in Tasks |-> "new"]
    /\ records = {} /\ order = [t \in Tasks |-> 0]
    /\ queue = <<>> /\ putting = {} /\ unfinished = 0
    /\ job = [w \in Workers |-> None] /\ workers = {}
    /\ phase = "created" /\ drained = FALSE /\ promised = {}
    /\ closed = {} /\ subs = [t \in Tasks |-> {}]
    /\ stream = [s \in Streams |-> "idle"]
    /\ target = [s \in Streams |-> None]
    /\ inbox = [s \in Streams |-> <<>>]
    /\ out = [s \in Streams |-> <<>>]

Next ==
    \/ \E t \in Tasks : Submit(t) \/ ResumePut(t)
    \/ StartPool \/ StopDrain \/ Drained \/ CancelWorkers
    \/ DrainTimeout \/ StopNow \/ StopDone
    \/ \E w \in Workers : TakeTask(w) \/ WorkerCancelled(w)
    \/ \E w \in Workers, o \in Finished : FinishTask(w, o)
    \/ \E s \in Streams, t \in Tasks : OpenStream(s, t)
    \/ \E s \in Streams : BeginStream(s) \/ ReceiveEvent(s) \/ Disconnect(s)

\* The event loop runs every ready coroutine; an executor call returns
\* (chat_turn is bounded by max_iterations and the HTTP timeouts).  Requests,
\* disconnections and stop() are the environment's choice.
Fairness ==
    /\ WF_vars(StartPool)
    /\ \A t \in Tasks : WF_vars(ResumePut(t))
    /\ \A w \in Workers : /\ WF_vars(TakeTask(w))
                          /\ WF_vars(\E o \in Finished : FinishTask(w, o))
                          /\ WF_vars(WorkerCancelled(w))
    /\ WF_vars(DrainTimeout) /\ WF_vars(CancelWorkers) /\ WF_vars(StopDone)
    /\ \A s \in Streams : WF_vars(BeginStream(s)) /\ WF_vars(ReceiveEvent(s))

Spec == Init /\ [][Next]_vars

FairSpec == Spec /\ Fairness
-----------------------------------------------------------------------------
(* Properties *)

\* Every variable stays in its range: the state the modules of
\* youmi/gateway keep between two awaits.
TypeOK ==
    /\ status \in [Tasks -> {"new", "queued", "running", "completed", "failed"}]
    /\ records \subseteq Tasks /\ order \in [Tasks -> Nat]
    /\ queue \in Seq(Tasks) /\ putting \subseteq Tasks /\ unfinished \in Nat
    /\ job \in [Workers -> Tasks \cup {None}] /\ workers \subseteq Workers
    /\ phase \in Phases /\ drained \in BOOLEAN /\ promised \subseteq Tasks
    /\ closed \subseteq Tasks /\ subs \in [Tasks -> SUBSET Streams]
    /\ stream \in [Streams -> StreamStates]
    /\ target \in [Streams -> Tasks \cup {None}]
    /\ inbox \in [Streams -> Seq(Events)] /\ out \in [Streams -> Seq(Events)]

\* A submitted task is at every moment in exactly one place of
\* WorkerPool's pipeline: waiting to be put, queued once, or in the hands
\* of one worker; no two workers ever execute the same record.
NoDuplicateWork ==
    /\ \A i, j \in 1..Len(queue) : queue[i] = queue[j] => i = j
    /\ \A i \in 1..Len(queue) : status[queue[i]] = "queued" /\ queue[i] \notin putting
    /\ \A t \in putting : status[t] = "queued"
    /\ \A w \in Workers : job[w] # None => status[job[w]] = "running"
    /\ \A v, w \in Workers : job[v] # None /\ job[v] = job[w] => v = w

\* asyncio's join counter tells the truth: it is the number of records
\* queued or being executed, also after workers were cancelled.
QueueAccounting == unfinished = Len(queue) + Cardinality(Busy)

\* TaskRegistry only ever forgets finished tasks: a task that was accepted
\* and is not finished can always be queried.
LiveRecordsKept ==
    \A t \in Tasks : status[t] \in {"queued", "running"} => t \in records

\* The registry exceeds max_records only while nothing in it is finished,
\* however submissions and completions interleave.
RegistryBound ==
    MaxRecords > 0 /\ Cardinality(records) > MaxRecords
        => \A t \in records : status[t] \notin Finished

\* Eviction is oldest-first: a finished record disappears only if no older
\* finished record stays behind.  Proved in TaskGatewayProofs; three tasks,
\* beyond the bounds of the run, are needed to see it fail.
EvictsOldestFirst ==
    [][\A t \in records \ records', u \in records' :
          status'[u] \in Finished => order'[u] > order[t]]_vars

\* The event hub and the streams agree: a subscription is listed exactly
\* while its stream is live and its task is not closed, and a task is
\* closed exactly when it is finished.
HubConsistent ==
    /\ \A t \in Tasks : t \in closed <=> status[t] \in Finished
    /\ \A t \in Tasks, s \in Streams :
          s \in subs[t] <=> stream[s] = "live" /\ target[s] = t /\ t \notin closed

Rank(e) == CASE e = "queued" -> 0 [] e = "running" -> 1
             [] e \in Finished -> 2 [] e = End -> 3

\* What an SSE client sees (and has still to receive) never goes backwards,
\* never repeats a status, and the outcome in it is the task's outcome.
StreamInOrder ==
    \A s \in Streams :
        LET h == out[s] \o inbox[s] IN
        /\ \A i, j \in 1..Len(h) : i < j => Rank(h[i]) < Rank(h[j])
        /\ \A i \in 1..Len(h) : h[i] \in Finished => h[i] = status[target[s]]

\* No subscription misses the end of its task: a live stream of a finished
\* task has the terminal signal waiting, whatever subscribe and close raced.
NoStuckStream ==
    \A s \in Streams :
        stream[s] = "live" /\ status[target[s]] \in Finished
            => \E i \in 1..Len(inbox[s]) : inbox[s][i] = End

\* stream_events: "replay the final snapshot, or push changes until the task
\* is finished": a stream the server ended has shown the outcome, unless the
\* registry has forgotten the task.
EndedStreamSawOutcome ==
    \A s \in Streams : stream[s] = "ended"
        => target[s] \notin records \/ \E i \in 1..Len(out[s]) : out[s][i] \in Finished

\* Once join() has returned to stop(drain=True), every task that was queued
\* or executing when stop() was called has its outcome.
DrainLosesNothing == drained => \A t \in promised : status[t] \in Finished

Lifecycle == INSTANCE TaskLifecycle

\* The gateway implements the task life cycle: submitted once, started at
\* most once, an outcome is final.
LifecycleSpec == Lifecycle!Spec

Stopping == phase \in {"draining", "joined", "cancelling", "closed"}

\* Every accepted task is finished, unless the pool is being stopped: a
\* failing executor or a full queue never wedges the workers.
TaskFinishes ==
    \A t \in Tasks : status[t] = "queued" ~> (status[t] \in Finished \/ Stopping)

\* Every SSE stream ends, unless the pool is being stopped.
StreamEnds ==
    \A s \in Streams : stream[s] = "live" ~> (stream[s] # "live" \/ Stopping)

\* stop() always returns, also with a worker inside a task.
StopReturns == Stopping ~> phase = "closed"

\* The pipeline from submit() to the workers: each task in one place, and
\* asyncio's join counter in step with it.
PipelineExact == TypeOK /\ NoDuplicateWork /\ QueueAccounting

\* What clients look up and listen to: the registry is bounded and forgets
\* nothing that is still alive; SSE streams are in order, complete, and never
\* left waiting for an end that was signalled before they subscribed.
ClientsInformed ==
    /\ LiveRecordsKept /\ RegistryBound
    /\ HubConsistent /\ StreamInOrder /\ NoStuckStream /\ EndedStreamSawOutcome

\* Nothing hangs: tasks finish, streams end, stop() returns.
Progress == TaskFinishes /\ StreamEnds /\ StopReturns
=============================================================================
