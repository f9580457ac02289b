------------------------- MODULE TaskGatewayProofs -------------------------
(***************************************************************************)
(* Proofs about TaskGateway, for any set of tasks, workers and streams and *)
(* any registry and queue capacity.                                        *)
(***************************************************************************)
EXTENDS TaskGateway, FiniteSetTheorems, SequenceTheorems, WellFoundedInduction, TLAPS

Status == {"new", "queued", "running", "completed", "failed"}

\* put() stores the record, keeps every type and evicts finished records only.
LEMMA PutRecordFacts ==
    ASSUME TypeOK, NEW t \in Tasks, NEW st \in [Tasks -> Status], PutRecord(t, st)
    PROVE  /\ status' = st
           /\ order' \in [Tasks -> Nat]
           /\ records' \subseteq Tasks
           /\ \A u \in records \cup {t} : st[u] \notin Finished => u \in records'
  <1>1. IsFiniteSet({u \in Tasks : order[u] > 0})
    BY GatewayAssumption, FS_Subset
  <1>2. Cardinality({u \in Tasks : order[u] > 0}) \in Nat
    BY <1>1, FS_CardinalityType
  <1>3. order' \in [Tasks -> Nat]
    BY <1>2 DEF PutRecord, TypeOK
  <1>4. \A recs, ord : Evicted(recs, ord, st) \subseteq {u \in recs : st[u] \in Finished}
    BY DEF Evicted
  <1> QED BY <1>3, <1>4 DEF PutRecord, TypeOK

\* publish() appends well-typed events to the subscriptions of one task and
\* touches no other.
LEMMA PublishFacts ==
    ASSUME TypeOK, NEW t \in Tasks, NEW ev \in Seq(Events), Publish(t, ev)
    PROVE  /\ inbox' \in [Streams -> Seq(Events)]
           /\ \A s \in Streams : s \in subs[t] => inbox'[s] = inbox[s] \o ev
           /\ \A s \in Streams : s \notin subs[t] => inbox'[s] = inbox[s]
  <1>1. \A s \in Streams : inbox[s] \o ev \in Seq(Events)
    BY ConcatProperties DEF TypeOK
  <1> QED BY <1>1 DEF Publish, TypeOK

\* A worker that takes a record makes the busy set one larger.
LEMMA BusyTakes ==
    ASSUME TypeOK, NEW w \in Workers, job[w] = None, NEW t \in Tasks,
           job' = [job EXCEPT ![w] = t]
    PROVE  Cardinality(Busy') = Cardinality(Busy) + 1
  <1>1. IsFiniteSet(Busy)
    BY GatewayAssumption, FS_Subset DEF Busy
  <1>2. w \notin Busy /\ Busy' = Busy \cup {w}
    BY GatewayAssumption DEF Busy, TypeOK
  <1> QED BY <1>1, <1>2, FS_AddElement

\* A worker that drops its record makes the busy set one smaller.
LEMMA BusyDrops ==
    ASSUME TypeOK, NEW w \in Workers, job[w] # None,
           job' = [job EXCEPT ![w] = None]
    PROVE  Cardinality(Busy') = Cardinality(Busy) - 1 /\ Cardinality(Busy) > 0
  <1>1. IsFiniteSet(Busy)
    BY GatewayAssumption, FS_Subset DEF Busy
  <1>2. w \in Busy /\ Busy' = Busy \ {w}
    BY GatewayAssumption DEF Busy, TypeOK
  <1>3. Cardinality(Busy') = Cardinality(Busy) - 1
    BY <1>1, <1>2, FS_RemoveElement
  <1>4. Cardinality(Busy) \in Nat /\ Cardinality(Busy) # 0
    BY <1>1, <1>2, FS_CardinalityType, FS_EmptySet
  <1> QED BY <1>3, <1>4

\* The number of busy workers is a natural number.
LEMMA BusyNat == TypeOK => Cardinality(Busy) \in Nat
  BY GatewayAssumption, FS_Subset, FS_CardinalityType DEF Busy
-----------------------------------------------------------------------------
(* Types and the join counter, together: task_done() may only be called    *)
(* when the counter is positive, which is what QueueAccounting says.       *)

Counting == TypeOK /\ QueueAccounting

\* Every step of the gateway preserves the types and the join counter.
LEMMA CountingStep == Counting /\ [Next]_vars => Counting'
  <1> SUFFICES ASSUME Counting, [Next]_vars PROVE Counting'
    OBVIOUS
  <1> USE DEF Counting
  <1>0. Cardinality(Busy) \in Nat /\ Len(queue) \in Nat
    BY BusyNat, LenProperties DEF TypeOK
  <1>1. ASSUME NEW t \in Tasks, Submit(t) PROVE Counting'
    <2>1. [status EXCEPT ![t] = "queued"] \in [Tasks -> Status]
      BY DEF TypeOK, Status
    <2>2. /\ status' \in [Tasks -> Status] /\ order' \in [Tasks -> Nat]
          /\ records' \subseteq Tasks
      BY <1>1, <2>1, PutRecordFacts DEF Submit
    <2>3. inbox' \in [Streams -> Seq(Events)]
      BY <1>1, PublishFacts, <<"queued">> \in Seq(Events) DEF Submit, Events
    <2>4. Busy' = Busy
      BY <1>1 DEF Submit, Busy, poolVars
    <2>5. /\ queue' \in Seq(Tasks) /\ putting' \subseteq Tasks /\ unfinished' \in Nat
          /\ unfinished' = Len(queue') + Cardinality(Busy)
      <3>1. CASE Full
        BY <1>1, <3>1 DEF Submit, TypeOK, QueueAccounting
      <3>2. CASE ~Full
        <4>0. queue' = Append(queue, t)
          BY <1>1, <3>2 DEF Submit, Enqueue
        <4>1. queue' \in Seq(Tasks) /\ Len(queue') = Len(queue) + 1
          BY <4>0 DEF TypeOK
        <4> QED BY <1>1, <3>2, <1>0, <4>1 DEF Submit, Enqueue, TypeOK, QueueAccounting
      <3> QED BY <3>1, <3>2
    <2> QED BY <1>1, <2>2, <2>3, <2>4, <2>5
            DEF Submit, TypeOK, QueueAccounting, poolVars, Status
  <1>2. ASSUME NEW t \in Tasks, ResumePut(t) PROVE Counting'
    <2>1. Busy' = Busy
      BY <1>2 DEF ResumePut, Busy, poolVars
    <2> QED BY <1>2, <1>0, <2>1
            DEF ResumePut, Enqueue, TypeOK, QueueAccounting, taskVars, poolVars, streamVars
  <1>3. ASSUME NEW w \in Workers, TakeTask(w) PROVE Counting'
    <2> DEFINE t == Head(queue)
    <2>1. t \in Tasks /\ queue' \in Seq(Tasks) /\ Len(queue') = Len(queue) - 1
      BY <1>3, HeadTailProperties DEF TakeTask, TypeOK
    <2>2. [status EXCEPT ![t] = "running"] \in [Tasks -> Status]
      BY <2>1 DEF TypeOK, Status
    <2>3. /\ status' \in [Tasks -> Status] /\ order' \in [Tasks -> Nat]
          /\ records' \subseteq Tasks
      BY <1>3, <2>1, <2>2, PutRecordFacts DEF TakeTask
    <2>4. inbox' \in [Streams -> Seq(Events)]
      BY <1>3, <2>1, PublishFacts, <<"running">> \in Seq(Events) DEF TakeTask, Events
    <2>5. Cardinality(Busy') = Cardinality(Busy) + 1
      BY <1>3, <2>1, BusyTakes DEF TakeTask
    <2>6. unfinished' = Len(queue') + Cardinality(Busy')
      BY <1>3, <1>0, <2>1, <2>5 DEF TakeTask, QueueAccounting
    <2>7. job' \in [Workers -> Tasks \cup {None}]
      BY <1>3, <2>1 DEF TakeTask, TypeOK
    <2> QED BY <1>3, <2>1, <2>3, <2>4, <2>6, <2>7
            DEF TakeTask, TypeOK, QueueAccounting, Status
  <1>4. ASSUME NEW w \in Workers, NEW o \in Finished, FinishTask(w, o) PROVE Counting'
    <2> DEFINE t == job[w]
    <2>1. t \in Tasks
      BY <1>4 DEF FinishTask, TypeOK
    <2>2. [status EXCEPT ![t] = o] \in [Tasks -> Status]
      BY <2>1 DEF TypeOK, Status, Finished
    <2>3. /\ status' \in [Tasks -> Status] /\ order' \in [Tasks -> Nat]
          /\ records' \subseteq Tasks
      BY <1>4, <2>1, <2>2, PutRecordFacts DEF FinishTask
    <2>4. inbox' \in [Streams -> Seq(Events)]
      BY <1>4, <2>1, PublishFacts, <<o, End>> \in Seq(Events) DEF FinishTask, Events, Finished
    <2>5. Cardinality(Busy') = Cardinality(Busy) - 1 /\ Cardinality(Busy) > 0
      BY <1>4, BusyDrops DEF FinishTask
    <2>6. unfinished' \in Nat /\ unfinished' = Len(queue') + Cardinality(Busy')
      BY <1>4, <1>0, <2>5 DEF FinishTask, QueueAccounting
    <2>7. /\ job' \in [Workers -> Tasks \cup {None}]
          /\ closed' \subseteq Tasks /\ subs' \in [Tasks -> SUBSET Streams]
      BY <1>4, <2>1 DEF FinishTask, Close, TypeOK
    <2> QED BY <1>4, <2>3, <2>4, <2>6, <2>7
            DEF FinishTask, TypeOK, QueueAccounting, Status
  <1>5. ASSUME NEW w \in Workers, WorkerCancelled(w) PROVE Counting'
    <2>1. CASE job[w] = None
      <3>1. job' = job
        BY <1>5, <2>1 DEF WorkerCancelled, TypeOK
      <3>2. Busy' = Busy
        BY <3>1 DEF Busy
      <3> QED BY <1>5, <2>1, <3>1, <3>2
              DEF WorkerCancelled, TypeOK, QueueAccounting, taskVars, streamVars
    <2>2. CASE job[w] # None
      <3>1. Cardinality(Busy') = Cardinality(Busy) - 1 /\ Cardinality(Busy) > 0
        BY <1>5, <2>2, BusyDrops DEF WorkerCancelled
      <3>2. unfinished' \in Nat /\ unfinished' = Len(queue') + Cardinality(Busy')
        BY <1>5, <2>2, <1>0, <3>1 DEF WorkerCancelled, QueueAccounting
      <3> QED BY <1>5, <3>2
              DEF WorkerCancelled, TypeOK, QueueAccounting, taskVars, streamVars
    <2> QED BY <2>1, <2>2
  <1>6. ASSUME StartPool \/ StopDrain \/ Drained \/ CancelWorkers \/ DrainTimeout
               \/ StopNow \/ StopDone
        PROVE  Counting'
    <2>1. Busy' = Busy
      BY <1>6 DEF StartPool, StopDrain, Drained, CancelWorkers, DrainTimeout, StopNow,
                  StopDone, Busy
    <2>2. promised' \subseteq Tasks
      <3>1. {queue[i] : i \in 1..Len(queue)} \subseteq Tasks
        BY ElementOfSeq DEF TypeOK
      <3>2. {job[w] : w \in Busy} \subseteq Tasks
        BY DEF TypeOK, Busy
      <3> QED BY <1>6, <3>1, <3>2
              DEF StartPool, StopDrain, Drained, CancelWorkers, DrainTimeout, StopNow,
                  StopDone, TypeOK
    <2> QED BY <1>6, <2>1, <2>2
            DEF StartPool, StopDrain, Drained, CancelWorkers, DrainTimeout, StopNow, StopDone,
                TypeOK, QueueAccounting, Phases, taskVars, queueVars, streamVars
  <1>7. ASSUME NEW s \in Streams, NEW t \in Tasks, OpenStream(s, t) PROVE Counting'
    BY <1>7 DEF OpenStream, TypeOK, QueueAccounting, Busy, StreamStates,
                taskVars, queueVars, poolVars
  <1>8. ASSUME NEW s \in Streams, BeginStream(s) PROVE Counting'
    <2>1. target[s] \in records /\ status[target[s]] \in Finished
             => <<status[target[s]]>> \in Seq(Events)
      BY DEF Finished, Events
    <2>2. out' \in [Streams -> Seq(Events)] /\ subs' \in [Tasks -> SUBSET Streams]
          /\ stream' \in [Streams -> StreamStates]
      <3>1. out' \in [Streams -> Seq(Events)]
        BY <1>8, <2>1 DEF BeginStream, TypeOK
      <3>2. subs' \in [Tasks -> SUBSET Streams]
        BY <1>8 DEF BeginStream, TypeOK
      <3>3. stream' \in [Streams -> StreamStates]
        BY <1>8 DEF BeginStream, TypeOK, StreamStates
      <3> QED BY <3>1, <3>2, <3>3
    <2> QED BY <1>8, <2>2
            DEF BeginStream, TypeOK, QueueAccounting, Busy, taskVars, queueVars, poolVars
  <1>9. ASSUME NEW s \in Streams, ReceiveEvent(s) PROVE Counting'
    <2>1. Head(inbox[s]) \in Events /\ Tail(inbox[s]) \in Seq(Events)
      BY <1>9, HeadTailProperties DEF ReceiveEvent, TypeOK
    <2>2. Append(out[s], Head(inbox[s])) \in Seq(Events)
      BY <2>1 DEF TypeOK
    <2>3. /\ inbox' \in [Streams -> Seq(Events)] /\ out' \in [Streams -> Seq(Events)]
          /\ subs' \in [Tasks -> SUBSET Streams] /\ stream' \in [Streams -> StreamStates]
      <3>1. inbox' \in [Streams -> Seq(Events)]
        BY <1>9, <2>1 DEF ReceiveEvent, TypeOK
      <3>2. out' \in [Streams -> Seq(Events)]
        BY <1>9, <2>2 DEF ReceiveEvent, TypeOK
      <3>3. subs' \in [Tasks -> SUBSET Streams]
        <4>1. subs' = subs \/ subs' = [subs EXCEPT ![target[s]] = @ \ {s}]
          BY <1>9 DEF ReceiveEvent
        <4>2. subs \in [Tasks -> SUBSET Streams]
          BY DEF TypeOK
        <4>3. [subs EXCEPT ![target[s]] = @ \ {s}] \in [Tasks -> SUBSET Streams]
          BY <4>2
        <4> QED BY <4>1, <4>2, <4>3
      <3>4. stream' \in [Streams -> StreamStates]
        BY <1>9 DEF ReceiveEvent, TypeOK, StreamStates
      <3> QED BY <3>1, <3>2, <3>3, <3>4
    <2> QED BY <1>9, <2>3
            DEF ReceiveEvent, TypeOK, QueueAccounting, Busy, taskVars, queueVars, poolVars
  <1>10. ASSUME NEW s \in Streams, Disconnect(s) PROVE Counting'
    BY <1>10 DEF Disconnect, TypeOK, QueueAccounting, Busy, StreamStates,
                 taskVars, queueVars, poolVars
  <1>11. CASE UNCHANGED vars
    BY <1>11 DEF vars, TypeOK, QueueAccounting, Busy, taskVars, queueVars, poolVars, streamVars
  <1> QED BY <1>1, <1>2, <1>3, <1>4, <1>5, <1>6, <1>7, <1>8, <1>9, <1>10, <1>11 DEF Next

\* The initial state is well typed and its join counter is exact.
LEMMA CountingInit == Init => Counting
  <1> SUFFICES ASSUME Init PROVE Counting
    OBVIOUS
  <1>1. Busy = {}
    BY DEF Init, Busy
  <1>2. Cardinality(Busy) = 0
    BY <1>1, FS_EmptySet
  <1>3. /\ queue \in Seq(Tasks) /\ inbox \in [Streams -> Seq(Events)]
        /\ out \in [Streams -> Seq(Events)]
    BY EmptySeq DEF Init
  <1>4. TypeOK
    BY <1>3 DEF Init, TypeOK, Phases, StreamStates
  <1>5. Len(queue) = 0
    BY DEF Init
  <1> QED BY <1>2, <1>4, <1>5 DEF Counting, Init, QueueAccounting

\* Type correctness of the gateway's state.
THEOREM TypeCorrect == Spec => []TypeOK
  <1>1. Spec => []Counting
    BY CountingInit, CountingStep, PTL DEF Spec
  <1> QED BY <1>1, PTL DEF Counting

\* asyncio.Queue.join() waits for exactly the records queued or executing.
THEOREM JoinCounterExact == Spec => []QueueAccounting
  <1>1. Spec => []Counting
    BY CountingInit, CountingStep, PTL DEF Spec
  <1> QED BY <1>1, PTL DEF Counting
-----------------------------------------------------------------------------
(* Where a task is.  NoDuplicateWork is inductive together with the types; *)
(* it gives the status a task has when a worker takes or finishes it.      *)

\* No step puts a task in two places of the pipeline.
LEMMA NoDuplicateWorkStep ==
    Counting /\ NoDuplicateWork /\ [Next]_vars => NoDuplicateWork'
  <1> SUFFICES ASSUME Counting, NoDuplicateWork, [Next]_vars PROVE NoDuplicateWork'
    OBVIOUS
  <1>t. TypeOK
    BY DEF Counting
  <1>1. ASSUME NEW t \in Tasks, Submit(t) PROVE NoDuplicateWork'
    <2>1. status' = [status EXCEPT ![t] = "queued"] /\ job' = job
      BY <1>1 DEF Submit, PutRecord, poolVars
    <2>2. \A w \in Workers : job[w] # t
      BY <1>1, <1>t, GatewayAssumption DEF Submit, NoDuplicateWork
    <2>3. t \notin putting /\ \A i \in 1..Len(queue) : queue[i] # t
      BY <1>1 DEF Submit, NoDuplicateWork
    <2>4. CASE Full
      BY <1>1, <1>t, <2>1, <2>2, <2>3, <2>4 DEF Submit, NoDuplicateWork, TypeOK
    <2>5. CASE ~Full
      <3>1. queue' = Append(queue, t) /\ putting' = putting
        BY <1>1, <2>5 DEF Submit, Enqueue
      <3>2. /\ Len(queue') = Len(queue) + 1 /\ queue'[Len(queue) + 1] = t
            /\ \A i \in 1..Len(queue) : queue'[i] = queue[i]
            /\ Len(queue) \in Nat
        BY <3>1, <1>t DEF TypeOK
      <3> QED BY <1>t, <2>1, <2>2, <2>3, <3>1, <3>2 DEF NoDuplicateWork, TypeOK
    <2> QED BY <2>4, <2>5
  <1>2. ASSUME NEW t \in Tasks, ResumePut(t) PROVE NoDuplicateWork'
    <2>1. /\ queue' = Append(queue, t) /\ putting' = putting \ {t} /\ t \in putting
          /\ status' = status /\ job' = job
      BY <1>2 DEF ResumePut, Enqueue, taskVars, poolVars
    <2>2. /\ Len(queue') = Len(queue) + 1 /\ queue'[Len(queue) + 1] = t
          /\ \A i \in 1..Len(queue) : queue'[i] = queue[i]
          /\ Len(queue) \in Nat
      BY <2>1, <1>t DEF TypeOK
    <2> QED BY <2>1, <2>2 DEF NoDuplicateWork
  <1>3. ASSUME NEW w \in Workers, TakeTask(w) PROVE NoDuplicateWork'
    <2> DEFINE t == Head(queue)
    <2>1. /\ queue # <<>> /\ queue' = Tail(queue) /\ putting' = putting
          /\ status' = [status EXCEPT ![t] = "running"]
          /\ job' = [job EXCEPT ![w] = t]
      BY <1>3 DEF TakeTask, PutRecord
    <2>2. /\ Len(queue) \in Nat /\ Len(queue) > 0 /\ t = queue[1] /\ t \in Tasks
          /\ Len(queue') = Len(queue) - 1
          /\ \A i \in 1..Len(queue') : queue'[i] = queue[i + 1]
      BY <2>1, <1>t, HeadTailProperties, EmptySeq DEF TypeOK
    <2>3. /\ \A i \in 1..Len(queue') : queue'[i] # t /\ status[queue'[i]] = "queued"
                                       /\ queue'[i] \notin putting
          /\ \A i, j \in 1..Len(queue') : queue'[i] = queue'[j] => i = j
          /\ status[t] = "queued" /\ t \notin putting
      BY <2>2 DEF NoDuplicateWork
    <2>4. \A v \in Workers : job[v] # t
      BY <2>2, <2>3, GatewayAssumption DEF NoDuplicateWork
    <2>5. \A i \in 1..Len(queue') : queue'[i] \in Tasks
      BY <2>1, <1>t, HeadTailProperties, ElementOfSeq DEF TypeOK
    <2>6. \A i \in 1..Len(queue') : status'[queue'[i]] = "queued" /\ queue'[i] \notin putting'
      BY <2>1, <2>3, <2>5, <1>t DEF TypeOK
    <2>7. \A u \in putting' : status'[u] = "queued"
      BY <2>1, <2>3, <1>t DEF NoDuplicateWork, TypeOK
    <2>8. \A v \in Workers : job'[v] # None => status'[job'[v]] = "running"
      BY <2>1, <2>2, <2>4, <1>t DEF NoDuplicateWork, TypeOK
    <2>9. \A v, x \in Workers : job'[v] # None /\ job'[v] = job'[x] => v = x
      BY <2>1, <2>4, <1>t DEF NoDuplicateWork, TypeOK
    <2> QED BY <2>3, <2>6, <2>7, <2>8, <2>9 DEF NoDuplicateWork
  <1>4. ASSUME NEW w \in Workers, NEW o \in Finished, FinishTask(w, o) PROVE NoDuplicateWork'
    <2> DEFINE t == job[w]
    <2>1. /\ t \in Tasks /\ queue' = queue /\ putting' = putting
          /\ status' = [status EXCEPT ![t] = o]
          /\ job' = [job EXCEPT ![w] = None] /\ status[t] = "running"
      BY <1>4, <1>t DEF FinishTask, PutRecord, TypeOK, NoDuplicateWork
    <2>2. \A i \in 1..Len(queue) : queue[i] # t
      BY <2>1 DEF NoDuplicateWork
    <2>3. t \notin putting
      BY <2>1 DEF NoDuplicateWork
    <2>4. \A v \in Workers : job[v] = t => v = w
      BY <2>1, GatewayAssumption DEF NoDuplicateWork
    <2>5. \A i \in 1..Len(queue) : status'[queue[i]] = "queued"
      BY <2>1, <2>2, <1>t, ElementOfSeq DEF NoDuplicateWork, TypeOK
    <2>6. \A u \in putting : status'[u] = "queued"
      BY <2>1, <2>3, <1>t DEF NoDuplicateWork, TypeOK
    <2>7. \A v \in Workers : job'[v] # None => status'[job'[v]] = "running"
      BY <2>1, <2>4, <1>t DEF NoDuplicateWork, TypeOK
    <2>8. \A v, x \in Workers : job'[v] # None /\ job'[v] = job'[x] => v = x
      BY <2>1, <1>t DEF NoDuplicateWork, TypeOK
    <2> QED BY <2>1, <2>5, <2>6, <2>7, <2>8 DEF NoDuplicateWork
  <1>5. ASSUME NEW w \in Workers, WorkerCancelled(w) PROVE NoDuplicateWork'
    BY <1>5, <1>t DEF WorkerCancelled, NoDuplicateWork, taskVars, TypeOK
  <1>6. CASE UNCHANGED <<status, queue, putting, job>>
    BY <1>6 DEF NoDuplicateWork
  <1> QED BY <1>1, <1>2, <1>3, <1>4, <1>5, <1>6
          DEF Next, StartPool, StopDrain, Drained, CancelWorkers, DrainTimeout, StopNow, StopDone,
              OpenStream, BeginStream, ReceiveEvent, Disconnect,
              vars, taskVars, queueVars, poolVars

\* No task is ever queued twice or executed by two workers.
THEOREM NoTaskDuplicated == Spec => []NoDuplicateWork
  <1>1. Init => NoDuplicateWork
    BY DEF Init, NoDuplicateWork
  <1>2. Counting /\ NoDuplicateWork /\ [Next]_vars => Counting' /\ NoDuplicateWork'
    BY CountingStep, NoDuplicateWorkStep
  <1> QED BY <1>1, <1>2, CountingInit, PTL DEF Spec

\* The pipeline of submit(), queue and workers is exact: the properties above
\* together.
THEOREM PipelineCorrect == Spec => []PipelineExact
  BY TypeCorrect, JoinCounterExact, NoTaskDuplicated, PTL DEF PipelineExact
-----------------------------------------------------------------------------
(* How a step changes a task: at most one status changes, and only along   *)
(* new -> queued -> running -> completed/failed.                           *)

Pipeline == Counting /\ NoDuplicateWork

\* Every step moves at most one task one place along its life cycle.
LEMMA StatusStep ==
    ASSUME Pipeline, [Next]_vars
    PROVE  \/ status' = status
           \/ \E t \in Tasks :
                \/ status[t] = "new" /\ status' = [status EXCEPT ![t] = "queued"]
                \/ status[t] = "queued" /\ status' = [status EXCEPT ![t] = "running"]
                \/ /\ status[t] = "running"
                   /\ \E o \in Finished : status' = [status EXCEPT ![t] = o]
  <1>t. TypeOK
    BY DEF Pipeline, Counting
  <1>1. ASSUME NEW t \in Tasks, Submit(t)
        PROVE  status[t] = "new" /\ status' = [status EXCEPT ![t] = "queued"]
    BY <1>1 DEF Submit, PutRecord
  <1>2. ASSUME NEW w \in Workers, TakeTask(w)
        PROVE  \E t \in Tasks : status[t] = "queued" /\ status' = [status EXCEPT ![t] = "running"]
    <2>1. Head(queue) = queue[1] /\ 1 \in 1..Len(queue) /\ Head(queue) \in Tasks
      BY <1>2, <1>t, HeadTailProperties, EmptySeq DEF TakeTask, TypeOK
    <2> QED BY <1>2, <2>1 DEF TakeTask, PutRecord, Pipeline, NoDuplicateWork
  <1>3. ASSUME NEW w \in Workers, NEW o \in Finished, FinishTask(w, o)
        PROVE  \E t \in Tasks : status[t] = "running" /\ status' = [status EXCEPT ![t] = o]
    <2>1. job[w] \in Tasks /\ status' = [status EXCEPT ![job[w]] = o]
      BY <1>3, <1>t DEF FinishTask, PutRecord, TypeOK
    <2>2. status[job[w]] = "running"
      BY <1>3 DEF FinishTask, Pipeline, NoDuplicateWork
    <2> QED BY <2>1, <2>2
  <1>4. CASE UNCHANGED status
    BY <1>4
  <1> QED BY <1>1, <1>2, <1>3, <1>4
          DEF Next, ResumePut, WorkerCancelled, StartPool, StopDrain, Drained, CancelWorkers,
              DrainTimeout, StopNow, StopDone, OpenStream, BeginStream, ReceiveEvent, Disconnect,
              vars, taskVars

\* The gateway implements the task life cycle of TaskLifecycle: submitted
\* once, started at most once, an outcome is final.
THEOREM ImplementsLifecycle == Spec => LifecycleSpec
  <1>1. Init => Lifecycle!Init
    BY DEF Init, Lifecycle!Init
  <1>2. Pipeline /\ [Next]_vars => [Lifecycle!Next]_status
    BY StatusStep DEF Lifecycle!Next, Lifecycle!Submit, Lifecycle!Start, Lifecycle!Finish,
                      Lifecycle!Finished, Finished
  <1>3. Spec => []Pipeline
    BY TypeCorrect, JoinCounterExact, NoTaskDuplicated, PTL DEF Pipeline, Counting
  <1> QED BY <1>1, <1>2, <1>3, PTL DEF Spec, LifecycleSpec, Lifecycle!Spec

\* A finished task stays finished.
LEMMA FinishedStable ==
    ASSUME Pipeline, [Next]_vars, NEW t \in Tasks, status[t] \in Finished
    PROVE  status'[t] = status[t]
  BY StatusStep DEF Pipeline, Counting, TypeOK, Finished

\* The registry never forgets a task that is not finished.
THEOREM LiveTasksKept == Spec => []LiveRecordsKept
  <1>1. Init => LiveRecordsKept
    BY DEF Init, LiveRecordsKept
  <1>2. ASSUME Pipeline, LiveRecordsKept, [Next]_vars PROVE LiveRecordsKept'
    <2>t. TypeOK
      BY <1>2 DEF Pipeline, Counting
    <2> DEFINE Put(t, st) == PutRecord(t, st) /\ st \in [Tasks -> Status]
                             /\ \A u \in Tasks \ {t} : st[u] = status[u]
    <2>1. ASSUME NEW t \in Tasks, NEW st, Put(t, st) PROVE LiveRecordsKept'
      <3>1. /\ status' = st
            /\ \A u \in records \cup {t} : st[u] \notin Finished => u \in records'
        BY <2>1, <2>t, PutRecordFacts
      <3> QED BY <2>1, <3>1, <1>2 DEF LiveRecordsKept, Finished
    <2>2. ASSUME NEW t \in Tasks, Submit(t) PROVE LiveRecordsKept'
      <3>1. Put(t, [status EXCEPT ![t] = "queued"])
        BY <2>2, <2>t DEF Submit, TypeOK, Status
      <3> QED BY <3>1, <2>1
    <2>3. ASSUME NEW w \in Workers, TakeTask(w) PROVE LiveRecordsKept'
      <3>1. Head(queue) \in Tasks
        BY <2>3, <2>t, HeadTailProperties DEF TakeTask, TypeOK
      <3>2. Put(Head(queue), [status EXCEPT ![Head(queue)] = "running"])
        BY <2>3, <2>t, <3>1 DEF TakeTask, TypeOK, Status
      <3> QED BY <3>1, <3>2, <2>1
    <2>4. ASSUME NEW w \in Workers, NEW o \in Finished, FinishTask(w, o) PROVE LiveRecordsKept'
      <3>1. job[w] \in Tasks
        BY <2>4, <2>t DEF FinishTask, TypeOK
      <3>2. Put(job[w], [status EXCEPT ![job[w]] = o])
        BY <2>4, <2>t, <3>1 DEF FinishTask, TypeOK, Status, Finished
      <3> QED BY <3>1, <3>2, <2>1
    <2>5. CASE UNCHANGED <<status, records>>
      BY <1>2, <2>5 DEF LiveRecordsKept
    <2> QED BY <1>2, <2>2, <2>3, <2>4, <2>5
            DEF Next, ResumePut, WorkerCancelled, StartPool, StopDrain, Drained, CancelWorkers,
                DrainTimeout, StopNow, StopDone, OpenStream, BeginStream, ReceiveEvent,
                Disconnect, vars, taskVars
  <1>3. Spec => []Pipeline
    BY TypeCorrect, JoinCounterExact, NoTaskDuplicated, PTL DEF Pipeline, Counting
  <1> QED BY <1>1, <1>2, <1>3, PTL DEF Spec
-----------------------------------------------------------------------------
(* The event hub. *)

\* No step makes the hub and the streams disagree.
LEMMA HubStep == Pipeline /\ HubConsistent /\ [Next]_vars => HubConsistent'
  <1> SUFFICES ASSUME Pipeline, HubConsistent, [Next]_vars PROVE HubConsistent'
    OBVIOUS
  <1>t. TypeOK
    BY DEF Pipeline, Counting
  <1>1. ASSUME NEW w \in Workers, NEW o \in Finished, FinishTask(w, o) PROVE HubConsistent'
    <2> DEFINE t == job[w]
    <2>1. /\ t \in Tasks /\ status' = [status EXCEPT ![t] = o]
          /\ closed' = closed \cup {t} /\ subs' = [subs EXCEPT ![t] = {}]
          /\ stream' = stream /\ target' = target
      BY <1>1, <1>t DEF FinishTask, PutRecord, Close, TypeOK
    <2>2. \A u \in Tasks : u \in closed' <=> status'[u] \in Finished
      BY <2>1, <1>t DEF HubConsistent, TypeOK
    <2>3. \A u \in Tasks, s \in Streams :
             s \in subs'[u] <=> stream'[s] = "live" /\ target'[s] = u /\ u \notin closed'
      BY <2>1, <1>t DEF HubConsistent, TypeOK
    <2> QED BY <2>2, <2>3 DEF HubConsistent
  <1>2. ASSUME NEW s \in Streams, BeginStream(s) PROVE HubConsistent'
    <2>1. /\ UNCHANGED <<status, closed, target>> /\ stream[s] = "opened"
          /\ \/ subs' = subs /\ stream' = [stream EXCEPT ![s] = "ended"]
             \/ /\ stream' = [stream EXCEPT ![s] = "live"] /\ target[s] \notin closed
                /\ subs' = [subs EXCEPT ![target[s]] = @ \cup {s}]
      BY <1>2 DEF BeginStream, taskVars
    <2>2. CASE subs' = subs /\ stream' = [stream EXCEPT ![s] = "ended"]
      BY <2>1, <2>2, <1>t DEF HubConsistent, TypeOK
    <2>3. CASE /\ stream' = [stream EXCEPT ![s] = "live"] /\ target[s] \notin closed
               /\ subs' = [subs EXCEPT ![target[s]] = @ \cup {s}]
      <3>1. \A r \in Streams, t \in Tasks :
               r \in subs'[t] <=> r \in subs[t] \/ (r = s /\ t = target[s])
        BY <2>3, <1>t DEF TypeOK
      <3> QED BY <2>1, <2>3, <3>1, <1>t DEF HubConsistent, TypeOK
    <2> QED BY <2>1, <2>2, <2>3
  <1>3. ASSUME NEW s \in Streams, ReceiveEvent(s) \/ Disconnect(s) PROVE HubConsistent'
    <2>1. /\ status' = status /\ closed' = closed /\ target' = target
          /\ \/ subs' = subs /\ stream' = stream
             \/ /\ subs' = [subs EXCEPT ![target[s]] = @ \ {s}]
                /\ stream' = [stream EXCEPT ![s] = "ended"] \/ stream' = [stream EXCEPT ![s] = "gone"]
      BY <1>3 DEF ReceiveEvent, Disconnect, taskVars
    <2> QED BY <2>1, <1>t DEF HubConsistent, TypeOK
  <1>4. ASSUME NEW s \in Streams, NEW t \in Tasks, OpenStream(s, t) PROVE HubConsistent'
    BY <1>4, <1>t DEF OpenStream, HubConsistent, TypeOK, taskVars
  <1>5. CASE /\ UNCHANGED <<closed, subs, stream, target>>
             /\ \A t \in Tasks : status'[t] \in Finished <=> status[t] \in Finished
    BY <1>5 DEF HubConsistent
  <1>6. ASSUME NEW t \in Tasks, Submit(t)
        PROVE  /\ UNCHANGED <<closed, subs, stream, target>>
               /\ \A u \in Tasks : status'[u] \in Finished <=> status[u] \in Finished
    BY <1>6, <1>t DEF Submit, PutRecord, TypeOK, Finished
  <1>7. ASSUME NEW w \in Workers, TakeTask(w)
        PROVE  /\ UNCHANGED <<closed, subs, stream, target>>
               /\ \A u \in Tasks : status'[u] \in Finished <=> status[u] \in Finished
    <2>1. Head(queue) = queue[1] /\ 1 \in 1..Len(queue) /\ Head(queue) \in Tasks
      BY <1>7, <1>t, HeadTailProperties, EmptySeq DEF TakeTask, TypeOK
    <2>2. status[Head(queue)] = "queued"
      BY <2>1 DEF Pipeline, NoDuplicateWork
    <2> QED BY <1>7, <2>1, <2>2, <1>t DEF TakeTask, PutRecord, TypeOK, Finished
  <1>8. CASE UNCHANGED <<status, closed, subs, stream, target>>
    BY <1>8 DEF HubConsistent
  <1> QED BY <1>1, <1>2, <1>3, <1>4, <1>5, <1>6, <1>7, <1>8
          DEF Next, ResumePut, WorkerCancelled, StartPool, StopDrain, Drained, CancelWorkers,
              DrainTimeout, StopNow, StopDone, vars, taskVars, streamVars

\* A subscription is listed exactly while its stream is live and its task is
\* not closed; a task is closed exactly when it is finished.
THEOREM HubAgrees == Spec => []HubConsistent
  <1>1. Init => HubConsistent
    BY DEF Init, HubConsistent, Finished
  <1>2. Spec => []Pipeline
    BY TypeCorrect, JoinCounterExact, NoTaskDuplicated, PTL DEF Pipeline, Counting
  <1> QED BY <1>1, <1>2, HubStep, PTL DEF Spec

\* An SSE request that is past its handler follows a task.
Targeted == \A s \in Streams : stream[s] # "idle" => target[s] \in Tasks

\* The handler fixes the task of an SSE request, and nothing changes it.
LEMMA StreamsTargeted == Spec => []Targeted
  <1>1. Init => Targeted
    BY DEF Init, Targeted
  <1>2. TypeOK /\ Targeted /\ [Next]_vars => Targeted'
    <2> SUFFICES ASSUME TypeOK, Targeted, [Next]_vars PROVE Targeted'
      OBVIOUS
    <2>1. ASSUME NEW s \in Streams, BeginStream(s) \/ ReceiveEvent(s) \/ Disconnect(s)
          PROVE  Targeted'
      <3>1. target' = target /\ stream[s] # "idle"
            /\ \A r \in Streams \ {s} : stream'[r] = stream[r]
        BY <2>1 DEF BeginStream, ReceiveEvent, Disconnect, TypeOK
      <3> QED BY <3>1 DEF Targeted
    <2>2. ASSUME NEW s \in Streams, NEW t \in Tasks, OpenStream(s, t) PROVE Targeted'
      BY <2>2 DEF OpenStream, Targeted, TypeOK
    <2>3. CASE UNCHANGED <<stream, target>>
      BY <2>3 DEF Targeted
    <2> QED BY <2>1, <2>2, <2>3
            DEF Next, Submit, ResumePut, TakeTask, FinishTask, WorkerCancelled, StartPool,
                StopDrain, Drained, CancelWorkers, DrainTimeout, StopNow, StopDone,
                vars, streamVars
  <1> QED BY <1>1, <1>2, TypeCorrect, PTL DEF Spec

\* No live stream of a finished task waits forever: the terminal signal is
\* in its inbox.
THEOREM NoStreamStuck == Spec => []NoStuckStream
  <1>1. Init => NoStuckStream
    BY DEF Init, NoStuckStream
  <1>2. ASSUME Pipeline, HubConsistent, Targeted, NoStuckStream, [Next]_vars
        PROVE  NoStuckStream'
    <2>t. TypeOK
      BY <1>2 DEF Pipeline, Counting
    <2>1. ASSUME NEW w \in Workers, NEW o \in Finished, FinishTask(w, o) PROVE NoStuckStream'
      <3> DEFINE t == job[w]
                 ev == <<o, End>>
      <3>1. /\ t \in Tasks /\ status' = [status EXCEPT ![t] = o]
            /\ stream' = stream /\ target' = target /\ Publish(t, ev)
        BY <2>1, <2>t DEF FinishTask, PutRecord, TypeOK
      <3>2. ev \in Seq(Events) /\ Len(ev) = 2 /\ ev[2] = End
        BY DEF Events, Finished
      <3>3. SUFFICES ASSUME NEW s \in Streams, stream[s] = "live", status'[target[s]] \in Finished
                     PROVE  \E i \in 1..Len(inbox'[s]) : inbox'[s][i] = End
        BY <3>1 DEF NoStuckStream
      <3>4. CASE s \in subs[t]
        <4>1. inbox'[s] = inbox[s] \o ev
          BY <3>1, <3>2, <3>4, <2>t, PublishFacts
        <4>2. Len(inbox'[s]) = Len(inbox[s]) + 2 /\ inbox'[s][Len(inbox[s]) + 2] = End
              /\ Len(inbox[s]) \in Nat
          BY <4>1, <3>2, <2>t, ConcatProperties, LenProperties DEF TypeOK
        <4> QED BY <4>2
      <3>5. CASE s \notin subs[t]
        <4>1. inbox'[s] = inbox[s]
          BY <3>1, <3>2, <3>5, <2>t, PublishFacts
        <4>2. status[target[s]] \in Finished
          <5>1. target[s] \in Tasks
            BY <3>3, <1>2 DEF Targeted
          <5> QED BY <5>1, <3>1, <3>3, <3>5, <1>2, <2>t DEF HubConsistent, TypeOK
        <4> QED BY <4>1, <4>2, <3>3, <1>2 DEF NoStuckStream
      <3> QED BY <3>4, <3>5
    <2>2. ASSUME NEW t \in Tasks, NEW ev \in Seq(Events), Publish(t, ev),
                 status' = [status EXCEPT ![t] = "queued"]
                   \/ status' = [status EXCEPT ![t] = "running"],
                 status[t] \notin Finished, UNCHANGED <<stream, target>>
          PROVE  NoStuckStream'
      <3>1. SUFFICES ASSUME NEW s \in Streams, stream[s] = "live", status'[target[s]] \in Finished
                     PROVE  \E i \in 1..Len(inbox'[s]) : inbox'[s][i] = End
        BY <2>2 DEF NoStuckStream
      <3>2. target[s] # t /\ status[target[s]] \in Finished
        <4>1. target[s] \in Tasks
          BY <3>1, <1>2 DEF Targeted
        <4> QED BY <4>1, <3>1, <2>2, <2>t DEF TypeOK, Finished
      <3>3. s \notin subs[t]
        BY <3>2, <1>2 DEF HubConsistent
      <3>4. inbox'[s] = inbox[s]
        BY <3>3, <2>2, <2>t, PublishFacts
      <3> QED BY <3>1, <3>2, <3>4, <1>2 DEF NoStuckStream
    <2>3. ASSUME NEW t \in Tasks, Submit(t) PROVE NoStuckStream'
      <3>1. <<"queued">> \in Seq(Events)
        BY DEF Events
      <3> QED BY <2>3, <2>2, <3>1 DEF Submit, PutRecord, Finished
    <2>4. ASSUME NEW w \in Workers, TakeTask(w) PROVE NoStuckStream'
      <3>1. Head(queue) = queue[1] /\ 1 \in 1..Len(queue) /\ Head(queue) \in Tasks
        BY <2>4, <2>t, HeadTailProperties, EmptySeq DEF TakeTask, TypeOK
      <3>2. status[Head(queue)] = "queued" /\ <<"running">> \in Seq(Events)
        BY <3>1, <1>2 DEF Pipeline, NoDuplicateWork, Events
      <3> QED BY <2>4, <2>2, <3>1, <3>2 DEF TakeTask, PutRecord, Finished
    <2>5. ASSUME NEW s \in Streams, ReceiveEvent(s) PROVE NoStuckStream'
      <3>1. SUFFICES ASSUME NEW r \in Streams, stream'[r] = "live", status[target[r]] \in Finished
                     PROVE  \E i \in 1..Len(inbox'[r]) : inbox'[r][i] = End
        BY <2>5 DEF NoStuckStream, ReceiveEvent, taskVars
      <3>2. CASE r # s
        <4>1. inbox'[r] = inbox[r] /\ stream[r] = "live"
          BY <2>5, <3>1, <3>2, <2>t DEF ReceiveEvent, TypeOK
        <4> QED BY <4>1, <3>1, <1>2 DEF NoStuckStream
      <3>3. CASE r = s
        <4>1. /\ inbox[s] # <<>> /\ Head(inbox[s]) # End /\ inbox'[s] = Tail(inbox[s])
              /\ stream[s] = "live"
          BY <2>5, <3>1, <3>3, <2>t DEF ReceiveEvent, TypeOK
        <4>2. PICK i \in 1..Len(inbox[s]) : inbox[s][i] = End
          BY <4>1, <3>1, <3>3, <1>2 DEF NoStuckStream
        <4>3. /\ Len(inbox[s]) \in Nat /\ Len(inbox'[s]) = Len(inbox[s]) - 1
              /\ Head(inbox[s]) = inbox[s][1]
              /\ \A j \in 1..Len(inbox'[s]) : inbox'[s][j] = inbox[s][j + 1]
          BY <4>1, <2>t, HeadTailProperties, LenProperties DEF TypeOK
        <4>4. i # 1 /\ i - 1 \in 1..Len(inbox'[s]) /\ inbox'[s][i - 1] = End
          BY <4>1, <4>2, <4>3
        <4> QED BY <4>4, <3>3
      <3> QED BY <3>2, <3>3
    <2>6. ASSUME NEW s \in Streams, BeginStream(s) PROVE NoStuckStream'
      <3>1. SUFFICES ASSUME NEW r \in Streams, stream'[r] = "live", status[target[r]] \in Finished
                     PROVE  \E i \in 1..Len(inbox[r]) : inbox[r][i] = End
        BY <2>6 DEF NoStuckStream, BeginStream, taskVars
      <3>2. CASE stream[r] = "live"
        BY <3>1, <3>2, <1>2 DEF NoStuckStream
      <3>3. CASE stream[r] # "live"
        <4>1. r = s /\ target[s] \notin closed /\ target[s] \notin Tasks
          BY <2>6, <3>1, <3>3, <2>t, <1>2 DEF BeginStream, TypeOK, HubConsistent
        <4>2. target[s] \in Tasks
          BY <1>2, <2>6 DEF BeginStream, Targeted
        <4> QED BY <4>1, <4>2
      <3> QED BY <3>2, <3>3
    <2>7. ASSUME NEW s \in Streams, (\E t \in Tasks : OpenStream(s, t)) \/ Disconnect(s)
          PROVE  NoStuckStream'
      BY <2>7, <1>2, <2>t DEF OpenStream, Disconnect, NoStuckStream, TypeOK, taskVars
    <2>8. CASE UNCHANGED <<status, stream, target, inbox>>
      BY <2>8, <1>2 DEF NoStuckStream
    <2> QED BY <1>2, <2>1, <2>3, <2>4, <2>5, <2>6, <2>7, <2>8
            DEF Next, ResumePut, WorkerCancelled, StartPool, StopDrain, Drained, CancelWorkers,
                DrainTimeout, StopNow, StopDone, vars, taskVars, streamVars
  <1>3. Spec => []Pipeline
    BY TypeCorrect, JoinCounterExact, NoTaskDuplicated, PTL DEF Pipeline, Counting
  <1> QED BY <1>1, <1>2, <1>3, HubAgrees, StreamsTargeted, PTL DEF Spec
-----------------------------------------------------------------------------
(* stop(drain=True). *)

InFlight(t) == (\E i \in 1..Len(queue) : queue[i] = t) \/ (\E w \in Workers : job[w] = t)

\* While stop() waits for join(), a task it has promised to finish is either
\* finished or still in flight, and so still counted by the join counter.
DrainInv ==
    /\ phase \in {"created", "running", "draining"} => ~drained
    /\ phase = "draining" => \A t \in promised : status[t] \in Finished \/ InFlight(t)
    /\ DrainLosesNothing

\* A task in flight stays in flight or is finished, unless workers are being
\* cancelled.
LEMMA InFlightStep ==
    ASSUME Pipeline, [Next]_vars, phase # "cancelling", NEW t \in Tasks, InFlight(t)
    PROVE  status'[t] \in Finished \/ InFlight(t)'
  <1>t. TypeOK
    BY DEF Pipeline, Counting
  <1>1. ASSUME NEW u \in Tasks, Submit(u) \/ ResumePut(u) PROVE InFlight(t)'
    <2>1. job' = job /\ (queue' = queue \/ queue' = Append(queue, u))
      BY <1>1 DEF Submit, ResumePut, Enqueue, poolVars
    <2>2. \A i \in 1..Len(queue) : i \in 1..Len(queue') /\ queue'[i] = queue[i]
      BY <2>1, <1>t DEF TypeOK
    <2> QED BY <2>1, <2>2 DEF InFlight
  <1>2. ASSUME NEW w \in Workers, TakeTask(w) PROVE InFlight(t)'
    <2>1. /\ queue # <<>> /\ queue' = Tail(queue) /\ job[w] = None
          /\ job' = [job EXCEPT ![w] = Head(queue)]
      BY <1>2 DEF TakeTask
    <2>2. /\ Len(queue) \in Nat /\ Len(queue') = Len(queue) - 1 /\ Head(queue) = queue[1]
          /\ \A i \in 1..Len(queue') : queue'[i] = queue[i + 1]
      BY <2>1, <1>t, HeadTailProperties, LenProperties DEF TypeOK
    <2>3. CASE \E v \in Workers : job[v] = t
      BY <2>1, <2>3, <1>t, GatewayAssumption DEF InFlight, TypeOK
    <2>4. ASSUME NEW i \in 1..Len(queue), queue[i] = t PROVE InFlight(t)'
      <3>1. CASE i = 1
        <4>1. job'[w] = t
          BY <2>1, <2>2, <2>4, <3>1, <1>t DEF TypeOK
        <4> QED BY <4>1 DEF InFlight
      <3>2. CASE i # 1
        <4>1. i - 1 \in 1..Len(queue') /\ queue'[i - 1] = t
          BY <2>2, <2>4, <3>2
        <4> QED BY <4>1 DEF InFlight
      <3> QED BY <3>1, <3>2
    <2> QED BY <2>3, <2>4 DEF InFlight
  <1>3. ASSUME NEW w \in Workers, NEW o \in Finished, FinishTask(w, o)
        PROVE  status'[t] \in Finished \/ InFlight(t)'
    <2>1. /\ queue' = queue /\ job' = [job EXCEPT ![w] = None]
          /\ status' = [status EXCEPT ![job[w]] = o]
      BY <1>3 DEF FinishTask, PutRecord
    <2> QED BY <2>1, <1>t DEF InFlight, TypeOK
  <1>4. CASE UNCHANGED <<queue, job>>
    BY <1>4 DEF InFlight
  <1> QED BY <1>1, <1>2, <1>3, <1>4
          DEF Next, WorkerCancelled, StartPool, StopDrain, Drained, CancelWorkers, DrainTimeout,
              StopNow, StopDone, OpenStream, BeginStream, ReceiveEvent, Disconnect,
              vars, queueVars, poolVars

\* stop(drain=True) whose join() returned has abandoned none of the tasks
\* that were queued or executing when it was called.
THEOREM DrainKeepsPromise == Spec => []DrainLosesNothing
  <1>1. Init => DrainInv
    BY DEF Init, DrainInv, DrainLosesNothing
  <1>2. ASSUME Pipeline, DrainInv, [Next]_vars PROVE DrainInv'
    <2>t. TypeOK
      BY <1>2 DEF Pipeline, Counting
    <2>1. CASE StopDrain
      <3>1. \A t \in promised' : InFlight(t)'
        BY <2>1 DEF StopDrain, InFlight, Busy, queueVars
      <3> QED BY <2>1, <3>1, <1>2 DEF StopDrain, DrainInv, DrainLosesNothing
    <2>2. CASE Drained
      <3>1. Len(queue) = 0 /\ Cardinality(Busy) = 0
        BY <2>2, <1>2, <2>t, BusyNat, LenProperties
           DEF Drained, JoinReturns, Pipeline, Counting, QueueAccounting, TypeOK
      <3>2. Busy = {}
        <4>1. IsFiniteSet(Busy)
          BY GatewayAssumption, FS_Subset DEF Busy
        <4> QED BY <3>1, <4>1, FS_EmptySet
      <3>3. \A t \in promised : ~InFlight(t)
        BY <3>1, <3>2, <2>t, GatewayAssumption DEF InFlight, Busy, TypeOK
      <3> QED BY <2>2, <3>3, <1>2 DEF Drained, DrainInv, DrainLosesNothing, taskVars
    <2>3. ASSUME promised' = promised, drained' = drained,
                 phase' \in {"created", "running", "draining"} =>
                     phase \in {"created", "running", "draining"},
                 phase' = "draining" => phase = "draining"
          PROVE  DrainInv'
      <3>1. \A t \in promised : status[t] \in Finished => status'[t] \in Finished
        BY <1>2, <2>t, FinishedStable DEF TypeOK
      <3>2. phase = "draining" => \A t \in promised : status'[t] \in Finished \/ InFlight(t)'
        BY <1>2, <2>t, <3>1, InFlightStep DEF DrainInv, TypeOK
      <3> QED BY <1>2, <2>3, <3>1, <3>2 DEF DrainInv, DrainLosesNothing
    <2>4. CASE UNCHANGED <<promised, drained, phase>>
      BY <2>3, <2>4
    <2>5. CASE StartPool \/ CancelWorkers \/ DrainTimeout \/ StopNow \/ StopDone
      BY <2>3, <2>5 DEF StartPool, CancelWorkers, DrainTimeout, StopNow, StopDone
    <2> QED BY <1>2, <2>1, <2>2, <2>4, <2>5
            DEF Next, Submit, ResumePut, TakeTask, FinishTask, WorkerCancelled,
                OpenStream, BeginStream, ReceiveEvent, Disconnect, vars, poolVars
  <1>3. Spec => []Pipeline
    BY TypeCorrect, JoinCounterExact, NoTaskDuplicated, PTL DEF Pipeline, Counting
  <1>4. DrainInv => DrainLosesNothing
    BY DEF DrainInv
  <1> QED BY <1>1, <1>2, <1>3, <1>4, PTL DEF Spec
-----------------------------------------------------------------------------
\* One eviction: a record that goes is older than every finished one that
\* stays, because the finished records older than the one that stays
\* would be among those older than the one that goes.
LEMMA EvictionOrder ==
    ASSUME NEW recs \in SUBSET Tasks, NEW ord \in [Tasks -> Nat], NEW st,
           NEW t \in Evicted(recs, ord, st),
           NEW u \in recs \ Evicted(recs, ord, st), st[u] \in Finished
    PROVE  ord[u] > ord[t]
  <1> DEFINE fin == {x \in recs : st[x] \in Finished}
             Older(x) == {y \in fin : ord[y] < ord[x]}
  <1>1. IsFiniteSet(recs) /\ Cardinality(recs) \in Nat
    BY GatewayAssumption, FS_Subset, FS_CardinalityType
  <1>2. t \in fin /\ u \in fin /\ t \in Tasks /\ u \in Tasks
    BY DEF Evicted
  <1>3. Cardinality(Older(t)) < Cardinality(recs) - MaxRecords
    BY DEF Evicted
  <1>4. ~(Cardinality(Older(u)) < Cardinality(recs) - MaxRecords)
    BY <1>2 DEF Evicted
  <1>5. \A x \in fin : Older(x) \subseteq recs
    OBVIOUS
  <1>6. \A x \in fin : IsFiniteSet(Older(x)) /\ Cardinality(Older(x)) \in Nat
    BY <1>1, <1>5, FS_Subset, FS_CardinalityType
  <1>7. ASSUME ord[u] <= ord[t] PROVE FALSE
    <2>1. Older(u) \subseteq Older(t)
      BY <1>2, <1>7
    <2>2. Cardinality(Older(u)) <= Cardinality(Older(t))
      BY <1>2, <1>6, <2>1, FS_Subset
    <2> HIDE DEF Older
    <2> QED BY <1>1, <1>2, <1>3, <1>4, <1>6, <2>2, GatewayAssumption
  <1> QED BY <1>2, <1>7

\* put() keeps the rank of the records that were there.
LEMMA PutEvictsOldest ==
    ASSUME TypeOK, NEW p \in Tasks, NEW st, PutRecord(p, st),
           NEW t \in records \ records', NEW u \in records', status'[u] \in Finished
    PROVE  order'[u] > order[t]
  <1> DEFINE recs == records \cup {p}
             ord  == IF p \in records THEN order
                     ELSE [order EXCEPT ![p] = 1 + Cardinality({x \in Tasks : order[x] > 0})]
  <1>1. /\ status' = st /\ order' = ord
        /\ records' = recs \/ records' = recs \ Evicted(recs, ord, st)
    BY DEF PutRecord
  <1>2. ord \in [Tasks -> Nat] /\ (p \notin records => ord[t] = order[t])
    <2>1. {x \in Tasks : order[x] > 0} \subseteq Tasks
      OBVIOUS
    <2>2. Cardinality({x \in Tasks : order[x] > 0}) \in Nat
      BY <2>1, GatewayAssumption, FS_Subset, FS_CardinalityType
    <2> QED BY <2>2 DEF TypeOK
  <1>3. recs \in SUBSET Tasks
    BY DEF TypeOK
  <1>4. t \in Evicted(recs, ord, st) /\ u \in recs \ Evicted(recs, ord, st) /\ st[u] \in Finished
    BY <1>1
  <1>5. ord[u] > ord[t]
    BY <1>2, <1>3, <1>4, EvictionOrder
  <1> QED BY <1>1, <1>2, <1>5

\* The registry forgets oldest-first: a finished record is evicted only if
\* every finished record that stays is younger.
THEOREM OldestEvictedFirst == Spec => EvictsOldestFirst
  <1>1. ASSUME TypeOK, [Next]_vars
        PROVE  [\A t \in records \ records', u \in records' :
                  status'[u] \in Finished => order'[u] > order[t]]_vars
    <2> SUFFICES ASSUME NEW t \in records \ records', NEW u \in records',
                        status'[u] \in Finished
                 PROVE  order'[u] > order[t]
      OBVIOUS
    <2>1. ASSUME NEW p \in Tasks, Submit(p) PROVE order'[u] > order[t]
      BY <1>1, <2>1, PutEvictsOldest DEF Submit
    <2>2. ASSUME NEW w \in Workers, TakeTask(w) PROVE order'[u] > order[t]
      <3>1. Head(queue) \in Tasks
        BY <1>1, <2>2 DEF TakeTask, TypeOK
      <3> QED BY <1>1, <2>2, <3>1, PutEvictsOldest DEF TakeTask
    <2>3. ASSUME NEW w \in Workers, NEW o \in Finished, FinishTask(w, o)
          PROVE  order'[u] > order[t]
      <3>1. job[w] \in Tasks
        BY <1>1, <2>3 DEF FinishTask, TypeOK
      <3> QED BY <1>1, <2>3, <3>1, PutEvictsOldest DEF FinishTask
    <2>4. CASE records' = records
      BY <2>4
    <2> QED BY <1>1, <2>1, <2>2, <2>3, <2>4
            DEF Next, ResumePut, WorkerCancelled, StartPool, StopDrain, Drained, CancelWorkers,
                DrainTimeout, StopNow, StopDone, OpenStream, BeginStream, ReceiveEvent,
                Disconnect, vars, taskVars
  <1> QED BY <1>1, TypeCorrect, PTL DEF Spec, EvictsOldestFirst
-----------------------------------------------------------------------------
(* The bound of the registry.                                              *)

\* Of some natural numbers one is the smallest.
LEMMA SmallestRank ==
    ASSUME NEW A \in SUBSET Tasks, A # {}, NEW ord \in [Tasks -> Nat]
    PROVE  \E v \in A : \A w \in A : ord[v] <= ord[w]
  <1> DEFINE R == {ord[w] : w \in A}
  <1>1. R \in SUBSET Nat /\ R # {}
    OBVIOUS
  <1> HIDE DEF R
  <1>2. PICK n \in R : \A m \in R : <<m, n>> \notin OpToRel(<, Nat)
    BY <1>1, WFMin, NatLessThanWellFounded
  <1>3. \A m \in R : n <= m
    <2>1. ASSUME NEW m \in R, m < n PROVE FALSE
      <3>1. <<m, n>> \in Nat \X Nat /\ <<m, n>>[1] = m /\ <<m, n>>[2] = n
        BY <1>1
      <3> QED BY <1>2, <2>1, <3>1, Zenon DEF OpToRel
    <2> QED BY <1>1, <2>1
  <1> USE DEF R
  <1> QED BY <1>3

\* One eviction is enough: if a finished record stays, then so many older ones
\* went that the registry is back at its limit.
LEMMA EvictionSuffices ==
    ASSUME NEW recs \in SUBSET Tasks, NEW ord \in [Tasks -> Nat], NEW st,
           NEW u \in recs \ Evicted(recs, ord, st), st[u] \in Finished
    PROVE  Cardinality(recs \ Evicted(recs, ord, st)) <= MaxRecords
  <1> DEFINE fin == {x \in recs : st[x] \in Finished}
             Older(x) == {y \in fin : ord[y] < ord[x]}
             E == Evicted(recs, ord, st)
             left == fin \ E
  <1>1. E \subseteq fin /\ \A x \in fin : x \in E <=> Cardinality(Older(x)) < Cardinality(recs) - MaxRecords
    BY DEF Evicted
  <1>2. PICK v \in left : \A w \in left : ord[v] <= ord[w]
    <2>1. left \in SUBSET Tasks /\ left # {}
      OBVIOUS
    <2> HIDE DEF left
    <2> QED BY <2>1, SmallestRank
  <1>3. Older(v) \subseteq E
    BY <1>2
  <1>4. IsFiniteSet(recs) /\ Cardinality(recs) \in Nat
    BY GatewayAssumption, FS_Subset, FS_CardinalityType
  <1>5. /\ IsFiniteSet(E) /\ Cardinality(E) \in Nat
        /\ Cardinality(Older(v)) \in Nat /\ Cardinality(Older(v)) <= Cardinality(E)
    <2>1. E \subseteq recs /\ Older(v) \subseteq recs
      BY <1>1
    <2> QED BY <2>1, <1>3, <1>4, FS_Subset, FS_CardinalityType
  <1>6. ~(Cardinality(Older(v)) < Cardinality(recs) - MaxRecords)
    BY <1>1, <1>2
  <1>7. Cardinality(recs \ E) = Cardinality(recs) - Cardinality(E)
    <2>1. recs \cap E = E
      BY <1>1
    <2> QED BY <2>1, <1>4, FS_Difference
  <1> HIDE DEF E, Older
  <1>8. Cardinality(recs \ E) <= MaxRecords
    BY <1>4, <1>5, <1>6, <1>7, GatewayAssumption
  <1> QED BY <1>8 DEF E

\* put() leaves the registry within its limit, or nothing in it is finished.
LEMMA PutBounds ==
    ASSUME TypeOK, NEW p \in Tasks, NEW st, PutRecord(p, st) PROVE RegistryBound'
  <1> DEFINE recs == records \cup {p}
             ord  == IF p \in records THEN order
                     ELSE [order EXCEPT ![p] = 1 + Cardinality({x \in Tasks : order[x] > 0})]
  <1>1. /\ status' = st
        /\ records' = IF MaxRecords = 0 \/ Cardinality(recs) <= MaxRecords THEN recs
                      ELSE recs \ Evicted(recs, ord, st)
    BY DEF PutRecord
  <1>2. ord \in [Tasks -> Nat] /\ recs \in SUBSET Tasks
    <2>1. {x \in Tasks : order[x] > 0} \subseteq Tasks
      OBVIOUS
    <2>2. Cardinality({x \in Tasks : order[x] > 0}) \in Nat
      BY <2>1, GatewayAssumption, FS_Subset, FS_CardinalityType
    <2> QED BY <2>2 DEF TypeOK
  <1>3. Cardinality(recs) \in Nat
    BY <1>2, GatewayAssumption, FS_Subset, FS_CardinalityType
  <1> HIDE DEF recs, ord
  <1>4. ASSUME MaxRecords > 0, Cardinality(records') > MaxRecords, NEW u \in records',
               status'[u] \in Finished
        PROVE  FALSE
    <2>1. ~(MaxRecords = 0 \/ Cardinality(recs) <= MaxRecords)
      BY <1>1, <1>3, <1>4, GatewayAssumption
    <2>2. records' = recs \ Evicted(recs, ord, st) /\ st[u] \in Finished
      BY <1>1, <1>4, <2>1
    <2>3. Cardinality(records') <= MaxRecords
      BY <1>2, <1>4, <2>2, EvictionSuffices
    <2>4. Cardinality(records') \in Nat
      BY <1>2, <2>2, GatewayAssumption, FS_Subset, FS_CardinalityType
    <2> QED BY <1>4, <2>3, <2>4, GatewayAssumption
  <1> QED BY <1>4 DEF RegistryBound

\* The registry is over its limit only while nothing in it is finished.
THEOREM RegistryIsBounded == Spec => []RegistryBound
  <1>1. Init => RegistryBound
    BY DEF Init, RegistryBound
  <1>2. ASSUME TypeOK, RegistryBound, [Next]_vars PROVE RegistryBound'
    <2>1. ASSUME NEW p \in Tasks, Submit(p) PROVE RegistryBound'
      BY <1>2, <2>1, PutBounds DEF Submit
    <2>2. ASSUME NEW w \in Workers, TakeTask(w) PROVE RegistryBound'
      <3>1. Head(queue) \in Tasks
        BY <1>2, <2>2 DEF TakeTask, TypeOK
      <3> QED BY <1>2, <2>2, <3>1, PutBounds DEF TakeTask
    <2>3. ASSUME NEW w \in Workers, NEW o \in Finished, FinishTask(w, o) PROVE RegistryBound'
      <3>1. job[w] \in Tasks
        BY <1>2, <2>3 DEF FinishTask, TypeOK
      <3> QED BY <1>2, <2>3, <3>1, PutBounds DEF FinishTask
    <2>4. CASE UNCHANGED <<records, status>>
      BY <1>2, <2>4 DEF RegistryBound
    <2> QED BY <1>2, <2>1, <2>2, <2>3, <2>4
            DEF Next, ResumePut, WorkerCancelled, StartPool, StopDrain, Drained, CancelWorkers,
                DrainTimeout, StopNow, StopDone, OpenStream, BeginStream, ReceiveEvent,
                Disconnect, vars, taskVars
  <1> QED BY <1>1, <1>2, TypeCorrect, PTL DEF Spec
-----------------------------------------------------------------------------
(* What a stream is told.                                                  *)

\* The frames of a task that has status st: in order, none ahead of st, the
\* outcome is st, and the terminal signal follows the outcome.
Told(h, st) ==
    /\ h \in Seq(Events)
    /\ \A i, j \in 1..Len(h) : i < j => Rank(h[i]) < Rank(h[j])
    /\ \A i \in 1..Len(h) : h[i] # End => Rank(h[i]) <= Rank(st)
    /\ \A i \in 1..Len(h) : h[i] \in Finished => h[i] = st
    /\ \A i \in 1..Len(h) : h[i] = End => /\ st \in Finished
                                          /\ \E j \in 1..Len(h) : h[j] \in Finished

\* The rank of an event: the outcome outranks every other status, End all of them.
LEMMA Ranks ==
    /\ Rank("queued") = 0 /\ Rank("running") = 1 /\ Rank(End) = 3
    /\ \A o \in Finished : Rank(o) = 2 /\ o # End /\ o # "queued" /\ o # "running"
    /\ \A e \in Events : Rank(e) \in 0..3 /\ (Rank(e) = 3 <=> e = End) /\ (Rank(e) = 2 <=> e \in Finished)
    /\ "queued" # End /\ "running" # End /\ "queued" \notin Finished /\ "running" \notin Finished
  BY DEF Rank, Finished, Events, End

\* Nothing has been said, or a finished record is replayed.
LEMMA ToldNothing == ASSUME NEW st PROVE Told(<<>>, st)
  BY DEF Told

\* What a stream on a finished task replays is that task's outcome.
LEMMA ToldReplay == ASSUME NEW st \in Finished PROVE Told(<<st>>, st)
  <1>1. st \in Events
    BY DEF Events, Finished
  <1> QED BY <1>1, Ranks DEF Told

\* The task moves on, and the stream is not (yet) told.
LEMMA ToldLater ==
    ASSUME NEW h, NEW st, NEW su, Told(h, st),
           \/ st = "queued" /\ su = "running"
           \/ st = "running" /\ su \in Finished
    PROVE  Told(h, su)
  <1>1. Rank(st) <= Rank(su) /\ st \notin Finished
    BY Ranks
  <1>2. \A i \in 1..Len(h) : h[i] \in Events
    BY DEF Told
  <1>3. Rank(st) \in 0..3 /\ Rank(su) \in 0..3
    BY Ranks
  <1>4. \A i \in 1..Len(h) : h[i] # End /\ h[i] \notin Finished /\ Rank(h[i]) <= Rank(st)
    BY <1>1, <1>2, Ranks DEF Told
  <1>5. \A i \in 1..Len(h) : Rank(h[i]) \in 0..3
    BY <1>2, Ranks
  <1> QED BY <1>1, <1>3, <1>4, <1>5 DEF Told

\* A worker starts the task.
LEMMA ToldRunning ==
    ASSUME NEW h, Told(h, "queued") PROVE Told(h \o <<"running">>, "running")
  <1> DEFINE g == h \o <<"running">>
  <1>1. h \in Seq(Events) /\ Len(h) \in Nat /\ \A i \in 1..Len(h) : h[i] \in Events
    BY DEF Told
  <1>2. /\ g \in Seq(Events) /\ Len(g) = Len(h) + 1
        /\ \A i \in 1..Len(g) : g[i] = IF i = Len(h) + 1 THEN "running" ELSE h[i]
    BY <1>1 DEF Events
  <1>3. \A i \in 1..Len(h) : h[i] \notin Finished /\ h[i] # End /\ Rank(h[i]) = 0
    BY <1>1, Ranks DEF Told
  <1> HIDE DEF g
  <1>4. \A i, j \in 1..Len(g) : i < j => Rank(g[i]) < Rank(g[j])
    <2> SUFFICES ASSUME NEW i \in 1..Len(g), NEW j \in 1..Len(g), i < j
                 PROVE  Rank(g[i]) < Rank(g[j])
      OBVIOUS
    <2>1. CASE j = Len(h) + 1
      BY <1>1, <1>2, <1>3, <2>1, Ranks
    <2>2. CASE j # Len(h) + 1
      BY <1>1, <1>2, <2>2 DEF Told
    <2> QED BY <2>1, <2>2
  <1>5. \A i \in 1..Len(g) : g[i] \notin Finished /\ g[i] # End /\ Rank(g[i]) <= 1
    BY <1>1, <1>2, <1>3, Ranks
  <1>6. Told(g, "running")
    BY <1>2, <1>4, <1>5, Ranks DEF Told
  <1> QED BY <1>6 DEF g

\* The task ends: its outcome and the terminal signal.
LEMMA ToldOutcome ==
    ASSUME NEW h, Told(h, "running"), NEW o \in Finished PROVE Told(h \o <<o, End>>, o)
  <1> DEFINE g == h \o <<o, End>>
  <1>1. h \in Seq(Events) /\ Len(h) \in Nat /\ \A i \in 1..Len(h) : h[i] \in Events
    BY DEF Told
  <1>2. /\ g \in Seq(Events) /\ Len(g) = Len(h) + 2
        /\ \A i \in 1..Len(h) : g[i] = h[i]
        /\ g[Len(h) + 1] = o /\ g[Len(h) + 2] = End
    <2>1. <<o, End>> \in Seq(Events) /\ Len(<<o, End>>) = 2 /\ <<o, End>>[1] = o /\ <<o, End>>[2] = End
      BY DEF Events, Finished
    <2> HIDE DEF End
    <2> QED BY <1>1, <2>1, ConcatProperties
  <1>3. \A i \in 1..Len(h) : h[i] \notin Finished /\ h[i] # End /\ Rank(h[i]) \in 0..1
    BY <1>1, Ranks DEF Told
  <1> HIDE DEF g
  <1>4. \A i \in 1..Len(g) : i \in 1..Len(h) \/ i = Len(h) + 1 \/ i = Len(h) + 2
    BY <1>1, <1>2
  <1>5. \A i, j \in 1..Len(g) : i < j => Rank(g[i]) < Rank(g[j])
    <2> SUFFICES ASSUME NEW i \in 1..Len(g), NEW j \in 1..Len(g), i < j
                 PROVE  Rank(g[i]) < Rank(g[j])
      OBVIOUS
    <2>1. CASE j \in 1..Len(h)
      BY <1>1, <1>2, <2>1 DEF Told
    <2>2. CASE j = Len(h) + 1
      <3>1. i \in 1..Len(h)
        BY <1>1, <2>2
      <3> QED BY <1>2, <1>3, <2>2, <3>1, Ranks
    <2>3. CASE j = Len(h) + 2
      <3>1. i \in 1..Len(h) \/ i = Len(h) + 1
        BY <1>1, <2>3
      <3> QED BY <1>2, <1>3, <2>3, <3>1, Ranks
    <2> QED BY <1>4, <2>1, <2>2, <2>3
  <1>6. \A i \in 1..Len(g) : g[i] # End => Rank(g[i]) <= Rank(o)
    BY <1>2, <1>3, <1>4, Ranks
  <1>7. \A i \in 1..Len(g) : g[i] \in Finished => g[i] = o
    BY <1>2, <1>3, <1>4, Ranks
  <1>8. Len(h) + 1 \in 1..Len(g) /\ g[Len(h) + 1] \in Finished
    BY <1>1, <1>2
  <1>9. Told(g, o)
    BY <1>2, <1>5, <1>6, <1>7, <1>8 DEF Told
  <1> QED BY <1>9 DEF g

\* A frame moves from the inbox to the client.
LEMMA FrameSent ==
    ASSUME NEW a \in Seq(Events), NEW b \in Seq(Events), b # <<>>
    PROVE  /\ Append(a, Head(b)) \o Tail(b) = a \o b
           /\ Append(a, Head(b)) \in Seq(Events) /\ Tail(b) \in Seq(Events)
  <1>1. /\ Head(b) \in Events /\ Tail(b) \in Seq(Events) /\ b = <<Head(b)>> \o Tail(b)
    BY HeadTailProperties
  <1>2. Append(a, Head(b)) = a \o <<Head(b)>>
    BY <1>1, AppendIsConcat
  <1>3. <<Head(b)>> \in Seq(Events)
    BY <1>1
  <1>4. (a \o <<Head(b)>>) \o Tail(b) = a \o (<<Head(b)>> \o Tail(b))
    BY <1>1, <1>3, ConcatAssociative
  <1> QED BY <1>1, <1>2, <1>3, <1>4

\* A concatenation starts with its first part.
LEMMA LeftPart ==
    ASSUME NEW a \in Seq(Events), NEW b \in Seq(Events), NEW i \in 1..Len(a)
    PROVE  i \in 1..Len(a \o b) /\ (a \o b)[i] = a[i]
  BY ConcatProperties

\* The terminal signal is the last one, and comes after the outcome.
LEMMA EndIsLast ==
    ASSUME NEW a \in Seq(Events), NEW b \in Seq(Events), b # <<>>, Head(b) = End,
           NEW st, Told(a \o b, st)
    PROVE  /\ Tail(b) = <<>> /\ Told(a \o Tail(b), st)
           /\ \E i \in 1..Len(a) : a[i] \in Finished
  <1> DEFINE h == a \o b
  <1>1. /\ h \in Seq(Events) /\ Len(h) = Len(a) + Len(b) /\ Len(a) \in Nat /\ Len(b) \in Nat
        /\ \A i \in 1..Len(h) : h[i] = IF i <= Len(a) THEN a[i] ELSE b[i - Len(a)]
        /\ Len(b) > 0 /\ b[1] = End
    BY ConcatProperties
  <1>2. h[Len(a) + 1] = End
    BY <1>1
  <1>3. \A i \in 1..Len(h) : h[i] \in Events
    BY <1>1
  <1> HIDE DEF h
  <1>4. Len(h) = Len(a) + 1
    <2> SUFFICES ASSUME Len(h) > Len(a) + 1 PROVE FALSE
      BY <1>1
    <2>1. Len(a) + 1 \in 1..Len(h) /\ Len(a) + 2 \in 1..Len(h)
      BY <1>1
    <2>2. Rank(h[Len(a) + 1]) < Rank(h[Len(a) + 2])
      BY <1>1, <2>1 DEF Told, h
    <2> QED BY <1>2, <1>3, <2>1, <2>2, Ranks
  <1>5. Tail(b) = <<>>
    <2>1. Len(Tail(b)) = Len(b) - 1 /\ Tail(b) \in Seq(Events)
      BY HeadTailProperties
    <2>2. Len(Tail(b)) = 0
      BY <1>1, <1>4, <2>1
    <2> QED BY <2>1, <2>2, EmptySeq
  <1>6. a \o Tail(b) = a
    BY <1>5, ConcatEmptySeq
  <1>7. PICK i \in 1..Len(h) : h[i] \in Finished
    <2>1. Len(a) + 1 \in 1..Len(h)
      BY <1>1, <1>4
    <2> QED BY <1>2, <2>1 DEF Told, h
  <1>8. i \in 1..Len(a) /\ a[i] \in Finished
    <2>1. i # Len(a) + 1
      BY <1>2, <1>7, Ranks
    <2> QED BY <1>1, <1>4, <1>7, <2>1
  <1>9. \A k \in 1..Len(a) : k \in 1..Len(h) /\ a[k] = h[k] /\ k < Len(a) + 1
    BY <1>1
  <1>10. \A k \in 1..Len(a) : a[k] # End
    <2> SUFFICES ASSUME NEW k \in 1..Len(a) PROVE a[k] # End
      OBVIOUS
    <2>1. Len(a) + 1 \in 1..Len(h) /\ k \in 1..Len(h) /\ k < Len(a) + 1 /\ a[k] = h[k]
      BY <1>1, <1>4
    <2>2. Rank(h[k]) < Rank(h[Len(a) + 1])
      BY <2>1 DEF Told, h
    <2> QED BY <1>2, <2>1, <2>2, Ranks
  <1>11. Told(a, st)
    BY <1>8, <1>9, <1>10 DEF Told, h
  <1> QED BY <1>5, <1>6, <1>8, <1>11
-----------------------------------------------------------------------------
\* What is on record, or followed by a client, has been submitted.
Known ==
    /\ \A t \in records : status[t] # "new"
    /\ \A s \in Streams : stream[s] # "idle" => status[target[s]] # "new"

\* What a client was and will be shown fits the status of its task.
Frames ==
    /\ \A s \in Streams : stream[s] \in {"idle", "opened"} => out[s] = <<>> /\ inbox[s] = <<>>
    /\ \A s \in Streams : stream[s] # "idle" => Told(out[s] \o inbox[s], status[target[s]])

\* A stream the server ended is one of a finished task.
Ended ==
    \A s \in Streams : stream[s] = "ended"
        => /\ status[target[s]] \in Finished
           /\ target[s] \notin records \/ \E i \in 1..Len(out[s]) : out[s][i] \in Finished

StreamInv == Known /\ Frames /\ Ended

\* A record is added only while its task is not finished.
LEMMA RecordsGrow ==
    ASSUME Pipeline, [Next]_vars, NEW t \in Tasks, t \in records', t \notin records
    PROVE  status[t] \notin Finished /\ status'[t] # "new"
  <1>t. TypeOK
    BY DEF Pipeline, Counting
  <1>1. ASSUME NEW u \in Tasks, Submit(u) PROVE status[t] \notin Finished /\ status'[t] # "new"
    BY <1>1, <1>t DEF Submit, PutRecord, Finished, TypeOK
  <1>2. ASSUME NEW w \in Workers, TakeTask(w) PROVE status[t] \notin Finished /\ status'[t] # "new"
    <2>1. Head(queue) = queue[1] /\ 1 \in 1..Len(queue) /\ Head(queue) \in Tasks
      BY <1>2, <1>t, HeadTailProperties, EmptySeq DEF TakeTask, TypeOK
    <2>2. status[Head(queue)] = "queued"
      BY <2>1 DEF Pipeline, NoDuplicateWork
    <2> QED BY <1>2, <2>1, <2>2, <1>t DEF TakeTask, PutRecord, Finished, TypeOK
  <1>3. ASSUME NEW w \in Workers, NEW o \in Finished, FinishTask(w, o)
        PROVE  status[t] \notin Finished /\ status'[t] # "new"
    <2>1. job[w] \in Tasks /\ status[job[w]] = "running"
      BY <1>3, <1>t DEF FinishTask, Pipeline, NoDuplicateWork, TypeOK
    <2>2. t = job[w] /\ status'[t] = o
      BY <1>3, <1>t, <2>1 DEF FinishTask, PutRecord, TypeOK
    <2> QED BY <2>1, <2>2 DEF Finished
  <1> QED BY <1>1, <1>2, <1>3
          DEF Next, ResumePut, WorkerCancelled, StartPool, StopDrain, Drained, CancelWorkers,
              DrainTimeout, StopNow, StopDone, OpenStream, BeginStream, ReceiveEvent,
              Disconnect, vars, taskVars

\* A stream goes on knowing its task through every step.
LEMMA KnownStep == ASSUME Pipeline, Targeted, Known, [Next]_vars PROVE Known'
  <1>t. TypeOK
    BY DEF Pipeline, Counting
  <1>1. \A t \in Tasks : status[t] # "new" => status'[t] # "new"
    BY <1>t, StatusStep DEF TypeOK, Finished
  <1>2. ASSUME NEW t \in records' PROVE status'[t] # "new"
    <2>1. records' \subseteq Tasks
      <3>1. \A t2 \in Tasks : \A st : PutRecord(t2, st) => records' \subseteq Tasks
        BY <1>t DEF PutRecord, TypeOK
      <3>2. queue # <<>> => Head(queue) \in Tasks
        BY <1>t, HeadTailProperties DEF TypeOK
      <3> QED BY <1>t, <3>1, <3>2
          DEF Next, Submit, TakeTask, FinishTask, ResumePut, WorkerCancelled, StartPool, StopDrain,
              Drained, CancelWorkers, DrainTimeout, StopNow, StopDone, OpenStream, BeginStream,
              ReceiveEvent, Disconnect, vars, taskVars, TypeOK
    <2> QED BY <1>1, <1>2, <1>t, <2>1, RecordsGrow DEF Known
  <1>3. ASSUME NEW s \in Streams, stream'[s] # "idle" PROVE status'[target'[s]] # "new"
    <2>1. \/ stream[s] # "idle" /\ target'[s] = target[s]
          \/ \E t \in Tasks : t \in records /\ target'[s] = t
      <3>1. ASSUME NEW r \in Streams, NEW t \in Tasks, OpenStream(r, t)
            PROVE  \/ stream[s] # "idle" /\ target'[s] = target[s]
                   \/ t \in records /\ target'[s] = t
        BY <1>3, <3>1, <1>t DEF OpenStream, TypeOK
      <3>2. ASSUME NEW r \in Streams, BeginStream(r) \/ ReceiveEvent(r) \/ Disconnect(r)
            PROVE  stream[s] # "idle" /\ target' = target
        BY <1>3, <3>2, <1>t DEF BeginStream, ReceiveEvent, Disconnect, TypeOK
      <3>3. CASE UNCHANGED <<stream, target>>
        BY <1>3, <3>3
      <3> QED BY <3>1, <3>2, <3>3
          DEF Next, Submit, TakeTask, FinishTask, ResumePut, WorkerCancelled, StartPool, StopDrain,
              Drained, CancelWorkers, DrainTimeout, StopNow, StopDone, vars, streamVars
    <2> QED BY <1>1, <2>1 DEF Known, Targeted
  <1> QED BY <1>2, <1>3 DEF Known

\* A task moves on and tells its subscribers.
LEMMA FramesPublished ==
    ASSUME TypeOK, Targeted, HubConsistent, Frames, NEW t \in Tasks, NEW ev \in Seq(Events),
           NEW su, Publish(t, ev), status' = [status EXCEPT ![t] = su],
           UNCHANGED <<stream, target, out>>,
           \A s \in Streams : stream[s] # "idle" /\ target[s] = t =>
              \A h : Told(h, status[t]) => Told(h, su) /\ Told(h \o ev, su)
    PROVE  Frames'
  <1>1. ASSUME NEW s \in Streams, stream[s] \in {"idle", "opened"} PROVE inbox'[s] = inbox[s]
    BY <1>1, PublishFacts DEF HubConsistent
  <1>2. ASSUME NEW s \in Streams, stream[s] # "idle"
        PROVE  Told(out[s] \o inbox'[s], status'[target[s]])
    <2>0. target[s] \in Tasks /\ Told(out[s] \o inbox[s], status[target[s]])
      BY <1>2 DEF Targeted, Frames
    <2>1. CASE target[s] # t
      <3>1. inbox'[s] = inbox[s]
        BY <2>1, PublishFacts DEF HubConsistent
      <3> QED BY <2>0, <2>1, <3>1 DEF TypeOK
    <2>2. CASE target[s] = t /\ s \notin subs[t]
      <3>1. inbox'[s] = inbox[s]
        BY <2>2, PublishFacts
      <3>2. Told(out[s] \o inbox[s], su)
        BY <1>2, <2>0, <2>2
      <3> QED BY <2>0, <2>2, <3>1, <3>2 DEF TypeOK
    <2>3. CASE target[s] = t /\ s \in subs[t]
      <3>1. inbox'[s] = inbox[s] \o ev
        BY <2>3, PublishFacts
      <3>2. Told((out[s] \o inbox[s]) \o ev, su)
        BY <1>2, <2>0, <2>3
      <3>3. (out[s] \o inbox[s]) \o ev = out[s] \o (inbox[s] \o ev)
        BY ConcatAssociative DEF TypeOK
      <3> QED BY <2>0, <2>3, <3>1, <3>2, <3>3 DEF TypeOK
    <2> QED BY <2>1, <2>2, <2>3
  <1> QED BY <1>1, <1>2 DEF Frames

\* Every step leaves a stream the frames it may show, in order.
LEMMA FramesStep ==
    ASSUME Pipeline, Targeted, HubConsistent, Known, Frames, [Next]_vars PROVE Frames'
  <1>t. TypeOK
    BY DEF Pipeline, Counting
  <1>1. ASSUME NEW t \in Tasks, Submit(t) PROVE Frames'
    <2>1. <<"queued">> \in Seq(Events)
      BY DEF Events
    <2>2. \A s \in Streams : ~(stream[s] # "idle" /\ target[s] = t)
      BY <1>1 DEF Submit, Known
    <2> QED BY <1>1, <1>t, <2>1, <2>2, FramesPublished DEF Submit, PutRecord
  <1>2. ASSUME NEW w \in Workers, TakeTask(w) PROVE Frames'
    <2>1. Head(queue) = queue[1] /\ 1 \in 1..Len(queue) /\ Head(queue) \in Tasks
      BY <1>2, <1>t, HeadTailProperties, EmptySeq DEF TakeTask, TypeOK
    <2>2. status[Head(queue)] = "queued" /\ <<"running">> \in Seq(Events)
      BY <2>1 DEF Pipeline, NoDuplicateWork, Events
    <2>3. \A h : Told(h, "queued") => Told(h, "running") /\ Told(h \o <<"running">>, "running")
      BY ToldLater, ToldRunning
    <2>4. PICK t \in Tasks : t = Head(queue)
      BY <2>1
    <2>5. /\ Publish(t, <<"running">>) /\ status' = [status EXCEPT ![t] = "running"]
          /\ UNCHANGED <<stream, target, out>>
      BY <1>2, <2>4 DEF TakeTask, PutRecord
    <2>6. status[t] = "queued"
      BY <2>2, <2>4
    <2>7. \A s \in Streams : stream[s] # "idle" /\ target[s] = t =>
             \A h : Told(h, status[t]) => Told(h, "running") /\ Told(h \o <<"running">>, "running")
      BY <2>3, <2>6
    <2> QED BY <1>t, <2>2, <2>5, <2>7, FramesPublished
  <1>3. ASSUME NEW w \in Workers, NEW o \in Finished, FinishTask(w, o) PROVE Frames'
    <2>1. job[w] \in Tasks /\ status[job[w]] = "running"
      BY <1>3, <1>t DEF FinishTask, Pipeline, NoDuplicateWork, TypeOK
    <2>2. <<o, End>> \in Seq(Events)
      BY DEF Events, Finished
    <2>3. \A h : Told(h, "running") => Told(h, o) /\ Told(h \o <<o, End>>, o)
      BY ToldLater, ToldOutcome
    <2>4. PICK t \in Tasks : t = job[w]
      BY <2>1
    <2>5. /\ Publish(t, <<o, End>>) /\ status' = [status EXCEPT ![t] = o]
          /\ UNCHANGED <<stream, target, out>>
      BY <1>3, <2>4 DEF FinishTask, PutRecord
    <2>6. status[t] = "running"
      BY <2>1, <2>4
    <2>7. \A s \in Streams : stream[s] # "idle" /\ target[s] = t =>
             \A h : Told(h, status[t]) => Told(h, o) /\ Told(h \o <<o, End>>, o)
      BY <2>3, <2>6
    <2> QED BY <1>t, <2>2, <2>5, <2>7, FramesPublished
  <1>4. ASSUME NEW s \in Streams, NEW t \in Tasks, OpenStream(s, t) PROVE Frames'
    <2>1. /\ UNCHANGED <<status, out, inbox>> /\ stream[s] = "idle"
          /\ stream' = [stream EXCEPT ![s] = "opened"] /\ target' = [target EXCEPT ![s] = t]
      BY <1>4 DEF OpenStream, taskVars
    <2>2. out[s] = <<>> /\ inbox[s] = <<>> /\ <<>> \o <<>> = <<>>
      BY <2>1, ConcatEmptySeq DEF Frames
    <2>3. Told(out[s] \o inbox[s], status[t])
      BY <2>2, ToldNothing
    <2> QED BY <1>t, <2>1, <2>2, <2>3 DEF Frames, TypeOK
  <1>5. ASSUME NEW s \in Streams, BeginStream(s) PROVE Frames'
    <2>1. /\ UNCHANGED <<status, target, inbox>> /\ stream[s] = "opened"
          /\ \A r \in Streams \ {s} : out'[r] = out[r] /\ stream'[r] = stream[r]
          /\ stream'[s] \in {"ended", "live"}
          /\ out'[s] = out[s] \/ (status[target[s]] \in Finished /\ out'[s] = <<status[target[s]]>>)
      BY <1>5, <1>t DEF BeginStream, TypeOK, taskVars
    <2>2. /\ inbox[s] = <<>> /\ out[s] = <<>>
          /\ \A h \in Seq(Events) : h \o <<>> = h
      BY <2>1, ConcatEmptySeq DEF Frames
    <2>3. Told(out'[s] \o inbox'[s], status'[target'[s]])
      <3>1. CASE out'[s] = out[s]
        BY <2>1, <3>1 DEF Frames
      <3>2. CASE status[target[s]] \in Finished /\ out'[s] = <<status[target[s]]>>
        <4>1. Told(<<status[target[s]]>>, status[target[s]]) /\ <<status[target[s]]>> \in Seq(Events)
          BY <3>2, ToldReplay DEF Told
        <4> QED BY <2>1, <2>2, <3>2, <4>1
      <3> QED BY <2>1, <3>1, <3>2
    <2> QED BY <2>1, <2>3 DEF Frames
  <1>6. ASSUME NEW s \in Streams, ReceiveEvent(s) PROVE Frames'
    <2>0. /\ UNCHANGED <<status, target>> /\ stream[s] = "live" /\ inbox[s] # <<>>
          /\ out[s] \in Seq(Events) /\ inbox[s] \in Seq(Events)
          /\ \A r \in Streams \ {s} : out'[r] = out[r] /\ stream'[r] = stream[r] /\ inbox'[r] = inbox[r]
          /\ stream'[s] \in {"ended", "live"} /\ inbox'[s] = Tail(inbox[s])
          /\ \/ Head(inbox[s]) = End /\ out'[s] = out[s]
             \/ Head(inbox[s]) # End /\ out'[s] = Append(out[s], Head(inbox[s]))
      BY <1>6, <1>t DEF ReceiveEvent, TypeOK, taskVars
    <2>1. Told(out[s] \o inbox[s], status[target[s]])
      BY <2>0 DEF Frames
    <2>2. Told(out'[s] \o inbox'[s], status'[target'[s]])
      <3>1. CASE Head(inbox[s]) = End
        BY <2>0, <2>1, <3>1, EndIsLast
      <3>2. CASE Head(inbox[s]) # End
        BY <2>0, <2>1, <3>2, FrameSent
      <3> QED BY <3>1, <3>2
    <2> QED BY <2>0, <2>2 DEF Frames
  <1>7. ASSUME NEW s \in Streams, Disconnect(s) PROVE Frames'
    <2>1. /\ UNCHANGED <<status, target, out, inbox>> /\ stream[s] # "idle"
          /\ stream' = [stream EXCEPT ![s] = "gone"]
      BY <1>7 DEF Disconnect, taskVars
    <2> QED BY <1>t, <2>1 DEF Frames, TypeOK
  <1>8. CASE UNCHANGED <<status, streamVars>>
    BY <1>8 DEF Frames, streamVars
  <1> QED BY <1>1, <1>2, <1>3, <1>4, <1>5, <1>6, <1>7, <1>8
          DEF Next, ResumePut, WorkerCancelled, StartPool, StopDrain, Drained, CancelWorkers,
              DrainTimeout, StopNow, StopDone, vars, taskVars

\* A stream ends after its task has, with the outcome shown or its record gone.
LEMMA EndedStep ==
    ASSUME Pipeline, Targeted, HubConsistent, Frames, Ended, [Next]_vars PROVE Ended'
  <1>t. TypeOK
    BY DEF Pipeline, Counting
  <1>s. \A t \in Tasks : status[t] \in Finished => status'[t] = status[t]
    BY FinishedStable
  <1>r. \A t \in Tasks : status[t] \in Finished /\ t \notin records => t \notin records'
    BY RecordsGrow
  <1>1. ASSUME NEW s \in Streams, stream'[s] = "ended", stream[s] = "ended",
               target'[s] = target[s], out'[s] = out[s]
        PROVE  /\ status'[target'[s]] \in Finished
               /\ target'[s] \notin records' \/ \E i \in 1..Len(out'[s]) : out'[s][i] \in Finished
    <2>1. target[s] \in Tasks /\ status[target[s]] \in Finished
      BY <1>1 DEF Ended, Targeted
    <2> QED BY <1>1, <1>s, <1>r, <2>1 DEF Ended
  <1>2. ASSUME NEW s \in Streams, BeginStream(s) PROVE Ended'
    <2>1. /\ UNCHANGED <<status, target, records>> /\ stream[s] = "opened" /\ target[s] \in Tasks
          /\ \A r \in Streams \ {s} : out'[r] = out[r] /\ stream'[r] = stream[r]
          /\ \/ status[target[s]] \in Finished /\ out'[s] = <<status[target[s]]>>
             \/ target[s] \in closed /\ ~(target[s] \in records /\ status[target[s]] \in Finished)
             \/ stream'[s] = "live"
      BY <1>2, <1>t DEF BeginStream, TypeOK, taskVars, Targeted
    <2>2. target[s] \in closed => status[target[s]] \in Finished
      BY <2>1 DEF HubConsistent
    <2>3. ASSUME stream'[s] = "ended"
          PROVE  /\ status[target[s]] \in Finished
                 /\ target[s] \notin records \/ \E i \in 1..Len(out'[s]) : out'[s][i] \in Finished
      <3>1. CASE status[target[s]] \in Finished /\ out'[s] = <<status[target[s]]>>
        <4>1. 1 \in 1..Len(out'[s]) /\ out'[s][1] \in Finished
          BY <3>1
        <4> QED BY <3>1, <4>1
      <3> QED BY <2>1, <2>2, <2>3, <3>1
    <2> QED BY <1>1, <2>1, <2>3 DEF Ended
  <1>3. ASSUME NEW s \in Streams, ReceiveEvent(s) PROVE Ended'
    <2>1. /\ UNCHANGED <<status, target, records>> /\ stream[s] = "live" /\ inbox[s] # <<>>
          /\ out[s] \in Seq(Events) /\ inbox[s] \in Seq(Events)
          /\ \A r \in Streams \ {s} : out'[r] = out[r] /\ stream'[r] = stream[r]
          /\ \/ Head(inbox[s]) = End /\ out'[s] = out[s]
             \/ stream'[s] = "live"
      BY <1>3, <1>t DEF ReceiveEvent, TypeOK, taskVars
    <2>2. Told(out[s] \o inbox[s], status[target[s]])
      BY <2>1 DEF Frames
    <2>3. ASSUME Head(inbox[s]) = End
          PROVE  status[target[s]] \in Finished /\ \E i \in 1..Len(out[s]) : out[s][i] \in Finished
      <3>0. \E i \in 1..Len(out[s]) : out[s][i] \in Finished
        <4>1. /\ out[s] \in Seq(Events) /\ inbox[s] \in Seq(Events)
              /\ inbox[s] # <<>> /\ Head(inbox[s]) = End
          BY <2>1, <2>3
        <4> QED BY <2>2, <4>1, EndIsLast
      <3>1. PICK i \in 1..Len(out[s]) : out[s][i] \in Finished
        BY <3>0
      <3>2. i \in 1..Len(out[s] \o inbox[s]) /\ (out[s] \o inbox[s])[i] = out[s][i]
        BY <2>1, <3>1, LeftPart
      <3>3. out[s][i] = status[target[s]]
        BY <2>2, <3>1, <3>2 DEF Told
      <3> QED BY <3>1, <3>3
    <2> QED BY <1>1, <2>1, <2>3 DEF Ended
  <1>4. ASSUME NEW s \in Streams, Disconnect(s) \/ \E t \in Tasks : OpenStream(s, t) PROVE Ended'
    <2>1. /\ \A r \in Streams \ {s} : out'[r] = out[r] /\ stream'[r] = stream[r] /\ target'[r] = target[r]
          /\ stream'[s] # "ended"
      BY <1>4, <1>t DEF Disconnect, OpenStream, TypeOK
    <2> QED BY <1>1, <2>1 DEF Ended
  <1>5. CASE UNCHANGED <<stream, target, out>>
    BY <1>1, <1>5 DEF Ended
  <1> QED BY <1>2, <1>3, <1>4, <1>5
          DEF Next, Submit, TakeTask, FinishTask, ResumePut, WorkerCancelled, StartPool, StopDrain,
              Drained, CancelWorkers, DrainTimeout, StopNow, StopDone, vars, streamVars

\* The frames of a stream are in order and end with the task's own outcome.
LEMMA FramesInOrder == TypeOK /\ Frames => StreamInOrder
  <1> SUFFICES ASSUME TypeOK, Frames, NEW s \in Streams
               PROVE  LET h == out[s] \o inbox[s] IN
                      /\ \A i, j \in 1..Len(h) : i < j => Rank(h[i]) < Rank(h[j])
                      /\ \A i \in 1..Len(h) : h[i] \in Finished => h[i] = status[target[s]]
    BY DEF StreamInOrder
  <1>1. CASE stream[s] # "idle"
    BY <1>1 DEF Frames, Told
  <1>2. CASE stream[s] = "idle"
    <2>1. out[s] = <<>> /\ inbox[s] = <<>> /\ <<>> \o <<>> = <<>> /\ Len(<<>>) = 0
      BY <1>2, ConcatEmptySeq, EmptySeq DEF Frames
    <2> QED BY <2>1
  <1> QED BY <1>1, <1>2

\* What clients look up and listen to, under any interleaving of submissions,
\* workers, eviction, streams and stop(): the registry is bounded and forgets
\* nothing alive, and a stream shows statuses in order, never one that is not
\* the task's, is told the end, and is ended with the outcome shown
\* (gateway/registry.py, events.py, api.py).
THEOREM ClientsAreInformed == Spec => []ClientsInformed
  <1>1. Init => StreamInv
    BY DEF Init, StreamInv, Known, Frames, Ended
  <1>2. Pipeline /\ Targeted /\ HubConsistent /\ StreamInv /\ [Next]_vars => StreamInv'
    BY KnownStep, FramesStep, EndedStep DEF StreamInv
  <1>3. Spec => []Pipeline
    BY TypeCorrect, JoinCounterExact, NoTaskDuplicated, PTL DEF Pipeline, Counting
  <1>4. Spec => []StreamInv
    BY <1>1, <1>2, <1>3, HubAgrees, StreamsTargeted, PTL DEF Spec
  <1>5. Pipeline /\ StreamInv => StreamInOrder /\ EndedStreamSawOutcome
    BY FramesInOrder DEF Pipeline, Counting, StreamInv, Ended, EndedStreamSawOutcome
  <1>6. LiveRecordsKept /\ RegistryBound /\ HubConsistent /\ StreamInOrder /\ NoStuckStream
        /\ EndedStreamSawOutcome => ClientsInformed
    BY DEF ClientsInformed
  <1> QED BY <1>3, <1>4, <1>5, <1>6, LiveTasksKept, RegistryIsBounded, HubAgrees,
             NoStreamStuck, PTL
=============================================================================
