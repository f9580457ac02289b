------------------------------ MODULE Evolution ------------------------------
(***************************************************************************)
(* What a task leaves behind: the master's life cycle                      *)
(* (coordinator/master.py: run, create_sub_agent, run_sub_agent, on_stop,  *)
(* reset_for_new_task) and the PostTaskPipeline (post_task.py) that        *)
(* on_stop starts in the background and nobody awaits, with the guardian   *)
(* and the global memory it reports to.  The pipeline of one task runs     *)
(* while the next task does.                                               *)
(* A task has one sub-agent, which works with one tool; its conversation   *)
(* is abstracted to the number of calls that succeeded and failed.         *)
(***************************************************************************)
EXTENDS ToolGuardian

CONSTANTS Pipelines,            \* the pipelines of the tasks, as writers of the memory
          Results,              \* pairs <<succeeded, failed>> a sub-agent may end with
          PromotionMinSuccesses,
          FailuresToFix         \* failures from which a pipeline makes a fix version

ASSUME EvolutionAssumption ==
    /\ DOMAIN Pipelines \subseteq Nat
    /\ \A p \in DOMAIN Pipelines : Pipelines[p] \in Writers \ (Drivers \cup {"user"})
    /\ \A p, q \in DOMAIN Pipelines : Pipelines[p] = Pipelines[q] => p = q
    /\ Results \subseteq (Nat \X Nat)
    /\ PromotionMinSuccesses \in Nat \ {0} /\ FailuresToFix \in Nat \ {0}

Tasks == DOMAIN Pipelines       \* numbers of the master's tasks, from 1

VARIABLES
    task,       \* number of the current or last task
    master,     \* status of the master
    subs,       \* _sub_agents
    pipe,       \* the post-task pipeline of each task
    collected   \* pipelines that counted the calls of each sub-agent

masterVars == <<task, master, subs, collected>>
vars == <<memoryVars, guardianVars, masterVars, pipe>>

NoExperience == [tool |-> "none", ok |-> 0, bad |-> 0]
NoPipe == [at |-> "none", todo |-> {}, exps |-> {}, exp |-> NoExperience]

EvolutionInit ==
    /\ MemoryInit /\ GuardianInit
    /\ task = 0 /\ master = "idle" /\ subs = {}
    /\ pipe = [p \in Tasks |-> NoPipe]
    /\ collected = [p \in Tasks |-> {}]

KeepGuardian == UNCHANGED guardianVars
-----------------------------------------------------------------------------
(* The master.                                                             *)

\* A pipeline that on_stop created starts at the next suspension of the
\* event loop, before the master can get to its next LLM call.
AllStarted == \A p \in Tasks : pipe[p].at # "spawned"

\* run: only an IDLE master.
RunTask ==
    /\ master = "idle" /\ task + 1 \in Tasks
    /\ master' = "running" /\ task' = task + 1
    /\ UNCHANGED <<subs, collected, pipe, memoryVars>> /\ KeepGuardian

\* create_sub_agent.
CreateSubAgent ==
    /\ master = "running" /\ AllStarted /\ \A a \in subs : a.id # task
    /\ subs' = subs \cup {[id |-> task, tool |-> "none", done |-> FALSE, ok |-> 0, bad |-> 0]}
    /\ UNCHANGED <<task, master, collected, pipe, memoryVars>> /\ KeepGuardian

\* A sub-agent in a process of its own leaves no conversation here, nor does
\* one that calls no tool.
IsolatedResult == <<0, 0>>

\* run_sub_agent: the record gets its result; the failed calls of an agent in
\* this process were reported to the guardian.
RunSubAgent ==
    /\ master = "running"
    /\ \E a \in subs, t \in Tools, r \in Results :
          /\ a.id = task /\ ~a.done
          /\ subs' = (subs \ {a}) \cup
                {[a EXCEPT !.done = TRUE, !.tool = IF r = IsolatedResult THEN @ ELSE t,
                           !.ok = r[1], !.bad = r[2]]}
          /\ Reported(t, r[2])
    /\ UNCHANGED <<task, master, collected, pipe, memoryVars,
                   pending, attempts, work, open, stable>>

\* The end of run: on_stop starts a pipeline if any sub-agent has a result.
OnStop ==
    /\ master = "running" /\ AllStarted
    /\ master' = "completed"
    /\ pipe' = IF \E a \in subs : a.done THEN [pipe EXCEPT ![task].at = "spawned"] ELSE pipe
    /\ UNCHANGED <<task, subs, collected, memoryVars>> /\ KeepGuardian

\* A cancelled run is IDLE again without on_stop; the sub-agents stay.
CancelRun ==
    /\ master = "running" /\ Act
    /\ master' = "idle"
    /\ UNCHANGED <<task, subs, collected, pipe>> /\ KeepGuardian
    /\ UNCHANGED <<db, disk, writing, dropped, faulty>>

\* reset_for_new_task: the sub-agents are forgotten.
\* Mutant: they are kept.
ResetForNewTask_KeepsAgents ==
    /\ master \in {"idle", "completed"}
    /\ master' = "idle"
    /\ UNCHANGED <<subs, task, collected, pipe, memoryVars>> /\ KeepGuardian
ResetForNewTask ==
    /\ master \in {"idle", "completed"}
    /\ master' = "idle" /\ subs' = {}
    /\ UNCHANGED <<task, collected, pipe, memoryVars>> /\ KeepGuardian
-----------------------------------------------------------------------------
(* The pipeline.                                                           *)

PipeGoto(p, where) == pipe' = [pipe EXCEPT ![p].at = where]

\* collect_tool_experiences: the conversations of the sub-agents the master
\* has now, added up by tool; a tool that was not called has no experience.
CallsOf(t) == {a \in subs : a.tool = t /\ a.ok + a.bad > 0}

Total(S, f(_)) ==
    LET n[T \in SUBSET S] == IF T = {} THEN 0
                             ELSE LET a == CHOOSE x \in T : TRUE IN f(a) + n[T \ {a}]
    IN  n[S]

Succeeded(t) == Total(CallsOf(t), LAMBDA a : a.ok)
Failed(t) == Total(CallsOf(t), LAMBDA a : a.bad)

Experiences ==
    {[tool |-> t, ok |-> Succeeded(t), bad |-> Failed(t)] : t \in {u \in Tools : CallsOf(u) # {}}}

LowRate(e) == 10 * e.ok < 7 * (e.ok + e.bad) /\ e.bad > 0
FailsOften(e) == e.bad >= FailuresToFix /\ 2 * e.ok < e.ok + e.bad
Eligible(e) == e.bad = 0 /\ e.ok >= PromotionMinSuccesses

\* The phases of run; one without an experience to work on is passed over.
Phase(r, where, rest) == [r EXCEPT !.at = where, !.todo = rest, !.exp = NoExperience]

VersionsPhase(r, rest) == IF rest # {} THEN Phase(r, "promote", rest) ELSE Phase(r, "done", {})

MemoryPhase(r, rest) ==
    IF rest # {} THEN Phase(r, "memory", rest)
    ELSE VersionsPhase(r, {e \in r.exps : Eligible(e)})

NotesPhase(r, rest) == IF rest # {} THEN Phase(r, "notes", rest) ELSE MemoryPhase(r, r.exps)

Started(exps) == NotesPhase([NoPipe EXCEPT !.exps = exps], {e \in exps : LowRate(e)})

Collect(p) ==
    /\ pipe[p].at = "spawned"
    /\ pipe' = [pipe EXCEPT ![p] = Started(Experiences)]
    /\ collected' = [a \in Tasks |->
          IF \E s \in subs : s.id = a /\ s.ok + s.bad > 0 THEN collected[a] \cup {p} ELSE collected[a]]
    /\ UNCHANGED <<task, master, subs, memoryVars>> /\ KeepGuardian

\* update_tool_notes, after the summary of summarize_task_outcomes: a tool that
\* fails often is reported through one of the sub-agents the master has now,
\* if there is one.
UpdateToolNotes(p) ==
    /\ pipe[p].at = "notes"
    /\ LET e == CHOOSE x \in pipe[p].todo : TRUE IN
       /\ pipe' = [pipe EXCEPT ![p] = NotesPhase(@, @.todo \ {e})]
       /\ IF subs # {} THEN Reported(e.tool, 1) ELSE UNCHANGED mail
    /\ UNCHANGED <<masterVars, memoryVars, pending, attempts, work, open, stable>>

EntryOf(p, e, category, kind) == Entry(<<Pipelines[p], kind, e.tool>>, e.tool, Guardian, category)

\* update_global_memory, experience by experience.
AddExperience(p) ==
    /\ pipe[p].at = "memory"
    /\ LET e == CHOOSE x \in pipe[p].todo : TRUE IN
       /\ pipe' = [pipe EXCEPT ![p].at = "experience", ![p].exp = e]
       /\ Insert(Pipelines[p], EntryOf(p, e, "experience", "summary")) /\ UNCHANGED acts
    /\ UNCHANGED masterVars /\ KeepGuardian

NextExperience(p) == pipe' = [pipe EXCEPT ![p] = MemoryPhase(@, @.todo \ {@.exp})]

\* The experience is stored and its failures are counted, per pipeline, which
\* sees each tool once (the insights of analyze_failures, more entries of the
\* same kind, are left out); or the fix is stored.
EntryStored(p) ==
    /\ Commit(Pipelines[p])
    /\ IF pipe[p].at = "experience" /\ FailsOften(pipe[p].exp) THEN PipeGoto(p, "trigger")
       ELSE NextExperience(p)
    /\ UNCHANGED masterVars /\ KeepGuardian

\* An experience that cannot be stored is not counted either.
EntryRaises(p) ==
    /\ Rollback(Pipelines[p])
    /\ NextExperience(p)
    /\ UNCHANGED masterVars /\ KeepGuardian

\* trigger_tool_version_update: a fix version with the head's own definition,
\* or none when the store has no head or refuses.
TriggerVersion(p) ==
    /\ pipe[p].at = "trigger"
    /\ \/ stable' = stable \ {pipe[p].exp.tool} /\ PipeGoto(p, "fix")
       \/ NextExperience(p) /\ UNCHANGED stable
    /\ UNCHANGED <<masterVars, memoryVars, mail, pending, attempts, work, open>>

\* The fix that a new version stands for.
FixEntry(p) ==
    /\ pipe[p].at = "fix"
    /\ Insert(Pipelines[p], EntryOf(p, pipe[p].exp, "fix", "fix")) /\ UNCHANGED acts
    /\ UNCHANGED <<masterVars, pipe>> /\ KeepGuardian

\* _verify_candidate: the verifier, or a look at the head's definition, decides.
VerifyCandidate == BOOLEAN

\* update_tool_versions, for a tool used often enough without a failure: the
\* verification first, then promote_to_stable takes the head there is by then.
UpdateToolVersions(p) ==
    /\ pipe[p].at = "promote"
    /\ LET e == CHOOSE x \in pipe[p].todo : TRUE IN
       /\ \E verified \in VerifyCandidate :
             stable' = IF verified THEN stable \cup {e.tool} ELSE stable
       /\ pipe' = [pipe EXCEPT ![p] = VersionsPhase(@, @.todo \ {e})]
    /\ UNCHANGED <<masterVars, memoryVars, mail, pending, attempts, work, open>>

PipeStep(p) ==
    \/ Collect(p) \/ UpdateToolNotes(p) \/ AddExperience(p) \/ EntryStored(p)
    \/ TriggerVersion(p) \/ FixEntry(p) \/ UpdateToolVersions(p)
-----------------------------------------------------------------------------
(* The users, of the guardian's tenant and of another one.                 *)

Tenants == {Guardian, "other"}

\* record_feedback.
Feedback(tenant) ==
    /\ Act
    /\ \E t \in Routed : AddFeedback("user", <<"user", tenant, acts>>, t, tenant)
    /\ UNCHANGED <<masterVars, pipe>> /\ KeepGuardian

Delete(tenant) ==
    /\ \E id \in Ids(db) : DeleteEntry("user", id, tenant)
    /\ UNCHANGED <<masterVars, pipe>> /\ KeepGuardian

UserWriteEnds ==
    /\ Commit("user") \/ Rollback("user")
    /\ UNCHANGED <<masterVars, pipe>> /\ KeepGuardian
-----------------------------------------------------------------------------
GuardianStep ==
    /\ \/ ListenerMessage \/ ListenerTimeout \/ ProcessHandler
       \/ \E g \in Drivers : Driven(g) \/ PersistRaises(g)
    /\ UNCHANGED <<masterVars, pipe>>

MasterStep == RunTask \/ CreateSubAgent \/ RunSubAgent \/ OnStop \/ CancelRun \/ ResetForNewTask

PipelineStep == \E p \in Tasks : PipeStep(p) \/ EntryRaises(p)

UserStep == UserWriteEnds \/ \E tenant \in Tenants : Feedback(tenant) \/ Delete(tenant)

Next == MasterStep \/ PipelineStep \/ GuardianStep \/ UserStep

Spec == EvolutionInit /\ [][Next]_vars

\* The event loop goes on with the listener, the repairs and the pipelines;
\* nothing is asked of the master, of the users or of the guardian's own tool
\* being called.
Background ==
    \/ (ListenerMessage \/ ListenerTimeout \/ \E g \in Drivers : Driven(g))
       /\ UNCHANGED <<masterVars, pipe>>
    \/ \E p \in Tasks : PipeStep(p)

FairSpec == Spec /\ WF_vars(Background)
-----------------------------------------------------------------------------
(* Properties.                                                             *)

\* The reports of a tool that the drivers have in work, each with its driver, group
\* and place in the group.
ReportsOf(t) == {x \in Drivers \X (1..BatchSize) \X (1..BatchSize) :
                    /\ x[2] \in DOMAIN work[x[1]].groups
                    /\ work[x[1]].groups[x[2]].tool = t
                    /\ x[3] <= work[x[1]].groups[x[2]].n}
InWork(t) == Cardinality(ReportsOf(t))

\* No report is lost or handled twice between the two drivers that take
\* batches from the same queue and put unrepaired ones back.
ReportsKept ==
    \A t \in Tools : open[t] = Count(pending, t) + InWork(t)

\* A tool's attempts are counted only while a report of it is open: the next
\* problem of a repaired or escalated tool has all its attempts.
AttemptsSound ==
    \A t \in Tools : attempts[t] > 0 =>
        attempts[t] < AutoFixMaxAttempts /\ Count(pending, t) + InWork(t) > 0

\* The calls of a sub-agent enter at most one pipeline's experience, though
\* the pipeline reads the master's agents when it comes to run.
ExperiencesOnce == \A a \in Tasks : Cardinality(collected[a]) <= 1

\* A stable head was earned: some pipeline saw enough calls of the tool, all
\* of them successful.
PromotionEarned ==
    \A t \in stable :
        \E p \in Tasks : \E e \in pipe[p].exps :
            e.tool = t /\ e.bad = 0 /\ e.ok >= PromotionMinSuccesses

EvolutionSound == ReportsKept /\ AttemptsSound /\ ExperiencesOnce /\ PromotionEarned

\* The guardian's repair resolves entries of its own tenant only.
TenantsApart == \A r \in db : r.resolved => r.tenant = Guardian

\* While no write has raised, the experience a pipeline has stored stays
\* until it is deleted, whoever's commit wrote it.
StoredStays ==
    \A p \in Tasks : ~faulty /\ pipe[p].at \in {"promote", "done"} =>
        \A e \in pipe[p].exps :
            <<Pipelines[p], "summary", e.tool>> \in dropped \cup (Ids(db) \cap Ids(disk))

\* While no write has raised and nobody deletes, a problem marked as resolved
\* has a fix on record.
ResolvedIsFixed ==
    ~faulty /\ dropped = {} =>
        \A t \in Tools : LoadToolKnowledge(t).resolved # {} =>
                         LoadToolKnowledge(t).fixes # {}

\* A search tells the guardian of its own tenant's entries only and, when there
\* is one about the tool, of at least one: also when entries of others are
\* nearer and take all the places of the vector search.
SearchFinds ==
    \A t \in Tools : LET own == ListEntries(t, Guardian) IN
        \A vec0 \in BOOLEAN, near \in {db, db \ own} :
            LET found == SearchToolExperience(t, vec0, near)
            IN found \subseteq own /\ (own # {} => found # {})

KnowledgeSound == TenantsApart /\ StoredStays /\ ResolvedIsFixed /\ SearchFinds

\* Every report that was sent ends: repaired, dropped or, when the repairs
\* change nothing, with a person; and every pipeline comes to its end.
Settled ==
    /\ mail = <<>> /\ \A t \in Tools : open[t] = 0
    /\ \A p \in Tasks : pipe[p].at \in {"none", "done"}

Settles == []<>Settled
=============================================================================
