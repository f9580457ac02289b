---------------------------- MODULE ToolGuardian ----------------------------
(***************************************************************************)
(* youmi/coordinator/tool_guardian.py and fix_strategies.py: reports of    *)
(* failing tools, taken in batches, repaired tool by tool, retried, and    *)
(* handed to a person.  Two drivers call process_reports: the listener     *)
(* loop of gui/engine/bridge.py and the guardian's own tool                *)
(* process_pending_reports.  Between two awaits of one driver the other    *)
(* one runs.  What a repair writes into the description is abstracted to   *)
(* which of its three parts are there.                                     *)
(***************************************************************************)
EXTENDS GlobalMemory

CONSTANTS Drivers,
          Routed,           \* tools the MCP server knows
          BatchSize,        \* batch_size
          AutoFixMaxAttempts,
          HasLLM            \* the guardian has an LLM client

ASSUME GuardianAssumption ==
    /\ {"loop", "tool"} \subseteq Drivers /\ Drivers \subseteq Writers /\ IsFiniteSet(Drivers)
    /\ Routed \subseteq Tools
    /\ BatchSize \in Nat \ {0} /\ AutoFixMaxAttempts \in Nat \ {0}
    /\ HasLLM \in BOOLEAN

VARIABLES
    mail,       \* tool_issue messages on the bus, the tools they name
    pending,    \* _pending_reports
    attempts,   \* _fix_attempts, 0 when absent
    work,       \* what each driver is doing
    open,       \* reports received and not yet disposed of, per tool
    stable      \* tools whose head version in the store is stable

guardianVars == <<mail, pending, attempts, work, open, stable>>

Guardian == "default"      \* the guardian's tenant
NoWork == [at |-> "idle", groups |-> <<>>]

GuardianInit ==
    /\ mail = <<>> /\ pending = <<>>
    /\ attempts = [t \in Tools |-> 0]
    /\ work = [g \in Drivers |-> NoWork]
    /\ open = [t \in Tools |-> 0]
    /\ stable = {}

\* report_tool_issue: n reports of t are published for the guardian.
Reported(t, n) == mail' = mail \o [i \in 1..n |-> t]

Count(s, t) == Cardinality({i \in DOMAIN s : s[i] = t})
Copies(t, n) == [i \in 1..n |-> t]

\* process_reports groups the batch by tool, in order of first appearance.
Firsts(s) == {i \in DOMAIN s : \A j \in 1..(i - 1) : s[j] # s[i]}
FirstSeen(s) ==
    [k \in 1..Cardinality(Firsts(s)) |->
        CHOOSE i \in Firsts(s) : Cardinality({j \in Firsts(s) : j <= i}) = k]
Grouped(s) ==
    [k \in DOMAIN FirstSeen(s) |->
        [tool |-> s[FirstSeen(s)[k]], n |-> Count(s, s[FirstSeen(s)[k]])]]

Group(g) == Head(work[g].groups)

\* The driver turns to the next group, or is through with its batch.
NextGroup(g) ==
    work' = [work EXCEPT ![g].groups = Tail(@),
                         ![g].at = IF Len(work[g].groups) = 1 THEN "idle" ELSE "group"]

Goto(g, where) == work' = [work EXCEPT ![g].at = where]

Settle(g) == open' = [open EXCEPT ![Group(g).tool] = @ - Group(g).n]

\* What a repair is told of its tool: _load_tool_knowledge, and the guardian's
\* tool search_tool_experience.
LoadToolKnowledge(t) == ToolKnowledge(t, Guardian)
SearchToolExperience(t, vec0, near) == Search(t, Guardian, vec0, near)

\* receive_message: the report waits for its batch.
ReceiveReport(t) ==
    /\ open' = [open EXCEPT ![t] = @ + 1]
    /\ mail' = Tail(mail)

\* process_reports takes the front of the queue.
TakeBatch(g, queue) ==
    LET n == IF Len(queue) < BatchSize THEN Len(queue) ELSE BatchSize IN
    /\ work[g].at = "idle" /\ queue # <<>>
    /\ work' = [work EXCEPT ![g].at = "group", ![g].groups = Grouped(SubSeq(queue, 1, n))]
    /\ pending' = SubSeq(queue, n + 1, Len(queue))

\* _guardian_listener_loop: a message is received and the queue processed, or
\* after two quiet seconds what is pending.
ListenerMessage ==
    /\ mail # <<>> /\ work["loop"].at = "idle"
    /\ ReceiveReport(Head(mail))
    /\ TakeBatch("loop", Append(pending, Head(mail)))
    /\ UNCHANGED <<attempts, stable, memoryVars>>

ListenerTimeout ==
    /\ mail = <<>>
    /\ TakeBatch("loop", pending)
    /\ UNCHANGED <<mail, attempts, open, stable, memoryVars>>

\* The tool process_pending_reports.
ProcessHandler ==
    /\ Act
    /\ TakeBatch("tool", pending)
    /\ UNCHANGED <<mail, attempts, open, stable>>
    /\ UNCHANGED <<db, disk, writing, dropped, faulty>>

\* _process_tool_reports for a tool the server does not know: the reports are
\* dropped with an error.
UnknownTool(g) ==
    /\ work[g].at = "group" /\ Group(g).tool \notin Routed
    /\ Settle(g) /\ NextGroup(g)
    /\ UNCHANGED <<mail, pending, attempts, stable, memoryVars>>

\* What _generate_fix may come back with: an LLM anything; the rules, used
\* without one or when its answer does not parse, never parameters.
RuleOutcomes == {"nothing", "description", "code"}
FixOutcomes == IF HasLLM THEN RuleOutcomes \cup {"params"} ELSE RuleOutcomes

\* The reports' tool has a definition: its knowledge, the evidence and the
\* LLM are awaited.
Repairing(g) == work[g].at = "group" /\ Group(g).tool \in Routed

\* A repair that changed something: the attempts start anew.
Changed(g) == attempts' = [attempts EXCEPT ![Group(g).tool] = 0]

\* A repair that changes the description, or suggests code, is written to the
\* global memory first; one of parameters only goes straight to the version.
FixFound(g) ==
    /\ Repairing(g)
    /\ \/ FixOutcomes \cap {"description", "code"} # {} /\ Goto(g, "saving") /\ UNCHANGED attempts
       \/ "params" \in FixOutcomes /\ Goto(g, "commit") /\ Changed(g)
    /\ UNCHANGED <<mail, pending, open, stable, memoryVars>>

\* _escalate_to_human: the reports are disposed of, a person has the tool.
Escalate(g) == Settle(g) /\ UNCHANGED pending

\* Nothing changed: one attempt more; the reports are queued again, or after
\* the last attempt the tool is escalated.
\* Mutant: the reports are not queued again.
FixFailed_Forgets(g) ==
    LET t == Group(g).tool
        last == attempts[t] + 1 >= AutoFixMaxAttempts
    IN
    /\ Repairing(g)
    /\ attempts' = [attempts EXCEPT ![t] = IF last THEN 0 ELSE @ + 1]
    /\ IF last THEN Settle(g)
       ELSE UNCHANGED open
    /\ NextGroup(g)
    /\ UNCHANGED <<mail, pending, stable, memoryVars>>
FixFailed(g) ==
    LET t == Group(g).tool
        last == attempts[t] + 1 >= AutoFixMaxAttempts
    IN
    /\ Repairing(g)
    /\ attempts' = [attempts EXCEPT ![t] = IF last THEN 0 ELSE @ + 1]
    /\ IF last THEN Escalate(g)
       ELSE pending' = pending \o Copies(t, Group(g).n) /\ UNCHANGED open
    /\ NextGroup(g)
    /\ UNCHANGED <<mail, stable, memoryVars>>

\* _persist_fix_to_memory: a fix entry is added, marked as resolved itself, and
\* then every entry of the tool still unresolved at that time is.
\* The fix entries one driver writes for a tool count as one.
FixId(g) == <<g, "fix", Group(g).tool>>

PersistFix(g) ==
    /\ work[g].at = "saving"
    /\ Insert(g, Entry(FixId(g), Group(g).tool, Guardian, "fix")) /\ UNCHANGED acts
    /\ Goto(g, "saved")
    /\ UNCHANGED <<mail, pending, attempts, open, stable>>

FixStored(g) ==
    /\ work[g].at = "saved" /\ Commit(g)
    /\ Goto(g, "marking")
    /\ UNCHANGED <<mail, pending, attempts, open, stable>>

ResolveEntries(g) ==
    /\ work[g].at = "marking"
    /\ MarkResolved(Ids(Unresolved(Group(g).tool, Guardian)), Guardian)
    /\ Goto(g, "commit") /\ Changed(g)
    /\ UNCHANGED <<mail, pending, open, stable, faulty, acts>>

\* The memory raises, at the fix entry or after some of the marks: the repair
\* goes on without it.
PersistRaises(g) ==
    /\ \/ work[g].at = "saved" /\ Rollback(g)
       \/ /\ work[g].at = "marking" /\ Act /\ faulty' = TRUE
          /\ \E S \in SUBSET Ids(Unresolved(Group(g).tool, Guardian)) : MarkResolved(S, Guardian)
    /\ Goto(g, "commit") /\ Changed(g)
    /\ UNCHANGED <<mail, pending, open, stable>>

\* _commit_fix_version, which the store may refuse.
CommitFixVersion(g) ==
    /\ work[g].at = "commit"
    /\ stable' \in {stable, stable \ {Group(g).tool}}
    /\ Settle(g) /\ NextGroup(g)
    /\ UNCHANGED <<mail, pending, attempts, memoryVars>>

Driven(g) ==
    \/ UnknownTool(g) \/ FixFound(g) \/ FixFailed(g)
    \/ PersistFix(g) \/ FixStored(g) \/ ResolveEntries(g)
    \/ CommitFixVersion(g)
=============================================================================
