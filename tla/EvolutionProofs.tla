--------------------------- MODULE EvolutionProofs ---------------------------
(***************************************************************************)
(* What TLAPS proves of Evolution for any tools, drivers, pipelines and    *)
(* bounds: the knowledge of the guardian survives the shared connection,   *)
(* a stable head was earned, no sub-agent's calls are counted twice, and   *)
(* no report is lost or repaired twice.                                    *)
(* The memory: every step is first reduced to what it does to it           *)
(* (Remembers), for the invariant IInv.  The reports: they are counted in  *)
(* the queue (Count) and in work (Held), and every step is one of a few    *)
(* that keep the sum (TakenKeeps, GoesOnKeeps, NextKeeps, ApartKeeps), for *)
(* the invariant RInv.                                                     *)
(***************************************************************************)
EXTENDS Evolution, FiniteSetTheorems, FunctionTheorems, SequenceTheorems, WellFoundedInduction, TLAPS

EntryFields == {"id", "tool", "tenant", "category", "resolved"}
AgentFields == {"id", "tool", "done", "ok", "bad"}
PipeFields  == {"at", "todo", "exps", "exp"}
WorkFields  == {"at", "groups"}

\* Only the guardian's entries are resolved, and a fix is an entry of the
\* guardian's whose id names the tool.
Lawful(r) ==
    /\ DOMAIN r = EntryFields
    /\ r.resolved \in BOOLEAN
    /\ r.resolved = TRUE => r.tenant = Guardian
    /\ r.category = "fix" => r.id[2] = "fix" /\ r.id[3] = r.tool /\ r.tenant = Guardian

LawfulRows(S) ==
    /\ \A r \in S : Lawful(r)
    /\ \A r, o \in S : r.id = o.id => r = o

Shapes ==
    /\ DOMAIN writing = Writers /\ DOMAIN work = Drivers /\ DOMAIN pipe = Tasks
    /\ \A g \in Drivers : DOMAIN work[g] = WorkFields
    /\ \A p \in Tasks : DOMAIN pipe[p] = PipeFields
    /\ \A s \in subs : DOMAIN s = AgentFields /\ s.id \in Tasks /\ s.id <= task
    /\ task \in Nat
    /\ DOMAIN collected = Tasks /\ Tasks \subseteq Nat /\ faulty \in BOOLEAN

\* What was committed is shown, until it is deleted; a pipeline writes in two
\* of its phases.
Shown ==
    /\ ~faulty => Ids(disk) \subseteq Ids(db) \cup dropped
    /\ \A p \in Tasks : writing[Pipelines[p]] # NoEntry => pipe[p].at \in {"experience", "fix"}

SummaryId(p, e) == <<Pipelines[p], "summary", e.tool>>

Safe(id) == id \in dropped \/ (id \in Ids(db) /\ id \in Ids(disk))

\* What a pipeline has stored by each phase.
StoredBy(p) ==
    /\ pipe[p].at \in {"memory", "experience", "trigger", "fix"} =>
          \A e \in pipe[p].exps \ pipe[p].todo : Safe(SummaryId(p, e))
    /\ pipe[p].at = "experience" => SummaryId(p, pipe[p].exp) \in dropped \cup Ids(db)
    /\ pipe[p].at \in {"trigger", "fix"} => Safe(SummaryId(p, pipe[p].exp))
    /\ pipe[p].at \in {"promote", "done"} => \A e \in pipe[p].exps : Safe(SummaryId(p, e))

Storing == ~faulty => \A p \in Tasks : StoredBy(p)

\* A fix of the tool is on record.
FixOf(t, S) == \E f \in S : f.category = "fix" /\ f.tool = t /\ f.tenant = Guardian

\* No entry is marked before the fix is there.
Fixing ==
    ~faulty /\ dropped = {} =>
        /\ \A r \in db : r.category = "experience" /\ r.resolved = TRUE => FixOf(r.tool, db)
        /\ \A g \in Drivers : work[g].at \in {"saved", "marking"} => FixOf(Group(g).tool, db)

\* What is left to promote was earned.
ToPromote(r) ==
    r.at = "promote" => r.todo # {} /\ \A e \in r.todo : e \in r.exps /\ Eligible(e)

Earning ==
    /\ \A p \in Tasks : /\ pipe[p].at \in {"none", "spawned"} => pipe[p].exps = {}
                        /\ ToPromote(pipe[p])
    /\ PromotionEarned

\* One pipeline at most has not collected yet, and it finds the agents of no
\* task that another has collected.
Collecting ==
    /\ master = "running" => task \in Tasks
    /\ \A p \in Tasks : p > task \/ (p = task /\ master = "running") => pipe[p].at = "none"
    /\ \A p, q \in Tasks : pipe[p].at = "spawned" /\ pipe[q].at = "spawned" => p = q
    /\ (\E p \in Tasks : pipe[p].at = "spawned") => master = "completed" \/ subs = {}
    /\ \A p \in Tasks : pipe[p].at = "spawned" => \A s \in subs : collected[s.id] = {}
    /\ \A s \in subs : collected[s.id] # {} => master = "completed"
    /\ \A a \in Tasks : collected[a] # {} => a < task \/ (a = task /\ master # "running")
    /\ \A a \in Tasks : \A p, q \in collected[a] : p = q

IInv ==
    /\ Shapes /\ LawfulRows(db) /\ LawfulRows(disk)
    /\ Shown /\ Storing /\ Fixing /\ Earning /\ Collecting
-----------------------------------------------------------------------------
(* The memory *)

\* What a step does to the memory: unless a write raises, nothing stored or
\* committed is lost but what is deleted, and no fix and no mark goes astray.
Remembers ==
    /\ LawfulRows(db') /\ LawfulRows(disk')
    /\ faulty' \in BOOLEAN /\ (faulty => faulty')
    /\ dropped \subseteq dropped'
    /\ ~faulty' =>
          /\ Ids(disk') \subseteq Ids(db') \cup dropped'
          /\ \A id : id \in dropped \cup Ids(db) => id \in dropped' \cup Ids(db')
          /\ \A id : Safe(id) => id \in dropped' \/ (id \in Ids(db') /\ id \in Ids(disk'))
    /\ ~faulty' /\ dropped' = {} =>
          /\ \A t : FixOf(t, db) => FixOf(t, db')
          /\ \A r \in db' : r.category = "experience" /\ r.resolved = TRUE => FixOf(r.tool, db')

Memory == Shapes /\ LawfulRows(db) /\ LawfulRows(disk) /\ Shown /\ Fixing

\* A step that does not touch it.
LEMMA SameRemembers ==
    ASSUME Memory, UNCHANGED <<db, disk, dropped, faulty>>
    PROVE  Remembers
BY DEF Memory, Remembers, Shown, Shapes, Fixing, Safe

\* A new entry; the id of a fix names its tool.
LEMMA InsertRemembers ==
    ASSUME Memory, NEW w, NEW e, Insert(w, e), Lawful(e), e.resolved = FALSE,
           e.id[2] = "fix" => e.category = "fix"
    PROVE  Remembers
<1>1. /\ db' = {r \in db : r.id # e.id} \cup {e}
      /\ disk' = disk /\ dropped' = dropped /\ faulty' = faulty
    BY DEF Insert
<1>2. LawfulRows(db') /\ LawfulRows(disk')
    BY <1>1 DEF Memory, LawfulRows
<1>3. Ids(db) \subseteq Ids(db')
  <2>1. ASSUME NEW r \in db PROVE r.id \in Ids(db')
    <3>1. CASE r.id = e.id
        BY <1>1, <3>1 DEF Ids
    <3>2. CASE r.id # e.id
        BY <1>1, <3>2 DEF Ids
    <3> QED BY <3>1, <3>2
  <2> QED BY <2>1 DEF Ids
<1>4. ASSUME NEW t, FixOf(t, db) PROVE FixOf(t, db')
  <2>1. PICK f \in db : f.category = "fix" /\ f.tool = t /\ f.tenant = Guardian
      BY <1>4 DEF FixOf
  <2>2. CASE f.id # e.id
      BY <1>1, <2>1, <2>2 DEF FixOf
  <2>3. CASE f.id = e.id
    <3>1. f.id[2] = "fix" /\ f.id[3] = t
        BY <2>1 DEF Memory, LawfulRows, Lawful
    <3>2. e.category = "fix" /\ e.tool = t /\ e.tenant = Guardian
        BY <2>3, <3>1 DEF Lawful
    <3> QED BY <1>1, <3>2 DEF FixOf
  <2> QED BY <2>2, <2>3
<1>5. ~faulty /\ dropped = {} =>
        \A r \in db' : r.category = "experience" /\ r.resolved = TRUE => FixOf(r.tool, db')
  <2> SUFFICES ASSUME ~faulty, dropped = {}, NEW r \in db',
                      r.category = "experience", r.resolved = TRUE
               PROVE  FixOf(r.tool, db')
      OBVIOUS
  <2>1. r \in db
      BY <1>1
  <2>2. FixOf(r.tool, db)
      BY <2>1 DEF Memory, Fixing
  <2> QED BY <1>4, <2>2
<1>6. faulty \in BOOLEAN /\ (~faulty => Ids(disk) \subseteq Ids(db) \cup dropped)
    BY DEF Memory, Shapes, Shown
<1> QED BY <1>1, <1>2, <1>3, <1>4, <1>5, <1>6 DEF Remembers, Safe

\* A commit.
LEMMA CommitRemembers ==
    ASSUME Memory, NEW w, Commit(w)
    PROVE  Remembers
BY DEF Memory, Remembers, Commit, Shapes, Shown, Fixing, Safe

\* A write that raises.
LEMMA FaultyRemembers ==
    ASSUME LawfulRows(db'), LawfulRows(disk'), faulty' = TRUE, dropped' = dropped
    PROVE  Remembers
BY DEF Remembers

\* A deletion.
LEMMA DeleteRemembers ==
    ASSUME Memory, NEW w, NEW id, NEW tenant, DeleteEntry(w, id, tenant)
    PROVE  Remembers
<1>1. /\ db' = db \ GetEntry(id, tenant) /\ disk' = disk
      /\ dropped' = dropped \cup {id} /\ faulty' = faulty
    BY DEF DeleteEntry
<1>2. Ids(db) \subseteq Ids(db') \cup {id}
    BY <1>1 DEF Ids, GetEntry
<1>3. LawfulRows(db') /\ LawfulRows(disk')
    BY <1>1 DEF Memory, LawfulRows
<1>4. dropped' # {}
    BY <1>1
<1>5. faulty \in BOOLEAN /\ (~faulty => Ids(disk) \subseteq Ids(db) \cup dropped)
    BY DEF Memory, Shapes, Shown
<1> QED BY <1>1, <1>2, <1>3, <1>4, <1>5 DEF Remembers, Safe

\* The rows that mark_resolved finds, and their marked images.
Found(S)  == {r \in db : r.id \in S /\ r.tenant = Guardian}
Marked(S) == {[r EXCEPT !.resolved = TRUE] : r \in Found(S)}

\* mark_resolved sets marks and changes nothing else.
LEMMA MarkedRows ==
    ASSUME LawfulRows(db), LawfulRows(disk), NEW S, MarkResolved(S, Guardian)
    PROVE  /\ LawfulRows(db') /\ LawfulRows(disk')
           /\ Ids(db') = Ids(db) /\ disk' \in {disk, db'} /\ dropped' = dropped
           /\ \A t : FixOf(t, db) => FixOf(t, db')
           /\ \A r \in db' : r.resolved = TRUE =>
                 \E o \in db : /\ o.tool = r.tool /\ o.category = r.category
                               /\ o.resolved = TRUE \/ o.id \in S
<1>1. UNION {GetEntry(id, Guardian) : id \in S} = Found(S)
    BY DEF GetEntry, Found
<1>2. /\ db' = (db \ Found(S)) \cup {[r EXCEPT !.resolved = TRUE] : r \in Found(S)}
      /\ disk' \in {disk, db'} /\ dropped' = dropped
    BY <1>1 DEF MarkResolved
<1>3. db' = (db \ Found(S)) \cup Marked(S)
    BY <1>2 DEF Marked
<1>4. \A r \in Found(S) :
         /\ r \in db /\ r.id \in S /\ r.tenant = Guardian /\ Lawful(r)
         /\ DOMAIN [r EXCEPT !.resolved = TRUE] = EntryFields
         /\ [r EXCEPT !.resolved = TRUE].id = r.id
         /\ [r EXCEPT !.resolved = TRUE].tool = r.tool
         /\ [r EXCEPT !.resolved = TRUE].tenant = r.tenant
         /\ [r EXCEPT !.resolved = TRUE].category = r.category
         /\ [r EXCEPT !.resolved = TRUE].resolved = TRUE
    BY DEF Found, LawfulRows, Lawful, EntryFields
<1>5. \A m \in Marked(S) : \E r \in Found(S) :
         /\ m = [r EXCEPT !.resolved = TRUE]
         /\ DOMAIN m = EntryFields /\ m.id = r.id /\ m.tool = r.tool /\ m.tenant = Guardian
         /\ m.category = r.category /\ m.resolved = TRUE
    BY <1>4 DEF Marked
<1>6. \A r \in Found(S) : \E m \in Marked(S) :
         m.id = r.id /\ m.tool = r.tool /\ m.tenant = Guardian /\ m.category = r.category
    BY <1>4 DEF Marked
<1>7. \A m \in db' : Lawful(m)
  <2> TAKE m \in db'
  <2>1. CASE m \in db
      BY <2>1 DEF LawfulRows
  <2>2. CASE m \in Marked(S)
    <3>1. PICK r \in Found(S) :
             /\ DOMAIN m = EntryFields /\ m.id = r.id /\ m.tool = r.tool /\ m.tenant = Guardian
             /\ m.category = r.category /\ m.resolved = TRUE
        BY <1>5, <2>2
    <3>2. r.category = "fix" => m.id[2] = "fix" /\ m.id[3] = m.tool
        BY <1>4, <3>1 DEF Lawful
    <3> QED BY <3>1, <3>2 DEF Lawful
  <2> QED BY <1>3, <2>1, <2>2
<1>8. \A m, n \in db' : m.id = n.id => m = n
  <2>1. ASSUME NEW m \in Marked(S), NEW n \in db \ Found(S) PROVE m.id # n.id
    <3>1. PICK r \in Found(S) : m.id = r.id
        BY <1>5
    <3> QED BY <1>4, <2>1, <3>1 DEF LawfulRows
  <2>2. ASSUME NEW m \in Marked(S), NEW n \in Marked(S), m.id = n.id PROVE m = n
    <3>1. PICK r \in Found(S) : m = [r EXCEPT !.resolved = TRUE] /\ m.id = r.id
        BY <1>5
    <3>2. PICK o \in Found(S) : n = [o EXCEPT !.resolved = TRUE] /\ n.id = o.id
        BY <1>5
    <3>3. r = o
        BY <1>4, <2>2, <3>1, <3>2 DEF LawfulRows
    <3> QED BY <3>1, <3>2, <3>3
  <2> QED BY <1>3, <2>1, <2>2 DEF LawfulRows
<1>9. LawfulRows(db')
    BY <1>7, <1>8 DEF LawfulRows
<1>10. LawfulRows(disk')
    BY <1>2, <1>9
<1>11. Ids(db') = Ids(db)
  <2>1. ASSUME NEW r \in db PROVE r.id \in Ids(db')
      BY <1>3, <1>6 DEF Ids
  <2>2. ASSUME NEW m \in db' PROVE m.id \in Ids(db)
      BY <1>3, <1>4, <1>5 DEF Ids
  <2> QED BY <2>1, <2>2 DEF Ids
<1>12. ASSUME NEW t, FixOf(t, db) PROVE FixOf(t, db')
  <2>1. PICK f \in db : f.category = "fix" /\ f.tool = t /\ f.tenant = Guardian
      BY <1>12 DEF FixOf
  <2>2. CASE f \in Found(S)
      BY <1>3, <1>6, <2>1, <2>2 DEF FixOf
  <2>3. CASE f \notin Found(S)
      BY <1>3, <2>1, <2>3 DEF FixOf
  <2> QED BY <2>2, <2>3
<1>13. ASSUME NEW r \in db', r.resolved = TRUE
       PROVE  \E o \in db : /\ o.tool = r.tool /\ o.category = r.category
                            /\ o.resolved = TRUE \/ o.id \in S
    BY <1>3, <1>4, <1>5, <1>13
<1> QED BY <1>2, <1>9, <1>10, <1>11, <1>12, <1>13

\* The guardian's repair of t, whose fix is on record, marks the entries of t.
LEMMA MarkRemembers ==
    ASSUME Memory, NEW t, MarkResolved(Ids(Unresolved(t, Guardian)), Guardian),
           faulty' = faulty, ~faulty /\ dropped = {} => FixOf(t, db)
    PROVE  Remembers
<1> DEFINE S == Ids(Unresolved(t, Guardian))
<1>1. /\ LawfulRows(db') /\ LawfulRows(disk')
      /\ Ids(db') = Ids(db) /\ disk' \in {disk, db'} /\ dropped' = dropped
      /\ \A u : FixOf(u, db) => FixOf(u, db')
      /\ \A r \in db' : r.resolved = TRUE =>
            \E o \in db : /\ o.tool = r.tool /\ o.category = r.category
                          /\ o.resolved = TRUE \/ o.id \in S
    BY MarkedRows DEF Memory
<1>2. \A o \in db : o.id \in S => o.tool = t
    BY DEF Memory, LawfulRows, Ids, Unresolved, ListEntries
<1> HIDE DEF S
<1>3. ASSUME ~faulty, dropped = {}, NEW r \in db', r.category = "experience", r.resolved = TRUE
      PROVE  FixOf(r.tool, db')
  <2>1. PICK o \in db : /\ o.tool = r.tool /\ o.category = "experience"
                        /\ o.resolved = TRUE \/ o.id \in S
      BY <1>1, <1>3
  <2>2. FixOf(o.tool, db)
      BY <1>2, <1>3, <2>1 DEF Memory, Fixing
  <2> QED BY <1>1, <2>1, <2>2
<1>4. faulty \in BOOLEAN /\ (~faulty => Ids(disk) \subseteq Ids(db) \cup dropped)
    BY DEF Memory, Shapes, Shown
<1> QED BY <1>1, <1>3, <1>4 DEF Remembers, Safe
-----------------------------------------------------------------------------
(* The guardian and the users *)

\* Where the drivers are after a step: one that is to mark entries has its fix
\* on record.
Moves ==
    /\ DOMAIN work' = Drivers
    /\ \A h \in Drivers :
          /\ DOMAIN work'[h] = WorkFields
          /\ work'[h].at \in {"saved", "marking"} =>
                /\ work'[h].groups = work[h].groups
                /\ \/ work[h].at \in {"saved", "marking"}
                   \/ ~faulty' /\ dropped' = {} => FixOf(Group(h).tool, db')

\* Who writes changes for no pipeline.
Aside ==
    /\ DOMAIN writing' = Writers
    /\ \A p \in Tasks : writing'[Pipelines[p]] = writing[Pipelines[p]]

\* A step that leaves the master and the pipelines alone.
LEMMA OthersKeep ==
    ASSUME IInv, UNCHANGED <<masterVars, pipe>>, stable' \subseteq stable,
           Remembers, Moves, Aside
    PROVE  IInv'
<1>1. pipe' = pipe /\ task' = task /\ master' = master /\ subs' = subs /\ collected' = collected
    BY DEF masterVars
<1>2. Shapes'
    BY <1>1 DEF IInv, Shapes, Moves, Aside, Remembers
<1>3. Shown'
    BY <1>1 DEF IInv, Shown, Aside, Remembers
<1>4. Storing'
  <2> SUFFICES ASSUME ~faulty' PROVE Storing'
      BY DEF Storing
  <2>1. ~faulty /\ \A id : Safe(id) => Safe(id)'
      BY DEF Remembers, Safe
  <2>2. \A id : id \in dropped \cup Ids(db) => id \in dropped' \cup Ids(db')
      BY DEF Remembers
  <2>3. \A p, e : SummaryId(p, e)' = SummaryId(p, e)
      BY DEF SummaryId
  <2>4. \A p \in Tasks : StoredBy(p)
      BY <2>1 DEF IInv, Storing
  <2> QED BY <1>1, <2>1, <2>2, <2>3, <2>4 DEF Storing, StoredBy
<1>5. Fixing'
  <2> SUFFICES ASSUME ~faulty', dropped' = {}
               PROVE  /\ \A r \in db' : r.category = "experience" /\ r.resolved = TRUE
                                          => FixOf(r.tool, db')
                      /\ \A g \in Drivers : work'[g].at \in {"saved", "marking"}
                                          => FixOf(Group(g)'.tool, db')
      BY DEF Fixing, FixOf
  <2>1. ~faulty /\ dropped = {}
      BY DEF Remembers
  <2>2. ASSUME NEW g \in Drivers, work'[g].at \in {"saved", "marking"}
        PROVE  FixOf(Group(g)'.tool, db')
    <3>1. Group(g)' = Group(g)
        BY <2>2 DEF Moves, Group
    <3>2. CASE work[g].at \in {"saved", "marking"}
      <4>1. FixOf(Group(g).tool, db)
          BY <2>1, <3>2 DEF IInv, Fixing
      <4>2. FixOf(Group(g).tool, db')
          BY <4>1 DEF Remembers
      <4> QED BY <3>1, <4>2
    <3>3. CASE work[g].at \notin {"saved", "marking"}
      <4>1. FixOf(Group(g).tool, db')
          BY <2>2, <3>3 DEF Moves
      <4> QED BY <3>1, <4>1
    <3> QED BY <3>2, <3>3
  <2>3. \A r \in db' : r.category = "experience" /\ r.resolved = TRUE => FixOf(r.tool, db')
      BY DEF Remembers
  <2> QED BY <2>2, <2>3
<1>6. Earning'
    BY <1>1 DEF IInv, Earning, ToPromote, PromotionEarned, Eligible
<1>7. Collecting'
    BY <1>1 DEF IInv, Collecting
<1> QED BY <1>2, <1>3, <1>4, <1>5, <1>6, <1>7 DEF IInv, Remembers

\* The invariant has what the lemmas on the memory ask for.
LEMMA HasMemory == ASSUME IInv PROVE Memory
BY DEF IInv, Memory

\* A driver goes on to mark only with its fix on record.
LEMMA GoesTo ==
    ASSUME IInv, NEW g \in Drivers, NEW at, Goto(g, at),
           at \in {"saved", "marking"} =>
               \/ work[g].at \in {"saved", "marking"}
               \/ ~faulty' /\ dropped' = {} => FixOf(Group(g).tool, db')
    PROVE  Moves
<1>1. DOMAIN work = Drivers /\ \A h \in Drivers : DOMAIN work[h] = WorkFields
    BY DEF IInv, Shapes
<1>2. /\ DOMAIN work'[g] = WorkFields /\ work'[g].at = at /\ work'[g].groups = work[g].groups
    BY <1>1 DEF WorkFields, Goto
<1>3. DOMAIN work' = Drivers /\ \A h \in Drivers \ {g} : work'[h] = work[h]
    BY <1>1 DEF Goto
<1> QED BY <1>1, <1>2, <1>3 DEF Moves

\* A driver that turns to the next group does not mark.
LEMMA NextGroupMoves == ASSUME IInv, NEW g \in Drivers, NextGroup(g) PROVE Moves
<1>1. DOMAIN work = Drivers /\ \A h \in Drivers : DOMAIN work[h] = WorkFields
    BY DEF IInv, Shapes
<1>2. DOMAIN work'[g] = WorkFields /\ work'[g].at \in {"idle", "group"}
    BY <1>1 DEF WorkFields, NextGroup
<1>3. DOMAIN work' = Drivers /\ \A h \in Drivers \ {g} : work'[h] = work[h]
    BY <1>1 DEF NextGroup
<1> QED BY <1>1, <1>2, <1>3 DEF Moves

\* A batch is taken, by a driver or by none.
LEMMA TakeBatchMoves == ASSUME IInv, NEW g, NEW queue, TakeBatch(g, queue) PROVE Moves
<1>1. DOMAIN work = Drivers /\ \A h \in Drivers : DOMAIN work[h] = WorkFields
    BY DEF IInv, Shapes
<1>2. PICK gs : work' = [work EXCEPT ![g].at = "group", ![g].groups = gs]
    BY DEF TakeBatch
<1>3. DOMAIN work' = Drivers /\ \A h \in Drivers \ {g} : work'[h] = work[h]
    BY <1>1, <1>2
<1>4. g \in Drivers => DOMAIN work'[g] = WorkFields /\ work'[g].at = "group"
    BY <1>1, <1>2 DEF WorkFields
<1> QED BY <1>1, <1>3, <1>4 DEF Moves

\* A writer that is no pipeline changes nothing for those.
LEMMA WriterAside ==
    ASSUME IInv, NEW w, NEW x, w \in Drivers \cup {"user"}, writing' = [writing EXCEPT ![w] = x]
    PROVE  Aside
<1>1. DOMAIN writing = Writers
    BY DEF IInv, Shapes
<1>2. \A p \in Tasks : Pipelines[p] \in Writers /\ Pipelines[p] # w
    BY EvolutionAssumption DEF EvolutionAssumption, Tasks
<1> QED BY <1>1, <1>2 DEF Aside

\* Nobody writes.
LEMMA SameAside == ASSUME IInv, UNCHANGED writing PROVE Aside
BY DEF IInv, Shapes, Aside

\* The entries that the steps write are lawful.
LEMMA EntryLawful ==
    ASSUME NEW id, NEW t, NEW tenant, NEW category,
           category = "fix" => id[2] = "fix" /\ id[3] = t /\ tenant = Guardian
    PROVE  Lawful(Entry(id, t, tenant, category))
BY DEF Lawful, Entry, EntryFields

\* Every step of the guardian keeps the invariant.
LEMMA GuardianKeeps == ASSUME IInv, GuardianStep PROVE IInv'
<1>0. UNCHANGED <<masterVars, pipe>> /\ Memory
    BY HasMemory DEF GuardianStep
<1>1. CASE ListenerMessage \/ ListenerTimeout \/ ProcessHandler
  <2>1. /\ \E g, queue : TakeBatch(g, queue)
        /\ stable' = stable /\ writing' = writing
        /\ UNCHANGED <<db, disk, dropped, faulty>>
      BY <1>1 DEF ListenerMessage, ListenerTimeout, ProcessHandler, memoryVars
  <2> QED BY <1>0, <2>1, TakeBatchMoves, SameAside, SameRemembers, OthersKeep
<1>2. ASSUME NEW g \in Drivers, UnknownTool(g) \/ FixFailed(g) \/ CommitFixVersion(g)
      PROVE  IInv'
  <2>1. /\ NextGroup(g) /\ stable' \subseteq stable /\ writing' = writing
        /\ UNCHANGED <<db, disk, dropped, faulty>>
      BY <1>2 DEF UnknownTool, FixFailed, CommitFixVersion, memoryVars
  <2> QED BY <1>0, <2>1, NextGroupMoves, SameAside, SameRemembers, OthersKeep
<1>3. ASSUME NEW g \in Drivers, FixFound(g) PROVE IInv'
  <2>1. /\ Goto(g, "saving") \/ Goto(g, "commit")
        /\ stable' = stable /\ writing' = writing
        /\ UNCHANGED <<db, disk, dropped, faulty>>
      BY <1>3 DEF FixFound, memoryVars
  <2>2. Moves
      BY <2>1, GoesTo
  <2> QED BY <1>0, <2>1, <2>2, SameAside, SameRemembers, OthersKeep
<1>4. ASSUME NEW g \in Drivers, PersistFix(g) PROVE IInv'
  <2> DEFINE t == Group(g).tool
  <2>0. PICK e : e = Entry(FixId(g), t, Guardian, "fix")
      OBVIOUS
  <2>1. Insert(g, e) /\ Goto(g, "saved") /\ stable' = stable
      BY <1>4, <2>0 DEF PersistFix
  <2>2. FixId(g)[2] = "fix" /\ FixId(g)[3] = t
      BY DEF FixId
  <2>3. /\ Lawful(e) /\ e.resolved = FALSE /\ e.category = "fix"
        /\ e.tool = t /\ e.tenant = Guardian
    <3>1. Lawful(e)
        BY <2>0, <2>2, EntryLawful
    <3> QED BY <2>0, <3>1 DEF Entry
  <2>4. Remembers
      BY <1>0, <2>1, <2>3, InsertRemembers
  <2>5. FixOf(t, db')
      BY <2>1, <2>3 DEF Insert, FixOf
  <2>6. Moves
      BY <2>1, <2>5, GoesTo
  <2>7. Aside
      BY <2>1, WriterAside DEF Insert
  <2> QED BY <1>0, <2>1, <2>4, <2>6, <2>7, OthersKeep
<1>5. ASSUME NEW g \in Drivers, FixStored(g) PROVE IInv'
  <2>1. /\ Commit(g) /\ Goto(g, "marking") /\ work[g].at = "saved" /\ stable' = stable
      BY <1>5 DEF FixStored
  <2>2. Moves
      BY <2>1, GoesTo
  <2>3. Aside
      BY <2>1, WriterAside DEF Commit
  <2> QED BY <1>0, <2>1, <2>2, <2>3, CommitRemembers, OthersKeep
<1>6. ASSUME NEW g \in Drivers, ResolveEntries(g) PROVE IInv'
  <2>1. /\ MarkResolved(Ids(Unresolved(Group(g).tool, Guardian)), Guardian)
        /\ Goto(g, "commit") /\ work[g].at = "marking"
        /\ stable' = stable /\ faulty' = faulty
      BY <1>6 DEF ResolveEntries
  <2>2. Moves
      BY <2>1, GoesTo
  <2>3. Aside
      BY <2>1, SameAside DEF MarkResolved
  <2>4. ~faulty /\ dropped = {} => FixOf(Group(g).tool, db)
      BY <2>1 DEF IInv, Fixing
  <2>5. Remembers
      BY <1>0, <2>1, <2>4, MarkRemembers
  <2> QED BY <1>0, <2>1, <2>2, <2>3, <2>5, OthersKeep
<1>7. ASSUME NEW g \in Drivers, PersistRaises(g) PROVE IInv'
  <2>1. Goto(g, "commit") /\ stable' = stable
      BY <1>7 DEF PersistRaises
  <2>2. Moves
      BY <2>1, GoesTo
  <2>3. CASE Rollback(g)
    <3>1. Aside
        BY <2>3, WriterAside DEF Rollback
    <3>2. Remembers
        BY <1>0, <2>3, FaultyRemembers DEF Rollback, Memory
    <3> QED BY <1>0, <2>1, <2>2, <3>1, <3>2, OthersKeep
  <2>4. ASSUME NEW S, MarkResolved(S, Guardian), faulty' = TRUE PROVE IInv'
    <3>1. Aside
        BY <2>4, SameAside DEF MarkResolved
    <3>2. Remembers
        BY <1>0, <2>4, MarkedRows, FaultyRemembers DEF Memory
    <3> QED BY <1>0, <2>1, <2>2, <3>1, <3>2, OthersKeep
  <2> QED BY <1>7, <2>3, <2>4 DEF PersistRaises
<1> QED BY <1>1, <1>2, <1>3, <1>4, <1>5, <1>6, <1>7 DEF GuardianStep, Driven

\* What a user does keeps it.
LEMMA UserKeeps == ASSUME IInv, UserStep PROVE IInv'
<1>0. UNCHANGED <<masterVars, pipe>> /\ Memory /\ work' = work /\ stable' = stable
    BY HasMemory DEF UserStep, UserWriteEnds, Feedback, Delete, KeepGuardian, guardianVars
<1>1. Moves
    BY <1>0 DEF IInv, Shapes, Moves
<1>2. CASE Commit("user")
  <2>1. Aside
      BY <1>2, WriterAside DEF Commit
  <2> QED BY <1>0, <1>1, <1>2, <2>1, CommitRemembers, OthersKeep
<1>3. CASE Rollback("user")
  <2>1. Aside
      BY <1>3, WriterAside DEF Rollback
  <2>2. Remembers
      BY <1>0, <1>3, FaultyRemembers DEF Rollback, Memory
  <2> QED BY <1>0, <1>1, <2>1, <2>2, OthersKeep
<1>4. ASSUME NEW tenant \in Tenants, Feedback(tenant) PROVE IInv'
  <2> DEFINE id == <<"user", tenant, acts>>
  <2>1. PICK t \in Routed : AddFeedback("user", id, t, tenant)
      BY <1>4 DEF Feedback
  <2>0. PICK e : e = Entry(id, t, tenant, "feedback")
      OBVIOUS
  <2>2. Insert("user", e)
      BY <2>0, <2>1 DEF AddFeedback
  <2>3. id[2] # "fix"
      BY DEF Tenants, Guardian
  <2>4. Lawful(e) /\ e.resolved = FALSE /\ e.id = id
    <3>1. Lawful(e)
        BY <2>0, EntryLawful
    <3> QED BY <2>0, <3>1 DEF Entry
  <2>5. Remembers
      BY <1>0, <2>2, <2>3, <2>4, InsertRemembers
  <2>6. Aside
      BY <2>2, WriterAside DEF Insert
  <2> QED BY <1>0, <1>1, <2>5, <2>6, OthersKeep
<1>5. ASSUME NEW tenant \in Tenants, Delete(tenant) PROVE IInv'
  <2>1. PICK id : DeleteEntry("user", id, tenant)
      BY <1>5 DEF Delete
  <2>2. Aside
      BY <2>1, WriterAside DEF DeleteEntry
  <2> QED BY <1>0, <1>1, <2>1, <2>2, DeleteRemembers, OthersKeep
<1> QED BY <1>2, <1>3, <1>4, <1>5 DEF UserStep, UserWriteEnds
-----------------------------------------------------------------------------
(* The pipelines *)

\* Where the phases of run lead.
LEMMA VersionsAt ==
    ASSUME NEW r, DOMAIN r = PipeFields, NEW rest, NEW v, v = VersionsPhase(r, rest)
    PROVE  /\ DOMAIN v = PipeFields /\ v.exps = r.exps /\ v.at \in {"promote", "done"}
           /\ v.at = "promote" => v.todo = rest /\ rest # {}
BY DEF VersionsPhase, Phase, PipeFields

\* After the last experience the eligible ones are to be promoted.
LEMMA MemoryAt ==
    ASSUME NEW r, DOMAIN r = PipeFields, NEW rest, NEW m, m = MemoryPhase(r, rest)
    PROVE  /\ DOMAIN m = PipeFields /\ m.exps = r.exps
           /\ m.at \in {"memory", "promote", "done"}
           /\ m.at = "memory" => m.todo = rest
           /\ m.at # "memory" => rest = {}
           /\ ToPromote(m)
<1>1. CASE rest # {}
    BY <1>1 DEF MemoryPhase, Phase, PipeFields, ToPromote
<1>2. CASE rest = {}
  <2>1. m = VersionsPhase(r, {e \in r.exps : Eligible(e)})
      BY <1>2 DEF MemoryPhase
  <2> QED BY <1>2, <2>1, VersionsAt DEF ToPromote
<1> QED BY <1>1, <1>2

\* After the notes every experience goes to the memory.
LEMMA NotesAt ==
    ASSUME NEW r, DOMAIN r = PipeFields, NEW rest, NEW n, n = NotesPhase(r, rest)
    PROVE  /\ DOMAIN n = PipeFields /\ n.exps = r.exps
           /\ n.at \in {"notes", "memory", "promote", "done"}
           /\ n.at = "memory" => n.todo = n.exps
           /\ n.at \in {"promote", "done"} => n.exps = {}
           /\ ToPromote(n)
<1>1. CASE rest # {}
    BY <1>1 DEF NotesPhase, Phase, PipeFields, ToPromote
<1>2. CASE rest = {}
  <2>1. n = MemoryPhase(r, r.exps)
      BY <1>2 DEF NotesPhase
  <2> QED BY <2>1, MemoryAt
<1> QED BY <1>1, <1>2

\* The pipeline of p comes to r.
Turns(p, r) ==
    DOMAIN pipe' = Tasks /\ pipe'[p] = r /\ \A q \in Tasks \ {p} : pipe'[q] = pipe[q]

\* An assignment to one pipeline leaves the others.
LEMMA PipeTurns ==
    ASSUME IInv, NEW p \in Tasks, NEW r, pipe' = [pipe EXCEPT ![p] = r]
    PROVE  Turns(p, r)
BY DEF IInv, Shapes, Turns

\* A step of the pipeline of task p, which has started by then.
LEMMA PipelineKeeps ==
    ASSUME IInv, NEW p \in Tasks, NEW r, Turns(p, r),
           DOMAIN r = PipeFields, r.at \notin {"none", "spawned"},
           r.exps = pipe[p].exps \/ pipe[p].exps = {},
           UNCHANGED <<task, master, subs, work>>, DOMAIN collected' = Tasks, Collecting',
           Remembers, DOMAIN writing' = Writers,
           \A q \in Tasks \ {p} : writing'[Pipelines[q]] = writing[Pipelines[q]],
           writing'[Pipelines[p]] # NoEntry => r.at \in {"experience", "fix"},
           ~faulty' => StoredBy(p)',
           \A t \in stable' : t \in stable \/ \E e \in pipe[p].exps : e.tool = t /\ Eligible(e),
           ToPromote(r)
    PROVE  IInv'
<1>1. /\ DOMAIN pipe' = Tasks /\ pipe'[p] = r
      /\ \A q \in Tasks \ {p} : pipe'[q] = pipe[q]
    BY DEF Turns
<1>2. Shapes'
    BY <1>1 DEF IInv, Shapes, Remembers
<1>3. Shown'
    BY <1>1 DEF IInv, Shown, Remembers
<1>4. Storing'
  <2> SUFFICES ASSUME ~faulty', NEW q \in Tasks, q # p PROVE StoredBy(q)'
      BY DEF Storing
  <2>1. ~faulty /\ \A id : Safe(id) => Safe(id)'
      BY DEF Remembers, Safe
  <2>2. \A id : id \in dropped \cup Ids(db) => id \in dropped' \cup Ids(db')
      BY DEF Remembers
  <2>3. \A e : SummaryId(q, e)' = SummaryId(q, e)
      BY DEF SummaryId
  <2>4. StoredBy(q)
      BY <2>1 DEF IInv, Storing
  <2> QED BY <1>1, <2>1, <2>2, <2>3, <2>4 DEF StoredBy
<1>5. Fixing'
  <2> SUFFICES ASSUME ~faulty', dropped' = {}
               PROVE  /\ \A o \in db' : o.category = "experience" /\ o.resolved = TRUE
                                          => FixOf(o.tool, db')
                      /\ \A g \in Drivers : work'[g].at \in {"saved", "marking"}
                                          => FixOf(Group(g)'.tool, db')
      BY DEF Fixing, FixOf
  <2>1. ~faulty /\ dropped = {} /\ \A g : Group(g)' = Group(g)
      BY DEF Remembers, Group
  <2>2. ASSUME NEW g \in Drivers, work'[g].at \in {"saved", "marking"}
        PROVE  FixOf(Group(g)'.tool, db')
    <3>1. FixOf(Group(g).tool, db)
        BY <2>1, <2>2 DEF IInv, Fixing
    <3> QED BY <2>1, <3>1 DEF Remembers
  <2>3. \A o \in db' : o.category = "experience" /\ o.resolved = TRUE => FixOf(o.tool, db')
      BY DEF Remembers
  <2> QED BY <2>2, <2>3
<1>6. Earning'
  <2>1. \A x : ToPromote(x)' = ToPromote(x)
      BY DEF ToPromote, Eligible
  <2>2. ASSUME NEW t \in stable'
        PROVE  \E q \in Tasks : \E e \in pipe'[q].exps :
                  e.tool = t /\ e.bad = 0 /\ e.ok >= PromotionMinSuccesses
    <3>1. PICK q \in Tasks : \E e \in pipe[q].exps :
                  e.tool = t /\ e.bad = 0 /\ e.ok >= PromotionMinSuccesses
        BY DEF IInv, Earning, PromotionEarned, Eligible
    <3>2. pipe[q].exps \subseteq pipe'[q].exps
        BY <1>1
    <3> QED BY <3>1, <3>2
  <2>3. PromotionEarned'
      BY <2>2 DEF PromotionEarned
  <2> QED BY <1>1, <2>1, <2>3 DEF IInv, Earning
<1> QED BY <1>2, <1>3, <1>4, <1>5, <1>6 DEF IInv, Remembers

\* A pipeline that has collected goes on, and the collecting is as it was.
LEMMA GoesOnCollecting ==
    ASSUME IInv, NEW p \in Tasks, NEW r, Turns(p, r),
           r.at # "spawned", pipe[p].at # "none", UNCHANGED masterVars
    PROVE  Collecting'
<1>1. /\ pipe'[p] = r /\ \A q \in Tasks \ {p} : pipe'[q] = pipe[q]
    BY DEF Turns
<1>2. ~(p > task \/ (p = task /\ master = "running"))
    BY DEF IInv, Collecting
<1> QED BY <1>1, <1>2 DEF IInv, Collecting, masterVars

\* Writes of the pipelines, who are writers of their own.
LEMMA PipelineWrites ==
    ASSUME IInv, NEW p \in Tasks, NEW x, writing' = [writing EXCEPT ![Pipelines[p]] = x]
    PROVE  /\ DOMAIN writing' = Writers /\ writing'[Pipelines[p]] = x
           /\ \A q \in Tasks \ {p} : writing'[Pipelines[q]] = writing[Pipelines[q]]
<1>1. DOMAIN writing = Writers
    BY DEF IInv, Shapes
<1>2. /\ Pipelines[p] \in Writers
      /\ \A q \in Tasks : Pipelines[q] = Pipelines[p] => q = p
    BY EvolutionAssumption DEF EvolutionAssumption, Tasks
<1> QED BY <1>1, <1>2

\* What is stored stays stored over a step of the memory.
LEMMA StaysSafe ==
    ASSUME Remembers, ~faulty'
    PROVE  /\ ~faulty /\ \A id : Safe(id) => Safe(id)'
           /\ \A id : id \in dropped \cup Ids(db) => id \in dropped' \cup Ids(db')
BY DEF Remembers, Safe

\* The pipeline goes on to its next experience, with this one stored.
LEMMA NextExperienceKeeps ==
    ASSUME IInv, NEW p \in Tasks, pipe[p].at \in {"experience", "trigger", "fix"},
           NextExperience(p), UNCHANGED <<masterVars, work>>, stable' \subseteq stable,
           Remembers, DOMAIN writing' = Writers, writing'[Pipelines[p]] = NoEntry,
           \A q \in Tasks \ {p} : writing'[Pipelines[q]] = writing[Pipelines[q]],
           NEW x, x = pipe[p].exp, ~faulty' => Safe(SummaryId(p, x))'
    PROVE  IInv'
<1>0. PICK todo, next : todo = pipe[p].todo \ {x} /\ next = MemoryPhase(pipe[p], todo)
    OBVIOUS
<1>1. DOMAIN pipe = Tasks /\ DOMAIN pipe[p] = PipeFields
    BY DEF IInv, Shapes
<1>2. pipe' = [pipe EXCEPT ![p] = next]
    BY <1>0, <1>1 DEF NextExperience
<1>3. /\ DOMAIN next = PipeFields /\ next.exps = pipe[p].exps
      /\ next.at \in {"memory", "promote", "done"}
      /\ next.at = "memory" => next.todo = todo
      /\ next.at # "memory" => todo = {}
      /\ ToPromote(next)
  <2>1. DOMAIN next = PipeFields /\ next.exps = pipe[p].exps
      BY <1>0, <1>1, MemoryAt
  <2>2. next.at \in {"memory", "promote", "done"}
      BY <1>0, <1>1, MemoryAt
  <2>3. next.at = "memory" => next.todo = todo
      BY <1>0, <1>1, MemoryAt
  <2>5. next.at # "memory" => todo = {}
      BY <1>0, <1>1, MemoryAt
  <2>4. ToPromote(next)
      BY <1>0, <1>1, MemoryAt
  <2> QED BY <2>1, <2>2, <2>3, <2>4, <2>5
<1>4. pipe'[p] = next /\ Turns(p, next)
    BY <1>1, <1>2, PipeTurns
<1>5. ASSUME ~faulty' PROVE StoredBy(p)'
  <2>1. \A e \in pipe[p].exps \ pipe[p].todo : Safe(SummaryId(p, e))
      BY <1>5, StaysSafe DEF IInv, Storing, StoredBy
  <2>2. \A e \in pipe[p].exps \ todo : Safe(SummaryId(p, e))'
    <3> TAKE e \in pipe[p].exps \ todo
    <3>2. CASE e = x
        BY <1>5, <3>2
    <3>3. CASE e # x
      <4>1. Safe(SummaryId(p, e))
          BY <1>0, <2>1, <3>3
      <4> QED BY <1>5, <4>1, StaysSafe DEF SummaryId
    <3> QED BY <3>2, <3>3
  <2> QED BY <1>3, <1>4, <2>2 DEF StoredBy
<1>6. Collecting'
    BY <1>3, <1>4, GoesOnCollecting
<1>7. UNCHANGED <<task, master, subs, collected>> /\ DOMAIN collected' = Tasks
    BY DEF IInv, Shapes, masterVars
<1> QED BY <1>3, <1>4, <1>5, <1>6, <1>7, PipelineKeeps

\* UpdateToolNotes writes nothing and has stored nothing yet.
LEMMA UpdateToolNotesKeeps == ASSUME IInv, NEW p \in Tasks, UpdateToolNotes(p) PROVE IInv'
<1>0. PICK todo, next : /\ next = NotesPhase(pipe[p], todo)
                        /\ pipe' = [pipe EXCEPT ![p] = next]
    BY DEF UpdateToolNotes, IInv, Shapes
<1>1. /\ pipe[p].at = "notes" /\ UNCHANGED masterVars
      /\ UNCHANGED <<db, disk, writing, dropped, faulty, work, stable>>
    BY DEF UpdateToolNotes, memoryVars
<1>2. DOMAIN pipe = Tasks /\ DOMAIN pipe[p] = PipeFields /\ Turns(p, next) /\ pipe'[p] = next
    BY <1>0, PipeTurns DEF IInv, Shapes
<1>3. DOMAIN next = PipeFields /\ next.exps = pipe[p].exps
    BY <1>0, <1>2, NotesAt
<1>4. next.at \in {"notes", "memory", "promote", "done"}
    BY <1>0, <1>2, NotesAt
<1>5. /\ next.at = "memory" => next.todo = next.exps
      /\ next.at \in {"promote", "done"} => next.exps = {}
    BY <1>0, <1>2, NotesAt
<1>6. ToPromote(next)
    BY <1>0, <1>2, NotesAt
<1>7. StoredBy(p)'
    BY <1>2, <1>4, <1>5 DEF StoredBy
<1>8. Collecting'
    BY <1>1, <1>2, <1>4, GoesOnCollecting
<1>9. Remembers
    BY <1>1, HasMemory, SameRemembers
<1>10. writing[Pipelines[p]] = NoEntry /\ DOMAIN writing = Writers /\ DOMAIN collected = Tasks
    BY <1>1 DEF IInv, Shown, Shapes
<1> QED BY <1>1, <1>2, <1>3, <1>4, <1>6, <1>7, <1>8, <1>9, <1>10, PipelineKeeps DEF masterVars

\* AddExperience: the entry is shown at once.
LEMMA AddExperienceKeeps == ASSUME IInv, NEW p \in Tasks, AddExperience(p) PROVE IInv'
<1>0. PICK e : /\ pipe' = [pipe EXCEPT ![p].at = "experience", ![p].exp = e]
               /\ Insert(Pipelines[p], EntryOf(p, e, "experience", "summary"))
    BY DEF AddExperience
<1>1. /\ pipe[p].at = "memory" /\ UNCHANGED masterVars /\ UNCHANGED <<work, stable>>
    BY DEF AddExperience, KeepGuardian, guardianVars
<1>2. PICK next : next = [pipe[p] EXCEPT !.at = "experience", !.exp = e]
    OBVIOUS
<1>3. DOMAIN pipe = Tasks /\ DOMAIN pipe[p] = PipeFields
    BY DEF IInv, Shapes
<1>4. /\ DOMAIN next = PipeFields /\ next.at = "experience" /\ next.exp = e
      /\ next.exps = pipe[p].exps /\ next.todo = pipe[p].todo
    BY <1>2, <1>3 DEF PipeFields
<1>5. Turns(p, next) /\ pipe'[p] = next
  <2>1. pipe' = [pipe EXCEPT ![p] = next]
      BY <1>0, <1>2, <1>3
  <2> QED BY <1>3, <2>1, PipeTurns
<1>6. PICK row : row = EntryOf(p, e, "experience", "summary")
    OBVIOUS
<1>7. /\ row = Entry(SummaryId(p, e), e.tool, Guardian, "experience")
      /\ Insert(Pipelines[p], row)
    BY <1>0, <1>6 DEF EntryOf, SummaryId
<1>8. Lawful(row) /\ row.resolved = FALSE /\ row.id = SummaryId(p, e) /\ row.id[2] # "fix"
  <2>1. Lawful(row)
      BY <1>7, EntryLawful
  <2> QED BY <1>7, <2>1 DEF Entry, SummaryId
<1>9. Remembers
    BY <1>7, <1>8, HasMemory, InsertRemembers
<1>10. /\ DOMAIN writing' = Writers
       /\ \A q \in Tasks \ {p} : writing'[Pipelines[q]] = writing[Pipelines[q]]
    BY <1>7, PipelineWrites DEF Insert
<1>11. ASSUME ~faulty' PROVE StoredBy(p)'
  <2>1. \A x \in pipe[p].exps \ pipe[p].todo : Safe(SummaryId(p, x))'
    <3> TAKE x \in pipe[p].exps \ pipe[p].todo
    <3>1. Safe(SummaryId(p, x))
        BY <1>1, <1>9, <1>11, StaysSafe DEF IInv, Storing, StoredBy
    <3> QED BY <1>9, <1>11, <3>1, StaysSafe DEF SummaryId
  <2>2. SummaryId(p, e) \in Ids(db')
      BY <1>7, <1>8 DEF Insert, Ids
  <2> QED BY <1>4, <1>5, <2>1, <2>2 DEF StoredBy, SummaryId
<1>12. Collecting'
    BY <1>1, <1>4, <1>5, GoesOnCollecting
<1>13. DOMAIN collected = Tasks /\ ToPromote(next)
    BY <1>4 DEF IInv, Shapes, ToPromote
<1> QED BY <1>1, <1>4, <1>5, <1>9, <1>10, <1>11, <1>12, <1>13, PipelineKeeps DEF masterVars

\* A pipeline that goes from its experience to the trigger or to the fix.
LEMMA GoesToKeeps ==
    ASSUME IInv, NEW p \in Tasks, NEW at, at \in {"trigger", "fix"},
           pipe[p].at \in {"experience", "trigger", "fix"},
           PipeGoto(p, at) \/ (pipe[p].at = at /\ pipe' = pipe),
           UNCHANGED <<masterVars, work>>, stable' \subseteq stable,
           Remembers, DOMAIN writing' = Writers,
           writing'[Pipelines[p]] # NoEntry => at = "fix",
           \A q \in Tasks \ {p} : writing'[Pipelines[q]] = writing[Pipelines[q]],
           NEW x, x = pipe[p].exp, ~faulty' => Safe(SummaryId(p, x))'
    PROVE  IInv'
<1>2. PICK next : next = pipe'[p]
    OBVIOUS
<1>3. DOMAIN pipe = Tasks /\ DOMAIN pipe[p] = PipeFields
    BY DEF IInv, Shapes
<1>4. /\ DOMAIN next = PipeFields /\ next.at = at /\ next.exp = x
      /\ next.exps = pipe[p].exps /\ next.todo = pipe[p].todo
  <2>1. CASE PipeGoto(p, at)
      BY <1>2, <1>3, <2>1 DEF PipeGoto, PipeFields
  <2>2. CASE pipe[p].at = at /\ pipe' = pipe
      BY <1>2, <1>3, <2>2
  <2> QED BY <2>1, <2>2
<1>5. Turns(p, next) /\ pipe'[p] = next
    BY <1>2, <1>3 DEF PipeGoto, Turns
<1>11. ASSUME ~faulty' PROVE StoredBy(p)'
  <2>1. \A e \in pipe[p].exps \ pipe[p].todo : Safe(SummaryId(p, e))'
    <3> TAKE e \in pipe[p].exps \ pipe[p].todo
    <3>1. Safe(SummaryId(p, e))
        BY <1>11, StaysSafe DEF IInv, Storing, StoredBy
    <3> QED BY <1>11, <3>1, StaysSafe DEF SummaryId
  <2> QED BY <1>4, <1>5, <1>11, <2>1 DEF StoredBy
<1>12. Collecting'
    BY <1>4, <1>5, GoesOnCollecting
<1>13. DOMAIN collected = Tasks /\ ToPromote(next)
    BY <1>4 DEF IInv, Shapes, ToPromote
<1> QED BY <1>4, <1>5, <1>11, <1>12, <1>13, PipelineKeeps DEF masterVars

\* Everything the connection shows is safe once it is committed.
LEMMA CommittedIsSafe ==
    ASSUME NEW w, Commit(w), NEW id, id \in dropped \cup Ids(db)
    PROVE  Safe(id)'
BY DEF Commit, Safe, Ids

\* EntryStored: whoever writes, the commit makes the experience safe.
LEMMA EntryStoredKeeps == ASSUME IInv, NEW p \in Tasks, EntryStored(p) PROVE IInv'
<1>1. /\ Commit(Pipelines[p]) /\ UNCHANGED masterVars /\ UNCHANGED <<work, stable>>
      /\ writing[Pipelines[p]] # NoEntry
      /\ \/ pipe[p].at = "experience" /\ PipeGoto(p, "trigger")
         \/ NextExperience(p)
    BY DEF EntryStored, Commit, KeepGuardian, guardianVars
<1>2. pipe[p].at \in {"experience", "fix"}
    BY <1>1 DEF IInv, Shown
<1>3. Remembers
    BY <1>1, HasMemory, CommitRemembers
<1>4. /\ DOMAIN writing' = Writers /\ writing'[Pipelines[p]] = NoEntry
      /\ \A q \in Tasks \ {p} : writing'[Pipelines[q]] = writing[Pipelines[q]]
    BY <1>1, PipelineWrites DEF Commit
<1>5. PICK x : x = pipe[p].exp
    OBVIOUS
<1>6. ASSUME ~faulty' PROVE Safe(SummaryId(p, x))'
  <2>1. StoredBy(p)
      BY <1>3, <1>6, StaysSafe DEF IInv, Storing
  <2>2. SummaryId(p, x) \in dropped \cup Ids(db)
      BY <1>2, <1>5, <2>1 DEF StoredBy, Safe
  <2> QED BY <1>1, <2>2, CommittedIsSafe DEF SummaryId
<1>7. CASE pipe[p].at = "experience" /\ PipeGoto(p, "trigger")
    BY <1>1, <1>3, <1>4, <1>5, <1>6, <1>7, GoesToKeeps
<1>8. CASE NextExperience(p)
    BY <1>1, <1>2, <1>3, <1>4, <1>5, <1>6, <1>8, NextExperienceKeeps
<1> QED BY <1>1, <1>7, <1>8

\* EntryRaises.
LEMMA EntryRaisesKeeps == ASSUME IInv, NEW p \in Tasks, EntryRaises(p) PROVE IInv'
<1>1. /\ Rollback(Pipelines[p]) /\ UNCHANGED masterVars /\ UNCHANGED <<work, stable>>
      /\ writing[Pipelines[p]] # NoEntry /\ NextExperience(p) /\ faulty' = TRUE
    BY DEF EntryRaises, Rollback, KeepGuardian, guardianVars
<1>2. pipe[p].at \in {"experience", "fix"}
    BY <1>1 DEF IInv, Shown
<1>3. Remembers
    BY <1>1, FaultyRemembers DEF Rollback, IInv
<1>4. /\ DOMAIN writing' = Writers /\ writing'[Pipelines[p]] = NoEntry
      /\ \A q \in Tasks \ {p} : writing'[Pipelines[q]] = writing[Pipelines[q]]
    BY <1>1, PipelineWrites DEF Rollback
<1>5. PICK x : x = pipe[p].exp
    OBVIOUS
<1> QED BY <1>1, <1>2, <1>3, <1>4, <1>5, NextExperienceKeeps

\* TriggerVersion.
LEMMA TriggerVersionKeeps == ASSUME IInv, NEW p \in Tasks, TriggerVersion(p) PROVE IInv'
<1>1. /\ pipe[p].at = "trigger" /\ UNCHANGED masterVars /\ work' = work /\ stable' \subseteq stable
      /\ UNCHANGED <<db, disk, writing, dropped, faulty>>
      /\ PipeGoto(p, "fix") \/ NextExperience(p)
    BY DEF TriggerVersion, memoryVars
<1>2. Remembers
    BY <1>1, HasMemory, SameRemembers
<1>3. DOMAIN writing = Writers /\ writing[Pipelines[p]] = NoEntry
    BY <1>1 DEF IInv, Shapes, Shown
<1>4. PICK x : x = pipe[p].exp
    OBVIOUS
<1>5. ASSUME ~faulty' PROVE Safe(SummaryId(p, x))'
  <2>1. Safe(SummaryId(p, x))
      BY <1>1, <1>4, <1>5 DEF IInv, Storing, StoredBy
  <2> QED BY <1>2, <1>5, <2>1, StaysSafe DEF SummaryId
<1>6. CASE PipeGoto(p, "fix")
    BY <1>1, <1>2, <1>3, <1>4, <1>5, <1>6, GoesToKeeps
<1>7. CASE NextExperience(p)
    BY <1>1, <1>2, <1>3, <1>4, <1>5, <1>7, NextExperienceKeeps
<1> QED BY <1>1, <1>6, <1>7

\* FixEntry.
LEMMA FixEntryKeeps == ASSUME IInv, NEW p \in Tasks, FixEntry(p) PROVE IInv'
<1>1. /\ pipe[p].at = "fix" /\ pipe' = pipe /\ UNCHANGED masterVars /\ UNCHANGED <<work, stable>>
      /\ Insert(Pipelines[p], EntryOf(p, pipe[p].exp, "fix", "fix"))
    BY DEF FixEntry, KeepGuardian, guardianVars
<1>2. PICK x, row : /\ x = pipe[p].exp
                    /\ row = Entry(<<Pipelines[p], "fix", x.tool>>, x.tool, Guardian, "fix")
    OBVIOUS
<1>3. Insert(Pipelines[p], row)
    BY <1>1, <1>2 DEF EntryOf
<1>4. Lawful(row) /\ row.resolved = FALSE /\ row.category = "fix"
  <2>1. Lawful(row)
      BY <1>2, EntryLawful
  <2> QED BY <1>2, <2>1 DEF Entry
<1>5. Remembers
    BY <1>3, <1>4, HasMemory, InsertRemembers
<1>6. /\ DOMAIN writing' = Writers
      /\ \A q \in Tasks \ {p} : writing'[Pipelines[q]] = writing[Pipelines[q]]
    BY <1>3, PipelineWrites DEF Insert
<1>7. ASSUME ~faulty' PROVE Safe(SummaryId(p, x))'
  <2>1. Safe(SummaryId(p, x))
      BY <1>1, <1>2, <1>5, <1>7, StaysSafe DEF IInv, Storing, StoredBy
  <2> QED BY <1>5, <1>7, <2>1, StaysSafe DEF SummaryId
<1> QED BY <1>1, <1>2, <1>5, <1>6, <1>7, GoesToKeeps

\* UpdateToolVersions promotes what a pipeline saw succeed.
LEMMA UpdateToolVersionsKeeps == ASSUME IInv, NEW p \in Tasks, UpdateToolVersions(p) PROVE IInv'
<1>0. PICK e, todo, next :
         /\ e = CHOOSE x \in pipe[p].todo : TRUE
         /\ next = VersionsPhase(pipe[p], todo) /\ todo = pipe[p].todo \ {e}
         /\ pipe' = [pipe EXCEPT ![p] = next] /\ stable' \subseteq stable \cup {e.tool}
    BY DEF UpdateToolVersions, IInv, Shapes
<1>1. /\ pipe[p].at = "promote" /\ UNCHANGED masterVars /\ work' = work
      /\ UNCHANGED <<db, disk, writing, dropped, faulty>>
    BY DEF UpdateToolVersions, memoryVars
<1>2. DOMAIN pipe = Tasks /\ DOMAIN pipe[p] = PipeFields /\ Turns(p, next) /\ pipe'[p] = next
    BY <1>0, PipeTurns DEF IInv, Shapes
<1>3. pipe[p].todo # {} /\ \A x \in pipe[p].todo : x \in pipe[p].exps /\ Eligible(x)
    BY <1>1 DEF IInv, Earning, ToPromote
<1>4. e \in pipe[p].todo
    BY <1>0, <1>3
<1>5. DOMAIN next = PipeFields /\ next.exps = pipe[p].exps
    BY <1>0, <1>2, VersionsAt
<1>6. next.at \in {"promote", "done"}
    BY <1>0, <1>2, VersionsAt
<1>7. next.at = "promote" => next.todo = todo /\ todo # {}
    BY <1>0, <1>2, VersionsAt
<1>8. ToPromote(next)
    BY <1>0, <1>3, <1>5, <1>7 DEF ToPromote
<1>9. Remembers
    BY <1>1, HasMemory, SameRemembers
<1>10. ASSUME ~faulty' PROVE StoredBy(p)'
  <2>1. \A x \in pipe[p].exps : Safe(SummaryId(p, x))'
    <3> TAKE x \in pipe[p].exps
    <3>1. Safe(SummaryId(p, x))
        BY <1>1, <1>10 DEF IInv, Storing, StoredBy
    <3> QED BY <1>9, <1>10, <3>1, StaysSafe DEF SummaryId
  <2> QED BY <1>2, <1>5, <1>6, <2>1 DEF StoredBy
<1>11. Collecting'
    BY <1>1, <1>2, <1>6, GoesOnCollecting
<1>12. writing[Pipelines[p]] = NoEntry /\ DOMAIN writing = Writers /\ DOMAIN collected = Tasks
    BY <1>1 DEF IInv, Shown, Shapes
<1>13. \A t \in stable' : t \in stable \/ \E x \in pipe[p].exps : x.tool = t /\ Eligible(x)
    BY <1>0, <1>3, <1>4
<1> QED BY <1>0, <1>1, <1>2, <1>5, <1>6, <1>8, <1>9, <1>10, <1>11, <1>12, <1>13, PipelineKeeps DEF masterVars

\* Collect finds the agents of no task that another pipeline has collected.
LEMMA CollectKeeps == ASSUME IInv, NEW p \in Tasks, Collect(p) PROVE IInv'
<1>0. PICK next : next = Started(Experiences)
    OBVIOUS
<1>1. /\ pipe[p].at = "spawned" /\ UNCHANGED <<task, master, subs>>
      /\ pipe' = [pipe EXCEPT ![p] = next]
      /\ collected' = [a \in Tasks |->
            IF \E s \in subs : s.id = a /\ s.ok + s.bad > 0
            THEN collected[a] \cup {p} ELSE collected[a]]
      /\ UNCHANGED <<db, disk, writing, dropped, faulty, work, stable>>
    BY <1>0 DEF Collect, KeepGuardian, guardianVars, memoryVars
<1>2. DOMAIN pipe = Tasks /\ DOMAIN pipe[p] = PipeFields /\ Turns(p, next) /\ pipe'[p] = next
    BY <1>1, PipeTurns DEF IInv, Shapes
<1>3. PICK r, todo : r = [NoPipe EXCEPT !.exps = Experiences] /\ next = NotesPhase(r, todo)
    BY <1>0 DEF Started
<1>4. DOMAIN r = PipeFields
    BY <1>3 DEF NoPipe, PipeFields
<1>5. DOMAIN next = PipeFields
    BY <1>3, <1>4, NotesAt
<1>6. next.at \in {"notes", "memory", "promote", "done"}
    BY <1>3, <1>4, NotesAt
<1>7. next.at = "memory" => next.todo = next.exps
    BY <1>3, <1>4, NotesAt
<1>8. next.at \in {"promote", "done"} => next.exps = {}
    BY <1>3, <1>4, NotesAt
<1>9. ToPromote(next)
    BY <1>3, <1>4, NotesAt
<1>10. StoredBy(p)'
    BY <1>2, <1>6, <1>7, <1>8 DEF StoredBy
<1>11. \A q \in Tasks \ {p} : pipe'[q] = pipe[q] /\ pipe'[q].at # "spawned"
    BY <1>1, <1>2 DEF IInv, Collecting
<1>12. /\ \A a \in Tasks : \/ collected'[a] = collected[a]
                           \/ collected'[a] = {p} /\ \E s \in subs : s.id = a
       /\ DOMAIN collected' = Tasks
  <2>1. \A s \in subs : collected[s.id] = {}
      BY <1>1 DEF IInv, Collecting
  <2> QED BY <1>1, <2>1
<1>13. subs # {} => master = "completed"
    BY <1>1 DEF IInv, Collecting
<1>14. ~(p > task \/ (p = task /\ master = "running"))
    BY <1>1 DEF IInv, Collecting
<1>15. \A a \in Tasks : collected'[a] # {} => a < task \/ (a = task /\ master # "running")
  <2> TAKE a \in Tasks
  <2>1. CASE collected'[a] = collected[a]
      BY <2>1 DEF IInv, Collecting
  <2>2. ASSUME NEW s \in subs, s.id = a PROVE a < task \/ (a = task /\ master # "running")
      BY <1>13, <2>2 DEF IInv, Shapes
  <2> QED BY <1>12, <2>1, <2>2
<1>16. \A a \in Tasks : \A i, j \in collected'[a] : i = j
    BY <1>12 DEF IInv, Collecting
<1>17. Collecting'
    BY <1>1, <1>2, <1>6, <1>11, <1>13, <1>14, <1>15, <1>16 DEF IInv, Collecting
<1>18. Remembers
    BY <1>1, HasMemory, SameRemembers
<1>19. writing[Pipelines[p]] = NoEntry /\ DOMAIN writing = Writers /\ pipe[p].exps = {}
    BY <1>1 DEF IInv, Shown, Shapes, Earning
<1> QED BY <1>1, <1>2, <1>5, <1>6, <1>9, <1>10, <1>12, <1>17, <1>18, <1>19, PipelineKeeps

\* Every step of the pipelines keeps the invariant.
LEMMA PipelinesKeep == ASSUME IInv, PipelineStep PROVE IInv'
<1>1. PICK p \in Tasks : PipeStep(p) \/ EntryRaises(p)
    BY DEF PipelineStep
<1> QED BY <1>1, CollectKeeps, UpdateToolNotesKeeps, AddExperienceKeeps, EntryStoredKeeps,
           TriggerVersionKeeps, FixEntryKeeps, UpdateToolVersionsKeeps, EntryRaisesKeeps
        DEF PipeStep
-----------------------------------------------------------------------------
(* The master *)

\* Where on_stop, or any other step of the master, leaves a pipeline.
Spawns ==
    /\ DOMAIN pipe' = Tasks
    /\ \A p \in Tasks : \/ pipe'[p] = pipe[p]
                        \/ /\ pipe[p].at = "none" /\ pipe'[p].at = "spawned"
                           /\ pipe'[p].exps = pipe[p].exps /\ DOMAIN pipe'[p] = PipeFields

\* A step of the master leaves the memory and the guardian's work alone.
LEMMA MasterFrame ==
    ASSUME IInv, UNCHANGED <<db, disk, writing, dropped, faulty, work, stable>>, Spawns,
           task' \in Nat, DOMAIN collected' = Tasks, Collecting',
           \A s \in subs' : DOMAIN s = AgentFields /\ s.id \in Tasks /\ s.id <= task'
    PROVE  IInv'
<1>1. Shapes' /\ LawfulRows(db)' /\ LawfulRows(disk)'
    BY DEF IInv, Shapes, Spawns, LawfulRows
<1>2. Shown'
    BY DEF IInv, Shown, Spawns
<1>3. Storing'
  <2> SUFFICES ASSUME ~faulty, NEW p \in Tasks PROVE StoredBy(p)'
      BY DEF Storing
  <2>1. StoredBy(p)
      BY DEF IInv, Storing
  <2>2. \A id : Safe(id)' = Safe(id)
      BY DEF Safe
  <2>3. \A e : SummaryId(p, e)' = SummaryId(p, e)
      BY DEF SummaryId
  <2>4. CASE pipe'[p] = pipe[p]
      BY <2>1, <2>2, <2>3, <2>4 DEF StoredBy
  <2>5. CASE pipe'[p].at = "spawned"
      BY <2>5 DEF StoredBy
  <2> QED BY <2>4, <2>5 DEF Spawns
<1>4. Fixing'
    BY DEF IInv, Fixing, FixOf, Group
<1>5. Earning'
  <2>1. \A p \in Tasks : pipe'[p].exps = pipe[p].exps
      BY DEF Spawns
  <2>2. PromotionEarned'
      BY <2>1 DEF IInv, Earning, PromotionEarned
  <2>3. ASSUME NEW p \in Tasks
        PROVE  /\ pipe'[p].at \in {"none", "spawned"} => pipe'[p].exps = {}
               /\ ToPromote(pipe[p])'
    <3>1. CASE pipe'[p] = pipe[p]
        BY <3>1 DEF IInv, Earning, ToPromote, Eligible
    <3>2. CASE pipe[p].at = "none" /\ pipe'[p].at = "spawned"
        BY <2>1, <3>2 DEF IInv, Earning, ToPromote
    <3> QED BY <3>1, <3>2 DEF Spawns
  <2> QED BY <2>2, <2>3 DEF Earning
<1> QED BY <1>1, <1>2, <1>3, <1>4, <1>5 DEF IInv

\* Every step of the master keeps the invariant.
LEMMA MasterKeeps == ASSUME IInv, MasterStep PROVE IInv'
<1>0. /\ UNCHANGED <<db, disk, writing, dropped, faulty, work, stable, collected>>
      /\ DOMAIN collected = Tasks /\ task \in Nat /\ Tasks \subseteq Nat
      /\ \A s \in subs : DOMAIN s = AgentFields /\ s.id \in Tasks /\ s.id <= task
  <2>1. UNCHANGED <<db, disk, writing, dropped, faulty, work, stable, collected>>
      BY DEF MasterStep, RunTask, CreateSubAgent, RunSubAgent, OnStop, CancelRun, ResetForNewTask,
             memoryVars, KeepGuardian, guardianVars
  <2> QED BY <2>1 DEF IInv, Shapes
<1>1. ASSUME pipe' = pipe PROVE Spawns
    BY <1>1 DEF IInv, Shapes, Spawns
<1>2. CASE RunTask
  <2>1. /\ master = "idle" /\ task + 1 \in Tasks /\ master' = "running" /\ task' = task + 1
        /\ subs' = subs /\ pipe' = pipe
      BY <1>2 DEF RunTask
  <2>2. \A a \in Tasks : collected[a] # {} => a <= task
      BY <1>0 DEF IInv, Collecting
  <2>3. ASSUME NEW s \in subs' PROVE s.id <= task'
    <3>1. s.id \in Nat /\ s.id <= task
        BY <1>0, <2>1
    <3> QED BY <1>0, <2>1, <3>1
  <2>4. \A p \in Tasks : p > task' \/ p = task' => p > task
      BY <1>0, <2>1
  <2>5. \A a \in Tasks : collected[a] # {} => a < task'
      BY <1>0, <2>1, <2>2
  <2>6. Collecting'
      BY <1>0, <2>1, <2>4, <2>5 DEF IInv, Collecting
  <2> QED BY <1>0, <1>1, <2>1, <2>3, <2>6, MasterFrame
<1>3. CASE CreateSubAgent
  <2> DEFINE new == [id |-> task, tool |-> "none", done |-> FALSE, ok |-> 0, bad |-> 0]
  <2>1. /\ master = "running" /\ master' = master /\ task' = task /\ pipe' = pipe
        /\ \A p \in Tasks : pipe[p].at # "spawned"
        /\ subs' = subs \cup {new}
      BY <1>3 DEF CreateSubAgent, AllStarted
  <2>2. DOMAIN new = AgentFields /\ new.id = task /\ task \in Tasks
      BY <2>1 DEF AgentFields, IInv, Collecting
  <2> HIDE DEF new
  <2>3. collected[task] = {}
      BY <1>0, <2>1, <2>2 DEF IInv, Collecting
  <2>4. Collecting'
      BY <1>0, <2>1, <2>2, <2>3 DEF IInv, Collecting
  <2> QED BY <1>0, <1>1, <2>1, <2>2, <2>4, MasterFrame
<1>4. CASE RunSubAgent
  <2>1. PICK a \in subs, t \in Tools, r \in Results :
           subs' = (subs \ {a}) \cup
                {[a EXCEPT !.done = TRUE, !.tool = IF r = IsolatedResult THEN @ ELSE t,
                           !.ok = r[1], !.bad = r[2]]}
      BY <1>4 DEF RunSubAgent
  <2>2. /\ master = "running" /\ master' = master /\ task' = task /\ pipe' = pipe
      BY <1>4 DEF RunSubAgent
  <2>3. PICK b : /\ subs' = (subs \ {a}) \cup {b} /\ b.id = a.id /\ DOMAIN b = AgentFields
    <3> DEFINE c == [a EXCEPT !.done = TRUE, !.tool = IF r = IsolatedResult THEN @ ELSE t,
                              !.ok = r[1], !.bad = r[2]]
    <3>1. DOMAIN a = AgentFields
        BY <1>0
    <3>2. c.id = a.id /\ DOMAIN c = AgentFields
        BY <3>1 DEF AgentFields
    <3>3. subs' = (subs \ {a}) \cup {c}
        BY <2>1
    <3> HIDE DEF c
    <3> QED BY <3>2, <3>3
  <2>4. Collecting'
      BY <1>0, <2>2, <2>3 DEF IInv, Collecting
  <2> QED BY <1>0, <1>1, <2>2, <2>3, <2>4, MasterFrame
<1>5. CASE OnStop
  <2>1. /\ master = "running" /\ master' = "completed" /\ task' = task /\ subs' = subs
        /\ \A p \in Tasks : pipe[p].at # "spawned"
        /\ pipe' = pipe \/ pipe' = [pipe EXCEPT ![task].at = "spawned"]
      BY <1>5 DEF OnStop, AllStarted
  <2>2. task \in Tasks /\ pipe[task].at = "none"
      BY <2>1 DEF IInv, Collecting
  <2>3. DOMAIN pipe = Tasks /\ DOMAIN pipe[task] = PipeFields
      BY <2>2 DEF IInv, Shapes
  <2>4. CASE pipe' = [pipe EXCEPT ![task].at = "spawned"]
    <3>1. /\ pipe'[task].at = "spawned" /\ pipe'[task].exps = pipe[task].exps
          /\ DOMAIN pipe'[task] = PipeFields
        BY <2>2, <2>3, <2>4 DEF PipeFields
    <3>2. DOMAIN pipe' = Tasks /\ \A p \in Tasks \ {task} : pipe'[p] = pipe[p]
        BY <2>3, <2>4
    <3>3. Spawns
        BY <2>2, <3>1, <3>2 DEF Spawns
    <3>4. Collecting'
        BY <1>0, <2>1, <2>2, <3>1, <3>2 DEF IInv, Collecting
    <3> QED BY <1>0, <2>1, <3>3, <3>4, MasterFrame
  <2>5. CASE pipe' = pipe
    <3>1. Collecting'
        BY <1>0, <2>1, <2>5 DEF IInv, Collecting
    <3> QED BY <1>0, <1>1, <2>1, <2>5, <3>1, MasterFrame
  <2> QED BY <2>1, <2>4, <2>5
<1>6. CASE CancelRun
  <2>1. /\ master = "running" /\ master' = "idle" /\ task' = task /\ subs' = subs /\ pipe' = pipe
      BY <1>6 DEF CancelRun
  <2>2. Collecting'
      BY <1>0, <2>1 DEF IInv, Collecting
  <2> QED BY <1>0, <1>1, <2>1, <2>2, MasterFrame
<1>7. CASE ResetForNewTask
  <2>1. /\ master # "running" /\ master' = "idle" /\ task' = task /\ subs' = {} /\ pipe' = pipe
      BY <1>7 DEF ResetForNewTask
  <2>2. Collecting'
      BY <1>0, <2>1 DEF IInv, Collecting
  <2> QED BY <1>0, <1>1, <2>1, <2>2, MasterFrame
<1> QED BY <1>2, <1>3, <1>4, <1>5, <1>6, <1>7 DEF MasterStep
-----------------------------------------------------------------------------
(* Counting *)

\* A finite set and its image under a bijection.
LEMMA SameSize ==
    ASSUME NEW S, NEW T, IsFiniteSet(S), NEW f \in [S -> T],
           \A x, y \in S : f[x] = f[y] => x = y, \A z \in T : \E x \in S : f[x] = z
    PROVE  IsFiniteSet(T) /\ Cardinality(T) = Cardinality(S)
<1>1. f \in Injection(S, T)
    BY Fun_IsInj
<1>2. f \in Surjection(S, T)
    BY Fun_IsSurj
<1>3. f \in Bijection(S, T)
    BY <1>1, <1>2 DEF Bijection
<1> QED BY <1>3, FS_Bijection DEF ExistsBijection

\* Disjoint sets add up.
LEMMA SizesAdd ==
    ASSUME NEW S, NEW T, IsFiniteSet(S), IsFiniteSet(T), S \cap T = {}
    PROVE  /\ IsFiniteSet(S \cup T) /\ Cardinality(S) \in Nat /\ Cardinality(T) \in Nat
           /\ Cardinality(S \cup T) = Cardinality(S) + Cardinality(T)
<1>1. Cardinality(S) \in Nat /\ Cardinality(T) \in Nat
    BY FS_CardinalityType
<1>2. IsFiniteSet(S \cup T)
      /\ Cardinality(S \cup T) = Cardinality(S) + Cardinality(T) - Cardinality(S \cap T)
    BY FS_Union
<1>3. Cardinality(S \cap T) = 0
    BY FS_EmptySet
<1> QED BY <1>1, <1>2, <1>3

\* As many as there are numbers from 1.
LEMMA UpTo == ASSUME NEW n \in Nat PROVE IsFiniteSet(1..n) /\ Cardinality(1..n) = n
BY FS_Interval

\* The places of t in s.
At(s, t) == {i \in DOMAIN s : s[i] = t}

\* A sequence has at most its length of them, and none when t is not in it.
LEMMA CountType ==
    ASSUME NEW S, NEW s \in Seq(S), NEW t
    PROVE  /\ IsFiniteSet(At(s, t)) /\ At(s, t) \subseteq 1..Len(s) /\ Count(s, t) = Cardinality(At(s, t))
           /\ Count(s, t) \in 0..Len(s)
           /\ Count(s, t) > 0 <=> \E i \in 1..Len(s) : s[i] = t
<1>1. At(s, t) \subseteq 1..Len(s) /\ Len(s) \in Nat
    BY DEF At
<1>2. IsFiniteSet(At(s, t)) /\ Cardinality(At(s, t)) <= Len(s)
    BY <1>1, UpTo, FS_Subset
<1>3. Count(s, t) = Cardinality(At(s, t))
    BY DEF Count, At
<1>4. Cardinality(At(s, t)) \in Nat
    BY <1>2, FS_CardinalityType
<1>5. Cardinality(At(s, t)) = 0 <=> At(s, t) = {}
    BY <1>2, FS_EmptySet
<1>6. At(s, t) # {} <=> \E i \in 1..Len(s) : s[i] = t
    BY DEF At
<1> QED BY <1>1, <1>2, <1>3, <1>4, <1>5, <1>6

\* A sequence and what is joined to it.
LEMMA JoinAt ==
    ASSUME NEW S, NEW p \in Seq(S), NEW q \in Seq(S)
    PROVE  /\ p \o q \in Seq(S) /\ Len(p \o q) = Len(p) + Len(q) /\ Len(p) \in Nat
           /\ \A i \in 1..Len(p) : (p \o q)[i] = p[i]
OBVIOUS

\* Counts of two sequences add up in their concatenation.
LEMMA CountJoin ==
    ASSUME NEW S, NEW p \in Seq(S), NEW q \in Seq(S), NEW t
    PROVE  Count(p \o q, t) = Count(p, t) + Count(q, t)
<1> DEFINE u == p \o q
           B == {i \in (Len(p) + 1)..(Len(p) + Len(q)) : u[i] = t}
           f == [i \in At(q, t) |-> i + Len(p)]
<1>1. /\ u \in Seq(S) /\ Len(u) = Len(p) + Len(q) /\ Len(p) \in Nat /\ Len(q) \in Nat
      /\ \A i \in 1..Len(p) : u[i] = p[i]
      /\ \A i \in 1..Len(q) : u[i + Len(p)] = q[i]
    OBVIOUS
<1> HIDE DEF u
<1>2. IsFiniteSet(At(p, t)) /\ IsFiniteSet(At(q, t)) /\ At(q, t) \subseteq 1..Len(q)
    BY CountType
<1>3. f \in [At(q, t) -> B]
  <2>1. ASSUME NEW i \in At(q, t) PROVE i + Len(p) \in B
      BY <1>1, <1>2, <2>1 DEF At
  <2> QED BY <2>1
<1>4. \A i, j \in At(q, t) : f[i] = f[j] => i = j
    BY <1>1, <1>2
<1>5. \A z \in B : \E i \in At(q, t) : f[i] = z
  <2> TAKE z \in B
  <2>1. z - Len(p) \in 1..Len(q) /\ (z - Len(p)) + Len(p) = z
      BY <1>1
  <2>2. q[z - Len(p)] = u[z]
      BY <1>1, <2>1
  <2>3. z - Len(p) \in At(q, t)
      BY <2>1, <2>2 DEF At
  <2> QED BY <2>1, <2>3
<1> HIDE DEF f, B
<1>6. IsFiniteSet(B) /\ Cardinality(B) = Cardinality(At(q, t))
    BY <1>2, <1>3, <1>4, <1>5, SameSize
<1>7. At(u, t) = At(p, t) \cup B /\ At(p, t) \cap B = {}
  <2>1. At(u, t) = {i \in 1..(Len(p) + Len(q)) : u[i] = t}
      BY <1>1 DEF At
  <2>2. At(p, t) = {i \in 1..Len(p) : u[i] = t}
      BY <1>1 DEF At
  <2> QED BY <1>1, <2>1, <2>2 DEF B
<1>8. Cardinality(At(u, t)) = Cardinality(At(p, t)) + Cardinality(At(q, t))
    BY <1>2, <1>6, <1>7, SizesAdd
<1> QED BY <1>1, <1>8, CountType DEF u

\* ... and in the two parts it is cut into.
LEMMA CountSplit ==
    ASSUME NEW S, NEW s \in Seq(S), NEW n \in 0..Len(s), NEW t
    PROVE  /\ SubSeq(s, 1, n) \in Seq(S) /\ SubSeq(s, n + 1, Len(s)) \in Seq(S)
           /\ Len(SubSeq(s, 1, n)) = n /\ Len(SubSeq(s, n + 1, Len(s))) = Len(s) - n
           /\ Count(s, t) = Count(SubSeq(s, 1, n), t) + Count(SubSeq(s, n + 1, Len(s)), t)
           /\ \A i \in 1..Len(s) : \/ \E j \in 1..n : SubSeq(s, 1, n)[j] = s[i]
                                   \/ \E j \in 1..(Len(s) - n) : SubSeq(s, n + 1, Len(s))[j] = s[i]
<1> DEFINE p == SubSeq(s, 1, n)
           q == SubSeq(s, n + 1, Len(s))
<1>1. /\ p \in Seq(S) /\ Len(p) = n /\ \A i \in 1..n : p[i] = s[i]
    OBVIOUS
<1>2. /\ q \in Seq(S) /\ Len(q) = Len(s) - n /\ \A i \in 1..(Len(s) - n) : q[i] = s[i + n]
    OBVIOUS
<1> HIDE DEF p, q
<1>3. Len(p \o q) = Len(s) /\ p \o q \in Seq(S)
    BY <1>1, <1>2
<1>4. ASSUME NEW i \in 1..Len(s) PROVE (p \o q)[i] = s[i]
  <2>1. i <= n => (p \o q)[i] = p[i] /\ i \in 1..n
      BY <1>1, <1>2
  <2>2. ~(i <= n) => (p \o q)[i] = q[i - n] /\ i - n \in 1..(Len(s) - n) /\ (i - n) + n = i
      BY <1>1, <1>2
  <2> QED BY <1>1, <1>2, <2>1, <2>2
<1>5. p \o q = s
    BY <1>3, <1>4, SeqEqual
<1>6. Count(s, t) = Count(p, t) + Count(q, t)
    BY <1>1, <1>2, <1>5, CountJoin
<1>7. ASSUME NEW i \in 1..Len(s)
      PROVE  (\E j \in 1..n : p[j] = s[i]) \/ (\E j \in 1..(Len(s) - n) : q[j] = s[i])
  <2>1. CASE i <= n
      BY <1>1, <2>1
  <2>2. CASE ~(i <= n)
    <3>1. i - n \in 1..(Len(s) - n) /\ (i - n) + n = i
        BY <2>2
    <3> QED BY <1>2, <3>1
  <2> QED BY <2>1, <2>2
<1> QED BY <1>1, <1>2, <1>6, <1>7 DEF p, q

\* One report more.
LEMMA CountAppend ==
    ASSUME NEW S, NEW s \in Seq(S), NEW x \in S, NEW t
    PROVE  Count(Append(s, x), t) = Count(s, t) + IF x = t THEN 1 ELSE 0
<1>1. Append(s, x) = s \o <<x>> /\ <<x>> \in Seq(S)
    OBVIOUS
<1>2. At(<<x>>, t) = IF x = t THEN {1} ELSE {}
    BY DEF At
<1>3. Cardinality({1}) = 1 /\ Cardinality({}) = 0
    BY FS_Singleton, FS_EmptySet
<1>4. Count(<<x>>, t) = Cardinality(At(<<x>>, t))
    BY <1>1, CountType
<1>5. Count(s \o <<x>>, t) = Count(s, t) + Count(<<x>>, t)
    BY <1>1, CountJoin
<1> QED BY <1>1, <1>2, <1>3, <1>4, <1>5

\* n reports more.
LEMMA CountCopies ==
    ASSUME NEW S, NEW x \in S, NEW n \in Nat, NEW t
    PROVE  /\ Copies(x, n) \in Seq(S) /\ Len(Copies(x, n)) = n
           /\ \A i \in 1..n : Copies(x, n)[i] = x
           /\ Count(Copies(x, n), t) = IF x = t THEN n ELSE 0
<1>1. /\ Copies(x, n) \in Seq(S) /\ Len(Copies(x, n)) = n
      /\ \A i \in 1..n : Copies(x, n)[i] = x
    BY DEF Copies
<1>2. At(Copies(x, n), t) = IF x = t THEN 1..n ELSE {}
    BY <1>1 DEF At
<1>3. Cardinality(1..n) = n /\ Cardinality({}) = 0
    BY UpTo, FS_EmptySet
<1>4. Count(Copies(x, n), t) = IF x = t THEN n ELSE 0
    BY <1>1, <1>2, <1>3, CountType
<1> QED BY <1>1, <1>4
-----------------------------------------------------------------------------
(* Grouping *)

\* A set of numbers has a least one.
LEMMA LeastOf ==
    ASSUME NEW T, T \subseteq Nat, T # {}
    PROVE  \E x \in T : \A y \in T : x <= y
<1>1. PICK x \in T : \A y \in T : ~(<<y, x>> \in OpToRel(<, Nat))
    BY WFMin, NatLessThanWellFounded
<1>2. \A y \in T : ~(y < x)
    BY <1>1 DEF OpToRel
<1> QED BY <1>2

\* Whatever is in a sequence has a first place in it.
LEMMA FirstPlace ==
    ASSUME NEW S, NEW s \in Seq(S), NEW i \in 1..Len(s)
    PROVE  \E k \in Firsts(s) : s[k] = s[i]
<1> DEFINE T == {j \in 1..Len(s) : s[j] = s[i]}
<1>1. T \subseteq Nat /\ T # {}
    OBVIOUS
<1>2. \A j \in T : j \in 1..Len(s) /\ s[j] = s[i]
    OBVIOUS
<1>3. \A j \in 1..Len(s) : s[j] = s[i] => j \in T
    OBVIOUS
<1> HIDE DEF T
<1>4. PICK k \in T : \A j \in T : k <= j
    BY <1>1, LeastOf
<1>5. \A j \in 1..(k - 1) : j \in 1..Len(s) /\ ~(k <= j)
    BY <1>2, <1>4
<1>6. k \in Firsts(s)
    BY <1>2, <1>3, <1>4, <1>5 DEF Firsts
<1> QED BY <1>2, <1>4, <1>6

\* The numbers of F up to i.
Below(F, i) == {j \in F : j <= i}

\* A number's rank among those of a finite set.
LEMMA RankType ==
    ASSUME NEW F \in SUBSET Nat, IsFiniteSet(F), NEW i \in F
    PROVE  Cardinality(F) \in Nat /\ Cardinality(Below(F, i)) \in 1..Cardinality(F)
<1>1. Below(F, i) \subseteq F /\ i \in Below(F, i)
    BY DEF Below
<1>2. IsFiniteSet(Below(F, i)) /\ Cardinality(Below(F, i)) <= Cardinality(F)
    BY <1>1, FS_Subset
<1>3. Cardinality(Below(F, i)) \in Nat /\ Cardinality(F) \in Nat
    BY <1>2, FS_CardinalityType
<1>4. Cardinality(Below(F, i)) # 0
    BY <1>1, <1>2, FS_EmptySet
<1> QED BY <1>2, <1>3, <1>4

\* Two numbers have different ranks.
LEMMA RanksDiffer ==
    ASSUME NEW F \in SUBSET Nat, IsFiniteSet(F), NEW i \in F, NEW j \in F,
           Cardinality(Below(F, i)) = Cardinality(Below(F, j))
    PROVE  i = j
<1>1. ASSUME NEW a \in F, NEW b \in F, a < b PROVE Cardinality(Below(F, a)) # Cardinality(Below(F, b))
  <2>0. a \in Nat /\ b \in Nat /\ \A c \in F : c \in Nat
      OBVIOUS
  <2>1. b \in Below(F, b) /\ b \notin Below(F, a)
      BY <1>1, <2>0 DEF Below
  <2>4. \A c \in F : c <= a => c <= b
      BY <1>1, <2>0
  <2>5. Below(F, a) \subseteq Below(F, b)
      BY <2>4 DEF Below
  <2>2. Below(F, b) \subseteq F
      BY DEF Below
  <2>3. IsFiniteSet(Below(F, b))
      BY <2>2, FS_Subset
  <2> QED BY <2>1, <2>3, <2>5, FS_Subset
<1>2. ~(i < j) /\ ~(j < i)
    BY <1>1
<1> QED BY <1>2

\* Every rank is some number's.
LEMMA RanksTaken ==
    ASSUME NEW F \in SUBSET Nat, IsFiniteSet(F), NEW k \in 1..Cardinality(F)
    PROVE  \E i \in F : Cardinality(Below(F, i)) = k
<1> DEFINE f == [i \in F |-> Cardinality(Below(F, i))]
           n == Cardinality(F)
<1>1. f \in [F -> 1..n] /\ \A i, j \in F : f[i] = f[j] => i = j
    BY RankType, RanksDiffer
<1>2. f \in Injection(F, 1..n)
    BY <1>1, Fun_IsInj
<1>3. n \in Nat
    BY FS_CardinalityType
<1>4. IsFiniteSet(1..n) /\ Cardinality(1..n) = n
    BY <1>3, UpTo
<1> HIDE DEF f
<1>5. f \in Surjection(F, 1..n)
    BY <1>2, <1>4, FS_Injection
<1>6. PICK i \in F : f[i] = k
    BY <1>5 DEF Surjection
<1> QED BY <1>6 DEF f

\* The groups of a batch: each has its tool's reports, all of them, every tool of the
\* batch has one and only one, and there are no more than reports.
LEMMA Groups ==
    ASSUME NEW S, NEW s \in Seq(S)
    PROVE  /\ Grouped(s) \in Seq([tool : S, n : 1..Len(s)]) /\ Len(Grouped(s)) <= Len(s)
           /\ \A k \in 1..Len(Grouped(s)) : Grouped(s)[k].n = Count(s, Grouped(s)[k].tool)
           /\ \A i \in 1..Len(s) : \E k \in 1..Len(Grouped(s)) : Grouped(s)[k].tool = s[i]
           /\ \A k, l \in 1..Len(Grouped(s)) : Grouped(s)[k].tool = Grouped(s)[l].tool => k = l
<1> DEFINE F == Firsts(s)
           n == Cardinality(F)
           f == FirstSeen(s)
           G == Grouped(s)
<1>1. F \in SUBSET Nat /\ F \subseteq 1..Len(s) /\ \A i \in F : \A j \in 1..(i - 1) : s[j] # s[i]
    BY DEF Firsts
<1>2. IsFiniteSet(F) /\ n <= Len(s)
    BY <1>1, UpTo, FS_Subset
<1>3. n \in Nat
    BY <1>2, FS_CardinalityType
<1>4. \A i, j \in F : s[i] = s[j] => i = j
    BY <1>1
<1>5. ASSUME NEW k \in 1..n PROVE f[k] \in F /\ Cardinality(Below(F, f[k])) = k
  <2>1. f[k] = CHOOSE i \in F : Cardinality(Below(F, i)) = k
      BY DEF FirstSeen, Below
  <2>2. \E i \in F : Cardinality(Below(F, i)) = k
      BY <1>1, <1>2, RanksTaken
  <2> HIDE DEF F, f, n
  <2> QED BY <2>1, <2>2
<1>6. DOMAIN f = 1..n
    BY DEF FirstSeen
<1>7. DOMAIN G = 1..n /\ \A k \in 1..n : G[k] = [tool |-> s[f[k]], n |-> Count(s, s[f[k]])]
    BY <1>6 DEF Grouped
<1>8. \A k \in 1..n : G[k].tool = s[f[k]] /\ G[k].n = Count(s, s[f[k]])
    BY <1>7
<1>9. ASSUME NEW k \in 1..n PROVE G[k] \in [tool : S, n : 1..Len(s)]
  <2>1. f[k] \in 1..Len(s) /\ s[f[k]] \in S
      BY <1>1, <1>5
  <2>2. Count(s, s[f[k]]) \in 1..Len(s)
      BY <2>1, CountType
  <2> HIDE DEF G, f, F, n
  <2> QED BY <1>7, <2>1, <2>2
<1>10. G = [k \in 1..n |-> G[k]]
    BY <1>7 DEF Grouped
<1> HIDE DEF G, n
<1>11. G \in Seq([tool : S, n : 1..Len(s)]) /\ Len(G) = n
  <2> DEFINE R == [tool : S, n : 1..Len(s)]
  <2>1. \A k \in 1..n : G[k] \in R
      BY <1>9
  <2> HIDE DEF R
  <2>2. G \in [1..n -> R]
      BY <1>10, <2>1
  <2>3. G \in Seq(R) /\ Len(G) = n
      BY <1>3, <2>2
  <2> QED BY <2>3 DEF R
<1>12. ASSUME NEW i \in 1..Len(s) PROVE \E k \in 1..n : G[k].tool = s[i]
  <2>1. PICK j \in F : s[j] = s[i]
      BY FirstPlace
  <2>2. Cardinality(Below(F, j)) \in 1..n
      BY <1>1, <1>2, RankType DEF n
  <2>3. f[Cardinality(Below(F, j))] = j
      BY <1>1, <1>2, <1>5, <2>2, RanksDiffer
  <2> QED BY <1>8, <2>1, <2>2, <2>3
<1>13. ASSUME NEW k \in 1..n, NEW l \in 1..n, G[k].tool = G[l].tool PROVE k = l
  <2>1. f[k] = f[l]
      BY <1>4, <1>5, <1>8, <1>13
  <2> HIDE DEF f, F
  <2> QED BY <1>5, <2>1
<1>14. \A k \in 1..n : G[k].n = Count(s, G[k].tool)
    BY <1>8
<1> QED BY <1>2, <1>11, <1>12, <1>13, <1>14 DEF G
-----------------------------------------------------------------------------
(* The reports in work *)

\* A group of a batch, and the groups that the drivers have.
GroupType == [tool : Tools, n : 1..BatchSize]
Batches == {G \in [Drivers -> Seq(GroupType)] : \A g \in Drivers : Len(G[g]) <= BatchSize}
Groupings(w) == [g \in Drivers |-> w[g].groups]

\* The reports of t in the groups G: ReportsOf(t), of any groups.
Held(G, t) == {x \in Drivers \X (1..BatchSize) \X (1..BatchSize) :
                  x[2] \in DOMAIN G[x[1]] /\ G[x[1]][x[2]].tool = t /\ x[3] <= G[x[1]][x[2]].n}

\* The groups of a driver.
LEMMA GroupShape ==
    ASSUME NEW G \in Batches, NEW a \in Drivers
    PROVE  /\ G[a] \in Seq(GroupType) /\ Len(G[a]) \in 0..BatchSize /\ DOMAIN G[a] = 1..Len(G[a])
           /\ \A i \in 1..Len(G[a]) : /\ i \in 1..BatchSize /\ G[a][i] \in GroupType
                                     /\ G[a][i].tool \in Tools
                                     /\ G[a][i].n \in 1..BatchSize /\ G[a][i].n \in Nat
<1>1. G[a] \in Seq(GroupType) /\ Len(G[a]) <= BatchSize
    BY DEF Batches
<1>2. BatchSize \in Nat
    BY GuardianAssumption DEF GuardianAssumption
<1>3. Len(G[a]) \in 0..BatchSize /\ DOMAIN G[a] = 1..Len(G[a])
    BY <1>1, <1>2
<1>4. ASSUME NEW i \in 1..Len(G[a]) PROVE i \in 1..BatchSize /\ G[a][i] \in GroupType
    BY <1>1, <1>2
<1>5. \A x \in GroupType : x.tool \in Tools /\ x.n \in 1..BatchSize /\ x.n \in Nat
    BY <1>2 DEF GroupType
<1> QED BY <1>1, <1>3, <1>4, <1>5

\* A report in work is the triple of its driver, its group and its place.
LEMMA HeldTriple ==
    ASSUME NEW G \in Batches, NEW t
    PROVE  /\ \A x \in Held(G, t) : x = <<x[1], x[2], x[3]>>
           /\ \A a, i, j : <<a, i, j>> \in Held(G, t) <=>
                 /\ a \in Drivers /\ i \in 1..Len(G[a])
                 /\ G[a][i].tool = t /\ j \in 1..G[a][i].n
<1>1. \A x \in Held(G, t) : x = <<x[1], x[2], x[3]>>
    BY DEF Held
<1>3. \A a \in Drivers : \A i \in 1..Len(G[a]) : i \in 1..BatchSize /\ G[a][i].n \in 1..BatchSize
    BY GroupShape
<1>4. \A a \in Drivers : DOMAIN G[a] = 1..Len(G[a])
    BY GroupShape
<1>5. ASSUME NEW a, NEW i, NEW j, <<a, i, j>> \in Held(G, t)
      PROVE  a \in Drivers /\ i \in 1..Len(G[a]) /\ G[a][i].tool = t /\ j \in 1..G[a][i].n
  <2>1. /\ a \in Drivers /\ i \in 1..BatchSize /\ j \in 1..BatchSize
        /\ i \in DOMAIN G[a] /\ G[a][i].tool = t /\ j <= G[a][i].n
      BY <1>5 DEF Held
  <2> QED BY <1>3, <1>4, <2>1, GuardianAssumption DEF GuardianAssumption
<1>6. ASSUME NEW a, NEW i, NEW j,
             a \in Drivers /\ i \in 1..Len(G[a]) /\ G[a][i].tool = t /\ j \in 1..G[a][i].n
      PROVE  <<a, i, j>> \in Held(G, t)
  <2>1. i \in 1..BatchSize /\ j \in 1..BatchSize /\ j <= G[a][i].n /\ i \in DOMAIN G[a]
      BY <1>3, <1>4, <1>6, GuardianAssumption DEF GuardianAssumption
  <2> QED BY <1>6, <2>1 DEF Held
<1> QED BY <1>1, <1>5, <1>6

\* They are finitely many.
LEMMA HeldFinite ==
    ASSUME NEW G, NEW t
    PROVE  IsFiniteSet(Held(G, t)) /\ Cardinality(Held(G, t)) \in Nat
<1> DEFINE P == (Drivers \X (1..BatchSize)) \X (1..BatchSize)
           f == [x \in Held(G, t) |-> <<<<x[1], x[2]>>, x[3]>>]
<1>1. IsFiniteSet(Drivers) /\ BatchSize \in Nat
    BY GuardianAssumption DEF GuardianAssumption
<1>2. IsFiniteSet(1..BatchSize)
    BY <1>1, UpTo
<1>3. IsFiniteSet(Drivers \X (1..BatchSize))
    BY <1>1, <1>2, FS_Product
<1>4. IsFiniteSet(P)
    BY <1>2, <1>3, FS_Product
<1>5. \A x \in Held(G, t) : /\ x = <<x[1], x[2], x[3]>>
                            /\ x[1] \in Drivers /\ x[2] \in 1..BatchSize /\ x[3] \in 1..BatchSize
    BY DEF Held
<1>6. f \in [Held(G, t) -> P]
    BY <1>5
<1>7. \A x, y \in Held(G, t) : f[x] = f[y] => x = y
    BY <1>5
<1> HIDE DEF f, P
<1>8. f \in Injection(Held(G, t), P)
    BY <1>6, <1>7, Fun_IsInj
<1> QED BY <1>4, <1>8, FS_Injection, FS_CardinalityType

\* Driver g turns to its next group: the reports of the first are no longer in work.
LEMMA HeldNext ==
    ASSUME NEW G \in Batches, NEW H \in Batches, NEW g \in Drivers, NEW t,
           G[g] # <<>>, H[g] = Tail(G[g]), \A h \in Drivers \ {g} : H[h] = G[h]
    PROVE  Cardinality(Held(G, t))
             = Cardinality(Held(H, t)) + IF Head(G[g]).tool = t THEN Head(G[g]).n ELSE 0
<1> DEFINE A == Held(G, t)
           B == {x \in A : x[1] = g /\ x[2] = 1}
           C == A \ B
           first == Head(G[g])
           e == [x \in Held(H, t) |-> IF x[1] = g THEN <<g, x[2] + 1, x[3]>> ELSE x]
           b == [i \in 1..first.n |-> <<g, 1, i>>]
<1>0. G[g] \in Seq(GroupType)
    BY GroupShape
<1>1. Len(G[g]) \in Nat \ {0} /\ first = G[g][1] /\ first.n \in Nat
  <2>1. Len(G[g]) \in Nat \ {0} /\ first = G[g][1]
      BY <1>0
  <2>2. G[g][1].n \in Nat
      BY <2>1, GroupShape
  <2> QED BY <2>1, <2>2
<1>2. Len(H[g]) = Len(G[g]) - 1 /\ \A i \in 1..Len(H[g]) : H[g][i] = G[g][i + 1]
    BY <1>0, <1>1
<1>3. /\ \A x \in A : x = <<x[1], x[2], x[3]>>
      /\ \A a, i, j : <<a, i, j>> \in A <=>
            a \in Drivers /\ i \in 1..Len(G[a]) /\ G[a][i].tool = t /\ j \in 1..G[a][i].n
    BY HeldTriple
<1>4. /\ \A x \in Held(H, t) : x = <<x[1], x[2], x[3]>>
      /\ \A a, i, j : <<a, i, j>> \in Held(H, t) <=>
            a \in Drivers /\ i \in 1..Len(H[a]) /\ H[a][i].tool = t /\ j \in 1..H[a][i].n
    BY HeldTriple
<1>5. IsFiniteSet(A) /\ IsFiniteSet(Held(H, t)) /\ B \subseteq A /\ C \subseteq A
    BY HeldFinite
<1> HIDE DEF A, first
<1>6. Cardinality(C) = Cardinality(Held(H, t))
  <2>1. ASSUME NEW x \in Held(H, t) PROVE e[x] \in C
    <3>1. /\ x = <<x[1], x[2], x[3]>> /\ x[1] \in Drivers /\ x[2] \in 1..Len(H[x[1]])
          /\ H[x[1]][x[2]].tool = t /\ x[3] \in 1..H[x[1]][x[2]].n
        BY <1>4
    <3>2. CASE x[1] = g
      <4>0. x[2] \in 1..Len(H[g])
          BY <3>1, <3>2
      <4>1. /\ H[g][x[2]] = G[g][x[2] + 1] /\ x[2] + 1 \in 1..Len(G[g]) /\ x[2] + 1 # 1
          BY <1>1, <1>2, <4>0
      <4>2. <<g, x[2] + 1, x[3]>> \in A
          BY <1>3, <3>1, <3>2, <4>1
      <4> QED BY <3>2, <4>1, <4>2
    <3>3. CASE x[1] # g
      <4>1. H[x[1]] = G[x[1]]
          BY <3>1, <3>3
      <4>2. <<x[1], x[2], x[3]>> \in A
          BY <1>3, <3>1, <4>1
      <4> QED BY <3>1, <3>3, <4>2
    <3> QED BY <3>2, <3>3
  <2>2. ASSUME NEW x \in Held(H, t), NEW y \in Held(H, t), e[x] = e[y] PROVE x = y
    <3>1. /\ x = <<x[1], x[2], x[3]>> /\ y = <<y[1], y[2], y[3]>>
          /\ x[1] = g => x[2] \in Nat
          /\ y[1] = g => y[2] \in Nat
        BY <1>4
    <3>2. CASE x[1] = g /\ y[1] = g
        BY <2>2, <3>1, <3>2
    <3>3. CASE x[1] # g \/ y[1] # g
        BY <2>2, <3>1, <3>3
    <3> QED BY <3>2, <3>3
  <2>3. ASSUME NEW z \in C PROVE \E x \in Held(H, t) : e[x] = z
    <3>1. /\ z = <<z[1], z[2], z[3]>> /\ z[1] \in Drivers /\ z[2] \in 1..Len(G[z[1]])
          /\ G[z[1]][z[2]].tool = t /\ z[3] \in 1..G[z[1]][z[2]].n
        BY <1>3
    <3>2. CASE z[1] = g
      <4>1. z[2] # 1
          BY <3>2
      <4>2. z[2] - 1 \in 1..Len(H[g]) /\ (z[2] - 1) + 1 = z[2]
          BY <1>1, <1>2, <3>1, <3>2, <4>1
      <4>3. H[g][z[2] - 1] = G[g][z[2]]
          BY <1>2, <4>2
      <4>4. <<g, z[2] - 1, z[3]>> \in Held(H, t)
          BY <1>4, <3>1, <3>2, <4>2, <4>3
      <4>5. e[<<g, z[2] - 1, z[3]>>] = z
          BY <3>1, <3>2, <4>2, <4>4
      <4> QED BY <4>4, <4>5
    <3>3. CASE z[1] # g
      <4>1. z \in Held(H, t)
          BY <1>4, <3>1, <3>3
      <4> QED BY <3>3, <4>1
    <3> QED BY <3>2, <3>3
  <2>4. e \in [Held(H, t) -> C]
      BY <2>1
  <2> HIDE DEF e, C
  <2> QED BY <1>5, <2>2, <2>3, <2>4, SameSize
<1>7. Cardinality(B) = IF first.tool = t THEN first.n ELSE 0
  <2>1. CASE first.tool = t
    <3>1. ASSUME NEW i \in 1..first.n PROVE b[i] \in B
        BY <1>1, <1>3, <2>1
    <3>2. ASSUME NEW z \in B PROVE \E i \in 1..first.n : b[i] = z
        BY <1>1, <1>3
    <3>3. b \in [1..first.n -> B] /\ \A i, j \in 1..first.n : b[i] = b[j] => i = j
        BY <3>1
    <3>4. IsFiniteSet(1..first.n) /\ Cardinality(1..first.n) = first.n
        BY <1>1, UpTo
    <3> HIDE DEF b, B
    <3>5. Cardinality(B) = Cardinality(1..first.n)
        BY <3>2, <3>3, <3>4, SameSize
    <3> QED BY <2>1, <3>4, <3>5
  <2>2. CASE first.tool # t
    <3>1. B = {}
        BY <1>1, <1>3, <2>2
    <3> QED BY <2>2, <3>1, FS_EmptySet
  <2> QED BY <2>1, <2>2
<1>8. A = C \cup B /\ C \cap B = {}
    BY <1>5
<1>9. IsFiniteSet(C) /\ IsFiniteSet(B)
    BY <1>5, FS_Subset
<1> HIDE DEF C, B, e, b
<1>10. Cardinality(A) = Cardinality(C) + Cardinality(B)
    BY <1>8, <1>9, SizesAdd
<1> QED BY <1>6, <1>7, <1>10 DEF A, first

\* Driver g, which had none, takes the groups of a batch s.
LEMMA HeldTaken ==
    ASSUME NEW G \in Batches, NEW H \in Batches, NEW g \in Drivers, NEW t \in Tools,
           NEW s \in Seq(Tools), G[g] = <<>>, H[g] = Grouped(s),
           \A h \in Drivers \ {g} : H[h] = G[h]
    PROVE  Cardinality(Held(H, t)) = Cardinality(Held(G, t)) + Count(s, t)
<1> DEFINE A == Held(G, t)
           B == Held(H, t) \ A
<1>1. Len(G[g]) = 0
    OBVIOUS
<1>2. /\ Len(H[g]) \in Nat
      /\ \A k \in 1..Len(H[g]) : H[g][k].n = Count(s, H[g][k].tool)
      /\ \A i \in 1..Len(s) : \E k \in 1..Len(H[g]) : H[g][k].tool = s[i]
      /\ \A k, l \in 1..Len(H[g]) : H[g][k].tool = H[g][l].tool => k = l
  <2>1. Len(H[g]) \in Nat
      BY GroupShape
  <2>2. /\ \A k \in 1..Len(Grouped(s)) : Grouped(s)[k].n = Count(s, Grouped(s)[k].tool)
        /\ \A i \in 1..Len(s) : \E k \in 1..Len(Grouped(s)) : Grouped(s)[k].tool = s[i]
        /\ \A k, l \in 1..Len(Grouped(s)) : Grouped(s)[k].tool = Grouped(s)[l].tool => k = l
      BY Groups
  <2> QED BY <2>1, <2>2
<1>3. /\ \A x \in A : x = <<x[1], x[2], x[3]>>
      /\ \A a, i, j : <<a, i, j>> \in A <=>
            a \in Drivers /\ i \in 1..Len(G[a]) /\ G[a][i].tool = t /\ j \in 1..G[a][i].n
    BY HeldTriple
<1>4. /\ \A x \in Held(H, t) : x = <<x[1], x[2], x[3]>>
      /\ \A a, i, j : <<a, i, j>> \in Held(H, t) <=>
            a \in Drivers /\ i \in 1..Len(H[a]) /\ H[a][i].tool = t /\ j \in 1..H[a][i].n
    BY HeldTriple
<1>5. IsFiniteSet(A) /\ IsFiniteSet(Held(H, t))
    BY HeldFinite
<1> HIDE DEF A
<1>6. ASSUME NEW x \in A PROVE x \in Held(H, t) /\ x[1] # g
  <2>1. /\ x = <<x[1], x[2], x[3]>> /\ x[1] \in Drivers /\ x[2] \in 1..Len(G[x[1]])
        /\ G[x[1]][x[2]].tool = t /\ x[3] \in 1..G[x[1]][x[2]].n
      BY <1>3
  <2>2. x[1] # g
      BY <1>1, <2>1
  <2>3. H[x[1]] = G[x[1]]
      BY <2>1, <2>2
  <2> QED BY <1>4, <2>1, <2>2, <2>3
<1>7. ASSUME NEW x \in B
      PROVE  /\ x = <<x[1], x[2], x[3]>> /\ x[1] = g /\ x[2] \in 1..Len(H[g])
             /\ H[g][x[2]].tool = t /\ x[3] \in 1..H[g][x[2]].n
  <2>1. /\ x = <<x[1], x[2], x[3]>> /\ x[1] \in Drivers /\ x[2] \in 1..Len(H[x[1]])
        /\ H[x[1]][x[2]].tool = t /\ x[3] \in 1..H[x[1]][x[2]].n
      BY <1>4
  <2>2. ASSUME x[1] # g PROVE FALSE
    <3>1. H[x[1]] = G[x[1]]
        BY <2>1, <2>2
    <3> QED BY <1>3, <2>1, <3>1
  <2> QED BY <2>1, <2>2
<1>8. Count(s, t) \in Nat /\ (Count(s, t) > 0 <=> \E i \in 1..Len(s) : s[i] = t)
    BY CountType
<1>9. Cardinality(B) = Count(s, t)
  <2>1. CASE Count(s, t) = 0
    <3>1. ASSUME NEW x \in B PROVE FALSE
      <4>1. x[2] \in 1..Len(H[g]) /\ H[g][x[2]].n = 0 /\ x[3] \in 1..H[g][x[2]].n
          BY <1>2, <1>7, <2>1
      <4> QED BY <4>1
    <3>2. B = {}
        BY <3>1
    <3> QED BY <2>1, <3>2, FS_EmptySet
  <2>2. CASE Count(s, t) # 0
    <3>1. PICK k \in 1..Len(H[g]) : H[g][k].tool = t
        BY <1>2, <1>8, <2>2
    <3> DEFINE n == Count(s, t)
               b == [i \in 1..n |-> <<g, k, i>>]
    <3>2. H[g][k].n = n
        BY <1>2, <3>1
    <3>3. ASSUME NEW i \in 1..n PROVE b[i] \in B
      <4>1. <<g, k, i>> \in Held(H, t)
          BY <1>4, <3>1, <3>2
      <4>2. <<g, k, i>> \notin A
          BY <1>6
      <4> QED BY <4>1, <4>2
    <3>4. ASSUME NEW z \in B PROVE \E i \in 1..n : b[i] = z
      <4>1. z[2] = k
          BY <1>2, <1>7, <3>1
      <4> QED BY <1>7, <3>2, <4>1
    <3>5. b \in [1..n -> B] /\ \A i, j \in 1..n : b[i] = b[j] => i = j
        BY <3>3
    <3>6. IsFiniteSet(1..n) /\ Cardinality(1..n) = n
        BY <1>8, UpTo
    <3> HIDE DEF b, B, n
    <3>7. Cardinality(B) = Cardinality(1..n)
        BY <3>4, <3>5, <3>6, SameSize
    <3> QED BY <3>6, <3>7 DEF n
  <2> QED BY <2>1, <2>2
<1>10. Held(H, t) = A \cup B /\ A \cap B = {}
    BY <1>6
<1>11. IsFiniteSet(B)
    BY <1>5, FS_Difference
<1> HIDE DEF B
<1>12. Cardinality(Held(H, t)) = Cardinality(A) + Cardinality(B)
    BY <1>5, <1>10, <1>11, SizesAdd
<1> QED BY <1>9, <1>12 DEF A
-----------------------------------------------------------------------------
(* The reports *)

\* The types of the guardian's state.
GuardianTypes ==
    /\ mail \in Seq(Tools) /\ pending \in Seq(Tools)
    /\ open \in [Tools -> Nat] /\ attempts \in [Tools -> Nat]
    /\ Groupings(work) \in Batches
    /\ \A g \in Drivers : work[g].at = "idle" <=> work[g].groups = <<>>

\* A report of t waits, or a driver has one that it has not repaired.
Waits(t) == \E i \in 1..Len(pending) : pending[i] = t
HasUnrepaired(g, t) ==
    \E k \in 1..Len(work[g].groups) :
        work[g].groups[k].tool = t /\ ~(work[g].at = "commit" /\ k = 1)
Awaits(t) == Waits(t) \/ \E g \in Drivers : HasUnrepaired(g, t)

\* A tool with attempts is known, has not used them up, and will come up again.
Retrying ==
    \A t \in Tools : attempts[t] > 0 => attempts[t] < AutoFixMaxAttempts /\ t \in Routed /\ Awaits(t)

\* What the pipelines have to report is about tools.
ToolsNamed ==
    \A p \in Tasks : /\ \A e \in pipe[p].exps : e.tool \in Tools
                     /\ pipe[p].at = "notes" => pipe[p].todo # {} /\ pipe[p].todo \subseteq pipe[p].exps

RInv == GuardianTypes /\ ReportsKept /\ Retrying /\ ToolsNamed

\* The reports in work, before and after a step.
LEMMA InWorkIs ==
    \A t : /\ InWork(t) = Cardinality(Held(Groupings(work), t))
           /\ InWork(t)' = Cardinality(Held(Groupings(work'), t))
<1>1. ASSUME NEW t PROVE ReportsOf(t) = Held(Groupings(work), t)
    BY DEF ReportsOf, Held, Groupings
<1>2. ASSUME NEW t PROVE ReportsOf(t)' = Held(Groupings(work'), t)
    BY DEF ReportsOf, Held, Groupings
<1> QED BY <1>1, <1>2 DEF InWork

\* ... are a number, and more than none if a driver has some.
LEMMA InWorkType ==
    ASSUME GuardianTypes, NEW t
    PROVE  /\ InWork(t) \in Nat
           /\ (\E g \in Drivers : HasUnrepaired(g, t)) => InWork(t) > 0
<1> DEFINE G == Groupings(work)
<1>1. G \in Batches /\ InWork(t) = Cardinality(Held(G, t))
    BY InWorkIs DEF GuardianTypes
<1>2. \A g \in Drivers : G[g] = work[g].groups
    BY DEF Groupings
<1> HIDE DEF G
<1>3. IsFiniteSet(Held(G, t)) /\ Cardinality(Held(G, t)) \in Nat
    BY HeldFinite
<1>4. ASSUME NEW g \in Drivers, HasUnrepaired(g, t) PROVE Held(G, t) # {}
  <2>1. PICK k \in 1..Len(G[g]) : G[g][k].tool = t
      BY <1>2, <1>4 DEF HasUnrepaired
  <2>2. 1 \in 1..G[g][k].n
      BY <1>1, GroupShape
  <2>3. <<g, k, 1>> \in Held(G, t)
      BY <1>1, <2>1, <2>2, HeldTriple
  <2> QED BY <2>3
<1> QED BY <1>1, <1>3, <1>4, FS_EmptySet

\* A step that leaves queue, attempts and drivers alone.
LEMMA ApartKeeps ==
    ASSUME RInv, UNCHANGED <<pending, attempts, open, work>>, mail' \in Seq(Tools), ToolsNamed'
    PROVE  RInv'
<1>1. GuardianTypes'
    BY DEF RInv, GuardianTypes
<1>2. ReportsKept'
    BY DEF RInv, ReportsKept, InWork, ReportsOf
<1>3. Retrying'
    BY DEF RInv, Retrying, Awaits, Waits, HasUnrepaired
<1> QED BY <1>1, <1>2, <1>3 DEF RInv

\* What a driver has, in the terms of the lemmas on groups.
LEMMA DriverShape ==
    ASSUME RInv, NEW g \in Drivers
    PROVE  /\ Groupings(work) \in Batches /\ Groupings(work)[g] = work[g].groups
           /\ work[g].groups \in Seq(GroupType)
           /\ Groupings(work')[g] = work'[g].groups
<1>1. Groupings(work) \in Batches
    BY DEF RInv, GuardianTypes
<1>2. Groupings(work)[g] = work[g].groups /\ Groupings(work')[g] = work'[g].groups
    BY DEF Groupings
<1> QED BY <1>1, <1>2, GroupShape

\* A batch is taken from the front of a queue that has all open reports not in work.
LEMMA TakenKeeps ==
    ASSUME IInv, RInv, NEW g \in Drivers, NEW queue \in Seq(Tools), TakeBatch(g, queue),
           attempts' = attempts, mail' \in Seq(Tools), pipe' = pipe,
           open' \in [Tools -> Nat], \A t \in Tools : open'[t] = Count(queue, t) + InWork(t),
           \A i \in 1..Len(pending) : \E j \in 1..Len(queue) : queue[j] = pending[i]
    PROVE  RInv'
<1> DEFINE n == IF Len(queue) < BatchSize THEN Len(queue) ELSE BatchSize
           s == SubSeq(queue, 1, n)
           G == Groupings(work)
           H == Groupings(work')
<1>1. /\ work[g].at = "idle" /\ queue # <<>>
      /\ work' = [work EXCEPT ![g].at = "group", ![g].groups = Grouped(s)]
      /\ pending' = SubSeq(queue, n + 1, Len(queue))
    BY DEF TakeBatch
<1>2. /\ n \in 0..Len(queue) /\ n \in 1..BatchSize
  <2>1. Len(queue) \in Nat \ {0}
      BY <1>1, EmptySeq
  <2> QED BY <2>1, GuardianAssumption DEF GuardianAssumption
<1> HIDE DEF n
<1>3. /\ s \in Seq(Tools) /\ pending' \in Seq(Tools)
      /\ Len(s) = n /\ Len(pending') = Len(queue) - n
      /\ \A i \in 1..Len(queue) : \/ \E j \in 1..Len(s) : s[j] = queue[i]
                                  \/ \E j \in 1..Len(pending') : pending'[j] = queue[i]
      /\ \A t : Count(queue, t) = Count(s, t) + Count(pending', t)
  <2>1. pending' = SubSeq(queue, n + 1, Len(queue))
      BY <1>1
  <2>2. ASSUME NEW t PROVE Count(queue, t) = Count(s, t) + Count(pending', t)
    <3>1. Count(queue, t) = Count(s, t) + Count(SubSeq(queue, n + 1, Len(queue)), t)
        BY <1>2, CountSplit
    <3> QED BY <2>1, <3>1
  <2>3. /\ s \in Seq(Tools) /\ pending' \in Seq(Tools)
        /\ Len(s) = n /\ Len(pending') = Len(queue) - n
      BY <1>2, <2>1, CountSplit
  <2>4. \A i \in 1..Len(queue) : \/ \E j \in 1..n : s[j] = queue[i]
                                 \/ \E j \in 1..(Len(queue) - n) : pending'[j] = queue[i]
      BY <1>2, <2>1, CountSplit
  <2> QED BY <2>2, <2>3, <2>4
<1> HIDE DEF s
<1>4. DOMAIN work = Drivers /\ \A h \in Drivers : DOMAIN work[h] = WorkFields
    BY DEF IInv, Shapes
<1>5. /\ work'[g].groups = Grouped(s) /\ work'[g].at = "group"
      /\ \A h \in Drivers \ {g} : work'[h] = work[h]
    BY <1>1, <1>4 DEF WorkFields
<1>6. /\ Grouped(s) \in Seq([tool : Tools, n : 1..n]) /\ Len(Grouped(s)) <= n
      /\ \A i \in 1..Len(s) : \E k \in 1..Len(Grouped(s)) : Grouped(s)[k].tool = s[i]
    BY <1>3, Groups
<1>7. Grouped(s) \in Seq(GroupType) /\ Len(Grouped(s)) <= BatchSize
  <2>1. [tool : Tools, n : 1..n] \subseteq GroupType
      BY <1>2, GuardianAssumption DEF GroupType, GuardianAssumption
  <2> HIDE DEF GroupType
  <2>2. Grouped(s) \in Seq(GroupType)
      BY <1>6, <2>1, SeqMonotonic
  <2> QED BY <1>2, <1>6, <2>2, GuardianAssumption DEF GuardianAssumption
<1>8. /\ G \in Batches /\ G[g] = work[g].groups /\ H[g] = Grouped(s)
      /\ \A h \in Drivers \ {g} : H[h] = G[h]
    BY <1>5, DriverShape DEF Groupings
<1>9. H \in Batches
  <2>1. \A h \in Drivers : G[h] \in Seq(GroupType) /\ Len(G[h]) <= BatchSize
      BY <1>8 DEF Batches
  <2>2. \A h \in Drivers : H[h] \in Seq(GroupType) /\ Len(H[h]) <= BatchSize
      BY <1>7, <1>8, <2>1
  <2> QED BY <2>2 DEF Batches, Groupings
<1>10. Grouped(s) # <<>>
  <2>1. 1 \in 1..Len(s)
      BY <1>2, <1>3
  <2>2. PICK k \in 1..Len(Grouped(s)) : Grouped(s)[k].tool = s[1]
      BY <1>6, <2>1
  <2> QED BY <2>2, <1>7
<1>11. GuardianTypes'
    BY <1>3, <1>5, <1>9, <1>10 DEF RInv, GuardianTypes
<1>12. ReportsKept'
  <2> SUFFICES ASSUME NEW t \in Tools PROVE open'[t] = Count(pending', t) + InWork(t)'
      BY DEF ReportsKept, Count
  <2>1. G[g] = <<>>
      BY <1>1, <1>8 DEF RInv, GuardianTypes
  <2>2. Cardinality(Held(H, t)) = Cardinality(Held(G, t)) + Count(s, t)
      BY <1>3, <1>8, <1>9, <2>1, HeldTaken
  <2>3. InWork(t) = Cardinality(Held(G, t)) /\ InWork(t)' = Cardinality(Held(H, t))
      BY InWorkIs
  <2>4. Cardinality(Held(G, t)) \in Nat /\ Count(s, t) \in Nat /\ Count(pending', t) \in Nat
      BY <1>3, CountType, HeldFinite
  <2> QED BY <1>3, <2>2, <2>3, <2>4
<1>13. ASSUME NEW t \in Tools, Awaits(t) PROVE Awaits(t)'
  <2>1. ASSUME NEW k \in 1..Len(Grouped(s)), Grouped(s)[k].tool = t PROVE HasUnrepaired(g, t)'
      BY <1>5, <2>1 DEF HasUnrepaired
  <2>2. CASE Waits(t)
    <3>1. PICK i \in 1..Len(pending) : pending[i] = t
        BY <2>2 DEF Waits
    <3>2. PICK j \in 1..Len(queue) : queue[j] = t
        BY <3>1
    <3>3. CASE \E l \in 1..Len(s) : s[l] = t
        BY <1>6, <2>1, <3>3 DEF Awaits
    <3>4. CASE \E l \in 1..Len(pending') : pending'[l] = t
        BY <3>4 DEF Awaits, Waits
    <3> QED BY <1>3, <3>2, <3>3, <3>4
  <2>3. ASSUME NEW h \in Drivers, HasUnrepaired(h, t) PROVE Awaits(t)'
    <3>1. h # g
      <4>1. h = g => Len(work[h].groups) = 0
          BY <1>1 DEF RInv, GuardianTypes
      <4> QED BY <2>3, <4>1 DEF HasUnrepaired
    <3>2. work'[h] = work[h]
        BY <1>5, <3>1
    <3> QED BY <2>3, <3>2 DEF Awaits, HasUnrepaired
  <2> QED BY <1>13, <2>2, <2>3 DEF Awaits
<1>14. Retrying'
    BY <1>13 DEF RInv, Retrying
<1>15. ToolsNamed'
    BY DEF RInv, ToolsNamed
<1> QED BY <1>11, <1>12, <1>14, <1>15 DEF RInv

\* A driver that is at work goes on with the same group.
LEMMA GoesOnKeeps ==
    ASSUME IInv, RInv, NEW g \in Drivers, NEW at, Goto(g, at), at # "idle", work[g].at # "idle",
           UNCHANGED <<mail, pending, open, pipe>>,
           (UNCHANGED attempts /\ at # "commit") \/ (Changed(g) /\ at = "commit")
    PROVE  RInv'
<1>1. DOMAIN work = Drivers /\ \A h \in Drivers : DOMAIN work[h] = WorkFields
    BY DEF IInv, Shapes
<1>2. /\ work'[g].groups = work[g].groups /\ work'[g].at = at
      /\ \A h \in Drivers \ {g} : work'[h] = work[h]
    BY <1>1 DEF Goto, WorkFields
<1>3. Groupings(work') = Groupings(work)
  <2>1. \A h \in Drivers : work'[h].groups = work[h].groups
      BY <1>2
  <2> QED BY <2>1 DEF Groupings
<1>4. /\ attempts' \in [Tools -> Nat]
      /\ \A t \in Tools : attempts'[t] = attempts[t] \/ attempts'[t] = 0
      /\ at = "commit" => \A t \in Tools : t = Group(g).tool => attempts'[t] = 0
  <2>0. attempts \in [Tools -> Nat]
      BY DEF RInv, GuardianTypes
  <2>1. CASE UNCHANGED attempts /\ at # "commit"
      BY <2>0, <2>1
  <2>2. CASE Changed(g) /\ at = "commit"
    <3> DEFINE u == Group(g).tool
    <3>1. attempts' = [attempts EXCEPT ![u] = 0]
        BY <2>2 DEF Changed
    <3> HIDE DEF u
    <3>2. attempts' \in [Tools -> Nat] /\ \A t \in Tools : attempts'[t] = IF t = u THEN 0 ELSE attempts[t]
        BY <2>0, <3>1
    <3> QED BY <3>2 DEF u
  <2> QED BY <2>1, <2>2
<1>5. GuardianTypes'
    BY <1>2, <1>3, <1>4 DEF RInv, GuardianTypes
<1>6. ReportsKept'
  <2>1. \A t : InWork(t)' = InWork(t)
      BY <1>3, InWorkIs
  <2> QED BY <2>1 DEF RInv, ReportsKept, Count
<1>7. ASSUME NEW t \in Tools, Awaits(t), at = "commit" => t # Group(g).tool PROVE Awaits(t)'
  <2>1. ASSUME Waits(t) PROVE Awaits(t)'
      BY <2>1 DEF Awaits, Waits
  <2>2. ASSUME NEW h \in Drivers, h # g, HasUnrepaired(h, t) PROVE Awaits(t)'
      BY <1>2, <2>2 DEF Awaits, HasUnrepaired
  <2>3. ASSUME HasUnrepaired(g, t) PROVE Awaits(t)'
    <3>1. PICK k \in 1..Len(work[g].groups) : work[g].groups[k].tool = t
        BY <2>3 DEF HasUnrepaired
    <3>2. k = 1 => work[g].groups[k] = Group(g)
        BY <3>1, DriverShape DEF Group
    <3>3. ~(at = "commit" /\ k = 1)
        BY <1>7, <3>1, <3>2
    <3>4. HasUnrepaired(g, t)'
        BY <1>2, <3>1, <3>3 DEF HasUnrepaired
    <3> QED BY <3>4 DEF Awaits
  <2> QED BY <1>7, <2>1, <2>2, <2>3 DEF Awaits
<1>8. Retrying'
  <2> SUFFICES ASSUME NEW t \in Tools, attempts'[t] > 0
               PROVE  attempts'[t] < AutoFixMaxAttempts /\ t \in Routed /\ Awaits(t)'
      BY DEF Retrying
  <2>1. attempts'[t] = attempts[t]
      BY <1>4
  <2>2. at = "commit" => t # Group(g).tool
      BY <1>4
  <2>3. attempts[t] < AutoFixMaxAttempts /\ t \in Routed /\ Awaits(t)
      BY <2>1 DEF RInv, Retrying
  <2> QED BY <1>7, <2>1, <2>2, <2>3
<1>9. ToolsNamed'
    BY DEF RInv, ToolsNamed
<1> QED BY <1>5, <1>6, <1>8, <1>9 DEF RInv

\* A driver is through with a group, whose reports are settled or queued again.
LEMMA NextKeeps ==
    ASSUME IInv, RInv, NEW g \in Drivers, work[g].at # "idle", NextGroup(g),
           UNCHANGED <<mail, pipe>>, pending' \in Seq(Tools), attempts' \in [Tools -> Nat],
           open' \in [Tools -> Nat],
           \A i \in 1..Len(pending) : \E j \in 1..Len(pending') : pending'[j] = pending[i],
           \A t \in Tools : Count(pending', t) - open'[t]
                              = Count(pending, t) - open[t] + IF Group(g).tool = t THEN Group(g).n ELSE 0,
           \A t \in Tools :
               \/ attempts'[t] = 0
               \/ attempts'[t] = attempts[t] /\ (t # Group(g).tool \/ work[g].at = "commit")
               \/ attempts'[t] < AutoFixMaxAttempts /\ t \in Routed /\ Waits(t)'
    PROVE  RInv'
<1> DEFINE G == Groupings(work)
           H == Groupings(work')
<1>1. DOMAIN work = Drivers /\ \A h \in Drivers : DOMAIN work[h] = WorkFields
    BY DEF IInv, Shapes
<1>2. /\ work'[g].groups = Tail(work[g].groups)
      /\ work'[g].at = IF Len(work[g].groups) = 1 THEN "idle" ELSE "group"
      /\ \A h \in Drivers \ {g} : work'[h] = work[h]
    BY <1>1 DEF NextGroup, WorkFields
<1>3. /\ work[g].groups \in Seq(GroupType) /\ work[g].groups # <<>>
    BY DriverShape DEF RInv, GuardianTypes
<1>4. /\ Len(work[g].groups) \in Nat \ {0} /\ Group(g) = work[g].groups[1]
      /\ Tail(work[g].groups) \in Seq(GroupType)
      /\ Len(Tail(work[g].groups)) = Len(work[g].groups) - 1
      /\ \A k \in 1..(Len(work[g].groups) - 1) : Tail(work[g].groups)[k] = work[g].groups[k + 1]
    BY <1>3 DEF Group
<1>5. /\ G \in Batches /\ G[g] = work[g].groups /\ H[g] = Tail(work[g].groups)
      /\ \A h \in Drivers \ {g} : H[h] = G[h]
    BY <1>2, DriverShape DEF Groupings
<1>6. H \in Batches
  <2>1. \A h \in Drivers : G[h] \in Seq(GroupType) /\ Len(G[h]) <= BatchSize
      BY <1>5 DEF Batches
  <2>2. Len(H[g]) <= BatchSize
      BY <1>4, <1>5, <2>1, GuardianAssumption DEF GuardianAssumption
  <2>3. \A h \in Drivers : H[h] \in Seq(GroupType) /\ Len(H[h]) <= BatchSize
      BY <1>4, <1>5, <2>1, <2>2
  <2> QED BY <2>3 DEF Batches, Groupings
<1>7. GuardianTypes'
  <2>0. Tail(work[g].groups) = <<>> <=> Len(Tail(work[g].groups)) = 0
      BY <1>4, EmptySeq
  <2>1. work'[g].at = "idle" <=> work'[g].groups = <<>>
      BY <1>2, <1>4, <2>0
  <2>2. \A h \in Drivers : work'[h].at = "idle" <=> work'[h].groups = <<>>
      BY <1>2, <2>1 DEF RInv, GuardianTypes
  <2> QED BY <1>6, <2>2 DEF RInv, GuardianTypes
<1>8. ReportsKept'
  <2> SUFFICES ASSUME NEW t \in Tools PROVE open'[t] = Count(pending', t) + InWork(t)'
      BY DEF ReportsKept, Count
  <2> DEFINE o  == open[t]
             oo == open'[t]
             c  == Count(pending, t)
             cc == Count(pending', t)
             w  == Cardinality(Held(G, t))
             ww == Cardinality(Held(H, t))
             d  == IF Group(g).tool = t THEN Group(g).n ELSE 0
  <2>1. w = ww + d
      BY <1>3, <1>5, <1>6, HeldNext DEF Group
  <2>2. InWork(t) = w /\ InWork(t)' = ww
      BY InWorkIs
  <2>3. c \in Nat /\ cc \in Nat
    <3>1. pending \in Seq(Tools) /\ Len(pending) \in Nat /\ Len(pending') \in Nat
        BY DEF RInv, GuardianTypes
    <3>2. Count(pending, t) \in 0..Len(pending)
        BY <3>1, CountType
    <3>3. Count(pending', t) \in 0..Len(pending')
        BY CountType
    <3> QED BY <3>1, <3>2, <3>3
  <2>4. o \in Nat /\ oo \in Nat
      BY DEF RInv, GuardianTypes
  <2>5. w \in Nat /\ ww \in Nat
      BY HeldFinite
  <2>6. d \in Nat
      BY <1>4, <1>5, GroupShape
  <2>7. o = c + w
      BY <2>2 DEF RInv, ReportsKept
  <2>8. cc - oo = c - o + d
      OBVIOUS
  <2> HIDE DEF o, oo, c, cc, w, ww, d
  <2>9. oo = cc + ww
      BY <2>1, <2>3, <2>4, <2>5, <2>6, <2>7, <2>8
  <2> QED BY <2>2, <2>9 DEF oo, cc
<1>9. ASSUME NEW t \in Tools, Awaits(t), t # Group(g).tool \/ work[g].at = "commit" PROVE Awaits(t)'
  <2>1. ASSUME Waits(t) PROVE Awaits(t)'
    <3>1. PICK i \in 1..Len(pending) : pending[i] = t
        BY <2>1 DEF Waits
    <3>2. PICK j \in 1..Len(pending') : pending'[j] = t
        BY <3>1
    <3> QED BY <3>2 DEF Awaits, Waits
  <2>2. ASSUME NEW h \in Drivers, h # g, HasUnrepaired(h, t) PROVE Awaits(t)'
    <3>1. work'[h] = work[h]
        BY <1>2, <2>2
    <3>2. HasUnrepaired(h, t)'
        BY <2>2, <3>1 DEF HasUnrepaired
    <3> QED BY <3>2 DEF Awaits
  <2>3. ASSUME HasUnrepaired(g, t) PROVE Awaits(t)'
    <3>1. PICK k \in 1..Len(work[g].groups) :
             work[g].groups[k].tool = t /\ ~(work[g].at = "commit" /\ k = 1)
        BY <2>3 DEF HasUnrepaired
    <3>2. k # 1
        BY <1>4, <1>9, <3>1
    <3>3. k - 1 \in 1..(Len(work[g].groups) - 1) /\ (k - 1) + 1 = k
        BY <1>4, <3>1, <3>2
    <3>4. k - 1 \in 1..Len(work'[g].groups) /\ work'[g].groups[k - 1].tool = t
        BY <1>2, <1>4, <3>1, <3>3
    <3>5. HasUnrepaired(g, t)'
        BY <1>2, <3>4 DEF HasUnrepaired
    <3> QED BY <3>5 DEF Awaits
  <2> QED BY <1>9, <2>1, <2>2, <2>3 DEF Awaits
<1>10. Retrying'
  <2> SUFFICES ASSUME NEW t \in Tools, attempts'[t] > 0
               PROVE  attempts'[t] < AutoFixMaxAttempts /\ t \in Routed /\ Awaits(t)'
      BY DEF Retrying
  <2>1. CASE attempts'[t] = attempts[t] /\ (t # Group(g).tool \/ work[g].at = "commit")
    <3>1. attempts[t] < AutoFixMaxAttempts /\ t \in Routed /\ Awaits(t)
        BY <2>1 DEF RInv, Retrying
    <3> QED BY <1>9, <2>1, <3>1
  <2>2. CASE attempts'[t] < AutoFixMaxAttempts /\ t \in Routed /\ Waits(t)'
      BY <2>2 DEF Awaits
  <2>3. attempts'[t] # 0
      OBVIOUS
  <2> QED BY <2>1, <2>2, <2>3
<1>11. ToolsNamed'
    BY DEF RInv, ToolsNamed
<1> QED BY <1>7, <1>8, <1>10, <1>11 DEF RInv
-----------------------------------------------------------------------------
(* The steps and the reports *)

\* The reports of the group that a driver is at are in work.
LEMMA HeadInWork ==
    ASSUME RInv, NEW g \in Drivers, work[g].at # "idle"
    PROVE  /\ Group(g).tool \in Tools /\ Group(g).n \in Nat \ {0}
           /\ InWork(Group(g).tool) >= Group(g).n /\ InWork(Group(g).tool) \in Nat
<1> DEFINE G == Groupings(work)
           H == [G EXCEPT ![g] = Tail(@)]
           t == Group(g).tool
<1>1. /\ G \in Batches /\ G[g] = work[g].groups /\ G[g] # <<>> /\ G[g] \in Seq(GroupType)
    BY DriverShape DEF RInv, GuardianTypes
<1>2. Len(G[g]) \in Nat \ {0} /\ Group(g) = G[g][1] /\ Head(G[g]) = G[g][1]
    BY <1>1 DEF Group
<1>3. t \in Tools /\ Group(g).n \in Nat \ {0}
  <2>1. G[g][1].tool \in Tools /\ G[g][1].n \in 1..BatchSize
      BY <1>1, <1>2, GroupShape
  <2> QED BY <1>2, <2>1, GuardianAssumption DEF GuardianAssumption
<1>4. Tail(G[g]) \in Seq(GroupType) /\ Len(Tail(G[g])) = Len(G[g]) - 1
    BY <1>1, <1>2
<1>5. G \in [Drivers -> Seq(GroupType)] /\ \A h \in Drivers : Len(G[h]) <= BatchSize
    BY <1>1 DEF Batches
<1> HIDE DEF G
<1>6. H \in [Drivers -> Seq(GroupType)] /\ H[g] = Tail(G[g]) /\ \A h \in Drivers \ {g} : H[h] = G[h]
    BY <1>4, <1>5
<1> HIDE DEF H
<1>7. H \in Batches
  <2>1. Len(H[g]) <= BatchSize
      BY <1>2, <1>4, <1>5, <1>6, GuardianAssumption DEF GuardianAssumption
  <2>2. \A h \in Drivers : Len(H[h]) <= BatchSize
      BY <1>5, <1>6, <2>1
  <2> QED BY <1>6, <2>2 DEF Batches
<1>8. Cardinality(Held(G, t)) = Cardinality(Held(H, t)) + IF Head(G[g]).tool = t THEN Head(G[g]).n ELSE 0
    BY <1>1, <1>6, <1>7, HeldNext
<1>9. Cardinality(Held(G, t)) = Cardinality(Held(H, t)) + Group(g).n
    BY <1>2, <1>8
<1>10. Cardinality(Held(G, t)) \in Nat /\ Cardinality(Held(H, t)) \in Nat
    BY HeldFinite
<1>11. InWork(t) = Cardinality(Held(G, t))
    BY InWorkIs DEF G
<1> QED BY <1>3, <1>9, <1>10, <1>11

\* Settling the group takes its reports out of the open ones.
LEMMA SettleIs ==
    ASSUME RInv, NEW g \in Drivers, work[g].at # "idle", Settle(g)
    PROVE  /\ open' \in [Tools -> Nat]
           /\ \A t \in Tools : /\ open[t] \in Nat /\ open'[t] \in Nat
                               /\ open[t] - open'[t] = IF Group(g).tool = t THEN Group(g).n ELSE 0
<1> DEFINE u == Group(g).tool
           n == Group(g).n
<1>1. u \in Tools /\ n \in Nat /\ InWork(u) >= n /\ InWork(u) \in Nat
    BY HeadInWork
<1>2. open \in [Tools -> Nat] /\ pending \in Seq(Tools)
    BY DEF RInv, GuardianTypes
<1>3. open' = [open EXCEPT ![u] = @ - n]
    BY DEF Settle
<1>4. open[u] - n \in Nat
  <2>1. open[u] = Count(pending, u) + InWork(u)
      BY <1>1 DEF RInv, ReportsKept
  <2>2. Count(pending, u) \in Nat
    <3>1. Count(pending, u) \in 0..Len(pending) /\ Len(pending) \in Nat
        BY <1>2, CountType
    <3> QED BY <3>1
  <2> QED BY <1>1, <2>1, <2>2
<1> HIDE DEF u, n
<1>5. open' \in [Tools -> Nat] /\ \A t \in Tools : open'[t] = IF t = u THEN open[t] - n ELSE open[t]
    BY <1>1, <1>2, <1>3, <1>4
<1>6. ASSUME NEW t \in Tools PROVE open[t] - open'[t] = IF u = t THEN n ELSE 0
  <2>1. open[t] \in Nat /\ open'[t] \in Nat
      BY <1>2, <1>5
  <2> QED BY <1>1, <1>5, <2>1
<1> QED BY <1>2, <1>5, <1>6 DEF u, n

\* A group is settled, repaired or given up.
LEMMA SettledKeeps ==
    ASSUME IInv, RInv, NEW g \in Drivers, work[g].at # "idle", NextGroup(g), Settle(g),
           UNCHANGED <<mail, pending, pipe>>, attempts' \in [Tools -> Nat],
           \A t \in Tools :
               \/ attempts'[t] = 0
               \/ attempts'[t] = attempts[t] /\ (t # Group(g).tool \/ work[g].at = "commit")
    PROVE  RInv'
<1>1. pending \in Seq(Tools) /\ pending' = pending
    BY DEF RInv, GuardianTypes
<1>2. open' \in [Tools -> Nat]
    BY SettleIs
<1>3. ASSUME NEW t \in Tools
      PROVE  Count(pending', t) - open'[t]
               = Count(pending, t) - open[t] + IF Group(g).tool = t THEN Group(g).n ELSE 0
  <2> DEFINE d == IF Group(g).tool = t THEN Group(g).n ELSE 0
             c == Count(pending, t)
             o == open[t]
             p == open'[t]
  <2>1. o - p = d /\ o \in Nat /\ p \in Nat
      BY SettleIs
  <2>2. c \in Nat
    <3>1. Count(pending, t) \in 0..Len(pending) /\ Len(pending) \in Nat
        BY <1>1, CountType
    <3> QED BY <3>1
  <2>3. Count(pending', t) = c
      BY <1>1
  <2> HIDE DEF d, c, o, p
  <2>4. c - p = c - o + d
      BY <2>1, <2>2
  <2> QED BY <2>3, <2>4 DEF d, c, o, p
<1> QED BY <1>1, <1>2, <1>3, NextKeeps

\* A repair that failed puts its reports back.
LEMMA RequeuedKeeps ==
    ASSUME IInv, RInv, NEW g \in Drivers, Repairing(g), NextGroup(g), UNCHANGED <<mail, open, pipe>>,
           attempts' = [attempts EXCEPT ![Group(g).tool] = @ + 1],
           attempts[Group(g).tool] + 1 < AutoFixMaxAttempts,
           pending' = pending \o Copies(Group(g).tool, Group(g).n)
    PROVE  RInv'
<1> DEFINE u == Group(g).tool
           n == Group(g).n
           m == Copies(u, n)
<1>1. work[g].at # "idle" /\ u \in Routed
    BY DEF Repairing
<1>2. u \in Tools /\ n \in Nat \ {0}
    BY <1>1, HeadInWork
<1>3. /\ pending \in Seq(Tools) /\ attempts \in [Tools -> Nat] /\ open \in [Tools -> Nat]
    BY DEF RInv, GuardianTypes
<1>4. /\ attempts' = [attempts EXCEPT ![u] = @ + 1] /\ attempts[u] + 1 < AutoFixMaxAttempts
      /\ pending' = pending \o m
    OBVIOUS
<1>5. /\ m \in Seq(Tools) /\ Len(m) = n /\ \A i \in 1..n : m[i] = u
  <2>1. m = [i \in 1..n |-> u]
      BY DEF Copies
  <2> HIDE DEF m, u, n
  <2>2. m \in [1..n -> Tools]
      BY <1>2, <2>1
  <2>3. m \in Seq(Tools) /\ Len(m) = n
      BY <1>2, <2>2
  <2> QED BY <2>1, <2>3
<1>6. \A t \in Tools : Count(m, t) = IF u = t THEN n ELSE 0
    BY <1>2, CountCopies
<1> HIDE DEF u, n, m
<1>7. /\ pending' \in Seq(Tools) /\ Len(pending') = Len(pending) + n
      /\ \A i \in 1..Len(pending) : pending'[i] = pending[i] /\ i \in 1..Len(pending')
  <2>1. pending' \in Seq(Tools) /\ Len(pending') = Len(pending) + n /\ Len(pending) \in Nat
    <3>1. /\ pending \o m \in Seq(Tools) /\ Len(pending) \in Nat
          /\ Len(pending \o m) = Len(pending) + Len(m)
        BY <1>3, <1>5, JoinAt
    <3> QED BY <1>4, <1>5, <3>1
  <2>2. ASSUME NEW i \in 1..Len(pending) PROVE pending'[i] = pending[i]
    <3>1. (pending \o m)[i] = pending[i]
        BY <1>3, <1>5, JoinAt
    <3> QED BY <1>4, <3>1
  <2> QED BY <1>2, <2>1, <2>2
<1>8. Len(pending) + 1 \in 1..Len(pending') /\ pending'[Len(pending) + 1] = u
  <2>1. Len(pending) \in Nat /\ 1 \in 1..n
      BY <1>2, <1>3
  <2>2. pending'[Len(pending) + 1] = m[1]
      BY <1>3, <1>4, <1>5, <2>1
  <2> QED BY <1>2, <1>5, <1>7, <2>1, <2>2
<1>9. /\ attempts' \in [Tools -> Nat]
      /\ \A t \in Tools : attempts'[t] = IF t = u THEN attempts[t] + 1 ELSE attempts[t]
    BY <1>2, <1>3, <1>4
<1>10. ASSUME NEW t \in Tools
       PROVE  Count(pending', t) - open'[t]
                = Count(pending, t) - open[t] + IF u = t THEN n ELSE 0
  <2>1. Count(pending', t) = Count(pending, t) + IF u = t THEN n ELSE 0
      BY <1>3, <1>4, <1>5, <1>6, CountJoin
  <2>2. Count(pending, t) \in Nat
    <3>1. Count(pending, t) \in 0..Len(pending) /\ Len(pending) \in Nat
        BY <1>3, CountType
    <3> QED BY <3>1
  <2>3. open'[t] = open[t] /\ open[t] \in Nat
      BY <1>3
  <2>4. (IF u = t THEN n ELSE 0) \in Nat
      BY <1>2
  <2> QED BY <2>1, <2>2, <2>3, <2>4
<1>11. \E i \in 1..Len(pending') : pending'[i] = u
    BY <1>8
<1>12. ASSUME NEW t \in Tools
       PROVE  \/ attempts'[t] = attempts[t] /\ (t # u \/ work[g].at = "commit")
              \/ attempts'[t] < AutoFixMaxAttempts /\ t \in Routed /\ Waits(t)'
  <2>1. CASE t = u
    <3>1. Waits(t)'
        BY <1>11, <2>1 DEF Waits
    <3>2. attempts'[t] < AutoFixMaxAttempts
        BY <1>4, <1>9, <2>1
    <3>3. u \in Routed
        BY <1>1 DEF u
    <3> QED BY <2>1, <3>1, <3>2, <3>3
  <2>2. CASE t # u
      BY <1>9, <2>2
  <2> QED BY <2>1, <2>2
<1>13. open' \in [Tools -> Nat]
    BY <1>3
<1>14. \A i \in 1..Len(pending) : \E j \in 1..Len(pending') : pending'[j] = pending[i]
    BY <1>7
<1> QED BY <1>1, <1>7, <1>9, <1>10, <1>12, <1>13, <1>14, NextKeeps DEF u, n

\* Every step of the guardian.
LEMMA GuardianReports == ASSUME IInv, RInv, GuardianStep PROVE RInv'
<1>0. pipe' = pipe
    BY DEF GuardianStep
<1>1. /\ mail \in Seq(Tools) /\ pending \in Seq(Tools) /\ open \in [Tools -> Nat]
      /\ attempts \in [Tools -> Nat] /\ "loop" \in Drivers /\ "tool" \in Drivers
    BY GuardianAssumption DEF RInv, GuardianTypes, GuardianAssumption
<1>2. CASE ListenerMessage
  <2> DEFINE x == Head(mail)
  <2>1. /\ mail # <<>> /\ TakeBatch("loop", Append(pending, x)) /\ attempts' = attempts
        /\ open' = [open EXCEPT ![x] = @ + 1] /\ mail' = Tail(mail)
      BY <1>2 DEF ListenerMessage, ReceiveReport
  <2>2. x \in Tools /\ mail' \in Seq(Tools)
      BY <1>1, <2>1
  <2> HIDE DEF x
  <2>3. /\ Append(pending, x) \in Seq(Tools) /\ Len(Append(pending, x)) = Len(pending) + 1
        /\ \A i \in 1..Len(pending) : Append(pending, x)[i] = pending[i] /\ i \in 1..(Len(pending) + 1)
      BY <1>1, <2>2
  <2>4. /\ open' \in [Tools -> Nat]
        /\ \A t \in Tools : open'[t] = IF t = x THEN open[t] + 1 ELSE open[t]
      BY <1>1, <2>1, <2>2
  <2>5. ASSUME NEW t \in Tools PROVE open'[t] = Count(Append(pending, x), t) + InWork(t)
    <3>1. open[t] = Count(pending, t) + InWork(t)
        BY DEF RInv, ReportsKept
    <3>2. Count(Append(pending, x), t) = Count(pending, t) + IF x = t THEN 1 ELSE 0
        BY <1>1, <2>2, CountAppend
    <3>3. Count(pending, t) \in Nat /\ InWork(t) \in Nat
      <4>1. Count(pending, t) \in 0..Len(pending) /\ Len(pending) \in Nat
          BY <1>1, CountType
      <4>2. InWork(t) \in Nat
          BY InWorkType DEF RInv
      <4> QED BY <4>1, <4>2
    <3>4. CASE t = x
        BY <2>4, <3>1, <3>2, <3>3, <3>4
    <3>5. CASE t # x
        BY <2>4, <3>1, <3>2, <3>3, <3>5
    <3> QED BY <3>4, <3>5
  <2>6. \A i \in 1..Len(pending) : \E j \in 1..Len(Append(pending, x)) : Append(pending, x)[j] = pending[i]
      BY <2>3
  <2> QED BY <1>0, <1>1, <2>1, <2>2, <2>3, <2>4, <2>5, <2>6, TakenKeeps
<1>3. CASE ListenerTimeout \/ ProcessHandler
  <2>1. /\ \E g \in Drivers : TakeBatch(g, pending)
        /\ UNCHANGED <<mail, attempts, open>>
      BY <1>1, <1>3 DEF ListenerTimeout, ProcessHandler
  <2>2. \A t \in Tools : open[t] = Count(pending, t) + InWork(t)
      BY DEF RInv, ReportsKept
  <2>3. \A i \in 1..Len(pending) : \E j \in 1..Len(pending) : pending[j] = pending[i]
      OBVIOUS
  <2> QED BY <1>0, <1>1, <2>1, <2>2, <2>3, TakenKeeps
<1>4. ASSUME NEW g \in Drivers, UnknownTool(g) PROVE RInv'
  <2>1. /\ work[g].at # "idle" /\ Group(g).tool \notin Routed /\ Settle(g) /\ NextGroup(g)
        /\ UNCHANGED <<mail, pending, attempts>>
      BY <1>4 DEF UnknownTool
  <2>2. \A t \in Tools : t \notin Routed => attempts[t] = 0
      BY <1>1 DEF RInv, Retrying
  <2>3. \A t \in Tools : attempts'[t] = 0 \/ (attempts'[t] = attempts[t] /\ t # Group(g).tool)
      BY <2>1, <2>2
  <2> QED BY <1>0, <1>1, <2>1, <2>3, SettledKeeps
<1>5. ASSUME NEW g \in Drivers, FixFailed(g) PROVE RInv'
  <2> DEFINE u == Group(g).tool
             last == attempts[u] + 1 >= AutoFixMaxAttempts
  <2>1. /\ Repairing(g) /\ NextGroup(g) /\ mail' = mail
        /\ attempts' = [attempts EXCEPT ![u] = IF last THEN 0 ELSE @ + 1]
        /\ last => Settle(g) /\ pending' = pending
        /\ ~last => pending' = pending \o Copies(u, Group(g).n) /\ open' = open
      BY <1>5 DEF FixFailed, Escalate
  <2>2. work[g].at # "idle"
      BY <2>1 DEF Repairing
  <2>3. u \in Tools
      BY <2>2, HeadInWork
  <2>4. CASE last
    <3>1. attempts' = [attempts EXCEPT ![u] = 0]
        BY <2>1, <2>4
    <3>2. Settle(g) /\ pending' = pending
        BY <2>1, <2>4
    <3> HIDE DEF last, u
    <3>3. /\ attempts' \in [Tools -> Nat]
          /\ \A t \in Tools : attempts'[t] = 0 \/ (attempts'[t] = attempts[t] /\ t # u)
        BY <1>1, <3>1
    <3> QED BY <1>0, <2>1, <2>2, <3>2, <3>3, SettledKeeps DEF u
  <2>5. CASE ~last
    <3>1. attempts' = [attempts EXCEPT ![u] = @ + 1]
        BY <2>1, <2>5
    <3>2. attempts[u] + 1 < AutoFixMaxAttempts
        BY <1>1, <2>3, <2>5, GuardianAssumption DEF GuardianAssumption
    <3>3. pending' = pending \o Copies(u, Group(g).n) /\ open' = open
        BY <2>1, <2>5
    <3> HIDE DEF last
    <3> QED BY <1>0, <2>1, <3>1, <3>2, <3>3, RequeuedKeeps
  <2> QED BY <2>4, <2>5
<1>6. ASSUME NEW g \in Drivers, CommitFixVersion(g) PROVE RInv'
  <2>1. /\ work[g].at = "commit" /\ Settle(g) /\ NextGroup(g)
        /\ UNCHANGED <<mail, pending, attempts>>
      BY <1>6 DEF CommitFixVersion
  <2> QED BY <1>0, <1>1, <2>1, SettledKeeps
<1>7. ASSUME NEW g \in Drivers, FixFound(g) PROVE RInv'
  <2>1. /\ work[g].at = "group" /\ UNCHANGED <<mail, pending, open>>
        /\ (Goto(g, "saving") /\ UNCHANGED attempts) \/ (Goto(g, "commit") /\ Changed(g))
      BY <1>7 DEF FixFound, Repairing
  <2> QED BY <1>0, <2>1, GoesOnKeeps
<1>8. ASSUME NEW g \in Drivers, PersistFix(g) \/ FixStored(g) PROVE RInv'
  <2>1. /\ work[g].at \in {"saving", "saved"} /\ UNCHANGED <<mail, pending, open, attempts>>
        /\ Goto(g, "saved") \/ Goto(g, "marking")
      BY <1>8 DEF PersistFix, FixStored
  <2> QED BY <1>0, <2>1, GoesOnKeeps
<1>9. ASSUME NEW g \in Drivers, ResolveEntries(g) \/ PersistRaises(g) PROVE RInv'
  <2>1. /\ work[g].at \in {"saved", "marking"} /\ UNCHANGED <<mail, pending, open>>
        /\ Goto(g, "commit") /\ Changed(g)
      BY <1>9 DEF ResolveEntries, PersistRaises
  <2> QED BY <1>0, <2>1, GoesOnKeeps
<1> QED BY <1>2, <1>3, <1>4, <1>5, <1>6, <1>7, <1>8, <1>9 DEF GuardianStep, Driven
-----------------------------------------------------------------------------
(* The pipelines, the master and the users *)

\* An experience is of a tool.
LEMMA ExperiencesTools == \A e \in Experiences : e.tool \in Tools
BY DEF Experiences

\* A pipeline in its notes has experiences left to note, of the ones it was given.
LEMMA NotesRest ==
    ASSUME NEW r, DOMAIN r = PipeFields, NEW rest, NEW n, n = NotesPhase(r, rest), n.at = "notes"
    PROVE  n.todo = rest /\ rest # {}
<1>1. CASE rest # {}
    BY <1>1 DEF NotesPhase, Phase, PipeFields
<1>2. CASE rest = {}
  <2>1. n = MemoryPhase(r, r.exps)
      BY <1>2 DEF NotesPhase
  <2>2. n.at # "notes"
      BY <2>1, MemoryAt
  <2> QED BY <2>2
<1> QED BY <1>1, <1>2

\* A step of a pipeline that leaves queue, attempts and drivers alone.
LEMMA NamedKeeps ==
    ASSUME RInv, NEW p \in Tasks, NEW r, Turns(p, r),
           UNCHANGED <<pending, attempts, open, work>>, mail' \in Seq(Tools),
           \A e \in r.exps : e.tool \in Tools,
           r.at = "notes" => r.todo # {} /\ r.todo \subseteq r.exps
    PROVE  RInv'
<1>1. ToolsNamed'
    BY DEF RInv, ToolsNamed, Turns
<1> QED BY <1>1, ApartKeeps

\* ... because it turns to its next phase, which is none of the notes.
LEMMA PhaseNamed ==
    ASSUME IInv, RInv, NEW p \in Tasks, NEW r, pipe' = [pipe EXCEPT ![p] = r],
           r.exps = pipe[p].exps, r.at # "notes",
           UNCHANGED <<mail, pending, attempts, open, work>>
    PROVE  RInv'
<1>1. Turns(p, r)
    BY PipeTurns
<1>2. mail' \in Seq(Tools)
    BY DEF RInv, GuardianTypes
<1>3. \A e \in r.exps : e.tool \in Tools
    BY DEF RInv, ToolsNamed
<1> QED BY <1>1, <1>2, <1>3, NamedKeeps

\* ... or goes on to another place.
LEMMA GotoNamed ==
    ASSUME IInv, RInv, NEW p \in Tasks, NEW at, PipeGoto(p, at), at # "notes",
           UNCHANGED <<mail, pending, attempts, open, work>>
    PROVE  RInv'
<1> DEFINE r == [pipe[p] EXCEPT !.at = at]
<1>1. DOMAIN pipe = Tasks /\ DOMAIN pipe[p] = PipeFields
    BY DEF IInv, Shapes
<1>2. pipe' = [pipe EXCEPT ![p] = r]
    BY <1>1 DEF PipeGoto
<1>3. r.at = at /\ r.exps = pipe[p].exps
    BY <1>1 DEF PipeFields
<1> HIDE DEF r
<1> QED BY <1>2, <1>3, PhaseNamed

\* ... or to its next experience.
LEMMA NextExperienceNamed ==
    ASSUME IInv, RInv, NEW p \in Tasks, NextExperience(p),
           UNCHANGED <<mail, pending, attempts, open, work>>
    PROVE  RInv'
<1> DEFINE rest == pipe[p].todo \ {pipe[p].exp}
<1>1. PICK r : r = MemoryPhase(pipe[p], rest)
    OBVIOUS
<1>2. DOMAIN pipe = Tasks /\ DOMAIN pipe[p] = PipeFields
    BY DEF IInv, Shapes
<1>3. pipe' = [pipe EXCEPT ![p] = r]
    BY <1>1 DEF NextExperience
<1>4. r.exps = pipe[p].exps /\ r.at \in {"memory", "promote", "done"}
    BY <1>1, <1>2, MemoryAt
<1> QED BY <1>3, <1>4, PhaseNamed

\* What is reported to the guardian.
LEMMA ReportedType ==
    ASSUME RInv, NEW t \in Tools, NEW n \in Nat, Reported(t, n)
    PROVE  mail' \in Seq(Tools)
<1> DEFINE m == [i \in 1..n |-> t]
<1>1. m \in [1..n -> Tools]
    OBVIOUS
<1>2. m \in Seq(Tools)
    BY <1>1
<1>3. mail \in Seq(Tools) /\ mail' = mail \o m
    BY DEF RInv, GuardianTypes, Reported
<1> HIDE DEF m
<1>4. mail \o m \in Seq(Tools)
    BY <1>2, <1>3, JoinAt
<1> QED BY <1>3, <1>4

\* Every step of the pipelines.
LEMMA PipelineReports == ASSUME IInv, RInv, PipelineStep PROVE RInv'
<1>0. PICK p \in Tasks : PipeStep(p) \/ EntryRaises(p)
    BY DEF PipelineStep
<1>1. /\ DOMAIN pipe = Tasks /\ DOMAIN pipe[p] = PipeFields /\ mail \in Seq(Tools)
      /\ \A e \in pipe[p].exps : e.tool \in Tools
    BY DEF IInv, Shapes, RInv, GuardianTypes, ToolsNamed
<1>2. CASE Collect(p)
  <2>1. PICK r : r = Started(Experiences)
      OBVIOUS
  <2>2. PICK s, rest : /\ s = [NoPipe EXCEPT !.exps = Experiences] /\ r = NotesPhase(s, rest)
                       /\ rest \subseteq Experiences
      BY <2>1 DEF Started
  <2>3. DOMAIN s = PipeFields /\ s.exps = Experiences
      BY <2>2 DEF NoPipe, PipeFields
  <2>4. r.exps = Experiences
      BY <2>2, <2>3, NotesAt
  <2>5. r.at = "notes" => r.todo # {} /\ r.todo \subseteq r.exps
      BY <2>2, <2>3, <2>4, NotesRest
  <2>6. Turns(p, r)
      BY <1>2, <2>1, PipeTurns DEF Collect
  <2>7. UNCHANGED <<mail, pending, attempts, open, work>>
      BY <1>2 DEF Collect, KeepGuardian, guardianVars
  <2> QED BY <1>1, <2>4, <2>5, <2>6, <2>7, ExperiencesTools, NamedKeeps
<1>3. CASE UpdateToolNotes(p)
  <2>1. PICK e : e = CHOOSE x \in pipe[p].todo : TRUE
      OBVIOUS
  <2>2. pipe[p].at = "notes" /\ e \in pipe[p].todo /\ pipe[p].todo \subseteq pipe[p].exps
      BY <1>3, <2>1 DEF UpdateToolNotes, RInv, ToolsNamed
  <2>3. PICK rest : rest = pipe[p].todo \ {e}
      OBVIOUS
  <2>4. PICK r : r = NotesPhase(pipe[p], rest)
      OBVIOUS
  <2>5. /\ pipe' = [pipe EXCEPT ![p] = r]
        /\ Reported(e.tool, 1) \/ mail' = mail
        /\ UNCHANGED <<pending, attempts, work, open>>
      BY <1>3, <2>1, <2>3, <2>4 DEF UpdateToolNotes
  <2>6. Turns(p, r)
      BY <2>5, PipeTurns
  <2>7. r.exps = pipe[p].exps
      BY <1>1, <2>4, NotesAt
  <2>8. r.at = "notes" => r.todo # {} /\ r.todo \subseteq r.exps
    <3>1. r.at = "notes" => r.todo = rest /\ rest # {}
        BY <1>1, <2>4, NotesRest
    <3>2. rest \subseteq pipe[p].exps
        BY <2>2, <2>3
    <3> QED BY <2>7, <3>1, <3>2
  <2>9. mail' \in Seq(Tools)
    <3>1. e.tool \in Tools /\ 1 \in Nat
        BY <1>1, <2>2
    <3>2. CASE Reported(e.tool, 1)
        BY <3>1, <3>2, ReportedType
    <3>3. CASE mail' = mail
        BY <1>1, <3>3
    <3> QED BY <2>5, <3>2, <3>3
  <2> QED BY <1>1, <2>5, <2>6, <2>7, <2>8, <2>9, NamedKeeps
<1>4. CASE AddExperience(p)
  <2>1. PICK e : e = CHOOSE x \in pipe[p].todo : TRUE
      OBVIOUS
  <2>2. PICK r : r = [pipe[p] EXCEPT !.at = "experience", !.exp = e]
      OBVIOUS
  <2>3. pipe' = [pipe EXCEPT ![p] = r]
    <3>1. pipe' = [pipe EXCEPT ![p].at = "experience", ![p].exp = e]
        BY <1>4, <2>1 DEF AddExperience
    <3> QED BY <1>1, <2>2, <3>1
  <2>4. r.exps = pipe[p].exps /\ r.at = "experience"
      BY <1>1, <2>2 DEF PipeFields
  <2>5. UNCHANGED <<mail, pending, attempts, open, work>>
      BY <1>4 DEF AddExperience, KeepGuardian, guardianVars
  <2> QED BY <2>3, <2>4, <2>5, PhaseNamed
<1>5. CASE EntryStored(p) \/ EntryRaises(p)
  <2>1. /\ PipeGoto(p, "trigger") \/ NextExperience(p)
        /\ UNCHANGED <<mail, pending, attempts, open, work>>
      BY <1>5 DEF EntryStored, EntryRaises, KeepGuardian, guardianVars
  <2> QED BY <2>1, GotoNamed, NextExperienceNamed
<1>6. CASE TriggerVersion(p)
  <2>1. /\ PipeGoto(p, "fix") \/ NextExperience(p)
        /\ UNCHANGED <<mail, pending, attempts, open, work>>
      BY <1>6 DEF TriggerVersion
  <2> QED BY <2>1, GotoNamed, NextExperienceNamed
<1>7. CASE FixEntry(p)
  <2>1. pipe' = pipe /\ UNCHANGED <<mail, pending, attempts, open, work>>
      BY <1>7 DEF FixEntry, KeepGuardian, guardianVars
  <2>2. ToolsNamed'
      BY <2>1 DEF RInv, ToolsNamed
  <2> QED BY <1>1, <2>1, <2>2, ApartKeeps
<1>8. CASE UpdateToolVersions(p)
  <2>1. PICK rest : pipe' = [pipe EXCEPT ![p] = VersionsPhase(pipe[p], rest)]
      BY <1>8 DEF UpdateToolVersions
  <2>2. PICK r : r = VersionsPhase(pipe[p], rest)
      OBVIOUS
  <2>3. r.exps = pipe[p].exps /\ r.at \in {"promote", "done"}
      BY <1>1, <2>2, VersionsAt
  <2>4. UNCHANGED <<mail, pending, attempts, open, work>>
      BY <1>8 DEF UpdateToolVersions
  <2> QED BY <2>1, <2>2, <2>3, <2>4, PhaseNamed
<1> QED BY <1>0, <1>2, <1>3, <1>4, <1>5, <1>6, <1>7, <1>8 DEF PipeStep

\* Every step of the master: a sub-agent's failures are reported.
LEMMA MasterReports == ASSUME IInv, RInv, MasterStep PROVE RInv'
<1>1. DOMAIN pipe = Tasks /\ (\A p \in Tasks : DOMAIN pipe[p] = PipeFields) /\ mail \in Seq(Tools)
    BY DEF IInv, Shapes, RInv, GuardianTypes
<1>2. CASE RunSubAgent
  <2>1. PICK t \in Tools, r \in Results : Reported(t, r[2])
      BY <1>2 DEF RunSubAgent
  <2>2. r[2] \in Nat
      BY EvolutionAssumption DEF EvolutionAssumption
  <2>3. mail' \in Seq(Tools)
      BY <2>1, <2>2, ReportedType
  <2>4. pipe' = pipe /\ UNCHANGED <<pending, attempts, open, work>>
      BY <1>2 DEF RunSubAgent
  <2>5. ToolsNamed'
      BY <2>4 DEF RInv, ToolsNamed
  <2> QED BY <2>3, <2>4, <2>5, ApartKeeps
<1>3. CASE OnStop
  <2>1. /\ UNCHANGED <<mail, pending, attempts, open, work>>
        /\ pipe' = pipe \/ pipe' = [pipe EXCEPT ![task].at = "spawned"]
      BY <1>3 DEF OnStop, KeepGuardian, guardianVars
  <2>2. \A p \in Tasks : /\ pipe'[p].exps = pipe[p].exps
                         /\ pipe'[p] = pipe[p] \/ pipe'[p].at = "spawned"
      BY <1>1, <2>1 DEF PipeFields
  <2>3. ToolsNamed'
      BY <2>2 DEF RInv, ToolsNamed
  <2> QED BY <1>1, <2>1, <2>3, ApartKeeps
<1>4. CASE RunTask \/ CreateSubAgent \/ CancelRun \/ ResetForNewTask
  <2>1. pipe' = pipe /\ UNCHANGED <<mail, pending, attempts, open, work>>
      BY <1>4 DEF RunTask, CreateSubAgent, CancelRun, ResetForNewTask, KeepGuardian, guardianVars
  <2>2. ToolsNamed'
      BY <2>1 DEF RInv, ToolsNamed
  <2> QED BY <1>1, <2>1, <2>2, ApartKeeps
<1> QED BY <1>2, <1>3, <1>4 DEF MasterStep

\* Every step, and none.
LEMMA ReportsStep == ASSUME IInv, RInv, [Next]_vars PROVE RInv'
<1>1. mail \in Seq(Tools)
    BY DEF RInv, GuardianTypes
<1>2. CASE UserStep \/ UNCHANGED vars
  <2>1. pipe' = pipe /\ UNCHANGED <<mail, pending, attempts, open, work>>
      BY <1>2 DEF UserStep, UserWriteEnds, Feedback, Delete, KeepGuardian, vars, guardianVars
  <2>2. ToolsNamed'
      BY <2>1 DEF RInv, ToolsNamed
  <2> QED BY <1>1, <2>1, <2>2, ApartKeeps
<1> QED BY <1>2, PipelineReports, MasterReports, GuardianReports DEF Next

\* Initially there are none.
LEMMA ReportsInit == EvolutionInit => RInv
<1> SUFFICES ASSUME EvolutionInit PROVE RInv
    OBVIOUS
<1>1. /\ mail = <<>> /\ pending = <<>> /\ attempts = [t \in Tools |-> 0]
      /\ open = [t \in Tools |-> 0] /\ work = [g \in Drivers |-> NoWork]
      /\ pipe = [p \in Tasks |-> NoPipe]
    BY DEF EvolutionInit, GuardianInit
<1>2. \A g \in Drivers : work[g].at = "idle" /\ work[g].groups = <<>>
    BY <1>1 DEF NoWork
<1>3. Groupings(work) \in Batches
  <2>1. \A g \in Drivers : work[g].groups \in Seq(GroupType) /\ Len(work[g].groups) <= BatchSize
    <3>1. <<>> \in Seq(GroupType) /\ Len(<<>>) <= BatchSize
        BY GuardianAssumption DEF GuardianAssumption
    <3> QED BY <1>2, <3>1
  <2> QED BY <2>1 DEF Groupings, Batches
<1>4. GuardianTypes
    BY <1>1, <1>2, <1>3 DEF GuardianTypes
<1>5. ASSUME NEW t \in Tools PROVE open[t] = Count(pending, t) + InWork(t)
  <2>1. Count(pending, t) = 0
    <3>1. pending \in Seq(Tools) /\ Len(pending) = 0
        BY <1>1
    <3>2. Count(pending, t) \in 0..Len(pending)
        BY <3>1, CountType
    <3> QED BY <3>1, <3>2
  <2>2. ReportsOf(t) = {}
      BY <1>2 DEF ReportsOf
  <2>3. InWork(t) = 0
      BY <2>2, FS_EmptySet DEF InWork
  <2> QED BY <1>1, <2>1, <2>3
<1>6. Retrying
    BY <1>1 DEF Retrying
<1>7. ToolsNamed
    BY <1>1 DEF ToolsNamed, NoPipe
<1> QED BY <1>4, <1>5, <1>6, <1>7 DEF RInv, ReportsKept

\* AttemptsSound follows: what waits is counted, and so is what a driver has.
LEMMA AttemptsFollow == RInv => AttemptsSound
<1> SUFFICES ASSUME RInv, NEW t \in Tools, attempts[t] > 0
             PROVE  attempts[t] < AutoFixMaxAttempts /\ Count(pending, t) + InWork(t) > 0
    BY DEF AttemptsSound
<1>1. attempts[t] < AutoFixMaxAttempts /\ Awaits(t)
    BY DEF RInv, Retrying
<1>2. /\ Count(pending, t) \in Nat
      /\ Waits(t) => Count(pending, t) > 0
  <2>1. pending \in Seq(Tools) /\ Len(pending) \in Nat
      BY DEF RInv, GuardianTypes
  <2>2. /\ Count(pending, t) \in 0..Len(pending)
        /\ Count(pending, t) > 0 <=> \E i \in 1..Len(pending) : pending[i] = t
      BY <2>1, CountType
  <2> QED BY <2>1, <2>2 DEF Waits
<1>3. InWork(t) \in Nat /\ ((\E g \in Drivers : HasUnrepaired(g, t)) => InWork(t) > 0)
    BY InWorkType DEF RInv
<1> QED BY <1>1, <1>2, <1>3 DEF Awaits
-----------------------------------------------------------------------------
(* The theorems *)

\* The invariant holds initially.
LEMMA InitKeeps == EvolutionInit => IInv
<1> SUFFICES ASSUME EvolutionInit PROVE IInv
    OBVIOUS
<1> USE DEF EvolutionInit, MemoryInit, GuardianInit
<1>1. Shapes
    BY EvolutionAssumption DEF Shapes, NoPipe, PipeFields, NoWork, WorkFields, EvolutionAssumption, Tasks
<1>2. LawfulRows(db) /\ LawfulRows(disk)
    BY DEF LawfulRows
<1>3. Shown
    BY EvolutionAssumption DEF Shown, Ids, EvolutionAssumption, Tasks
<1>4. Storing
    BY DEF Storing, StoredBy, NoPipe
<1>5. Fixing
    BY DEF Fixing, NoWork
<1>6. Earning
    BY DEF Earning, ToPromote, PromotionEarned, NoPipe
<1>7. Collecting
    BY DEF Collecting, NoPipe
<1> QED BY <1>1, <1>2, <1>3, <1>4, <1>5, <1>6, <1>7 DEF IInv

\* Nothing happens.
LEMMA StutterKeeps == ASSUME IInv, UNCHANGED vars PROVE IInv'
<1>1. UNCHANGED masterVars /\ pipe' = pipe /\ work' = work /\ stable' = stable
      /\ UNCHANGED <<db, disk, writing, dropped, faulty>>
    BY DEF vars, memoryVars, guardianVars
<1>2. Moves
    BY <1>1 DEF IInv, Shapes, Moves
<1>3. Aside /\ Remembers
    BY <1>1, SameAside, HasMemory, SameRemembers
<1> QED BY <1>1, <1>2, <1>3, OthersKeep

\* Every reachable state satisfies the invariant.
THEOREM InvariantHolds == Spec => []IInv
<1>1. IInv /\ [Next]_vars => IInv'
    BY PipelinesKeep, MasterKeeps, GuardianKeeps, UserKeeps, StutterKeeps DEF Next
<1> QED BY <1>1, InitKeeps, PTL DEF Spec

\* A search with hits among the tenant's entries finds some, and only those.
LEMMA SearchIsSound == SearchFinds
<1> SUFFICES ASSUME NEW t \in Tools, NEW vec0 \in BOOLEAN, NEW near
             PROVE  LET own   == ListEntries(t, Guardian)
                        found == SearchToolExperience(t, vec0, near)
                    IN found \subseteq own /\ (own # {} => found # {})
    BY DEF SearchFinds
<1> QED BY DEF SearchToolExperience, Search, Vec0Hits, JsonHits, KeywordHits, ListEntries

\* KnowledgeSound: the guardian resolves entries of its own tenant only
\* (mark_resolved), an experience that update_global_memory stored stays
\* whoever's commit wrote it, a resolved problem has its fix on record
\* (_persist_fix_to_memory), and a search tells of the tenant's own entries.
THEOREM KnowledgeHolds == Spec => []KnowledgeSound
<1>1. IInv => KnowledgeSound
  <2> SUFFICES ASSUME IInv PROVE KnowledgeSound
      OBVIOUS
  <2>1. TenantsApart
      BY DEF IInv, LawfulRows, Lawful, TenantsApart
  <2>2. StoredStays
      BY DEF IInv, Storing, StoredBy, Safe, SummaryId, StoredStays
  <2>3. ResolvedIsFixed
    <3> SUFFICES ASSUME ~faulty, dropped = {}, NEW t \in Tools, LoadToolKnowledge(t).resolved # {}
                 PROVE  LoadToolKnowledge(t).fixes # {}
        BY DEF ResolvedIsFixed
    <3>1. PICK r \in db : r.tool = t /\ r.category = "experience" /\ r.resolved
        BY DEF LoadToolKnowledge, ToolKnowledge, ListEntries
    <3>2. r.resolved = TRUE
        BY <3>1
    <3>3. FixOf(t, db)
        BY <3>1, <3>2 DEF IInv, Fixing
    <3> QED BY <3>3 DEF FixOf, LoadToolKnowledge, ToolKnowledge, ListEntries
  <2> QED BY <2>1, <2>2, <2>3, SearchIsSound DEF KnowledgeSound
<1> QED BY <1>1, InvariantHolds, PTL

\* The calls of a sub-agent enter one pipeline's experience at most, though
\* on_stop awaits no pipeline and the next task runs on; and update_tool_versions
\* promotes only what a pipeline saw succeed often enough.
THEOREM ExperienceCounts == Spec => [](ExperiencesOnce /\ PromotionEarned)
<1>1. IInv => ExperiencesOnce /\ PromotionEarned
  <2> SUFFICES ASSUME IInv PROVE ExperiencesOnce
      BY DEF IInv, Earning
  <2> SUFFICES ASSUME NEW a \in Tasks PROVE Cardinality(collected[a]) <= 1
      BY DEF ExperiencesOnce
  <2>1. \A i, j \in collected[a] : i = j
      BY DEF IInv, Collecting
  <2>2. CASE collected[a] = {}
      BY <2>2, FS_EmptySet
  <2>3. CASE collected[a] # {}
    <3>1. PICK i : collected[a] = {i}
        BY <2>1, <2>3
    <3>2. Cardinality({i}) = 1
        BY FS_Singleton
    <3> QED BY <3>1, <3>2
  <2> QED BY <2>2, <2>3
<1> QED BY <1>1, InvariantHolds, PTL

\* Every reachable state has its reports in order.
THEOREM ReportsHold == Spec => []RInv
<1>1. IInv /\ RInv /\ [Next]_vars => RInv'
    BY ReportsStep
<1> QED BY <1>1, ReportsInit, InvariantHolds, PTL DEF Spec

\* EvolutionSound: no report is lost or repaired twice between the listener loop
\* and process_pending_reports, which take batches from one queue and put
\* unrepaired reports back (process_reports); a tool's attempts count one problem
\* only, are never used up unnoticed, and are kept only while a report of it is
\* open (_process_tool_reports); and what ExperienceCounts says.
THEOREM EvolutionIsSound == Spec => []EvolutionSound
<1>1. RInv => ReportsKept /\ AttemptsSound
    BY AttemptsFollow DEF RInv
<1>2. ReportsKept /\ AttemptsSound /\ ExperiencesOnce /\ PromotionEarned => EvolutionSound
    BY DEF EvolutionSound
<1> QED BY <1>1, <1>2, ReportsHold, ExperienceCounts, PTL
=============================================================================
