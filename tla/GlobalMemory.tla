---------------------------- MODULE GlobalMemory ----------------------------
(***************************************************************************)
(* youmi/knowledge/global_memory.py: one SQLite connection, shared by the  *)
(* tenants' clones and by every writer.  A write runs in a thread: its     *)
(* statement is visible through the connection at once, then it commits    *)
(* (with it whatever the others have written) or, when it raises, rolls    *)
(* back (with it whatever the others have not committed).                  *)
(* Entries keep their tool, tenant, category and resolved mark; the vector *)
(* of an entry is written and deleted in the entry's own transaction.      *)
(***************************************************************************)
EXTENDS Integers, Sequences, FiniteSets

CONSTANTS Tools, Writers,
          MaxActs       \* bound: writes that raise, and whatever is done from outside

VARIABLES
    db,         \* the entries the connection shows
    disk,       \* the entries that are committed
    writing,    \* for each writer, the entry whose write is not committed; NoEntry
    dropped,    \* entries deleted by their tenant
    faulty,     \* a write has raised
    acts        \* what MaxActs bounds

memoryVars == <<db, disk, writing, dropped, faulty, acts>>

NoEntry == <<>>

\* clone_for_tenant: every tenant's view has the same connection.
MemoryInit ==
    /\ db = {} /\ disk = {}
    /\ writing = [w \in Writers |-> NoEntry]
    /\ dropped = {} /\ faulty = FALSE /\ acts = 0

Act == acts < MaxActs /\ acts' = acts + 1

\* add_experience: an entry of the writer's own tenant, unresolved.
Entry(id, t, tenant, category) ==
    [id |-> id, tool |-> t, tenant |-> tenant, category |-> category, resolved |-> FALSE]

Ids(rows) == {r.id : r \in rows}

\* get_entry: only the tenant's own.
GetEntry(id, tenant) == {r \in db : r.id = id /\ r.tenant = tenant}

\* list_entries: the tenant's entries of a tool, uncommitted ones included.
ListEntries(t, tenant) == {r \in db : r.tool = t /\ r.tenant = tenant}

Unresolved(t, tenant) == {r \in ListEntries(t, tenant) : ~r.resolved}

\* get_tool_knowledge: what a repair is told; human feedback and earlier fixes
\* are listed apart, the others by their resolved mark.
ToolKnowledge(t, tenant) ==
    [known    |-> {r \in Unresolved(t, tenant) : r.category = "experience"},
     resolved |-> {r \in ListEntries(t, tenant) : r.category = "experience" /\ r.resolved},
     fixes    |-> {r \in ListEntries(t, tenant) : r.category = "fix"},
     feedback |-> {r \in ListEntries(t, tenant) : r.category = "feedback"}]

\* A vector search returns entries that are near enough; `near` is what the
\* index holds of these among the k nearest, of whatever tool and tenant.

\* _vec0_search: the k nearest of all entries first, the tenant's then.
Vec0Hits(t, tenant, near) == {r \in near \cap db : r.tool = t /\ r.tenant = tenant}

\* _json_search: the tenant's entries first, with those of their vectors that
\* have been stored.
JsonHits(t, tenant, near) == ListEntries(t, tenant) \cap near

\* _keyword_search over the tenant's entries, for a query that names the tool.
KeywordHits(entries) == entries

\* search: by vector, and by keyword when that finds nothing, fails, or there
\* is no embedding client (near = {}).
Search(t, tenant, vec0, near) ==
    LET hits == IF vec0 THEN Vec0Hits(t, tenant, near) ELSE JsonHits(t, tenant, near)
    IN IF hits # {} THEN hits ELSE KeywordHits(ListEntries(t, tenant))

\* _insert_entry up to its commit; an entry with the same id is replaced.
\* Mutant: a conflict on the tool, not on the entry's id, replaces the row.
Insert_Replaces(w, e) ==
    /\ writing[w] = NoEntry
    /\ db' = {r \in db : r.tool # e.tool} \cup {e}
    /\ writing' = [writing EXCEPT ![w] = e.id]
    /\ UNCHANGED <<disk, dropped, faulty>>
Insert(w, e) ==
    /\ writing[w] = NoEntry
    /\ db' = {r \in db : r.id # e.id} \cup {e}
    /\ writing' = [writing EXCEPT ![w] = e.id]
    /\ UNCHANGED <<disk, dropped, faulty>>

\* add_feedback: an entry of its own category, resolved by no repair.
AddFeedback(w, id, t, tenant) == Insert(w, Entry(id, t, tenant, "feedback"))

\* mark_resolved, for each of the ids, and its commits: an entry that is gone,
\* or another tenant's, is left alone.
MarkResolved(S, tenant) ==
    LET found == UNION {GetEntry(id, tenant) : id \in S} IN
    /\ db' = (db \ found) \cup {[r EXCEPT !.resolved = TRUE] : r \in found}
    /\ disk' = IF found = {} THEN disk ELSE db'
    /\ UNCHANGED <<writing, dropped>>

\* delete_entry up to its commit.
DeleteEntry(w, id, tenant) ==
    /\ writing[w] = NoEntry /\ GetEntry(id, tenant) # {} /\ Act
    /\ db' = db \ GetEntry(id, tenant)
    /\ writing' = [writing EXCEPT ![w] = id]
    /\ dropped' = dropped \cup {id}
    /\ UNCHANGED <<disk, faulty>>

\* The write of w ends: conn.commit().
Commit(w) ==
    /\ writing[w] # NoEntry
    /\ disk' = db
    /\ writing' = [writing EXCEPT ![w] = NoEntry]
    /\ UNCHANGED <<db, dropped, faulty, acts>>

\* The write of w raises: conn.rollback().
Rollback(w) ==
    /\ writing[w] # NoEntry
    /\ Act /\ faulty' = TRUE
    /\ db' = disk
    /\ writing' = [writing EXCEPT ![w] = NoEntry]
    /\ UNCHANGED <<disk, dropped>>
=============================================================================
