------------------------------ MODULE ToolStore ------------------------------
(***************************************************************************)
(* The version tree of one tool in ToolStore (youmi/mcp/tool_store.py),    *)
(* under the version rules of youmi/core/versioning.py.                    *)
(*                                                                         *)
(* All calls share one SQLite connection and run their statements on       *)
(* worker threads (asyncio.to_thread), so the statements of two calls      *)
(* interleave and they share the open transaction: a commit by one call    *)
(* makes the other's unfinished work durable, a rollback undoes it.  An    *)
(* action is one statement or one run of statements that only read.        *)
(***************************************************************************)
EXTENDS Integers, FiniteSets

CONSTANTS Callers,   \* concurrent users of the store
          Fields,    \* the fields of a definition
          Kinds,     \* bound: the change_kind or bump given to create_version
          Declared,  \* bound: the versions declared to upsert_tool, or None
          MaxCalls   \* bound: calls made to the store

ASSUME StoreAssumption ==
    /\ Kinds \subseteq {"fix", "feature", "breaking", "patch", "minor", "major"}
    /\ Declared \subseteq {<<>>} \cup (Nat \X Nat \X Nat)
    /\ MaxCalls \in Nat

VARIABLES
    rows,   \* the table `tools`, as the shared connection sees it
    saved,  \* the table as last committed
    calls,  \* the call each caller is in: its local variables and where it is
    ret,    \* what each caller's last call returned: a tool_id, NoId or Failed
    clock,  \* datetime.utcnow()
    begun,  \* calls begun so far
    past    \* history, see Past

vars == <<rows, saved, calls, ret, clock, begun, past>>

NoId   == <<>>
Failed == <<"raised">>
None   == <<>>      \* no declared version, no parent
Main   == "main"
Branches == {"main", "dev"}

\* A tool_id: "{tool}@{version}" on main, "{tool}@{branch}/{version}" elsewhere.
Id(branch, ver) == <<branch, ver>>
IdOf(r) == Id(r.branch, r.ver)
Ids(S) == {IdOf(r) : r \in S}
On(branch) == {r \in rows : r.branch = branch}
Flagged(branch) == {r \in On(branch) : r.head}

\* ORDER BY created_at DESC / ASC LIMIT 1
Latest(S)   == CHOOSE r \in S : \A o \in S : o.at <= r.at
Earliest(S) == CHOOSE r \in S : \A o \in S : o.at >= r.at
-----------------------------------------------------------------------------
(* core/versioning.py, core/tool.py *)

GENERATED_INITIAL_VERSION == <<0, 0, 1>>
STABLE_INITIAL_VERSION == <<1, 0, 0>>
is_stable(ver) == ver[1] >= 1

compare_greater(v, w) ==
    \/ v[1] > w[1]
    \/ v[1] = w[1] /\ v[2] > w[2]
    \/ v[1] = w[1] /\ v[2] = w[2] /\ v[3] > w[3]

resolve_initial_version(declared, external) ==
    CASE external /\ declared \in {None, GENERATED_INITIAL_VERSION}
            -> STABLE_INITIAL_VERSION
      [] ~external /\ declared = None -> GENERATED_INITIAL_VERSION
      [] OTHER -> declared

bump_version(ver, part) ==
    CASE part = "major" -> <<ver[1] + 1, 0, 0>>
      [] part = "minor" -> <<ver[1], ver[2] + 1, 0>>
      [] OTHER          -> <<ver[1], ver[2], ver[3] + 1>>

\* A breaking change of a 0.x candidate only raises the minor number.
bump_for(ver, kind) ==
    bump_version(ver, CASE kind = "breaking" /\ is_stable(ver) -> "major"
                        [] kind = "breaking" \/ kind = "feature" -> "minor"
                        [] OTHER -> "patch")

\* change_kind, when given, comes before bump.
NextVersion(ver, how) ==
    IF how \in {"fix", "feature", "breaking"}
    THEN bump_for(ver, how) ELSE bump_version(ver, how)
-----------------------------------------------------------------------------
\* Definitions: what a field of the JSON document holds, 0 if it is missing
\* or as it was first.  An edit on main writes 1, one on the branch 2.
Original == [f \in Fields |-> 0]
Edits(branch) ==
    {[Original EXCEPT ![f] = IF branch = Main THEN 1 ELSE 2] : f \in Fields}

Conflicts(base, ours, theirs) ==
    {f \in Fields : /\ ours[f] # theirs[f]
                    /\ base[f] # ours[f] /\ base[f] # theirs[f]}

merge_dicts(base, ours, theirs) ==
    [f \in Fields |-> IF base[f] = ours[f] THEN theirs[f] ELSE ours[f]]
-----------------------------------------------------------------------------
(* Calls *)

Idle == [pc |-> "idle", op |-> "none", branch |-> Main, ver |-> None,
         how |-> "none", def |-> Original, ext |-> FALSE, at |-> 0,
         key |-> NoId, parent |-> NoId, head |-> TRUE,
         base |-> Original, theirs |-> Original, ids |-> {}]

Row(call, parent, ext) ==
    [branch |-> call.branch, ver |-> call.key[2], parent |-> parent,
     head |-> call.head, at |-> call.at, def |-> call.def, ext |-> ext,
     via |-> call.how]

Others(c) == {d \in Callers \ {c} : calls[d].pc # "idle"}

Begin(c, call) ==
    /\ calls[c].pc = "idle" /\ begun < MaxCalls /\ begun' = begun + 1
    /\ calls' = [calls EXCEPT ![c] = call]
    /\ ret' = [ret EXCEPT ![c] = NoId]
    /\ past' = [past EXCEPT !.overlap = @ \/ Others(c) # {},
                            !.upserted = IF call.op = "upsert"
                                         THEN @ \cup {call.key} ELSE @]
    /\ UNCHANGED <<rows, saved>>

\* A call that goes straight to its transaction takes `now` first, before
\* the summary is generated and a worker thread is free.
BeginNow(c, call) == Begin(c, [call EXCEPT !.at = clock]) /\ clock' = clock + 1

Goto(c, call) == calls' = [calls EXCEPT ![c] = call] /\ UNCHANGED <<ret, begun>>

Return(c, result) ==
    /\ calls' = [calls EXCEPT ![c] = Idle]
    /\ ret' = [ret EXCEPT ![c] = result]
    /\ UNCHANGED begun

ReadOnly == UNCHANGED <<rows, saved, past>>

\* An except branch: conn.rollback(), and the exception goes to the caller
\* (Failed) or is turned into a result.
RollBack(c, result) ==
    rows' = saved /\ Return(c, result) /\ UNCHANGED <<saved, clock, past>>

upsert_tool(c) ==
    \E declared \in Declared, external \in BOOLEAN :
        BeginNow(c, [Idle EXCEPT !.pc = "read", !.op = "upsert", !.how = "upsert",
                        !.ext = external,
                        !.key = Id(Main, resolve_initial_version(declared, external))])

create_version(c) ==
    \E branch \in Branches, how \in Kinds :
    \E def \in Edits(branch) :
        BeginNow(c, [Idle EXCEPT !.pc = "read", !.op = "create", !.how = how,
                                 !.branch = branch, !.def = def])

\* from_version, or None for the latest version of main.
create_branch(c) ==
    \E from \in {None} \cup {r.ver : r \in On(Main)} :
        BeginNow(c, [Idle EXCEPT !.pc = "read", !.op = "branch", !.how = "branch",
                                 !.branch = "dev", !.ver = from])

merge_branch(c) ==
    \E target \in Branches :
        Begin(c, [Idle EXCEPT !.pc = "collect", !.op = "merge", !.how = "minor",
                              !.branch = target]) /\ UNCHANGED clock

rollback(c) ==
    \E to \in {r.ver : r \in On(Main)} :
        Begin(c, [Idle EXCEPT !.pc = "fetch", !.op = "rollback", !.how = "patch",
                              !.ver = to]) /\ UNCHANGED clock

promote_to_stable(c) ==
    /\ Begin(c, [Idle EXCEPT !.pc = "head", !.op = "promote", !.how = "promote"])
    /\ UNCHANGED clock

mark_external(c) ==
    /\ Begin(c, [Idle EXCEPT !.pc = "head", !.op = "mark", !.how = "promote"])
    /\ UNCHANGED clock

\* version, or None for all of them.
delete_tool(c) ==
    \E ver \in {None} \cup {r.ver : r \in rows} :
        /\ Begin(c, [Idle EXCEPT !.pc = "select", !.op = "delete", !.ver = ver])
        /\ UNCHANGED clock
-----------------------------------------------------------------------------
(* What comes before the transaction *)

\* promote_to_stable and mark_external: get_head_version
GetHead(c) ==
    LET call == calls[c]  head == Latest(On(Main)) IN
    /\ call.pc = "head" /\ ReadOnly
    /\ IF IF On(Main) = {} THEN TRUE
       ELSE call.op = "promote" /\ is_stable(head.ver)
       THEN Return(c, NoId) /\ UNCHANGED clock
       ELSE \/ /\ call.op = "mark"
               /\ Goto(c, [call EXCEPT !.pc = "mark", !.ver = head.ver])
               /\ UNCHANGED clock
            \/ /\ call.op = "promote"
               /\ Goto(c, [call EXCEPT !.pc = "read", !.def = head.def, !.at = clock,
                                       !.key = Id(Main, STABLE_INITIAL_VERSION)])
               /\ clock' = clock + 1

\* mark_external: _mark, and then the promotion of a candidate
Mark(c) ==
    /\ calls[c].pc = "mark"
    /\ rows' = {[r EXCEPT !.ext = TRUE] : r \in rows}
    /\ Goto(c, [calls[c] EXCEPT !.pc = "marked"])
    /\ UNCHANGED <<saved, clock, past>>

Marked(c) ==
    /\ calls[c].pc = "marked" /\ saved' = rows
    /\ IF is_stable(calls[c].ver)
       THEN Return(c, Id(Main, calls[c].ver))
       ELSE Goto(c, [calls[c] EXCEPT !.pc = "head", !.op = "promote"])
    /\ UNCHANGED <<rows, clock, past>>

\* rollback: get_tool of the version to go back to, then create_version
Fetch(c) ==
    LET call == calls[c]
        target == {r \in rows : IdOf(r) = Id(Main, call.ver)}
    IN
    /\ call.pc = "fetch" /\ ReadOnly
    /\ \/ target = {} /\ Return(c, Failed) /\ UNCHANGED clock
       \/ \E r \in target :
            /\ Goto(c, [call EXCEPT !.pc = "read", !.def = r.def, !.at = clock])
            /\ clock' = clock + 1

\* merge_branch: _collect and the three-way merge, then create_version
Collect(c) ==
    LET call   == calls[c]
        source == On(CHOOSE b \in Branches : b # call.branch)
        target == On(call.branch)
        base   == {r \in rows : source # {} /\ IdOf(r) = Earliest(source).parent}
        ours   == Latest(target).def
        theirs == Latest(source).def
    IN
    /\ call.pc = "collect" /\ ReadOnly
    /\ \/ /\ source = {} \/ target = {} \/ base = {}
          /\ Return(c, Failed) /\ UNCHANGED clock
       \/ \E b \in base :
          /\ source # {} /\ target # {}
          /\ IF Conflicts(b.def, ours, theirs) # {}
             THEN Return(c, Failed) /\ UNCHANGED clock
             ELSE /\ Goto(c, [call EXCEPT !.pc = "read", !.at = clock,
                                 !.def = merge_dicts(b.def, ours, theirs),
                                 !.base = b.def, !.theirs = theirs])
                  /\ clock' = clock + 1
-----------------------------------------------------------------------------
(* The transaction *)

Creates(call) == call.op \in {"create", "merge", "rollback"}

\* _upsert: the flagged head decides the parent and whether this version
\* becomes the head.
ReadUpsert(c) ==
    LET call == calls[c]  heads == Flagged(Main) IN
    /\ call.pc = "read" /\ call.op = "upsert" /\ ReadOnly /\ UNCHANGED clock
    /\ Goto(c, [call EXCEPT !.pc = "insert",
                   !.parent = CASE heads # {} -> IdOf(Latest(heads))
                                [] heads = {} /\ rows # {} -> IdOf(Latest(rows))
                                [] OTHER -> NoId,
                   !.head = heads = {} \/ ~compare_greater(Latest(heads).ver, call.key[2])])

\* _create: the new version follows the latest one of the branch.
ReadCreate(c) ==
    LET call == calls[c]  old == Latest(On(call.branch)) IN
    /\ call.pc = "read" /\ Creates(call) /\ ReadOnly /\ UNCHANGED clock
    /\ IF On(call.branch) = {} THEN Return(c, Failed)
       ELSE Goto(c, [call EXCEPT !.pc = "insert", !.parent = IdOf(old),
                       !.key = Id(call.branch, NextVersion(old.ver, call.how))])

\* _fork: the fork point, and the check that the branch is new.
ReadBranch(c) ==
    LET call == calls[c]
        points == IF call.ver = None THEN On(Main)
                  ELSE {r \in On(Main) : r.ver = call.ver}
        key == Id(call.branch, Latest(points).ver)
    IN
    /\ call.pc = "read" /\ call.op = "branch" /\ ReadOnly /\ UNCHANGED clock
    /\ IF points = {} \/ key \in Ids(rows) THEN Return(c, Failed)
       ELSE Goto(c, [call EXCEPT !.pc = "insert", !.key = key,
                                 !.parent = IdOf(Latest(points))])

\* _promote: the flagged head is the parent; nothing to do if 1.0.0 exists.
ReadPromote(c) ==
    LET call == calls[c]  heads == Flagged(Main) IN
    /\ call.pc = "read" /\ call.op = "promote" /\ ReadOnly /\ UNCHANGED clock
    /\ CASE heads = {} -> Return(c, NoId)
         [] heads # {} /\ call.key \in Ids(rows) -> Return(c, call.key)
         [] OTHER -> Goto(c, [call EXCEPT !.pc = "insert",
                                !.parent = IdOf(Latest(heads)),
                                !.ext = Latest(heads).ext])

Inserted(c, new) ==
    /\ rows' = new
    /\ Goto(c, [calls[c] EXCEPT !.pc = IF calls[c].head THEN "clear" ELSE "commit"])
    /\ UNCHANGED <<saved, clock>>

\* INSERT ... ON CONFLICT DO UPDATE: a stored version keeps its row, flag,
\* parent and created_at, and takes the definition.
InsertUpsert(c) ==
    LET call == calls[c]  known == call.key \in Ids(rows) IN
    /\ call.pc = "insert" /\ call.op = "upsert"
    /\ Inserted(c, IF known
                   THEN {IF IdOf(r) = call.key THEN [r EXCEPT !.def = call.def]
                         ELSE r : r \in rows}
                   ELSE rows \cup {Row(call, call.parent, call.ext)})
    /\ past' = [past EXCEPT !.lowered = @ \/ (~known /\ ~call.head)]

\* Mutant: INSERT OR REPLACE.
InsertSelect_Replace(c) ==
    LET call == calls[c] IN
    /\ call.pc = "insert" /\ (Creates(call) \/ call.op = "branch")
    /\ Inserted(c, {r \in rows : IdOf(r) # call.key}
                      \cup {Row(call, call.parent, r.ext) :
                             r \in {p \in rows : IdOf(p) = call.parent}})
    /\ UNCHANGED past

\* INSERT ... SELECT FROM the parent's row: adds nothing if that row is gone,
\* and breaks the UNIQUE constraint if the tool_id is taken.  A branch takes
\* the definition that the parent's row has now.
InsertSelect(c) ==
    LET call == calls[c]
        source == {r \in rows : IdOf(r) = call.parent}
    IN
    /\ call.pc = "insert" /\ (Creates(call) \/ call.op = "branch")
    /\ IF source # {} /\ call.key \in Ids(rows) THEN RollBack(c, Failed)
       ELSE /\ Inserted(c, rows \cup
                 {Row(IF call.op = "branch" THEN [call EXCEPT !.def = r.def] ELSE call,
                      call.parent, r.ext) : r \in source})
            /\ UNCHANGED past

InsertPromote(c) ==
    LET call == calls[c] IN
    /\ call.pc = "insert" /\ call.op = "promote"
    /\ IF call.key \in Ids(rows) THEN RollBack(c, Failed)
       ELSE /\ Inserted(c, rows \cup {Row(call, call.parent, call.ext)})
            /\ UNCHANGED past

\* Mutant: the flags of the other versions are left alone.
ClearHeads_Skipped(c) ==
    /\ calls[c].pc = "clear"
    /\ Goto(c, [calls[c] EXCEPT !.pc = "commit"])
    /\ UNCHANGED <<rows, saved, clock, past>>

\* UPDATE tools SET is_head = 0 on every other version of the branch.
ClearHeads(c) ==
    LET call == calls[c] IN
    /\ call.pc = "clear"
    /\ rows' = {IF r.branch = call.branch /\ IdOf(r) # call.key
                THEN [r EXCEPT !.head = FALSE] ELSE r : r \in rows}
    /\ Goto(c, [call EXCEPT !.pc = "commit"])
    /\ UNCHANGED <<saved, clock, past>>

\* The changelog of a promotion is written in the same transaction; its
\* foreign key fails if the row is gone.
Commit(c) ==
    LET call == calls[c] IN
    /\ call.pc = "commit"
    /\ IF call.op = "promote" /\ call.key \notin Ids(rows) THEN RollBack(c, Failed)
       ELSE /\ saved' = rows
            /\ IF Creates(call) THEN Goto(c, [call EXCEPT !.pc = "log"])
               ELSE Return(c, call.key)
            /\ UNCHANGED <<rows, clock, past>>

\* create_version's changelog, in a transaction of its own and outside the
\* try: a missing row is an error that nothing rolls back.
Log(c) ==
    LET call == calls[c]  known == call.key \in Ids(rows) IN
    /\ call.pc = "log"
    /\ saved' = IF known THEN rows ELSE saved
    /\ Return(c, IF known THEN call.key ELSE Failed)
    /\ UNCHANGED <<rows, clock, past>>

\* _delete: the versions to remove, one after the other, then the commit.
Select(c) ==
    LET call == calls[c]
        ids == Ids({r \in rows : call.ver \in {None, r.ver}})
    IN
    /\ call.pc = "select" /\ UNCHANGED <<rows, saved, clock>>
    /\ IF call.ver # None /\ ids = {} THEN Return(c, NoId)
       ELSE Goto(c, [call EXCEPT !.pc = "delete", !.ids = ids])
    /\ past' = [past EXCEPT !.doomed = @ \cup ids]

Delete(c) ==
    LET call == calls[c] IN
    /\ call.pc = "delete"
    /\ \/ \E id \in call.ids :
            /\ rows' = {r \in rows : IdOf(r) # id}
            /\ Goto(c, [call EXCEPT !.ids = @ \ {id}])
            /\ UNCHANGED saved
       \/ /\ call.ids = {} /\ saved' = rows
          /\ Return(c, NoId) /\ UNCHANGED rows
    /\ UNCHANGED <<clock, past>>

\* A changelog written between the deletion of a version's changelogs and
\* that of its row refers to the row: the deletion fails and is rolled back.
DeleteRefused(c) ==
    /\ calls[c].pc = "delete"
    /\ \E d \in Callers : calls[d].pc = "log" /\ calls[d].key \in calls[c].ids
    /\ RollBack(c, NoId)
-----------------------------------------------------------------------------
\* A new store, and one that an upsert and a create_branch have left.
First(branch, at) ==
    [branch |-> branch, ver |-> GENERATED_INITIAL_VERSION, head |-> TRUE,
     parent |-> IF branch = Main THEN NoId ELSE Id(Main, GENERATED_INITIAL_VERSION),
     at |-> at, def |-> Original, ext |-> FALSE,
     via |-> IF branch = Main THEN "upsert" ELSE "branch"]

Init ==
    /\ rows \in {{}, {First(Main, 0), First("dev", 1)}}
    /\ saved = rows
    /\ calls = [c \in Callers |-> Idle] /\ ret = [c \in Callers |-> NoId]
    /\ clock = 2 /\ begun = 0
    /\ past = [overlap |-> FALSE, lowered |-> FALSE, doomed |-> {}, upserted |-> {}]

Requests(c) ==
    \/ upsert_tool(c) \/ create_version(c) \/ create_branch(c) \/ merge_branch(c)
    \/ rollback(c) \/ promote_to_stable(c) \/ mark_external(c) \/ delete_tool(c)

Statements(c) ==
    \/ GetHead(c) \/ Mark(c) \/ Marked(c) \/ Fetch(c) \/ Collect(c)
    \/ ReadUpsert(c) \/ ReadCreate(c) \/ ReadBranch(c) \/ ReadPromote(c)
    \/ InsertUpsert(c) \/ InsertSelect(c) \/ InsertPromote(c)
    \/ ClearHeads(c) \/ Commit(c) \/ Log(c)
    \/ Select(c) \/ Delete(c) \/ DeleteRefused(c)

Next == \E c \in Callers : Requests(c) \/ Statements(c)

Spec == Init /\ [][Next]_vars
-----------------------------------------------------------------------------
Quiet == \A c \in Callers : calls[c].pc = "idle"
Alone == ~past.overlap

\* Calls that do not overlap leave at most one version of a branch flagged
\* as its head (the UPDATE after every INSERT), and exactly one unless a
\* version has been deleted, or an upsert stored a version below the head: an
\* upsert of a stored version clears the other flags and sets none.
OneHead ==
    Quiet /\ Alone =>
        \A b \in Branches :
            /\ Cardinality(Flagged(b)) <= 1
            /\ past.doomed = {} /\ ~past.lowered /\ On(b) # {} => Flagged(b) # {}

\* What the comment at the UPDATE of upsert_tool says it keeps up: main has
\* one flagged head.  It has none after an upsert of a stored version above
\* the head, which keeps its own flag cleared and clears the others.
UniqueHead ==
    Quiet /\ Alone /\ past.doomed = {} /\ On(Main) # {} =>
        Cardinality(Flagged(Main)) = 1

\* The two ideas of a head agree: the version that get_tool and
\* get_head_version return (the latest created) is the flagged one, unless
\* calls overlapped, a version was deleted, or an upsert stored a version
\* below the head, which is not flagged but is the latest created.
HeadsAgree ==
    Quiet /\ Alone /\ past.doomed = {} /\ ~past.lowered =>
        \A b \in Branches : On(b) # {} => Latest(On(b)).head

HeadsSound == OneHead /\ HeadsAgree

\* A tool leaves the candidate library only by promotion, by an upsert that
\* declares a stable version, or by an explicit major bump: no change_kind
\* and no merge takes 0.x to 1.0.0, whatever the calls around it do.
NoWayAroundPromotion ==
    \A r \in rows :
        is_stable(r.ver) /\ r.parent # NoId /\ ~is_stable(r.parent[2])
            => r.via \in {"promote", "upsert", "major"}

\* Promotion changes the version and not the content: the 1.0.0 row has the
\* definition of the version recorded as its parent.
PromotionKeepsContent ==
    Alone /\ ~past.lowered /\ past.doomed = {} =>
        \A c \in Callers : calls[c].pc \in {"clear", "commit"} /\ calls[c].op = "promote" =>
            \A r, p \in rows :
                IdOf(r) = calls[c].key /\ IdOf(p) = r.parent => r.def = p.def

\* A merge keeps what either side changed since the fork: the new version has
\* every field that the source branch changed, and every field that the
\* version recorded as its parent had changed.
MergeKeepsBoth ==
    Alone => \A c \in Callers : calls[c].pc = "log" /\ calls[c].op = "merge" =>
        LET base == calls[c].base  theirs == calls[c].theirs IN
        \A r, p \in rows : IdOf(r) = calls[c].key /\ IdOf(p) = r.parent =>
            \A f \in Fields :
                /\ theirs[f] # base[f] => r.def[f] = theirs[f]
                /\ p.def[f] # base[f] => r.def[f] = p.def[f]

ContentSound == NoWayAroundPromotion /\ PromotionKeepsContent /\ MergeKeepsBoth

\* Calls that do not overlap are all or nothing: a call that returns a
\* tool_id has committed that version, and no call, failed ones included,
\* leaves uncommitted work behind on the shared connection.
CallsAtomic ==
    Alone =>
        /\ Quiet => rows = saved
        /\ \A c \in Callers :
              calls[c].pc = "idle" /\ ret[c] \notin {NoId, Failed} \cup past.doomed
                  => ret[c] \in Ids(saved)

\* History is only added to: a committed version keeps its place, parent and
\* date for good, and its content unless the same version is upserted, even
\* if calls overlap and roll back each other's work; only delete_tool
\* removes versions, and only those it selected.
HistoryKept ==
    [][\A r \in saved : IdOf(r) \notin past'.doomed =>
          \E q \in saved' :
              /\ IdOf(q) = IdOf(r) /\ q.parent = r.parent /\ q.at = r.at
              /\ q.def = r.def \/ IdOf(r) \in past'.upserted]_vars
=============================================================================
