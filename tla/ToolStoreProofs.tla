--------------------------- MODULE ToolStoreProofs ---------------------------
(***************************************************************************)
(* For any number of callers and calls, and however their statements       *)
(* interleave on the shared connection: a committed version stays as it    *)
(* is, and no change takes a candidate to 1.0.0 but a promotion, an upsert *)
(* or an explicit major bump.  As long as no two calls overlap, the table  *)
(* is one version tree and every reader sees the same of it.               *)
(***************************************************************************)
EXTENDS ToolStoreReads, FiniteSetTheorems, FunctionTheorems, WellFoundedInduction, TLAPS

CallFields == {"pc", "op", "branch", "ver", "how", "def", "ext", "at", "key",
               "parent", "head", "base", "theirs", "ids"}
RowFields == {"branch", "ver", "parent", "head", "at", "def", "ext", "via"}

\* What is true of a call: a record with these fields, whose upsert and
\* whose selected versions the history knows.
CallOK(call, doomed, upserted) ==
    /\ DOMAIN call = CallFields
    /\ call.op = "upsert" => call.key \in upserted
    /\ call.ids \subseteq doomed

CallsOK ==
    /\ DOMAIN calls = Callers
    /\ \A c \in Callers : CallOK(calls[c], past.doomed, past.upserted)

PastOK == DOMAIN past = {"overlap", "lowered", "doomed", "upserted"}

RowsOK(S) == \A r \in S : DOMAIN r = RowFields

\* q is the version r: its place, parent and date, and its content unless
\* the version has been upserted.
Same(q, r, upserted) ==
    /\ IdOf(q) = IdOf(r) /\ q.parent = r.parent /\ q.at = r.at
    /\ q.def = r.def \/ IdOf(r) \in upserted

Kept(old, new, doomed, upserted) ==
    \A r \in old : IdOf(r) \notin doomed => \E q \in new : Same(q, r, upserted)

\* The open transaction has all that is committed, what delete_tool selected
\* excepted.
HistoryInv ==
    /\ CallsOK /\ PastOK /\ RowsOK(rows) /\ RowsOK(saved)
    /\ Kept(saved, rows, past.doomed, past.upserted)

\* A table keeps itself.
LEMMA KeptSelf ==
    ASSUME NEW S, NEW D, NEW U PROVE Kept(S, S, D, U)
BY DEF Kept, Same

\* More deletions and upserts allow more.
LEMMA KeptMore ==
    ASSUME NEW S, NEW T, NEW D, NEW U, NEW E, NEW V,
           D \subseteq E, U \subseteq V, Kept(S, T, D, U)
    PROVE  Kept(S, T, E, V)
BY DEF Kept, Same

\* Keeping is transitive.
LEMMA KeptTrans ==
    ASSUME NEW S, NEW T, NEW R, NEW D, NEW U, Kept(S, T, D, U), Kept(T, R, D, U)
    PROVE  Kept(S, R, D, U)
<1> SUFFICES ASSUME NEW r \in S, IdOf(r) \notin D
             PROVE  \E q \in R : Same(q, r, U)
    BY DEF Kept
<1>1. PICK p \in T : Same(p, r, U)
    BY DEF Kept
<1>2. PICK q \in R : Same(q, p, U)
    BY <1>1 DEF Kept, Same
<1> QED BY <1>1, <1>2 DEF Same

\* The table starts committed, with no call begun.
LEMMA HistoryInit == Init => HistoryInv
<1> SUFFICES ASSUME Init PROVE HistoryInv
    OBVIOUS
<1>1. PastOK /\ CallsOK
    BY DEF Init, PastOK, CallsOK, CallOK, Idle, CallFields
<1>2. RowsOK(rows) /\ rows = saved
    BY DEF Init, RowsOK, First, RowFields
<1>3. Kept(saved, rows, past.doomed, past.upserted)
    BY <1>2, KeptSelf
<1> QED BY <1>1, <1>2, <1>3 DEF HistoryInv

\* What every step does to the table: it leaves or adds to what the
\* transaction has, commits it, or rolls it back.
TableStep ==
    \/ Kept(rows, rows', past'.doomed, past'.upserted) /\ saved' = saved
    \/ rows' = rows /\ saved' = rows
    \/ rows' = saved /\ saved' = saved

Grows == past.doomed \subseteq past'.doomed /\ past.upserted \subseteq past'.upserted

\* A step that does one of the three to the table keeps what is committed.
LEMMA TableStepKeeps ==
    ASSUME HistoryInv, CallsOK', PastOK', RowsOK(rows'), Grows, TableStep
    PROVE  HistoryInv' /\ Kept(saved, saved', past'.doomed, past'.upserted)
<1>1. Kept(saved, rows, past'.doomed, past'.upserted)
    BY KeptMore DEF HistoryInv, Grows
<1>2. Kept(rows, rows, past'.doomed, past'.upserted)
      /\ Kept(saved, saved, past'.doomed, past'.upserted)
    BY KeptSelf
<1>3. CASE Kept(rows, rows', past'.doomed, past'.upserted) /\ saved' = saved
  <2>1. Kept(saved, rows', past'.doomed, past'.upserted)
      BY <1>1, <1>3, KeptTrans
  <2> QED BY <2>1, <1>2, <1>3 DEF HistoryInv
<1>4. CASE rows' = rows /\ saved' = rows
    BY <1>1, <1>2, <1>4 DEF HistoryInv
<1>5. CASE rows' = saved /\ saved' = saved
    BY <1>2, <1>5 DEF HistoryInv
<1> QED BY <1>3, <1>4, <1>5 DEF TableStep

\* A step of one caller leaves the others' calls alone.
LEMMA CallsKept ==
    ASSUME CallsOK, Grows, NEW c \in Callers, NEW call,
           calls' = [calls EXCEPT ![c] = call],
           CallOK(call, past'.doomed, past'.upserted)
    PROVE  CallsOK'
BY DEF CallsOK, CallOK, Grows

\* Beginning a call touches no row, and registers the upsert of its key.
LEMMA BeginKeeps ==
    ASSUME HistoryInv, NEW c \in Callers, NEW call, Begin(c, call),
           DOMAIN call = CallFields, call.ids = {}
    PROVE  HistoryInv' /\ Kept(saved, saved', past'.doomed, past'.upserted)
<1>1. PastOK' /\ Grows /\ (call.op = "upsert" => call.key \in past'.upserted)
    BY DEF HistoryInv, PastOK, Begin, Grows
<1>2. CallsOK'
  <2>1. CallOK(call, past'.doomed, past'.upserted)
      BY <1>1 DEF CallOK
  <2> QED BY <1>1, <2>1, CallsKept DEF HistoryInv, Begin
<1>3. RowsOK(rows') /\ TableStep
    BY KeptSelf DEF HistoryInv, Begin, TableStep
<1> QED BY <1>1, <1>2, <1>3, TableStepKeeps

\* Every operation of the store begins so.
LEMMA RequestKeeps ==
    ASSUME HistoryInv, NEW c \in Callers, Requests(c)
    PROVE  HistoryInv' /\ Kept(saved, saved', past'.doomed, past'.upserted)
<1>1. CASE upsert_tool(c)
    BY <1>1, BeginKeeps DEF upsert_tool, BeginNow, Idle, CallFields
<1>2. CASE create_version(c)
    BY <1>2, BeginKeeps DEF create_version, BeginNow, Idle, CallFields
<1>3. CASE create_branch(c)
    BY <1>3, BeginKeeps DEF create_branch, BeginNow, Idle, CallFields
<1>4. CASE merge_branch(c)
    BY <1>4, BeginKeeps DEF merge_branch, Idle, CallFields
<1>5. CASE rollback(c)
    BY <1>5, BeginKeeps DEF rollback, Idle, CallFields
<1>6. CASE promote_to_stable(c)
    BY <1>6, BeginKeeps DEF promote_to_stable, Idle, CallFields
<1>7. CASE mark_external(c)
    BY <1>7, BeginKeeps DEF mark_external, Idle, CallFields
<1>8. CASE delete_tool(c)
    BY <1>8, BeginKeeps DEF delete_tool, Idle, CallFields
<1> QED BY <1>1, <1>2, <1>3, <1>4, <1>5, <1>6, <1>7, <1>8 DEF Requests

\* No call is a call that CallOK allows.
LEMMA IdleOK == ASSUME NEW D, NEW U PROVE CallOK(Idle, D, U)
BY DEF CallOK, Idle, CallFields

\* Only the call of c has moved, and to a call that CallOK allows.
Moves(c) ==
    /\ DOMAIN calls' = Callers
    /\ \A d \in Callers \ {c} : calls'[d] = calls[d]
    /\ CallOK(calls'[c], past'.doomed, past'.upserted)

\* Going on to the next statement moves one call.
LEMMA GotoMoves ==
    ASSUME CallsOK, NEW c \in Callers, NEW call, Goto(c, call),
           CallOK(call, past'.doomed, past'.upserted)
    PROVE  Moves(c)
BY DEF CallsOK, Goto, Moves

\* Returning moves one call.
LEMMA ReturnMoves ==
    ASSUME CallsOK, NEW c \in Callers, NEW result, Return(c, result)
    PROVE  Moves(c)
BY IdleOK DEF CallsOK, Return, Moves

\* A step that moves one call and treats the table so keeps the history.
LEMMA MoveKeeps ==
    ASSUME HistoryInv, NEW c \in Callers, PastOK', Grows, TableStep, RowsOK(rows'),
           Moves(c)
    PROVE  HistoryInv' /\ Kept(saved, saved', past'.doomed, past'.upserted)
<1>1. CallsOK'
    BY DEF Moves, HistoryInv, CallsOK, CallOK, Grows
<1> QED BY <1>1, TableStepKeeps

\* A query keeps the history.
LEMMA ReadKeeps ==
    ASSUME HistoryInv, NEW c \in Callers, ReadOnly, Moves(c)
    PROVE  HistoryInv' /\ Kept(saved, saved', past'.doomed, past'.upserted)
<1>1. PastOK' /\ Grows /\ RowsOK(rows')
    BY DEF HistoryInv, ReadOnly, PastOK, Grows
<1>2. TableStep
    BY KeptSelf DEF ReadOnly, TableStep
<1> QED BY <1>1, <1>2, MoveKeeps

\* A rollback keeps the history: the table is what was committed.
LEMMA RollBackKeeps ==
    ASSUME HistoryInv, NEW c \in Callers, NEW result, RollBack(c, result)
    PROVE  HistoryInv' /\ Kept(saved, saved', past'.doomed, past'.upserted)
<1>1. PastOK' /\ Grows /\ RowsOK(rows') /\ TableStep
    BY DEF HistoryInv, RollBack, PastOK, Grows, TableStep
<1>2. Moves(c)
    BY ReturnMoves DEF RollBack, HistoryInv
<1> QED BY <1>1, <1>2, MoveKeeps

\* Every query of the store is such a step.
LEMMA ReadsKeep ==
    ASSUME HistoryInv, NEW c \in Callers,
           \/ GetHead(c) \/ Fetch(c) \/ Collect(c) \/ ReadUpsert(c)
           \/ ReadCreate(c) \/ ReadBranch(c) \/ ReadPromote(c)
    PROVE  HistoryInv' /\ Kept(saved, saved', past'.doomed, past'.upserted)
<1>0. CallsOK /\ CallOK(calls[c], past.doomed, past.upserted)
    BY DEF HistoryInv, CallsOK
<1>1. CASE GetHead(c)
  <2>1. ReadOnly /\ Moves(c)
      BY <1>0, <1>1, GotoMoves, ReturnMoves
      DEF GetHead, ReadOnly, CallOK, CallFields
  <2> QED BY <2>1, ReadKeeps
<1>2. CASE Fetch(c)
  <2>1. ReadOnly /\ Moves(c)
      BY <1>0, <1>2, GotoMoves, ReturnMoves
      DEF Fetch, ReadOnly, CallOK, CallFields
  <2> QED BY <2>1, ReadKeeps
<1>3. CASE Collect(c)
  <2>1. ReadOnly /\ Moves(c)
      BY <1>0, <1>3, GotoMoves, ReturnMoves
      DEF Collect, ReadOnly, CallOK, CallFields
  <2> QED BY <2>1, ReadKeeps
<1>4. CASE ReadUpsert(c)
  <2>1. ReadOnly /\ Moves(c)
      BY <1>0, <1>4, GotoMoves, ReturnMoves
      DEF ReadUpsert, ReadOnly, CallOK, CallFields
  <2> QED BY <2>1, ReadKeeps
<1>5. CASE ReadCreate(c)
  <2>1. ReadOnly /\ Moves(c)
      BY <1>0, <1>5, GotoMoves, ReturnMoves
      DEF ReadCreate, Creates, ReadOnly, CallOK, CallFields
  <2> QED BY <2>1, ReadKeeps
<1>6. CASE ReadBranch(c)
  <2>1. ReadOnly /\ Moves(c)
      BY <1>0, <1>6, GotoMoves, ReturnMoves
      DEF ReadBranch, ReadOnly, CallOK, CallFields
  <2> QED BY <2>1, ReadKeeps
<1>7. CASE ReadPromote(c)
  <2>1. ReadOnly /\ Moves(c)
      BY <1>0, <1>7, GotoMoves, ReturnMoves
      DEF ReadPromote, ReadOnly, CallOK, CallFields
  <2> QED BY <2>1, ReadKeeps
<1> QED BY <1>1, <1>2, <1>3, <1>4, <1>5, <1>6, <1>7

\* A statement that only writes: nothing is committed, and the history of
\* deletions and upserts stands.
LEMMA WriteKeeps ==
    ASSUME HistoryInv, NEW c \in Callers, saved' = saved, PastOK',
           past'.doomed = past.doomed, past'.upserted = past.upserted,
           RowsOK(rows'), Kept(rows, rows', past.doomed, past.upserted),
           Moves(c)
    PROVE  HistoryInv' /\ Kept(saved, saved', past'.doomed, past'.upserted)
BY MoveKeeps DEF Grows, TableStep

\* Updates of other columns, and insertions, keep every version.
LEMMA KeptRow ==
    ASSUME NEW r, DOMAIN r = RowFields, NEW U
    PROVE  /\ Same(r, r, U) /\ Same([r EXCEPT !.ext = TRUE], r, U)
           /\ Same([r EXCEPT !.head = FALSE], r, U)
           /\ \A d : IdOf(r) \in U => Same([r EXCEPT !.def = d], r, U)
           /\ DOMAIN [r EXCEPT !.ext = TRUE] = RowFields
           /\ DOMAIN [r EXCEPT !.head = FALSE] = RowFields
           /\ \A d : DOMAIN [r EXCEPT !.def = d] = RowFields
BY DEF Same, IdOf, Id, RowFields

\* An insertion keeps every version.
LEMMA KeptSuperset ==
    ASSUME NEW S, NEW T, NEW D, NEW U, S \subseteq T PROVE Kept(S, T, D, U)
BY DEF Kept, Same

\* mark_external's UPDATE keeps every version.
LEMMA MarkKeeps ==
    ASSUME HistoryInv, NEW c \in Callers, Mark(c)
    PROVE  HistoryInv' /\ Kept(saved, saved', past'.doomed, past'.upserted)
<1>0. CallsOK /\ CallOK(calls[c], past.doomed, past.upserted) /\ RowsOK(rows)
    BY DEF HistoryInv, CallsOK
<1>1. Moves(c)
    BY <1>0, GotoMoves DEF Mark, CallOK, CallFields
<1>2. RowsOK(rows') /\ Kept(rows, rows', past.doomed, past.upserted)
    BY <1>0, KeptRow DEF Mark, RowsOK, Kept
<1> QED BY <1>1, <1>2, WriteKeeps DEF Mark, HistoryInv, PastOK

\* Clearing the head of a branch keeps every version.
LEMMA ClearKeeps ==
    ASSUME HistoryInv, NEW c \in Callers, ClearHeads(c)
    PROVE  HistoryInv' /\ Kept(saved, saved', past'.doomed, past'.upserted)
<1>0. CallsOK /\ CallOK(calls[c], past.doomed, past.upserted) /\ RowsOK(rows)
    BY DEF HistoryInv, CallsOK
<1>1. Moves(c)
    BY <1>0, GotoMoves DEF ClearHeads, CallOK, CallFields
<1>2. RowsOK(rows') /\ Kept(rows, rows', past.doomed, past.upserted)
    BY <1>0, KeptRow DEF ClearHeads, RowsOK, Kept
<1> QED BY <1>1, <1>2, WriteKeeps DEF ClearHeads, HistoryInv, PastOK

\* An INSERT keeps the history when its table keeps every version.
LEMMA InsertedKeeps ==
    ASSUME HistoryInv, NEW c \in Callers, NEW new, Inserted(c, new),
           RowsOK(new), Kept(rows, new, past.doomed, past.upserted), PastOK',
           past'.doomed = past.doomed, past'.upserted = past.upserted
    PROVE  HistoryInv' /\ Kept(saved, saved', past'.doomed, past'.upserted)
<1>0. CallsOK /\ CallOK(calls[c], past.doomed, past.upserted)
    BY DEF HistoryInv, CallsOK
<1>1. Moves(c)
    BY <1>0, GotoMoves DEF Inserted, CallOK, CallFields
<1> QED BY <1>1, WriteKeeps DEF Inserted

\* upsert_tool replaces the content of its own key only.
LEMMA InsertUpsertKeeps ==
    ASSUME HistoryInv, NEW c \in Callers, InsertUpsert(c)
    PROVE  HistoryInv' /\ Kept(saved, saved', past'.doomed, past'.upserted)
<1>0. RowsOK(rows) /\ calls[c].key \in past.upserted
    BY DEF HistoryInv, CallsOK, CallOK, InsertUpsert
<1>1. PastOK' /\ past'.doomed = past.doomed /\ past'.upserted = past.upserted
    BY DEF HistoryInv, PastOK, InsertUpsert
<1>2. CASE calls[c].key \in Ids(rows)
  <2> DEFINE new == {IF IdOf(r) = calls[c].key THEN [r EXCEPT !.def = calls[c].def]
                     ELSE r : r \in rows}
  <2>1. Inserted(c, new)
      BY <1>2 DEF InsertUpsert
  <2>2. RowsOK(new)
      BY <1>0, KeptRow DEF RowsOK
  <2>3. ASSUME NEW r \in rows PROVE \E q \in new : Same(q, r, past.upserted)
    <3>1. CASE IdOf(r) = calls[c].key
      <4>1. Same([r EXCEPT !.def = calls[c].def], r, past.upserted)
          BY <1>0, <3>1, KeptRow DEF RowsOK
      <4> QED BY <3>1, <4>1
    <3>2. CASE IdOf(r) # calls[c].key
        BY <3>2 DEF Same
    <3> QED BY <3>1, <3>2
  <2>4. Kept(rows, new, past.doomed, past.upserted)
      BY <2>3 DEF Kept
  <2> HIDE DEF new
  <2> QED BY <1>1, <2>1, <2>2, <2>4, InsertedKeeps
<1>3. CASE calls[c].key \notin Ids(rows)
  <2> DEFINE new == rows \cup {Row(calls[c], calls[c].parent, calls[c].ext)}
  <2>1. Inserted(c, new)
      BY <1>3 DEF InsertUpsert
  <2>2. RowsOK(new)
      BY <1>0 DEF RowsOK, Row, RowFields
  <2>3. Kept(rows, new, past.doomed, past.upserted)
      BY KeptSuperset
  <2> HIDE DEF new
  <2> QED BY <1>1, <2>1, <2>2, <2>3, InsertedKeeps
<1> QED BY <1>2, <1>3

\* create_version and create_branch copy a row and keep the others.
LEMMA InsertSelectKeeps ==
    ASSUME HistoryInv, NEW c \in Callers, InsertSelect(c)
    PROVE  HistoryInv' /\ Kept(saved, saved', past'.doomed, past'.upserted)
<1> DEFINE call == calls[c]
           source == {r \in rows : IdOf(r) = call.parent}
           new == rows \cup
                  {Row(IF call.op = "branch" THEN [call EXCEPT !.def = r.def] ELSE call,
                       call.parent, r.ext) : r \in source}
<1>1. CASE source # {} /\ call.key \in Ids(rows)
    BY <1>1, RollBackKeeps DEF InsertSelect
<1>2. CASE ~(source # {} /\ call.key \in Ids(rows))
  <2>1. Inserted(c, new) /\ past' = past
      BY <1>2 DEF InsertSelect
  <2>2. RowsOK(new)
      BY DEF HistoryInv, RowsOK, Row, RowFields
  <2>3. Kept(rows, new, past.doomed, past.upserted)
      BY KeptSuperset
  <2> HIDE DEF new
  <2> QED BY <2>1, <2>2, <2>3, InsertedKeeps DEF HistoryInv, PastOK
<1> QED BY <1>1, <1>2

\* promote_to_stable adds a version, or is rolled back when it is there.
LEMMA InsertPromoteKeeps ==
    ASSUME HistoryInv, NEW c \in Callers, InsertPromote(c)
    PROVE  HistoryInv' /\ Kept(saved, saved', past'.doomed, past'.upserted)
<1> DEFINE new == rows \cup {Row(calls[c], calls[c].parent, calls[c].ext)}
<1>1. CASE calls[c].key \in Ids(rows)
    BY <1>1, RollBackKeeps DEF InsertPromote
<1>2. CASE calls[c].key \notin Ids(rows)
  <2>1. Inserted(c, new) /\ past' = past
      BY <1>2 DEF InsertPromote
  <2>2. RowsOK(new)
      BY DEF HistoryInv, RowsOK, Row, RowFields
  <2>3. Kept(rows, new, past.doomed, past.upserted)
      BY KeptSuperset
  <2> HIDE DEF new
  <2> QED BY <2>1, <2>2, <2>3, InsertedKeeps DEF HistoryInv, PastOK
<1> QED BY <1>1, <1>2

\* Steps that commit, or change nothing in the table.
LEMMA CommitsKeep ==
    ASSUME HistoryInv, NEW c \in Callers, Marked(c) \/ Commit(c) \/ Log(c)
    PROVE  HistoryInv' /\ Kept(saved, saved', past'.doomed, past'.upserted)
<1>0. CallsOK /\ CallOK(calls[c], past.doomed, past.upserted) /\ RowsOK(rows)
      /\ PastOK
    BY DEF HistoryInv, CallsOK
<1>1. CASE ~RollBack(c, Failed)
  <2>1. rows' = rows /\ past' = past /\ saved' \in {saved, rows}
      BY <1>1 DEF Marked, Commit, Log
  <2>2. Moves(c)
      BY <1>0, <1>1, <2>1, GotoMoves, ReturnMoves
      DEF Marked, Commit, Log, CallOK, CallFields
  <2>3. TableStep /\ Grows /\ PastOK'
      BY <1>0, <2>1, KeptSelf DEF TableStep, Grows, PastOK
  <2> QED BY <1>0, <2>1, <2>2, <2>3, MoveKeeps
<1>2. CASE RollBack(c, Failed)
    BY <1>2, RollBackKeeps
<1> QED BY <1>1, <1>2

\* delete_tool's SELECT dooms the versions it found.
LEMMA SelectKeeps ==
    ASSUME HistoryInv, NEW c \in Callers, Select(c)
    PROVE  HistoryInv' /\ Kept(saved, saved', past'.doomed, past'.upserted)
<1>0. CallsOK /\ CallOK(calls[c], past.doomed, past.upserted) /\ PastOK
    BY DEF HistoryInv, CallsOK
<1>1. PastOK' /\ Grows
    BY <1>0 DEF Select, PastOK, Grows
<1>2. Moves(c)
    BY <1>0, GotoMoves, ReturnMoves DEF Select, CallOK, CallFields, PastOK
<1>3. TableStep /\ RowsOK(rows')
    BY KeptSelf DEF Select, TableStep, HistoryInv
<1> QED BY <1>1, <1>2, <1>3, MoveKeeps

\* delete_tool's DELETE removes only versions that are doomed.
LEMMA DeleteKeeps ==
    ASSUME HistoryInv, NEW c \in Callers, Delete(c)
    PROVE  HistoryInv' /\ Kept(saved, saved', past'.doomed, past'.upserted)
<1>0. CallsOK /\ CallOK(calls[c], past.doomed, past.upserted) /\ PastOK
      /\ RowsOK(rows) /\ past' = past
    BY DEF HistoryInv, CallsOK, Delete
<1>1. PastOK' /\ Grows /\ RowsOK(rows')
    BY <1>0 DEF PastOK, Grows, RowsOK, Delete
<1>2. Moves(c)
    BY <1>0, GotoMoves, ReturnMoves DEF Delete, CallOK, CallFields
<1>3. TableStep
  <2>1. CASE saved' = saved
    <3>1. Kept(rows, rows', past'.doomed, past'.upserted)
        BY <1>0, <2>1 DEF Delete, Kept, Same, CallOK
    <3> QED BY <2>1, <3>1 DEF TableStep
  <2>2. CASE saved' # saved
      BY <2>2 DEF Delete, TableStep
  <2> QED BY <2>1, <2>2
<1> QED BY <1>1, <1>2, <1>3, MoveKeeps

\* Every step keeps the history, and what is committed stays committed.
LEMMA HistoryStep ==
    HistoryInv /\ [Next]_vars
        => HistoryInv' /\ Kept(saved, saved', past'.doomed, past'.upserted)
<1> SUFFICES ASSUME HistoryInv, [Next]_vars
             PROVE  HistoryInv' /\ Kept(saved, saved', past'.doomed, past'.upserted)
    OBVIOUS
<1>1. CASE UNCHANGED vars
    BY <1>1, KeptSelf
    DEF vars, HistoryInv, CallsOK, CallOK, PastOK, RowsOK
<1>2. CASE Next
  <2>1. PICK c \in Callers : Requests(c) \/ Statements(c)
      BY <1>2 DEF Next
  <2>2. CASE Requests(c)
      BY <2>2, RequestKeeps
  <2>3. CASE DeleteRefused(c)
      BY <2>3, RollBackKeeps DEF DeleteRefused
  <2> QED BY <2>1, <2>2, <2>3, ReadsKeep, MarkKeeps, InsertUpsertKeeps,
             InsertSelectKeeps, InsertPromoteKeeps, ClearKeeps, CommitsKeep,
             SelectKeeps, DeleteKeeps DEF Statements
<1> QED BY <1>1, <1>2

\* A committed version keeps its place, its parent and its date, and its
\* content unless that version is upserted, however many calls overlap and
\* roll back each other's work; only delete_tool removes versions.
THEOREM HistoryIsKept == Spec => HistoryKept
<1>1. HistoryInv /\ [Next]_vars
        => [\A r \in saved : IdOf(r) \notin past'.doomed =>
              \E q \in saved' :
                  /\ IdOf(q) = IdOf(r) /\ q.parent = r.parent /\ q.at = r.at
                  /\ q.def = r.def \/ IdOf(r) \in past'.upserted]_vars
    BY HistoryStep DEF Kept, Same
<1> QED BY <1>1, HistoryInit, HistoryStep, PTL DEF Spec, HistoryKept
-----------------------------------------------------------------------------
(* No way around promotion *)

Lawful(r) ==
    is_stable(r.ver) /\ r.parent # NoId /\ ~is_stable(r.parent[2])
        => r.via \in {"promote", "upsert", "major"}

\* How a call makes its version: a created one follows the version of its
\* parent by its kind, a branch takes the version of its parent.
Made(call) ==
    /\ call.op = "create" => call.how \in Kinds
    /\ call.op = "merge" => call.how = "minor"
    /\ call.op = "rollback" => call.how = "patch"
    /\ call.op \in {"promote", "mark"} => call.how = "promote"
    /\ call.pc \in {"mark", "marked"} => call.op = "mark"
    /\ call.op = "upsert" => call.how = "upsert"
    /\ call.op = "branch" => call.how = "branch"
    /\ call.pc = "insert" /\ Creates(call)
          => call.key[2] = NextVersion(call.parent[2], call.how)
    /\ call.pc = "insert" /\ call.op = "branch" => call.key[2] = call.parent[2]

VersionInv ==
    /\ \A c \in Callers : Made(calls[c])
    /\ \A r \in rows \cup saved : Lawful(r)

\* Only a major bump of a candidate is stable.
LEMMA CandidateStays ==
    ASSUME NEW v, NEW how \in {"fix", "feature", "breaking", "patch", "minor"},
           is_stable(NextVersion(v, how))
    PROVE  is_stable(v)
BY DEF NextVersion, bump_for, bump_version, is_stable

\* The first version is lawful.
LEMMA VersionInit == Init => VersionInv
BY DEF Init, VersionInv, Made, Creates, Lawful, Idle, First, is_stable,
       GENERATED_INITIAL_VERSION

\* One caller moves to a call that is Made, and the rows stay Lawful.
LEMMA VersionMove ==
    ASSUME HistoryInv, VersionInv, NEW c \in Callers, NEW call,
           calls' = [calls EXCEPT ![c] = call], Made(call),
           \A r \in rows' : Lawful(r), saved' \in {saved, rows}
    PROVE  VersionInv'
BY DEF HistoryInv, CallsOK, VersionInv, Made, Creates

\* A return leaves lawful rows lawful.
LEMMA VersionReturn ==
    ASSUME HistoryInv, VersionInv, NEW c \in Callers, NEW result, Return(c, result),
           \A r \in rows' : Lawful(r), saved' \in {saved, rows}
    PROVE  VersionInv'
<1>1. Made(Idle)
    BY DEF Made, Creates, Idle
<1> QED BY <1>1, VersionMove DEF Return

\* A rollback returns to rows that were lawful.
LEMMA VersionRollBack ==
    ASSUME HistoryInv, VersionInv, NEW c \in Callers, NEW result, RollBack(c, result)
    PROVE  VersionInv'
BY VersionReturn DEF RollBack, VersionInv

\* Every operation begins with a call that is Made.
LEMMA VersionRequest ==
    ASSUME HistoryInv, VersionInv, NEW c \in Callers, Requests(c)
    PROVE  VersionInv'
<1>0. \A call : Begin(c, call) /\ Made(call) => VersionInv'
    BY VersionMove DEF Begin, VersionInv
<1>1. CASE upsert_tool(c)
    BY <1>0, <1>1 DEF upsert_tool, BeginNow, Idle, Made, Creates
<1>2. CASE create_version(c)
    BY <1>0, <1>2 DEF create_version, BeginNow, Idle, Made, Creates
<1>3. CASE create_branch(c)
    BY <1>0, <1>3 DEF create_branch, BeginNow, Idle, Made, Creates
<1>4. CASE merge_branch(c)
    BY <1>0, <1>4 DEF merge_branch, Idle, Made, Creates
<1>5. CASE rollback(c)
    BY <1>0, <1>5 DEF rollback, Idle, Made, Creates
<1>6. CASE promote_to_stable(c)
    BY <1>0, <1>6 DEF promote_to_stable, Idle, Made, Creates
<1>7. CASE mark_external(c)
    BY <1>0, <1>7 DEF mark_external, Idle, Made, Creates
<1>8. CASE delete_tool(c)
    BY <1>0, <1>8 DEF delete_tool, Idle, Made, Creates
<1> QED BY <1>1, <1>2, <1>3, <1>4, <1>5, <1>6, <1>7, <1>8 DEF Requests

\* Every query leaves the call Made.
LEMMA VersionRead ==
    ASSUME HistoryInv, VersionInv, NEW c \in Callers,
           \/ GetHead(c) \/ Fetch(c) \/ Collect(c) \/ ReadUpsert(c)
           \/ ReadCreate(c) \/ ReadBranch(c) \/ ReadPromote(c)
    PROVE  VersionInv'
<1>0. DOMAIN calls[c] = CallFields /\ Made(calls[c])
    BY DEF HistoryInv, CallsOK, CallOK, VersionInv
<1>1. \A call : ReadOnly /\ Goto(c, call) /\ Made(call) => VersionInv'
    BY VersionMove DEF ReadOnly, Goto, VersionInv
<1>2. \A result : ReadOnly /\ Return(c, result) => VersionInv'
    BY VersionReturn DEF ReadOnly, VersionInv
<1>3. CASE GetHead(c)
    BY <1>0, <1>1, <1>2, <1>3 DEF GetHead, Made, Creates, CallFields
<1>4. CASE Fetch(c)
    BY <1>0, <1>1, <1>2, <1>4 DEF Fetch, Made, Creates, CallFields
<1>5. CASE Collect(c)
    BY <1>0, <1>1, <1>2, <1>5 DEF Collect, Made, Creates, CallFields
<1>6. CASE ReadUpsert(c)
  <2>1. \A p, h : Made([calls[c] EXCEPT !.pc = "insert", !.parent = p, !.head = h])
      BY <1>0, <1>6 DEF ReadUpsert, Made, Creates, CallFields
  <2> QED BY <1>1, <1>6, <2>1 DEF ReadUpsert
<1>7. CASE ReadCreate(c)
    BY <1>0, <1>1, <1>2, <1>7
    DEF ReadCreate, Made, Creates, CallFields, IdOf, Id
<1>8. CASE ReadBranch(c)
    BY <1>0, <1>1, <1>2, <1>8
    DEF ReadBranch, Made, Creates, CallFields, IdOf, Id
<1>9. CASE ReadPromote(c)
    BY <1>0, <1>1, <1>2, <1>9 DEF ReadPromote, Made, Creates, CallFields
<1> QED BY <1>3, <1>4, <1>5, <1>6, <1>7, <1>8, <1>9

\* A row inserted by a call that is Made is Lawful.
LEMMA NewRowLawful ==
    ASSUME NEW call, Made(call), call.pc = "insert", NEW r,
           r.ver = call.key[2], r.parent = call.parent, r.via = call.how,
           Creates(call) \/ call.op \in {"branch", "upsert", "promote"}
    PROVE  Lawful(r)
<1>1. CASE Creates(call)
  <2>1. call.how \in {"fix", "feature", "breaking", "patch", "minor", "major"}
      BY <1>1, StoreAssumption DEF Creates, Made
  <2> QED BY <1>1, <2>1, CandidateStays DEF Made, Lawful
<1>2. CASE call.op \in {"branch", "upsert", "promote"}
    BY <1>2 DEF Made, Lawful
<1> QED BY <1>1, <1>2

\* Every INSERT adds a lawful version.
LEMMA VersionInsert ==
    ASSUME HistoryInv, VersionInv, NEW c \in Callers,
           InsertUpsert(c) \/ InsertSelect(c) \/ InsertPromote(c)
    PROVE  VersionInv'
<1>0. /\ DOMAIN calls[c] = CallFields /\ Made(calls[c])
      /\ RowsOK(rows) /\ (\A r \in rows : Lawful(r))
    BY DEF HistoryInv, CallsOK, CallOK, VersionInv
<1>1. ASSUME NEW new, Inserted(c, new), \A r \in new : Lawful(r)
      PROVE  VersionInv'
  <2>1. Made([calls[c] EXCEPT !.pc = IF calls[c].head THEN "clear" ELSE "commit"])
      BY <1>0 DEF Made, Creates, CallFields
  <2> QED BY <1>1, <2>1, VersionMove DEF Inserted, Goto
<1>2. \A e : /\ Creates(calls[c]) \/ calls[c].op \in {"upsert", "promote"}
             /\ calls[c].pc = "insert"
             => Lawful(Row(calls[c], calls[c].parent, e))
    BY <1>0, NewRowLawful DEF Row
<1>3. CASE InsertUpsert(c)
  <2>1. \A r \in rows : Lawful([r EXCEPT !.def = calls[c].def])
      BY <1>0 DEF Lawful, RowsOK, RowFields
  <2> QED BY <1>0, <1>1, <1>2, <1>3, <2>1 DEF InsertUpsert
<1>4. CASE InsertPromote(c)
    BY <1>0, <1>1, <1>2, <1>4, VersionRollBack DEF InsertPromote
<1>5. CASE InsertSelect(c)
  <2>1. \A d, e : calls[c].op = "branch" =>
            Lawful(Row([calls[c] EXCEPT !.def = d], calls[c].parent, e))
      BY <1>0, <1>5, NewRowLawful DEF Row, InsertSelect, CallFields
  <2> DEFINE call == calls[c]
             new == rows \cup
                 {Row(IF call.op = "branch" THEN [call EXCEPT !.def = r.def] ELSE call,
                      call.parent, r.ext) : r \in {q \in rows : IdOf(q) = call.parent}}
  <2>2. RollBack(c, Failed) \/ Inserted(c, new)
      BY <1>5 DEF InsertSelect
  <2>3. \A r \in new : Lawful(r)
      BY <1>0, <1>2, <1>5, <2>1 DEF InsertSelect
  <2> HIDE DEF new
  <2> QED BY <1>1, <2>2, <2>3, VersionRollBack
<1> QED BY <1>3, <1>4, <1>5

\* The other statements keep the versions lawful.
LEMMA VersionOther ==
    ASSUME HistoryInv, VersionInv, NEW c \in Callers,
           \/ Mark(c) \/ Marked(c) \/ ClearHeads(c) \/ Commit(c) \/ Log(c)
           \/ Select(c) \/ Delete(c) \/ DeleteRefused(c)
    PROVE  VersionInv'
<1>0. /\ DOMAIN calls[c] = CallFields /\ Made(calls[c])
      /\ RowsOK(rows) /\ (\A r \in rows : Lawful(r))
    BY DEF HistoryInv, CallsOK, CallOK, VersionInv
<1>1. \A r \in rows : Lawful([r EXCEPT !.ext = TRUE]) /\ Lawful([r EXCEPT !.head = FALSE])
    BY <1>0 DEF Lawful, RowsOK, RowFields
<1>2. ASSUME NEW call, Goto(c, call), Made(call),
             \A r \in rows' : Lawful(r), saved' \in {saved, rows}
      PROVE  VersionInv'
    BY <1>2, VersionMove DEF Goto
<1>3. CASE Mark(c)
    BY <1>0, <1>1, <1>2, <1>3 DEF Mark, Made, Creates, CallFields
<1>4. CASE ClearHeads(c)
    BY <1>0, <1>1, <1>2, <1>4 DEF ClearHeads, Made, Creates, CallFields
<1>5. CASE Marked(c)
  <2>1. Made([calls[c] EXCEPT !.pc = "head", !.op = "promote"])
      BY <1>0, <1>5 DEF Marked, Made, Creates, CallFields
  <2> QED BY <1>0, <1>2, <1>5, <2>1, VersionReturn DEF Marked
<1>6. CASE Commit(c)
    BY <1>0, <1>2, <1>6, VersionReturn, VersionRollBack
    DEF Commit, Made, Creates, CallFields
<1>7. CASE Log(c)
    BY <1>0, <1>7, VersionReturn DEF Log
<1>8. CASE Select(c)
    BY <1>0, <1>2, <1>8, VersionReturn DEF Select, Made, Creates, CallFields
<1>9. CASE Delete(c)
    BY <1>0, <1>2, <1>9, VersionReturn DEF Delete, Made, Creates, CallFields
<1>10. CASE DeleteRefused(c)
    BY <1>10, VersionRollBack DEF DeleteRefused
<1> QED BY <1>3, <1>4, <1>5, <1>6, <1>7, <1>8, <1>9, <1>10

\* Every step keeps it.
LEMMA VersionStep ==
    HistoryInv /\ VersionInv /\ [Next]_vars => VersionInv'
<1> SUFFICES ASSUME HistoryInv, VersionInv, [Next]_vars PROVE VersionInv'
    OBVIOUS
<1>1. CASE UNCHANGED vars
    BY <1>1 DEF vars, VersionInv, Made, Creates
<1>2. CASE Next
    BY <1>2, VersionRequest, VersionRead, VersionInsert, VersionOther
    DEF Next, Statements
<1> QED BY <1>1, <1>2

\* For any callers and calls: a version at or above 1.0.0 whose parent is a
\* candidate was made by a promotion, an upsert or an explicit major bump.
THEOREM CandidatesArePromoted == Spec => []NoWayAroundPromotion
<1>1. VersionInv => NoWayAroundPromotion
    BY DEF VersionInv, Lawful, NoWayAroundPromotion
<1> QED BY <1>1, HistoryInit, HistoryStep, VersionInit, VersionStep, PTL DEF Spec
-----------------------------------------------------------------------------
(* One call at a time: the table is a version tree *)

Versions == Nat \X Nat \X Nat
Greater(v, w) == compare_greater(v, w)

\* Nothing of the branch is newer than r.
Newest(r, S) == \A o \in S : o.branch = r.branch => o.at <= r.at

\* A table: a row for an id, a date for a row.
Table(S) ==
    /\ \A r \in S : r.branch \in Branches /\ r.ver \in Versions /\ r.at \in Nat
    /\ \A r, o \in S : IdOf(r) = IdOf(o) \/ r.at = o.at => r = o

\* One row has no parent, it is on main, and every other has an older one.
Tree(S) ==
    /\ \A r, o \in S : r.parent = NoId /\ o.parent = NoId => r = o
    /\ \A r \in S : r.parent = NoId => r.branch = Main
    /\ \A r \in S : r.parent # NoId => \E p \in S : IdOf(p) = r.parent /\ p.at < r.at

Ascends(S) ==
    \A r, o \in S : r.branch = Main /\ o.branch = Main /\ o.at < r.at
                        => Greater(r.ver, o.ver)

\* At most one flag on these branches.
OneFlag(S, bs) ==
    \A r, o \in S : r.branch \in bs /\ o.branch = r.branch /\ r.head /\ o.head => r = o

\* On these branches the newest row is the flagged one.
NewestFlagged(S, bs) == \A r \in S : r.branch \in bs => (r.head <=> Newest(r, S))

\* The table between two calls, flags on these branches only; D are the
\* versions deleted and L says that an upsert stored one below the head.
Good(S, bs, D, L) ==
    /\ Table(S) /\ OneFlag(S, bs)
    /\ D = {} => Tree(S)
    /\ D = {} /\ ~L => Ascends(S) /\ NewestFlagged(S, bs)

\* A three-way merge d of o and t over b keeps what either has changed.
Merged(d, b, o, t) ==
    \A f \in Fields : (t[f] # b[f] => d[f] = t[f]) /\ (o[f] # b[f] => d[f] = o[f])

\* What a call holds on to from one of its statements to the next: what it
\* has read is still so, as nobody else writes.
CallTypes(call) ==
    /\ call.branch \in Branches
    /\ call.op \in {"upsert", "rollback", "promote", "mark"} => call.branch = Main
    /\ call.op = "branch" => call.branch # Main
    /\ call.op # "upsert" => call.head = TRUE
    /\ call.pc = "fetch" => call.op = "rollback"
    /\ call.pc = "collect" => call.op = "merge"
    /\ call.pc \in {"mark", "marked"} => call.op = "mark"
    /\ call.pc \in {"insert", "clear"} \/ (call.pc = "read" /\ call.op \in {"upsert", "promote"})
          => call.key = Id(call.branch, call.key[2]) /\ call.key[2] \in Versions
    /\ call.op = "promote" /\ call.pc \in {"read", "insert"}
          => call.key = Id(Main, STABLE_INITIAL_VERSION)

\* It has a date of its own, later than every row's.
CallDated(call, S, now) ==
    call.pc \in {"read", "insert"} =>
        /\ call.at \in Nat /\ call.at < now
        /\ \A r \in S : r.at < call.at

\* The table it meets: committed, or left by its own statements.
CallTable(call, S, T, D, L) ==
    /\ call.pc \notin {"marked", "clear", "commit", "delete"} => S = T
    /\ call.pc # "clear" => Good(S, Branches, D, L)
    /\ call.pc = "clear" =>
          /\ Good(S, Branches \ {call.branch}, D, L)
          /\ D = {} /\ ~L => \E k \in S : IdOf(k) = call.key /\ k.head /\ Newest(k, S)
    /\ call.pc \in {"clear", "commit"} => call.key \in Ids(S)
    /\ call.pc \in {"mark", "marked"} => Id(Main, call.ver) \in Ids(S)

\* The version it is about to insert: its parent is there, or it is the
\* first, and its number is above the others of main.
CallInsert(call, S, D, L) ==
    call.pc = "insert" =>
        /\ call.parent \in Ids(S) \/ (call.op = "upsert" /\ call.parent = NoId /\ S = {})
        /\ D = {} /\ ~L =>
              \A r \in S : call.branch = Main /\ r.branch = Main =>
                  IF call.op = "upsert" THEN call.head => ~Greater(r.ver, call.key[2])
                  ELSE Greater(call.key[2], r.ver)

\* The content it writes: that of the head it promotes, or the merge of both.
CallContent(call, S, D, L) ==
    /\ call.pc = "read" /\ call.op = "promote" /\ D = {} /\ ~L =>
          \A p \in S : p.branch = Main /\ Newest(p, S)
                          => call.def = p.def /\ ~is_stable(p.ver)
    /\ call.pc = "insert" /\ call.op = "promote" /\ D = {} /\ ~L =>
          \A p \in S : IdOf(p) = call.parent => call.def = p.def
    /\ call.pc \in {"clear", "commit"} /\ call.op = "promote" /\ D = {} /\ ~L =>
          \A r, p \in S : IdOf(r) = call.key /\ IdOf(p) = r.parent => r.def = p.def
    /\ call.pc = "read" /\ call.op = "merge" =>
          \A p \in S : p.branch = call.branch /\ Newest(p, S)
                          => Merged(call.def, call.base, p.def, call.theirs)
    /\ call.pc = "insert" /\ call.op = "merge" =>
          \A p \in S : IdOf(p) = call.parent
                          => Merged(call.def, call.base, p.def, call.theirs)
    /\ call.pc \in {"clear", "commit", "log"} /\ call.op = "merge" =>
          \A r, p \in S : IdOf(r) = call.key /\ IdOf(p) = r.parent
                          => Merged(r.def, call.base, p.def, call.theirs)

CallInv(call, S, T, D, L, now) ==
    /\ CallTypes(call) /\ CallDated(call, S, now) /\ CallTable(call, S, T, D, L)
    /\ CallInsert(call, S, D, L) /\ CallContent(call, S, D, L)

\* As long as no two calls overlap.
AloneInv ==
    /\ clock \in Nat /\ \A r \in rows \cup saved : r.at < clock
    /\ Good(saved, Branches, past.doomed, past.lowered)
    /\ \A c, d \in Callers : calls[c].pc # "idle" /\ calls[d].pc # "idle" => c = d
    /\ Quiet => rows = saved
    /\ \A c \in Callers : calls[c].pc # "idle" =>
          CallInv(calls[c], rows, saved, past.doomed, past.lowered, clock)
    /\ \A c \in Callers : calls[c].pc = "idle" =>
          ret[c] \in {NoId, Failed} \cup past.doomed \cup Ids(saved)

SeqInv == DOMAIN ret = Callers /\ (Alone => AloneInv)

\* Versions are totally ordered.
LEMMA GreaterOrder ==
    ASSUME NEW v \in Versions, NEW w \in Versions
    PROVE  /\ v = w \/ Greater(v, w) \/ Greater(w, v)
           /\ ~(Greater(v, w) /\ Greater(w, v)) /\ ~Greater(v, v)
           /\ \A u \in Versions : Greater(v, w) /\ Greater(w, u) => Greater(v, u)
BY DEF Versions, Greater, compare_greater

\* A bump goes up.
LEMMA BumpGreater ==
    ASSUME NEW v \in Versions, NEW how
    PROVE  NextVersion(v, how) \in Versions /\ Greater(NextVersion(v, how), v)
<1>1. \A part : bump_version(v, part) \in Versions /\ Greater(bump_version(v, part), v)
    BY DEF Versions, Greater, compare_greater, bump_version
<1> QED BY <1>1 DEF NextVersion, bump_for

\* A set of numbers has a least one.
LEMMA LeastNumber ==
    ASSUME NEW T, T \subseteq Nat, T # {}
    PROVE  \E x \in T : \A y \in T : x <= y
<1>1. PICK x \in T : \A y \in T : ~(<<y, x>> \in OpToRel(<, Nat))
    BY WFMin, NatLessThanWellFounded
<1>2. \A y \in T : ~(y < x)
    BY <1>1 DEF OpToRel
<1> QED BY <1>2

\* A table, or a part of it, has a latest and an earliest row.
LEMMA LatestRow ==
    ASSUME NEW S, S # {}, NEW n \in Nat, \A r \in S : r.at \in Nat /\ r.at < n
    PROVE  Latest(S) \in S /\ \A o \in S : o.at <= Latest(S).at
<1> DEFINE T == {n - r.at : r \in S}
<1>1. T \subseteq Nat /\ T # {}
    OBVIOUS
<1>2. PICK x \in T : \A y \in T : x <= y
    BY <1>1, LeastNumber
<1>3. PICK r \in S : x = n - r.at
    OBVIOUS
<1>4. \A o \in S : o.at <= r.at
  <2> TAKE o \in S
  <2>1. n - o.at \in T /\ n - r.at <= n - o.at
      BY <1>2, <1>3
  <2> QED BY <2>1
<1> QED BY <1>4 DEF Latest

\* A table, or a part of it, has an earliest row.
LEMMA EarliestRow ==
    ASSUME NEW S, S # {}, \A r \in S : r.at \in Nat
    PROVE  Earliest(S) \in S /\ \A o \in S : o.at >= Earliest(S).at
<1> DEFINE T == {r.at : r \in S}
<1>1. T \subseteq Nat /\ T # {}
    OBVIOUS
<1>2. PICK x \in T : \A y \in T : x <= y
    BY <1>1, LeastNumber
<1>3. PICK r \in S : x = r.at
    OBVIOUS
<1>4. \A o \in S : o.at >= r.at
    BY <1>2, <1>3
<1> QED BY <1>4 DEF Earliest

\* More deleted, or a version below the head, promises less.
LEMMA GoodMore ==
    ASSUME NEW S, NEW bs, NEW D, NEW E, NEW L, NEW M, Good(S, bs, D, L),
           D \subseteq E, ~M => ~L
    PROVE  Good(S, bs, E, M)
BY DEF Good

\* So do fewer branches.
LEMMA GoodFewer ==
    ASSUME NEW S, NEW bs, NEW as, as \subseteq bs, NEW D, NEW L, Good(S, bs, D, L)
    PROVE  Good(S, as, D, L)
BY DEF Good, OneFlag, NewestFlagged

\* Where versions are deleted, what is left is as good.
LEMMA GoodPart ==
    ASSUME NEW S, NEW T, T \subseteq S, NEW bs, NEW D, D # {}, NEW L, Good(S, bs, D, L)
    PROVE  Good(T, bs, D, L)
BY DEF Good, Table, OneFlag

\* The same row, but for its flag, its content and its origin.
Like(t, r) == t.branch = r.branch /\ t.ver = r.ver /\ t.parent = r.parent /\ t.at = r.at

\* The same rows.
Likened(T, S) ==
    /\ \A t \in T : \E r \in S : Like(t, r)
    /\ \A r \in S : \E t \in T : Like(t, r)
    /\ \A t, u \in T : IdOf(t) = IdOf(u) => t = u

\* The same rows are a table with the same ids,
LEMMA LikenedTable ==
    ASSUME NEW S, NEW T, Likened(T, S), Table(S)
    PROVE  Table(T) /\ Ids(T) = Ids(S)
<1>1. \A t \in T : t.branch \in Branches /\ t.ver \in Versions /\ t.at \in Nat
    BY DEF Likened, Like, Table
<1>2. \A t, u \in T : t.at = u.at => t = u
  <2> TAKE t, u \in T
  <2> HAVE t.at = u.at
  <2>1. PICK r \in S : Like(t, r)
      BY DEF Likened
  <2>2. PICK o \in S : Like(u, o)
      BY DEF Likened
  <2>3. r = o
      BY <2>1, <2>2 DEF Like, Table
  <2> QED BY <2>1, <2>2, <2>3 DEF Likened, Like, IdOf
<1>3. Ids(T) = Ids(S)
    BY DEF Likened, Like, Ids, IdOf
<1> QED BY <1>1, <1>2, <1>3 DEF Table, Likened

\* and a tree if the others are one,
LEMMA LikenedTree ==
    ASSUME NEW S, NEW T, Likened(T, S), Table(S), Tree(S)
    PROVE  Tree(T)
<1>1. \A t, u \in T : t.parent = NoId /\ u.parent = NoId => t = u
  <2> TAKE t, u \in T
  <2> HAVE t.parent = NoId /\ u.parent = NoId
  <2>1. PICK r \in S : Like(t, r)
      BY DEF Likened
  <2>2. PICK o \in S : Like(u, o)
      BY DEF Likened
  <2>3. r = o
      BY <2>1, <2>2 DEF Like, Tree
  <2> QED BY <2>1, <2>2, <2>3 DEF Likened, Like, IdOf
<1>2. \A t \in T : t.parent # NoId => \E p \in T : IdOf(p) = t.parent /\ p.at < t.at
  <2> TAKE t \in T
  <2> HAVE t.parent # NoId
  <2>1. PICK r \in S : Like(t, r)
      BY DEF Likened
  <2>2. PICK o \in S : IdOf(o) = r.parent /\ o.at < r.at
      BY <2>1 DEF Like, Tree
  <2>3. PICK p \in T : Like(p, o)
      BY DEF Likened
  <2> QED BY <2>1, <2>2, <2>3 DEF Like, IdOf
<1>3. \A t \in T : t.parent = NoId => t.branch = Main
    BY DEF Likened, Like, Tree
<1> QED BY <1>1, <1>2, <1>3 DEF Tree

\* and their numbers go up if those of the others do.
LEMMA LikenedAscends ==
    ASSUME NEW S, NEW T, Likened(T, S), Ascends(S)
    PROVE  Ascends(T)
<1> SUFFICES ASSUME NEW t \in T, NEW u \in T, t.branch = Main, u.branch = Main, u.at < t.at
             PROVE  Greater(t.ver, u.ver)
    BY DEF Ascends
<1>1. PICK r \in S : Like(t, r)
    BY DEF Likened
<1>2. PICK o \in S : Like(u, o)
    BY DEF Likened
<1> QED BY <1>1, <1>2 DEF Like, Ascends

\* With their flags, they are as good.
LEMMA LikenedGood ==
    ASSUME NEW S, NEW T, Likened(T, S), NEW bs, NEW D, NEW L, Good(S, bs, D, L),
           \A t \in T, r \in S : Like(t, r) => (t.head <=> r.head)
    PROVE  Good(T, bs, D, L) /\ Ids(T) = Ids(S)
<1>1. Table(T) /\ Ids(T) = Ids(S)
    BY LikenedTable DEF Good
<1>2. (D = {} => Tree(T)) /\ (D = {} /\ ~L => Ascends(T))
    BY LikenedTree, LikenedAscends DEF Good
<1>3. OneFlag(T, bs)
  <2> SUFFICES ASSUME NEW t \in T, NEW u \in T, t.branch \in bs, u.branch = t.branch,
                      t.head, u.head
               PROVE  t = u
      BY DEF OneFlag
  <2>1. PICK r \in S : Like(t, r)
      BY DEF Likened
  <2>2. PICK o \in S : Like(u, o)
      BY DEF Likened
  <2>3. r = o
      BY <2>1, <2>2 DEF Like, Good, OneFlag
  <2> QED BY <2>1, <2>2, <2>3 DEF Likened, Like, IdOf
<1>4. D = {} /\ ~L => NewestFlagged(T, bs)
  <2> SUFFICES ASSUME NewestFlagged(S, bs), NEW t \in T, t.branch \in bs
               PROVE  t.head <=> Newest(t, T)
      BY DEF Good, NewestFlagged
  <2>1. PICK r \in S : Like(t, r)
      BY DEF Likened
  <2>2. Newest(r, S) <=> Newest(t, T)
      BY <2>1 DEF Newest, Likened, Like
  <2> QED BY <2>1, <2>2 DEF NewestFlagged, Like
<1> QED BY <1>1, <1>2, <1>3, <1>4 DEF Good

\* What the row x needs to join the table S.
Joins(x, S, D, L) ==
    /\ x.branch \in Branches /\ x.ver \in Versions /\ x.at \in Nat
    /\ \A r \in S : r.at < x.at
    /\ IdOf(x) \notin Ids(S)
    /\ IF S = {} THEN x.parent = NoId /\ x.branch = Main ELSE x.parent \in Ids(S)
    /\ D = {} /\ ~L => \A r \in S : x.branch = Main /\ r.branch = Main => Greater(x.ver, r.ver)

\* A table joined by a new version is good, up to the flags of its branch.
LEMMA GoodInsert ==
    ASSUME NEW S, NEW D, NEW L, NEW bs, Good(S, bs, D, L), NEW x, Joins(x, S, D, L)
    PROVE  Good(S \cup {x}, bs \ {x.branch}, D, L) /\ Newest(x, S \cup {x})
<1> DEFINE T == S \cup {x}
<1>0. Table(S) /\ \A r \in S : r.at \in Nat /\ r.at # x.at /\ IdOf(r) # IdOf(x)
    BY DEF Good, Table, Joins, Ids
<1>1. Table(T)
    BY <1>0 DEF Table, Joins
<1>2. OneFlag(T, bs \ {x.branch})
    BY DEF Good, OneFlag
<1>3. D = {} => Tree(T)
  <2> HAVE D = {}
  <2>0. Tree(S) /\ NoId \notin Ids(S)
      BY DEF Good, Ids, IdOf, Id, NoId
  <2>1. x.parent # NoId => \E p \in T : IdOf(p) = x.parent /\ p.at < x.at
      BY DEF Joins, Ids
  <2>2. \A r \in S : r.parent # NoId => \E p \in T : IdOf(p) = r.parent /\ p.at < r.at
      BY <2>0 DEF Tree
  <2>3. \A r, o \in T : r.parent = NoId /\ o.parent = NoId => r = o
      BY <2>0 DEF Tree, Joins
  <2>4. \A r \in T : r.parent = NoId => r.branch = Main
      BY <2>0 DEF Tree, Joins
  <2> QED BY <2>1, <2>2, <2>3, <2>4 DEF Tree
<1>4. D = {} /\ ~L => Ascends(T)
  <2> HAVE D = {} /\ ~L
  <2>1. \A r \in S : ~(x.at < r.at) /\ ~(x.at < x.at)
      BY <1>0 DEF Joins
  <2> QED BY <2>1 DEF Good, Ascends, Joins
<1>5. Newest(x, T)
    BY <1>0 DEF Newest, Joins
<1>6. D = {} /\ ~L => NewestFlagged(T, bs \ {x.branch})
  <2> HAVE D = {} /\ ~L
  <2> SUFFICES ASSUME NEW r \in T, r.branch \in bs \ {x.branch}
               PROVE  r.head <=> Newest(r, T)
      BY DEF NewestFlagged
  <2>1. r \in S /\ (Newest(r, S) <=> Newest(r, T))
      BY DEF Newest
  <2> QED BY <2>1 DEF Good, NewestFlagged
<1> QED BY <1>1, <1>2, <1>3, <1>4, <1>5, <1>6 DEF Good

\* An unflagged version leaves at most one flag.
LEMMA GoodInsertBelow ==
    ASSUME NEW S, NEW D, NEW L, NEW bs, Good(S, bs, D, L), NEW x, Joins(x, S, D, L),
           ~x.head
    PROVE  Good(S \cup {x}, bs, D, TRUE)
<1>1. Good(S \cup {x}, bs \ {x.branch}, D, L)
    BY GoodInsert
<1>2. OneFlag(S \cup {x}, bs)
    BY DEF Good, OneFlag
<1> QED BY <1>1, <1>2 DEF Good

\* ClearHeads: only the version of this id keeps a flag on its branch.
Cleared(S, b, key) ==
    {IF r.branch = b /\ IdOf(r) # key THEN [r EXCEPT !.head = FALSE] ELSE r : r \in S}

\* Clearing flags changes no row otherwise.
LEMMA ClearedLike ==
    ASSUME NEW S, RowsOK(S), Table(S), NEW b, NEW key
    PROVE  Likened(Cleared(S, b, key), S)
<1> DEFINE Row1(r) == IF r.branch = b /\ IdOf(r) # key THEN [r EXCEPT !.head = FALSE] ELSE r
<1>1. \A r \in S : Like(Row1(r), r)
    BY DEF Like, RowsOK, RowFields
<1>2. \A r, o \in S : IdOf(Row1(r)) = IdOf(Row1(o)) => r = o
    BY <1>1 DEF Like, Table, IdOf
<1>3. Cleared(S, b, key) = {Row1(r) : r \in S}
    BY DEF Cleared
<1> HIDE DEF Row1
<1> QED BY <1>1, <1>2, <1>3 DEF Likened

\* With the flags of a branch cleared, but for its newest row, its flags are right.
LEMMA GoodCleared ==
    ASSUME NEW S, RowsOK(S), NEW b, NEW v, NEW D, NEW L, NEW bs, Good(S, bs \ {b}, D, L),
           D = {} /\ ~L => \E k \in S : IdOf(k) = Id(b, v) /\ k.head /\ Newest(k, S)
    PROVE  Good(Cleared(S, b, Id(b, v)), bs, D, L) /\ Ids(Cleared(S, b, Id(b, v))) = Ids(S)
<1> DEFINE T == Cleared(S, b, Id(b, v))
<1>0. Table(S) /\ Likened(T, S)
    BY ClearedLike DEF Good
<1>1. Table(T) /\ Ids(T) = Ids(S) /\ (D = {} => Tree(T)) /\ (D = {} /\ ~L => Ascends(T))
    BY <1>0, LikenedTable, LikenedTree, LikenedAscends DEF Good
<1>2. \A t \in T : \E r \in S : /\ Like(t, r)
                                /\ r.branch # b => t = r
                                /\ r.branch = b /\ IdOf(r) # Id(b, v) => t.head = FALSE
                                /\ r.branch = b /\ IdOf(r) = Id(b, v) => t = r
    BY DEF Cleared, Like, RowsOK, RowFields
<1> HIDE DEF T
<1>3. OneFlag(T, bs)
  <2> SUFFICES ASSUME NEW t \in T, NEW u \in T, t.branch \in bs, u.branch = t.branch,
                      t.head, u.head
               PROVE  t = u
      BY DEF OneFlag
  <2>1. CASE t.branch = b
    <3>1. IdOf(t) = Id(b, v) /\ IdOf(u) = Id(b, v)
        BY <1>2, <2>1 DEF Like, IdOf
    <3> QED BY <3>1, <1>1 DEF Table
  <2>2. CASE t.branch # b
    <3>1. t \in S /\ u \in S
        BY <1>2, <2>2 DEF Like
    <3> QED BY <3>1, <2>2 DEF Good, OneFlag
  <2> QED BY <2>1, <2>2
<1>4. D = {} /\ ~L => NewestFlagged(T, bs)
  <2> SUFFICES ASSUME D = {} /\ ~L, NEW t \in T, t.branch \in bs
               PROVE  t.head <=> Newest(t, T)
      BY DEF NewestFlagged
  <2>0. \A r \in S : Like(t, r) => (Newest(r, S) <=> Newest(t, T))
      BY <1>0 DEF Newest, Likened, Like
  <2>1. CASE t.branch # b
    <3>1. t \in S
        BY <1>2, <2>1 DEF Like
    <3>2. Newest(t, S) <=> Newest(t, T)
        BY <2>0, <3>1 DEF Like
    <3> QED BY <3>1, <3>2, <2>1 DEF Good, NewestFlagged
  <2>2. CASE t.branch = b
    <3>1. PICK k \in S : IdOf(k) = Id(b, v) /\ k.head /\ Newest(k, S)
        OBVIOUS
    <3>2. PICK r \in S : /\ Like(t, r)
                         /\ r.branch = b /\ IdOf(r) # Id(b, v) => t.head = FALSE
                         /\ r.branch = b /\ IdOf(r) = Id(b, v) => t = r
        BY <1>2
    <3>3. k.branch = b /\ r.branch = b
        BY <3>1, <3>2, <2>2 DEF Like, IdOf, Id
    <3>4. CASE IdOf(r) = Id(b, v)
      <4>1. r = k /\ t = r
          BY <3>1, <3>2, <3>3, <3>4, <1>0 DEF Table
      <4> QED BY <4>1, <3>1, <2>0, <3>2
    <3>5. CASE IdOf(r) # Id(b, v)
      <4>1. ~Newest(r, S)
        <5>1. r.at # k.at /\ r.at \in Nat /\ k.at \in Nat
            BY <3>1, <3>5, <1>0 DEF Table
        <5> QED BY <5>1, <3>1, <3>3 DEF Newest
      <4> QED BY <4>1, <3>2, <3>3, <3>5, <2>0
    <3> QED BY <3>4, <3>5
  <2> QED BY <2>1, <2>2
<1> QED BY <1>1, <1>3, <1>4 DEF Good, T

\* What AloneInv says of the caller c and of the store, when no one else is
\* in a call.
Sits(c) ==
    /\ clock \in Nat /\ \A r \in rows \cup saved : r.at < clock
    /\ Good(saved, Branches, past.doomed, past.lowered)
    /\ calls[c].pc = "idle" =>
          rows = saved /\ ret[c] \in {NoId, Failed} \cup past.doomed \cup Ids(saved)
    /\ calls[c].pc # "idle" =>
          CallInv(calls[c], rows, saved, past.doomed, past.lowered, clock)

OthersIdle(c) == \A d \in Callers \ {c} : calls[d].pc = "idle"

\* Of the one call in progress the invariant says what Sits says.
LEMMA AloneSits ==
    ASSUME AloneInv, NEW c \in Callers, OthersIdle(c)
    PROVE  Sits(c)
BY DEF AloneInv, Sits, OthersIdle, Quiet

\* What is true of the stepping call is enough, as the others are idle.
LEMMA SitsAlone ==
    ASSUME AloneInv, NEW c \in Callers, OthersIdle(c), Grows, Sits(c)',
           \A d \in Callers \ {c} : calls'[d] = calls[d] /\ ret'[d] = ret[d],
           Kept(saved, saved', past'.doomed, past'.upserted)
    PROVE  AloneInv'
<1>1. \A i \in Ids(saved) : i \in past'.doomed \cup Ids(saved')
    BY DEF Kept, Same, Ids
<1>2. \A d \in Callers \ {c} : calls'[d].pc = "idle"
          /\ ret'[d] \in {NoId, Failed} \cup past'.doomed \cup Ids(saved')
    BY <1>1 DEF AloneInv, OthersIdle, Grows
<1>3. \A d, e \in Callers : calls'[d].pc # "idle" /\ calls'[e].pc # "idle" => d = e
    BY <1>2
<1>4. \A d \in Callers : calls'[d].pc # "idle" =>
          CallInv(calls'[d], rows', saved', past'.doomed, past'.lowered, clock')
    BY <1>2 DEF Sits
<1>5. \A d \in Callers : calls'[d].pc = "idle" =>
          ret'[d] \in {NoId, Failed} \cup past'.doomed \cup Ids(saved')
    BY <1>2 DEF Sits
<1>6. Quiet' => rows' = saved'
    BY DEF Sits, Quiet
<1> QED BY <1>3, <1>4, <1>5, <1>6 DEF AloneInv, Sits

\* The call goes on with its next statement.
LEMMA SitsGoto ==
    ASSUME HistoryInv, NEW c \in Callers, NEW call, Goto(c, call), call.pc # "idle",
           clock' \in Nat, \A r \in rows' \cup saved' : r.at < clock',
           Good(saved', Branches, past'.doomed, past'.lowered),
           CallInv(call, rows', saved', past'.doomed, past'.lowered, clock')
    PROVE  Sits(c)'
<1>1. calls'[c] = call
    BY DEF HistoryInv, CallsOK, Goto
<1> QED BY <1>1 DEF Sits

\* The call returns, with nothing left uncommitted.
LEMMA SitsReturn ==
    ASSUME HistoryInv, NEW c \in Callers, DOMAIN ret = Callers, NEW result, Return(c, result),
           clock' \in Nat, \A r \in rows' \cup saved' : r.at < clock',
           Good(saved', Branches, past'.doomed, past'.lowered),
           rows' = saved', result \in {NoId, Failed} \cup Ids(saved')
    PROVE  Sits(c)'
<1>1. calls'[c] = Idle /\ ret'[c] = result
    BY DEF HistoryInv, CallsOK, Return
<1> QED BY <1>1 DEF Sits, Idle

\* A call rolled back leaves the table as committed.
LEMMA SitsRollBack ==
    ASSUME HistoryInv, NEW c \in Callers, DOMAIN ret = Callers, Sits(c),
           NEW result \in {NoId, Failed}, RollBack(c, result)
    PROVE  Sits(c)'
BY SitsReturn DEF RollBack, Sits

\* A query goes on, or returns.
LEMMA SitsRead ==
    ASSUME HistoryInv, NEW c \in Callers, DOMAIN ret = Callers, Sits(c), ReadOnly
    PROVE  /\ \A call : /\ Goto(c, call) /\ call.pc # "idle" /\ clock' \in {clock, clock + 1}
                        /\ CallInv(call, rows, saved, past.doomed, past.lowered, clock')
                        => Sits(c)'
           /\ \A result \in {NoId, Failed} \cup Ids(saved) :
                  Return(c, result) /\ clock' = clock /\ rows = saved => Sits(c)'
<1>1. rows' = rows /\ saved' = saved /\ past' = past
    BY DEF ReadOnly
<1>2. clock \in Nat /\ (\A r \in rows \cup saved : r.at \in Nat /\ r.at < clock)
      /\ Good(saved, Branches, past.doomed, past.lowered)
  <2>1. calls[c].pc = "idle" => Table(rows)
      BY DEF Sits, Good
  <2>2. calls[c].pc # "idle" => Table(rows)
      BY DEF Sits, CallInv, CallTable, Good
  <2> QED BY <2>1, <2>2 DEF Sits, Good, Table
<1>3. ASSUME NEW call, Goto(c, call), call.pc # "idle", clock' \in {clock, clock + 1},
             CallInv(call, rows, saved, past.doomed, past.lowered, clock')
      PROVE  Sits(c)'
  <2>1. clock' \in Nat /\ \A r \in rows \cup saved : r.at < clock'
      BY <1>2, <1>3
  <2> QED BY <1>1, <1>2, <1>3, <2>1, SitsGoto
<1>4. ASSUME NEW result \in {NoId, Failed} \cup Ids(saved),
             Return(c, result), clock' = clock, rows = saved
      PROVE  Sits(c)'
    BY <1>1, <1>2, <1>4, SitsReturn
<1> QED BY <1>3, <1>4

\* A call that reads a good committed table has it still.
LEMMA ReadsTable ==
    ASSUME NEW call, NEW S, NEW D, NEW L, Good(S, Branches, D, L),
           call.pc \in {"head", "mark", "fetch", "collect", "read", "insert", "select"},
           call.pc = "mark" => Id(Main, call.ver) \in Ids(S)
    PROVE  CallTable(call, S, S, D, L)
BY DEF CallTable

\* The newest row of a branch is the latest created.
LEMMA NewestRow ==
    ASSUME NEW S, Table(S), NEW n \in Nat, \A r \in S : r.at < n, NEW b,
           NEW T, T = {r \in S : r.branch = b}, T # {}
    PROVE  /\ Latest(T) \in S /\ Latest(T).branch = b /\ Newest(Latest(T), S)
           /\ \A r \in S : r.branch = b /\ Newest(r, S) => r = Latest(T)
<1>1. Latest(T) \in T /\ \A o \in T : o.at <= Latest(T).at
    BY LatestRow DEF Table
<1>2. Newest(Latest(T), S)
    BY <1>1 DEF Newest
<1>3. ASSUME NEW r \in S, r.branch = b, Newest(r, S) PROVE r = Latest(T)
  <2>1. r.at <= Latest(T).at /\ Latest(T).at <= r.at
      BY <1>1, <1>3 DEF Newest
  <2> QED BY <1>1, <2>1 DEF Table
<1> QED BY <1>1, <1>2, <1>3

\* So it is for the table at hand.
LEMMA NewestOn ==
    ASSUME Table(rows), clock \in Nat, \A r \in rows : r.at < clock,
           NEW b, On(b) # {}
    PROVE  /\ Latest(On(b)) \in rows /\ Latest(On(b)).branch = b
           /\ Newest(Latest(On(b)), rows)
           /\ \A r \in rows : r.branch = b /\ Newest(r, rows) => r = Latest(On(b))
<1>1. On(b) = {r \in rows : r.branch = b}
    BY DEF On
<1> QED BY <1>1, NewestRow

\* A call begins on a committed table.
LEMMA SitsBegin ==
    ASSUME HistoryInv, NEW c \in Callers, Sits(c), NEW call, Begin(c, call),
           call.pc \in {"head", "fetch", "collect", "read", "select"},
           clock' \in {clock, clock + 1},
           call.pc = "read" => call.at = clock /\ clock' = clock + 1
                               /\ call.op \notin {"promote", "merge"},
           CallTypes(call)
    PROVE  Sits(c)'
<1>1. /\ rows' = rows /\ saved' = saved /\ rows = saved
      /\ past'.doomed = past.doomed /\ past'.lowered = past.lowered
      /\ calls' = [calls EXCEPT ![c] = call] /\ calls'[c] = call
    BY DEF Begin, HistoryInv, CallsOK, PastOK, Sits
<1>2. /\ clock \in Nat /\ (\A r \in rows : r.at \in Nat /\ r.at < clock)
      /\ Good(rows, Branches, past.doomed, past.lowered)
    BY <1>1 DEF Sits, Good, Table
<1>3. clock' \in Nat /\ \A r \in rows : r.at < clock'
    BY <1>2
<1>4. CallTable(call, rows, rows, past.doomed, past.lowered)
    BY <1>2, ReadsTable
<1>5. CallDated(call, rows, clock')
    BY <1>2 DEF CallDated
<1>6. CallInsert(call, rows, past.doomed, past.lowered)
    BY DEF CallInsert
<1>7. CallContent(call, rows, past.doomed, past.lowered)
    BY DEF CallContent
<1> QED BY <1>1, <1>2, <1>3, <1>4, <1>5, <1>6, <1>7 DEF Sits, CallInv

\* upsert_tool's version is a version.
LEMMA InitialVersion ==
    ASSUME NEW declared \in Declared, NEW external \in BOOLEAN
    PROVE  resolve_initial_version(declared, external) \in Versions
BY StoreAssumption DEF resolve_initial_version, Versions, None,
   GENERATED_INITIAL_VERSION, STABLE_INITIAL_VERSION

\* A call begins with nothing read and the table as committed.
LEMMA SitsRequest ==
    ASSUME HistoryInv, NEW c \in Callers, Sits(c), Requests(c)
    PROVE  Sits(c)'
<1>0. clock \in Nat
    BY DEF Sits
<1>1. CASE upsert_tool(c)
  <2>1. PICK declared \in Declared, external \in BOOLEAN :
            BeginNow(c, [Idle EXCEPT !.pc = "read", !.op = "upsert", !.how = "upsert",
                !.ext = external, !.key = Id(Main, resolve_initial_version(declared, external))])
      BY <1>1 DEF upsert_tool
  <2> DEFINE v == resolve_initial_version(declared, external)
  <2>2. v \in Versions
      BY InitialVersion
  <2> HIDE DEF v
  <2>3. CallTypes([Idle EXCEPT !.pc = "read", !.op = "upsert", !.how = "upsert",
                      !.ext = external, !.key = Id(Main, v), !.at = clock])
      BY <2>2 DEF CallTypes, Idle, Id, Branches, Main
  <2> QED BY <1>0, <2>1, <2>3, SitsBegin DEF BeginNow, Idle, v
<1>2. CASE create_version(c)
    BY <1>0, <1>2, SitsBegin DEF create_version, BeginNow, Idle, CallTypes
<1>3. CASE create_branch(c)
    BY <1>0, <1>3, SitsBegin DEF create_branch, BeginNow, Idle, CallTypes, Branches, Main
<1>4. CASE merge_branch(c)
    BY <1>4, SitsBegin DEF merge_branch, Idle, CallTypes
<1>5. CASE rollback(c)
    BY <1>5, SitsBegin DEF rollback, Idle, CallTypes, Branches, Main
<1>6. CASE promote_to_stable(c)
    BY <1>6, SitsBegin DEF promote_to_stable, Idle, CallTypes, Branches, Main
<1>7. CASE mark_external(c)
    BY <1>7, SitsBegin DEF mark_external, Idle, CallTypes, Branches, Main
<1>8. CASE delete_tool(c)
    BY <1>8, SitsBegin DEF delete_tool, Idle, CallTypes, Branches, Main
<1> QED BY <1>1, <1>2, <1>3, <1>4, <1>5, <1>6, <1>7, <1>8 DEF Requests

\* What a statement before the transaction, or the first in it, meets.
LEMMA SitsSettled ==
    ASSUME NEW c \in Callers, Sits(c),
           calls[c].pc \in {"head", "mark", "fetch", "collect", "read", "insert", "select"}
    PROVE  /\ rows = saved /\ Good(rows, Branches, past.doomed, past.lowered) /\ Table(rows)
           /\ clock \in Nat /\ \A r \in rows : r.at \in Nat /\ r.at < clock
           /\ CallTypes(calls[c])
BY DEF Sits, CallInv, CallTable, Good, Table

\* The head to promote or to mark is read from the committed table.
LEMMA SitsGetHead ==
    ASSUME HistoryInv, NEW c \in Callers, DOMAIN ret = Callers, Sits(c), GetHead(c)
    PROVE  Sits(c)'
<1> DEFINE call == calls[c]
           head == Latest(On(Main))
           D == past.doomed
           L == past.lowered
<1>0. /\ rows = saved /\ Good(rows, Branches, D, L) /\ Table(rows)
      /\ clock \in Nat /\ (\A r \in rows : r.at \in Nat /\ r.at < clock)
      /\ CallTypes(call) /\ DOMAIN call = CallFields /\ call.pc = "head" /\ ReadOnly
    BY SitsSettled DEF GetHead, HistoryInv, CallsOK, CallOK
<1>1. CASE Return(c, NoId) /\ clock' = clock
    BY <1>0, <1>1, SitsRead
<1>2. CASE ~(Return(c, NoId) /\ clock' = clock)
  <2>1. On(Main) # {} /\ (call.op = "promote" => ~is_stable(head.ver))
      BY <1>2 DEF GetHead
  <2>2. /\ head \in rows /\ head.branch = Main
        /\ \A r \in rows : r.branch = Main /\ Newest(r, rows) => r = head
      BY <1>0, <2>1, NewestOn
  <2> HIDE DEF head
  <2>3. ASSUME NEW new, new = [call EXCEPT !.pc = "mark", !.ver = head.ver],
               call.op = "mark", Goto(c, new), clock' = clock
        PROVE  Sits(c)'
    <3>1. CallTypes(new) /\ new.pc = "mark" /\ new.op = "mark" /\ new.ver = head.ver
        BY <1>0, <2>3 DEF CallTypes, CallFields
    <3>2. CallTable(new, rows, rows, D, L)
        BY <1>0, <2>2, <3>1, ReadsTable DEF Ids, IdOf
    <3>3. CallInv(new, rows, rows, D, L, clock')
        BY <3>1, <3>2 DEF CallInv, CallDated, CallInsert, CallContent
    <3> QED BY <1>0, <2>3, <3>1, <3>3, SitsRead
  <2>4. ASSUME NEW new, new = [call EXCEPT !.pc = "read", !.def = head.def, !.at = clock,
                                           !.key = Id(Main, STABLE_INITIAL_VERSION)],
               call.op = "promote", Goto(c, new), clock' = clock + 1
        PROVE  Sits(c)'
    <3>1. /\ new.pc = "read" /\ new.op = "promote" /\ new.at = clock /\ new.def = head.def
          /\ new.branch = call.branch /\ new.key = Id(Main, STABLE_INITIAL_VERSION)
          /\ new.head = call.head
        BY <1>0, <2>4 DEF CallFields
    <3>2. CallTypes(new)
        BY <1>0, <2>4, <3>1 DEF CallTypes, Id, STABLE_INITIAL_VERSION, Versions
    <3>3. CallTable(new, rows, rows, D, L)
        BY <1>0, <3>1, ReadsTable
    <3>4. CallDated(new, rows, clock')
        BY <1>0, <2>4, <3>1 DEF CallDated
    <3>5. CallContent(new, rows, D, L)
        BY <2>1, <2>2, <2>4, <3>1 DEF CallContent
    <3>6. CallInv(new, rows, rows, D, L, clock')
        BY <3>1, <3>2, <3>3, <3>4, <3>5 DEF CallInv, CallInsert
    <3> QED BY <1>0, <2>4, <3>1, <3>6, SitsRead
  <2> QED BY <1>2, <2>3, <2>4 DEF GetHead, head
<1> QED BY <1>1, <1>2

\* The version to go back to has a definition, and the call gets its date.
LEMMA SitsFetch ==
    ASSUME HistoryInv, NEW c \in Callers, DOMAIN ret = Callers, Sits(c), Fetch(c)
    PROVE  Sits(c)'
<1> DEFINE call == calls[c]
           D == past.doomed
           L == past.lowered
<1>0. /\ rows = saved /\ Good(rows, Branches, D, L) /\ Table(rows)
      /\ clock \in Nat /\ (\A r \in rows : r.at \in Nat /\ r.at < clock)
      /\ CallTypes(call) /\ DOMAIN call = CallFields /\ call.pc = "fetch" /\ ReadOnly
    BY SitsSettled DEF Fetch, HistoryInv, CallsOK, CallOK
<1>1. CASE Return(c, Failed) /\ clock' = clock
    BY <1>0, <1>1, SitsRead
<1>2. ASSUME NEW r, Goto(c, [call EXCEPT !.pc = "read", !.def = r.def, !.at = clock]),
             clock' = clock + 1
      PROVE  Sits(c)'
  <2> DEFINE new == [call EXCEPT !.pc = "read", !.def = r.def, !.at = clock]
  <2>1. new.pc = "read" /\ new.op = call.op /\ call.op = "rollback" /\ new.at = clock /\ new.branch = call.branch
        /\ new.head = call.head
      BY <1>0 DEF CallFields, CallTypes
  <2> HIDE DEF new
  <2>2. CallTypes(new)
      BY <1>0, <2>1 DEF CallTypes
  <2>3. CallTable(new, rows, rows, D, L)
      BY <1>0, <2>1, ReadsTable
  <2>4. CallDated(new, rows, clock')
      BY <1>0, <1>2, <2>1 DEF CallDated
  <2>5. CallContent(new, rows, D, L)
      BY <2>1 DEF CallContent
  <2>6. CallInv(new, rows, rows, D, L, clock')
      BY <2>1, <2>2, <2>3, <2>4, <2>5 DEF CallInv, CallInsert
  <2>7. Goto(c, new)
      BY <1>2 DEF new
  <2> QED BY <1>0, <1>2, <2>1, <2>6, <2>7, SitsRead
<1> QED BY <1>1, <1>2 DEF Fetch

\* Without a conflict the merge keeps both sides' changes.
LEMMA MergeKeeps ==
    ASSUME NEW b, NEW o, NEW t, Conflicts(b, o, t) = {}
    PROVE  Merged(merge_dicts(b, o, t), b, o, t)
BY DEF Merged, merge_dicts, Conflicts

\* The merge is of the newest rows of both branches, over their fork point.
LEMMA SitsCollect ==
    ASSUME HistoryInv, NEW c \in Callers, DOMAIN ret = Callers, Sits(c), Collect(c)
    PROVE  Sits(c)'
<1> DEFINE call == calls[c]
           source == On(CHOOSE b \in Branches : b # call.branch)
           target == On(call.branch)
           ours == Latest(target).def
           theirs == Latest(source).def
           D == past.doomed
           L == past.lowered
<1>0. /\ rows = saved /\ Good(rows, Branches, D, L) /\ Table(rows)
      /\ clock \in Nat /\ (\A r \in rows : r.at \in Nat /\ r.at < clock)
      /\ CallTypes(call) /\ DOMAIN call = CallFields /\ call.pc = "collect" /\ ReadOnly
    BY SitsSettled DEF Collect, HistoryInv, CallsOK, CallOK
<1>1. CASE Return(c, Failed) /\ clock' = clock
    BY <1>0, <1>1, SitsRead
<1>2. ASSUME NEW b, target # {}, Conflicts(b.def, ours, theirs) = {}, clock' = clock + 1,
             Goto(c, [call EXCEPT !.pc = "read", !.at = clock,
                         !.def = merge_dicts(b.def, ours, theirs),
                         !.base = b.def, !.theirs = theirs])
      PROVE  Sits(c)'
  <2> DEFINE md == merge_dicts(b.def, ours, theirs)
             new == [call EXCEPT !.pc = "read", !.at = clock, !.def = md,
                                 !.base = b.def, !.theirs = theirs]
  <2>1. Merged(md, b.def, ours, theirs)
      BY <1>2, MergeKeeps
  <2>2. \A p \in rows : p.branch = call.branch /\ Newest(p, rows) => p.def = ours
    <3>1. \A p \in rows : p.branch = call.branch /\ Newest(p, rows) => p = Latest(target)
        BY <1>0, <1>2, NewestOn
    <3> QED BY <3>1
  <2>3. Goto(c, new)
      BY <1>2
  <2> HIDE DEF md, ours, theirs
  <2>4. /\ new.pc = "read" /\ new.op = "merge" /\ new.at = clock /\ new.branch = call.branch
        /\ new.head = call.head /\ new.def = md /\ new.base = b.def /\ new.theirs = theirs
      BY <1>0 DEF CallFields, CallTypes
  <2> HIDE DEF new
  <2>5. CallTypes(new)
      BY <1>0, <2>4 DEF CallTypes
  <2>6. CallTable(new, rows, rows, D, L)
      BY <1>0, <2>4, ReadsTable
  <2>7. CallDated(new, rows, clock')
      BY <1>0, <1>2, <2>4 DEF CallDated
  <2>8. CallContent(new, rows, D, L)
      BY <2>1, <2>2, <2>4 DEF CallContent
  <2>9. CallInv(new, rows, rows, D, L, clock')
      BY <2>4, <2>5, <2>6, <2>7, <2>8 DEF CallInv, CallInsert
  <2> QED BY <1>0, <1>2, <2>3, <2>4, <2>9, SitsRead
<1> QED BY <1>1, <1>2 DEF Collect

\* The read of a transaction goes on with its insert.
LEMMA SitsInserts ==
    ASSUME HistoryInv, NEW c \in Callers, DOMAIN ret = Callers, Sits(c),
           calls[c].pc = "read", ReadOnly, clock' = clock, NEW new, Goto(c, new),
           new.pc = "insert", new.at = calls[c].at, CallTypes(new),
           CallInsert(new, rows, past.doomed, past.lowered),
           CallContent(new, rows, past.doomed, past.lowered)
    PROVE  Sits(c)'
<1>0. rows = saved /\ Good(rows, Branches, past.doomed, past.lowered) /\ clock \in Nat
    BY SitsSettled
<1>1. CallTable(new, rows, rows, past.doomed, past.lowered)
    BY <1>0, ReadsTable
<1>2. CallDated(new, rows, clock)
    BY DEF CallDated, Sits, CallInv
<1>3. CallInv(new, rows, rows, past.doomed, past.lowered, clock)
    BY <1>1, <1>2 DEF CallInv
<1> QED BY <1>0, <1>3, SitsRead

\* Nothing on main is above its newest row.
LEMMA NewestTops ==
    ASSUME NEW S, Table(S), Ascends(S), NEW h \in S, h.branch = Main, Newest(h, S)
    PROVE  \A r \in S : r.branch = Main => r = h \/ Greater(h.ver, r.ver)
<1> TAKE r \in S
<1> HAVE r.branch = Main
<1>1. r.at <= h.at /\ r.at \in Nat /\ h.at \in Nat
    BY DEF Newest, Table
<1> QED BY <1>1 DEF Ascends, Table

\* The newest row of the branch becomes the parent, its number is bumped.
LEMMA SitsReadCreate ==
    ASSUME HistoryInv, NEW c \in Callers, DOMAIN ret = Callers, Sits(c), ReadCreate(c)
    PROVE  Sits(c)'
<1> DEFINE call == calls[c]
           old == Latest(On(call.branch))
           D == past.doomed
           L == past.lowered
<1>0. /\ rows = saved /\ Good(rows, Branches, D, L) /\ Table(rows)
      /\ clock \in Nat /\ (\A r \in rows : r.at \in Nat /\ r.at < clock)
      /\ CallTypes(call) /\ DOMAIN call = CallFields /\ call.pc = "read" /\ Creates(call)
      /\ ReadOnly /\ clock' = clock
    BY SitsSettled DEF ReadCreate, HistoryInv, CallsOK, CallOK
<1>1. CASE Return(c, Failed)
    BY <1>0, <1>1, SitsRead
<1>2. CASE ~Return(c, Failed)
  <2> DEFINE v == NextVersion(old.ver, call.how)
             new == [call EXCEPT !.pc = "insert", !.parent = IdOf(old), !.key = Id(call.branch, v)]
  <2>1. On(call.branch) # {} /\ Goto(c, new)
      BY <1>2 DEF ReadCreate
  <2>2. old \in rows /\ old.branch = call.branch /\ Newest(old, rows)
      BY <1>0, <2>1, NewestOn
  <2>3. v \in Versions /\ Greater(v, old.ver) /\ old.ver \in Versions
      BY <1>0, <2>2, BumpGreater DEF Table
  <2> HIDE DEF old, v
  <2>4. /\ new.pc = "insert" /\ new.op = call.op /\ new.at = call.at /\ new.branch = call.branch
        /\ new.head = call.head /\ new.def = call.def /\ new.base = call.base
        /\ new.theirs = call.theirs /\ new.parent = IdOf(old)
        /\ new.key = Id(call.branch, v) /\ new.key[2] = v
      BY <1>0 DEF CallFields, Id
  <2> HIDE DEF new
  <2>5. CallTypes(new)
      BY <1>0, <2>3, <2>4 DEF CallTypes, Creates
  <2>6. CallContent(new, rows, D, L)
    <3>1. CallContent(call, rows, D, L)
        BY <1>0 DEF Sits, CallInv
    <3>2. \A p \in rows : IdOf(p) = IdOf(old) => p = old
        BY <1>0, <2>2 DEF Table
    <3> QED BY <1>0, <2>2, <2>4, <3>1, <3>2 DEF CallContent, Creates
  <2>7. CallInsert(new, rows, D, L)
    <3>1. ASSUME D = {}, ~L, call.branch = Main, NEW r \in rows, r.branch = Main
          PROVE  Greater(v, r.ver)
      <4>1. Ascends(rows) /\ r.ver \in Versions
          BY <1>0, <3>1 DEF Good, Table
      <4>2. r = old \/ Greater(old.ver, r.ver)
          BY <1>0, <2>2, <3>1, <4>1, NewestTops
      <4> QED BY <2>3, <4>1, <4>2, GreaterOrder
    <3> QED BY <1>0, <2>2, <2>4, <3>1 DEF CallInsert, Creates, Ids
  <2> QED BY <1>0, <2>1, <2>4, <2>5, <2>6, <2>7, SitsInserts
<1> QED BY <1>1, <1>2

\* The flagged head of main is its newest row.
LEMMA HeadOfMain ==
    ASSUME Table(rows), clock \in Nat, \A r \in rows : r.at < clock, Flagged(Main) # {},
           OneFlag(rows, Branches)
    PROVE  LET h == Latest(Flagged(Main)) IN
           /\ h \in rows /\ h.branch = Main
           /\ NewestFlagged(rows, Branches) => Newest(h, rows)
<1>1. \A r \in Flagged(Main) : r \in rows /\ r.branch = Main /\ r.head /\ r.at \in Nat /\ r.at < clock
    BY DEF Flagged, On, Table
<1>2. Latest(Flagged(Main)) \in Flagged(Main)
    BY <1>1, LatestRow
<1> QED BY <1>1, <1>2 DEF NewestFlagged, Branches, Main

\* The flagged head of main decides the parent and the flag.
LEMMA SitsReadUpsert ==
    ASSUME HistoryInv, NEW c \in Callers, DOMAIN ret = Callers, Sits(c), ReadUpsert(c)
    PROVE  Sits(c)'
<1> DEFINE call == calls[c]
           heads == Flagged(Main)
           h == Latest(heads)
           D == past.doomed
           L == past.lowered
           par == CASE heads # {} -> IdOf(h)
                    [] heads = {} /\ rows # {} -> IdOf(Latest(rows))
                    [] OTHER -> NoId
           top == heads = {} \/ ~compare_greater(h.ver, call.key[2])
           new == [call EXCEPT !.pc = "insert", !.parent = par, !.head = top]
<1>0. /\ rows = saved /\ Good(rows, Branches, D, L) /\ Table(rows)
      /\ clock \in Nat /\ (\A r \in rows : r.at \in Nat /\ r.at < clock)
      /\ CallTypes(call) /\ DOMAIN call = CallFields /\ call.pc = "read" /\ call.op = "upsert"
      /\ ReadOnly /\ clock' = clock /\ Goto(c, new)
    BY SitsSettled DEF ReadUpsert, HistoryInv, CallsOK, CallOK
<1>1. heads # {} => h \in rows /\ h.branch = Main
    BY <1>0, HeadOfMain DEF Good
<1>2. rows # {} => Latest(rows) \in rows
    BY <1>0, LatestRow
<1>3. par \in Ids(rows) \/ (par = NoId /\ rows = {})
  <2>1. CASE heads # {}
    <3>1. par = IdOf(h)
        BY <2>1
    <3>2. IdOf(h) \in Ids(rows)
        BY <1>1, <2>1 DEF Ids
    <3> QED BY <3>1, <3>2
  <2>2. CASE heads = {} /\ rows # {}
    <3>1. par = IdOf(Latest(rows))
        BY <2>2
    <3>2. IdOf(Latest(rows)) \in Ids(rows)
        BY <1>2, <2>2 DEF Ids
    <3> QED BY <3>1, <3>2
  <2>3. CASE heads = {} /\ rows = {}
      BY <2>3
  <2> QED BY <2>1, <2>2, <2>3
<1>4. ASSUME D = {}, ~L, top, NEW r \in rows, r.branch = Main
      PROVE  ~Greater(r.ver, call.key[2])
  <2>1. Ascends(rows) /\ NewestFlagged(rows, Branches) /\ OneFlag(rows, Branches)
      BY <1>0, <1>4 DEF Good
  <2>2. heads # {}
    <3>1. On(Main) # {}
        BY <1>4 DEF On
    <3>2. Newest(Latest(On(Main)), rows) /\ Latest(On(Main)) \in rows
          /\ Latest(On(Main)).branch = Main
        BY <1>0, <3>1, NewestOn
    <3> QED BY <2>1, <3>2 DEF NewestFlagged, Flagged, On, Branches, Main
  <2>3. h \in rows /\ h.branch = Main /\ Newest(h, rows)
      BY <1>0, <2>1, <2>2, HeadOfMain
  <2>4. r = h \/ Greater(h.ver, r.ver)
      BY <1>0, <1>4, <2>1, <2>3, NewestTops
  <2>5. ~Greater(h.ver, call.key[2])
      BY <1>4, <2>2 DEF Greater
  <2>6. r.ver \in Versions /\ h.ver \in Versions /\ call.key[2] \in Versions
      BY <1>0, <1>4, <2>3 DEF Table, CallTypes
  <2> QED BY <2>4, <2>5, <2>6, GreaterOrder
<1>5. /\ new.pc = "insert" /\ new.op = "upsert" /\ new.at = call.at /\ new.branch = call.branch
      /\ new.parent = par /\ new.key = call.key /\ (new.head <=> top)
    BY <1>0 DEF CallFields
<1> HIDE DEF par, top, new
<1>6. CallTypes(new)
    BY <1>0, <1>5 DEF CallTypes
<1>7. CallContent(new, rows, D, L)
    BY <1>5 DEF CallContent
<1>8. CallInsert(new, rows, D, L)
    BY <1>3, <1>4, <1>5 DEF CallInsert
<1> QED BY <1>0, <1>5, <1>6, <1>7, <1>8, SitsInserts

\* The fork point becomes the parent, and its number is new on the branch.
LEMMA SitsReadBranch ==
    ASSUME HistoryInv, NEW c \in Callers, DOMAIN ret = Callers, Sits(c), ReadBranch(c)
    PROVE  Sits(c)'
<1> DEFINE call == calls[c]
           points == IF call.ver = None THEN On(Main) ELSE {r \in On(Main) : r.ver = call.ver}
           h == Latest(points)
           key == Id(call.branch, h.ver)
           new == [call EXCEPT !.pc = "insert", !.key = key, !.parent = IdOf(h)]
<1>0. /\ rows = saved /\ Good(rows, Branches, past.doomed, past.lowered) /\ Table(rows)
      /\ clock \in Nat /\ (\A r \in rows : r.at \in Nat /\ r.at < clock)
      /\ CallTypes(call) /\ DOMAIN call = CallFields /\ call.pc = "read" /\ call.op = "branch"
      /\ ReadOnly /\ clock' = clock
    BY SitsSettled DEF ReadBranch, HistoryInv, CallsOK, CallOK
<1>1. CASE Return(c, Failed)
    BY <1>0, <1>1, SitsRead
<1>2. CASE ~Return(c, Failed)
  <2>1. points # {} /\ Goto(c, new)
      BY <1>2 DEF ReadBranch
  <2>2. \A r \in points : r \in rows
      BY DEF On
  <2>3. h \in rows
      BY <1>0, <2>1, <2>2, LatestRow
  <2>4. h.ver \in Versions
      BY <1>0, <2>3 DEF Table
  <2> HIDE DEF h
  <2>5. /\ new.pc = "insert" /\ new.op = "branch" /\ new.at = call.at /\ new.branch = call.branch
        /\ new.head = call.head /\ new.parent = IdOf(h) /\ new.key = Id(call.branch, h.ver)
        /\ new.key[2] = h.ver
      BY <1>0 DEF CallFields, Id
  <2> HIDE DEF new
  <2>6. CallTypes(new)
      BY <1>0, <2>4, <2>5 DEF CallTypes
  <2>7. CallContent(new, rows, past.doomed, past.lowered)
      BY <2>5 DEF CallContent
  <2>8. CallInsert(new, rows, past.doomed, past.lowered)
      BY <1>0, <2>3, <2>5 DEF CallInsert, CallTypes, Ids
  <2> QED BY <1>0, <2>1, <2>5, <2>6, <2>7, <2>8, SitsInserts
<1> QED BY <1>1, <1>2

\* The flagged head of main is the row whose content was read.
LEMMA SitsReadPromote ==
    ASSUME HistoryInv, NEW c \in Callers, DOMAIN ret = Callers, Sits(c), ReadPromote(c)
    PROVE  Sits(c)'
<1> DEFINE call == calls[c]
           h == Latest(Flagged(Main))
           D == past.doomed
           L == past.lowered
           new == [call EXCEPT !.pc = "insert", !.parent = IdOf(h), !.ext = h.ext]
<1>0. /\ rows = saved /\ Good(rows, Branches, D, L) /\ Table(rows)
      /\ clock \in Nat /\ (\A r \in rows : r.at \in Nat /\ r.at < clock)
      /\ CallTypes(call) /\ DOMAIN call = CallFields /\ call.pc = "read" /\ call.op = "promote"
      /\ ReadOnly /\ clock' = clock
    BY SitsSettled DEF ReadPromote, HistoryInv, CallsOK, CallOK
<1>1. CASE Return(c, NoId)
    BY <1>0, <1>1, SitsRead
<1>2. CASE Return(c, call.key) /\ call.key \in Ids(rows)
    BY <1>0, <1>2, SitsRead
<1>3. CASE Flagged(Main) # {} /\ Goto(c, new)
  <2>1. h \in rows /\ h.branch = Main /\ (NewestFlagged(rows, Branches) => Newest(h, rows))
      BY <1>0, <1>3, HeadOfMain DEF Good
  <2> HIDE DEF h
  <2>2. /\ new.pc = "insert" /\ new.op = "promote" /\ new.at = call.at /\ new.branch = call.branch
        /\ new.head = call.head /\ new.parent = IdOf(h) /\ new.key = call.key
        /\ new.def = call.def
      BY <1>0 DEF CallFields
  <2> HIDE DEF new
  <2>3. CallTypes(new)
      BY <1>0, <2>2 DEF CallTypes
  <2>4. D = {} /\ ~L => call.def = h.def /\ ~is_stable(h.ver) /\ Newest(h, rows)
    <3>1. CallContent(call, rows, D, L)
        BY <1>0 DEF Sits, CallInv
    <3> QED BY <1>0, <2>1, <3>1 DEF CallContent, Good
  <2>5. CallContent(new, rows, D, L)
    <3>1. \A p \in rows : IdOf(p) = IdOf(h) => p = h
        BY <1>0, <2>1 DEF Table
    <3> QED BY <2>2, <2>4, <3>1 DEF CallContent
  <2>6. CallInsert(new, rows, D, L)
    <3>1. ASSUME D = {}, ~L, NEW r \in rows, r.branch = Main
          PROVE  Greater(STABLE_INITIAL_VERSION, r.ver)
      <4>1. r.ver \in Versions /\ h.ver \in Versions /\ Ascends(rows)
          BY <1>0, <2>1, <3>1 DEF Table, Good
      <4>2. r = h \/ Greater(h.ver, r.ver)
          BY <1>0, <2>1, <2>4, <3>1, <4>1, NewestTops
      <4> QED BY <2>4, <3>1, <4>1, <4>2
          DEF Greater, compare_greater, is_stable, Versions, STABLE_INITIAL_VERSION
    <3>2. new.key[2] = STABLE_INITIAL_VERSION
        BY <1>0, <2>2 DEF CallTypes, Id
    <3> QED BY <2>1, <2>2, <3>1, <3>2 DEF CallInsert, Ids
  <2> QED BY <1>0, <1>3, <2>2, <2>3, <2>5, <2>6, SitsInserts
<1> QED BY <1>1, <1>2, <1>3 DEF ReadPromote

\* An INSERT goes on to the flags, or to the commit.
LEMMA SitsInserted ==
    ASSUME HistoryInv, NEW c \in Callers, Sits(c), calls[c].pc = "insert",
           NEW new, Inserted(c, new), past'.doomed = past.doomed, ~past'.lowered => ~past.lowered,
           \A r \in new : r.at < clock,
           calls[c].key \in Ids(new),
           calls[c].head =>
               /\ Good(new, Branches \ {calls[c].branch}, past.doomed, past'.lowered)
               /\ past.doomed = {} /\ ~past'.lowered =>
                     \E k \in new : IdOf(k) = calls[c].key /\ k.head /\ Newest(k, new),
           ~calls[c].head => Good(new, Branches, past.doomed, past'.lowered),
           calls[c].op = "promote" /\ past.doomed = {} /\ ~past'.lowered =>
               \A r, p \in new : IdOf(r) = calls[c].key /\ IdOf(p) = r.parent => r.def = p.def,
           calls[c].op = "merge" =>
               \A r, p \in new : IdOf(r) = calls[c].key /\ IdOf(p) = r.parent
                   => Merged(r.def, calls[c].base, p.def, calls[c].theirs)
    PROVE  Sits(c)'
<1> DEFINE call == calls[c]
           next == [call EXCEPT !.pc = IF call.head THEN "clear" ELSE "commit"]
           D == past.doomed
           L == past'.lowered
<1>0. /\ rows' = new /\ saved' = saved /\ clock' = clock /\ Goto(c, next)
      /\ DOMAIN call = CallFields /\ clock \in Nat /\ CallTypes(call)
      /\ (\A r \in saved : r.at < clock)
    BY SitsSettled DEF Inserted, HistoryInv, CallsOK, CallOK, Sits
<1>1. /\ next.pc = IF call.head THEN "clear" ELSE "commit"
      /\ next.op = call.op /\ next.branch = call.branch /\ next.head = call.head
      /\ next.key = call.key /\ next.base = call.base /\ next.theirs = call.theirs
    BY <1>0 DEF CallFields
<1> HIDE DEF next
<1>2. CallTypes(next)
    BY <1>0, <1>1 DEF CallTypes
<1>3. CallTable(next, new, saved, D, L)
    BY <1>1 DEF CallTable
<1>4. CallContent(next, new, D, L)
    BY <1>1 DEF CallContent
<1>5. CallInv(next, new, saved, D, L, clock)
    BY <1>1, <1>2, <1>3, <1>4 DEF CallInv, CallDated, CallInsert
<1>6. Good(saved, Branches, D, L)
    BY GoodMore DEF Sits
<1> QED BY <1>0, <1>1, <1>5, <1>6, SitsGoto

\* A row with the id, date and parent of the call joins the table.
LEMMA CallJoins ==
    ASSUME NEW c \in Callers, Sits(c), calls[c].pc = "insert",
           calls[c].key \notin Ids(rows), NEW x, NEW L, ~L => ~past.lowered,
           x.branch = calls[c].branch, x.ver = calls[c].key[2], x.at = calls[c].at,
           x.parent = calls[c].parent,
           calls[c].op = "upsert" => calls[c].head \/ L = TRUE
    PROVE  Joins(x, rows, past.doomed, L) /\ IdOf(x) = calls[c].key
<1> DEFINE call == calls[c]
<1>1. /\ Table(rows) /\ CallTypes(call)
      /\ CallDated(call, rows, clock) /\ CallInsert(call, rows, past.doomed, past.lowered)
    BY SitsSettled DEF Sits, CallInv
<1>2. IdOf(x) = call.key
    BY <1>1 DEF CallTypes, IdOf
<1>3. IF rows = {} THEN x.parent = NoId /\ x.branch = Main ELSE x.parent \in Ids(rows)
    BY <1>1 DEF CallInsert, CallTypes, Ids
<1>4. ASSUME past.doomed = {}, ~L, x.branch = Main, NEW r \in rows, r.branch = Main
      PROVE  Greater(x.ver, r.ver)
  <2>1. r.ver \in Versions /\ x.ver \in Versions
      BY <1>1, <1>4 DEF Table, CallTypes
  <2>2. CASE call.op # "upsert"
      BY <1>1, <1>4, <2>2 DEF CallInsert
  <2>3. CASE call.op = "upsert"
    <3>1. ~Greater(r.ver, x.ver)
        BY <1>1, <1>4, <2>3 DEF CallInsert
    <3>2. r.ver # x.ver
        BY <1>1, <1>2, <1>4 DEF Ids, IdOf, CallTypes
    <3> QED BY <2>1, <3>1, <3>2, GreaterOrder
  <2> QED BY <2>2, <2>3
<1> QED BY <1>1, <1>2, <1>3, <1>4 DEF Joins, CallTypes, CallDated

\* promote_to_stable inserts the content of the head.
LEMMA SitsInsertPromote ==
    ASSUME HistoryInv, NEW c \in Callers, DOMAIN ret = Callers, Sits(c), InsertPromote(c)
    PROVE  Sits(c)'
<1> DEFINE call == calls[c]
           x == Row(call, call.parent, call.ext)
           new == rows \cup {x}
           D == past.doomed
           L == past.lowered
<1>1. CASE call.key \in Ids(rows)
    BY <1>1, SitsRollBack DEF InsertPromote
<1>2. CASE call.key \notin Ids(rows)
  <2>0. /\ Inserted(c, new) /\ past' = past /\ call.pc = "insert" /\ call.op = "promote"
        /\ Table(rows) /\ Good(rows, Branches, D, L)
        /\ (\A r \in rows : r.at < clock)
        /\ CallTypes(call) /\ CallContent(call, rows, D, L) /\ CallDated(call, rows, clock)
      BY <1>2, SitsSettled DEF InsertPromote, Sits, CallInv
  <2>1. /\ x.branch = call.branch /\ x.ver = call.key[2] /\ x.at = call.at
        /\ x.parent = call.parent /\ x.head = call.head /\ x.def = call.def
      BY DEF Row
  <2> HIDE DEF x
  <2>2. Joins(x, rows, D, L) /\ IdOf(x) = call.key
      BY <1>2, <2>0, <2>1, CallJoins
  <2>3. Good(new, Branches \ {call.branch}, D, L) /\ Newest(x, new)
      BY <2>0, <2>1, <2>2, GoodInsert
  <2>4. \A r \in new : r.at < clock
      BY <2>0, <2>1 DEF CallDated
  <2>5. call.key \in Ids(new)
      BY <2>2 DEF Ids
  <2>6. call.head = TRUE
      BY <2>0 DEF CallTypes
  <2>7. ASSUME D = {}, ~L, NEW r \in new, NEW p \in new, IdOf(r) = call.key, IdOf(p) = r.parent
        PROVE  r.def = p.def
    <3>1. r = x
        BY <1>2, <2>7 DEF Ids
    <3>2. p \in rows
        BY <1>2, <2>0, <2>1, <2>2, <2>7, <3>1 DEF Sits, CallInv, CallInsert, Ids
    <3> QED BY <2>0, <2>1, <2>7, <3>1, <3>2 DEF CallContent
  <2> HIDE DEF new
  <2>8. \E k \in new : IdOf(k) = call.key /\ k.head /\ Newest(k, new)
      BY <2>1, <2>2, <2>3, <2>6 DEF new
  <2> QED BY <2>0, <2>3, <2>4, <2>5, <2>6, <2>7, <2>8, SitsInserted
<1> QED BY <1>1, <1>2

\* create_version, create_branch: the row of the parent is there, once.
LEMMA SitsInsertSelect ==
    ASSUME HistoryInv, NEW c \in Callers, DOMAIN ret = Callers, Sits(c), InsertSelect(c)
    PROVE  Sits(c)'
<1> DEFINE call == calls[c]
           source == {r \in rows : IdOf(r) = call.parent}
           D == past.doomed
           L == past.lowered
           F(r) == Row(IF call.op = "branch" THEN [call EXCEPT !.def = r.def] ELSE call,
                       call.parent, r.ext)
           new == rows \cup {F(r) : r \in source}
<1>0. /\ call.pc = "insert" /\ call.op \notin {"upsert", "promote"}
      /\ Table(rows) /\ Good(rows, Branches, D, L) /\ DOMAIN call = CallFields
      /\ (\A r \in rows : r.at < clock)
      /\ CallTypes(call) /\ CallContent(call, rows, D, L) /\ CallDated(call, rows, clock)
    BY SitsSettled DEF InsertSelect, Creates, Sits, CallInv, HistoryInv, CallsOK, CallOK
<1>1. CASE source # {} /\ call.key \in Ids(rows)
    BY <1>1, SitsRollBack DEF InsertSelect
<1>2. CASE ~(source # {} /\ call.key \in Ids(rows))
  <2>1. PICK q \in rows : IdOf(q) = call.parent
      BY <1>0 DEF Sits, CallInv, CallInsert, Ids
  <2> DEFINE x == F(q)
  <2>2. source = {q}
      BY <1>0, <2>1 DEF Table
  <2>3. new = rows \cup {x}
      BY <2>2
  <2>4. Inserted(c, new) /\ past' = past /\ call.key \notin Ids(rows)
      BY <1>2, <2>2 DEF InsertSelect
  <2>5. /\ x.branch = call.branch /\ x.ver = call.key[2] /\ x.at = call.at
        /\ x.parent = call.parent /\ x.head = call.head /\ (call.op # "branch" => x.def = call.def)
      BY <1>0 DEF Row, CallFields
  <2> HIDE DEF x, new
  <2>6. Joins(x, rows, D, L) /\ IdOf(x) = call.key
      BY <1>0, <2>4, <2>5, CallJoins
  <2>7. Good(new, Branches \ {call.branch}, D, L) /\ Newest(x, new)
      BY <1>0, <2>3, <2>5, <2>6, GoodInsert
  <2>8. \A r \in new : r.at < clock
      BY <1>0, <2>3, <2>5 DEF CallDated
  <2>9. call.key \in Ids(new)
      BY <2>3, <2>6 DEF Ids
  <2>10. call.head = TRUE
      BY <1>0 DEF CallTypes
  <2>11. ASSUME call.op = "merge", NEW r \in new, NEW p \in new,
                IdOf(r) = call.key, IdOf(p) = r.parent
         PROVE  Merged(r.def, call.base, p.def, call.theirs)
    <3>1. r = x
        BY <2>3, <2>4, <2>11 DEF Ids
    <3>2. p \in rows
        BY <2>1, <2>3, <2>4, <2>5, <2>6, <2>11, <3>1 DEF Ids
    <3>3. Merged(call.def, call.base, p.def, call.theirs)
        BY <1>0, <2>5, <2>11, <3>1, <3>2 DEF CallContent
    <3> QED BY <2>5, <2>11, <3>1, <3>3
  <2>12. \E k \in new : IdOf(k) = call.key /\ k.head /\ Newest(k, new)
      BY <2>3, <2>5, <2>6, <2>7, <2>10
  <2> QED BY <1>0, <2>4, <2>7, <2>8, <2>9, <2>10, <2>11, <2>12, SitsInserted
<1> QED BY <1>1, <1>2

\* An upsert of a stored version takes its content: the same rows are there.
Updated(S, key, d) == {IF IdOf(r) = key THEN [r EXCEPT !.def = d] ELSE r : r \in S}

\* A new definition leaves every row its place, parent, date and flag.
LEMMA UpdatedLike ==
    ASSUME NEW S, RowsOK(S), Table(S), NEW key, NEW d
    PROVE  /\ Likened(Updated(S, key, d), S)
           /\ \A t \in Updated(S, key, d), r \in S : Like(t, r) => (t.head <=> r.head)
<1> DEFINE T == Updated(S, key, d)
           G(r) == IF IdOf(r) = key THEN [r EXCEPT !.def = d] ELSE r
<1>1. \A r \in S : Like(G(r), r) /\ G(r).head = r.head
    BY DEF Like, RowsOK, RowFields
<1>2. \A r, o \in S : Like(G(r), o) => r = o
    BY <1>1 DEF Like, Table
<1>3. T = {G(r) : r \in S}
    BY DEF Updated
<1> HIDE DEF G, T
<1>4. \A r, o \in S : IdOf(G(r)) = IdOf(G(o)) => r = o
    BY <1>1 DEF Like, Table, IdOf
<1>5. Likened(T, S)
    BY <1>1, <1>3, <1>4 DEF Likened
<1>6. \A t \in T, r \in S : Like(t, r) => (t.head <=> r.head)
    BY <1>1, <1>2, <1>3
<1> QED BY <1>5, <1>6 DEF T

\* An upsert adds a row, or gives a stored one its definition.
LEMMA SitsInsertUpsert ==
    ASSUME HistoryInv, NEW c \in Callers, DOMAIN ret = Callers, Sits(c), InsertUpsert(c)
    PROVE  Sits(c)'
<1> DEFINE call == calls[c]
           D == past.doomed
           L == past.lowered
<1>0. /\ call.pc = "insert" /\ call.op = "upsert" /\ RowsOK(rows)
      /\ Table(rows) /\ Good(rows, Branches, D, L) /\ DOMAIN call = CallFields
      /\ (\A r \in rows : r.at < clock)
      /\ CallTypes(call) /\ CallDated(call, rows, clock) /\ CallInsert(call, rows, D, L)
    BY SitsSettled DEF InsertUpsert, Sits, CallInv, HistoryInv, CallsOK, CallOK
<1>1. CASE call.key \in Ids(rows)
  <2> DEFINE new == Updated(rows, call.key, call.def)
  <2>1. Inserted(c, new) /\ past'.doomed = D /\ (past'.lowered <=> L)
      BY <1>1 DEF InsertUpsert, HistoryInv, PastOK, Updated
  <2>2. Likened(new, rows) /\ \A t \in new, r \in rows : Like(t, r) => (t.head <=> r.head)
      BY <1>0, UpdatedLike
  <2> HIDE DEF new
  <2>3. Good(new, Branches, D, L) /\ Ids(new) = Ids(rows)
      BY <1>0, <2>2, LikenedGood
  <2>4. \A r \in new : r.at < clock
      BY <1>0, <2>2 DEF Likened, Like
  <2>5. ASSUME D = {}, ~L, call.head PROVE \E k \in new : IdOf(k) = call.key /\ k.head /\ Newest(k, new)
    <3>1. PICK k \in new : IdOf(k) = call.key
        BY <1>1, <2>3 DEF Ids
    <3>2. Table(new) /\ Ascends(new) /\ NewestFlagged(new, Branches)
        BY <2>3, <2>5 DEF Good
    <3>3. k.branch = Main /\ k.ver = call.key[2]
        BY <1>0, <3>1 DEF CallTypes, IdOf, Id
    <3>4. Newest(k, new)
      <4> SUFFICES ASSUME NEW o \in new, o.branch = Main, k.at < o.at PROVE FALSE
          BY <3>1, <3>2, <3>3 DEF Newest, Table
      <4>1. Greater(o.ver, k.ver)
          BY <3>1, <3>2, <3>3 DEF Ascends
      <4>2. PICK r \in rows : Like(o, r)
          BY <2>2 DEF Likened
      <4>3. ~Greater(r.ver, call.key[2])
          BY <1>0, <2>5, <4>2 DEF CallInsert, Like, CallTypes
      <4> QED BY <3>3, <4>1, <4>2, <4>3 DEF Like
    <3> QED BY <3>1, <3>2, <3>3, <3>4 DEF NewestFlagged, Branches, Main
  <2>6. Good(new, Branches, D, past'.lowered)
      BY <2>1, <2>3, GoodMore
  <2>7. Good(new, Branches \ {call.branch}, D, past'.lowered)
      BY <2>6, GoodFewer
  <2> QED BY <1>0, <1>1, <2>1, <2>3, <2>4, <2>5, <2>6, <2>7, SitsInserted
<1>2. CASE call.key \notin Ids(rows)
  <2> DEFINE x == Row(call, call.parent, call.ext)
             new == rows \cup {x}
             M == past'.lowered
  <2>1. /\ Inserted(c, new) /\ past'.doomed = D
        /\ (M <=> L \/ ~call.head)
      BY <1>2 DEF InsertUpsert, HistoryInv, PastOK
  <2>2. /\ x.branch = call.branch /\ x.ver = call.key[2] /\ x.at = call.at
        /\ x.parent = call.parent /\ (x.head <=> call.head)
      BY DEF Row
  <2> HIDE DEF x
  <2>3. ASSUME call.head PROVE Joins(x, rows, D, M) /\ IdOf(x) = call.key
      BY <1>0, <1>2, <2>1, <2>2, <2>3, CallJoins
  <2>4. ASSUME ~call.head PROVE Joins(x, rows, D, TRUE) /\ IdOf(x) = call.key
      BY <1>0, <1>2, <2>1, <2>2, <2>4, CallJoins
  <2>5. \A r \in new : r.at < clock
      BY <1>0, <2>2 DEF CallDated
  <2>6. call.key \in Ids(new)
      BY <2>3, <2>4 DEF Ids
  <2>7. ASSUME call.head PROVE Good(new, Branches \ {call.branch}, D, M) /\ Newest(x, new)
    <3>1. Good(rows, Branches, D, M)
        BY <1>0, <2>1, GoodMore
    <3> QED BY <2>2, <2>3, <2>7, <3>1, GoodInsert
  <2>8. ASSUME ~call.head PROVE Good(new, Branches, D, M)
    <3>1. Good(new, Branches, D, TRUE)
      <4>1. Good(rows, Branches, D, TRUE)
          BY <1>0, GoodMore
      <4> QED BY <2>2, <2>4, <2>8, <4>1, GoodInsertBelow
    <3> QED BY <2>1, <2>8, <3>1, GoodMore
  <2>9. ASSUME call.head PROVE \E k \in new : IdOf(k) = call.key /\ k.head /\ Newest(k, new)
      BY <2>2, <2>3, <2>7, <2>9
  <2> HIDE DEF new
  <2> QED BY <1>0, <2>1, <2>5, <2>6, <2>7, <2>8, <2>9, SitsInserted
<1> QED BY <1>1, <1>2

\* mark_external changes the origin of every row.
AllExternal(S) == {[r EXCEPT !.ext = TRUE] : r \in S}

\* Marking all rows external changes nothing else.
LEMMA MarkedLike ==
    ASSUME NEW S, RowsOK(S), Table(S)
    PROVE  /\ Likened(AllExternal(S), S)
           /\ \A t \in AllExternal(S), r \in S : Like(t, r) => (t.head <=> r.head)
<1> DEFINE T == AllExternal(S)
           G(r) == [r EXCEPT !.ext = TRUE]
<1>1. \A r \in S : Like(G(r), r) /\ G(r).head = r.head
    BY DEF Like, RowsOK, RowFields
<1>2. \A r, o \in S : Like(G(r), o) => r = o
    BY <1>1 DEF Like, Table
<1>3. T = {G(r) : r \in S}
    BY DEF AllExternal
<1> HIDE DEF G, T
<1>4. \A r, o \in S : IdOf(G(r)) = IdOf(G(o)) => r = o
    BY <1>1 DEF Like, Table, IdOf
<1>5. Likened(T, S)
    BY <1>1, <1>3, <1>4 DEF Likened
<1>6. \A t \in T, r \in S : Like(t, r) => (t.head <=> r.head)
    BY <1>1, <1>2, <1>3
<1> QED BY <1>5, <1>6 DEF T

\* The mark leaves the tree alone,
LEMMA SitsMark ==
    ASSUME HistoryInv, NEW c \in Callers, Sits(c), Mark(c)
    PROVE  Sits(c)'
<1> DEFINE call == calls[c]
           next == [call EXCEPT !.pc = "marked"]
           D == past.doomed
           L == past.lowered
<1>0. /\ Good(rows, Branches, D, L) /\ Table(rows) /\ RowsOK(rows) /\ DOMAIN call = CallFields
      /\ clock \in Nat /\ (\A r \in rows \cup saved : r.at < clock)
      /\ Good(saved, Branches, D, L)
      /\ CallTypes(call) /\ call.pc = "mark" /\ Id(Main, call.ver) \in Ids(rows)
      /\ rows' = AllExternal(rows) /\ saved' = saved /\ clock' = clock /\ past' = past
      /\ Goto(c, next)
    BY SitsSettled DEF Mark, AllExternal, Sits, CallInv, CallTable, HistoryInv, CallsOK, CallOK
<1>1. Good(rows', Branches, D, L) /\ Ids(rows') = Ids(rows) /\ \A r \in rows' : r.at < clock
  <2>1. Likened(AllExternal(rows), rows)
        /\ \A t \in AllExternal(rows), r \in rows : Like(t, r) => (t.head <=> r.head)
      BY <1>0, MarkedLike
  <2>2. Good(AllExternal(rows), Branches, D, L) /\ Ids(AllExternal(rows)) = Ids(rows)
      BY <1>0, <2>1, LikenedGood
  <2>3. \A r \in AllExternal(rows) : r.at < clock
      BY <1>0, <2>1 DEF Likened, Like
  <2> QED BY <1>0, <2>2, <2>3
<1>2. next.pc = "marked" /\ next.op = call.op /\ next.branch = call.branch
      /\ next.head = call.head /\ next.ver = call.ver
    BY <1>0 DEF CallFields
<1> HIDE DEF next
<1>3. CallTypes(next)
    BY <1>0, <1>2 DEF CallTypes
<1>4. CallTable(next, rows', saved, D, L)
    BY <1>0, <1>1, <1>2 DEF CallTable
<1>5. CallInv(next, rows', saved, D, L, clock)
    BY <1>2, <1>3, <1>4 DEF CallInv, CallDated, CallInsert, CallContent
<1> QED BY <1>0, <1>1, <1>2, <1>5, SitsGoto

\* and is committed before the promotion begins.
LEMMA SitsMarked ==
    ASSUME HistoryInv, NEW c \in Callers, DOMAIN ret = Callers, Sits(c), Marked(c)
    PROVE  Sits(c)'
<1> DEFINE call == calls[c]
           next == [call EXCEPT !.pc = "head", !.op = "promote"]
           D == past.doomed
           L == past.lowered
<1>0. /\ Good(rows, Branches, D, L) /\ DOMAIN call = CallFields
      /\ clock \in Nat /\ (\A r \in rows \cup saved : r.at < clock)
      /\ CallTypes(call) /\ call.pc = "marked" /\ Id(Main, call.ver) \in Ids(rows)
      /\ rows' = rows /\ saved' = rows /\ clock' = clock /\ past' = past
      /\ (Return(c, Id(Main, call.ver)) \/ Goto(c, next))
    BY DEF Marked, Sits, CallInv, CallTable, HistoryInv, CallsOK, CallOK
<1>1. CASE Return(c, Id(Main, call.ver))
    BY <1>0, <1>1, SitsReturn
<1>2. CASE Goto(c, next)
  <2>1. next.pc = "head" /\ next.op = "promote" /\ next.branch = call.branch
        /\ next.head = call.head
      BY <1>0 DEF CallFields
  <2>2. call.op = "mark"
      BY <1>0 DEF CallTypes
  <2> HIDE DEF next
  <2>3. CallTypes(next)
      BY <1>0, <2>1, <2>2 DEF CallTypes
  <2>4. CallTable(next, rows, rows, D, L)
      BY <1>0, <2>1, ReadsTable
  <2>5. CallInv(next, rows, rows, D, L, clock)
      BY <2>1, <2>3, <2>4 DEF CallInv, CallDated, CallInsert, CallContent
  <2> QED BY <1>0, <1>2, <2>1, <2>5, SitsGoto
<1> QED BY <1>0, <1>1, <1>2

\* The other flags of the branch go: the table is good again.
LEMMA SitsClearHeads ==
    ASSUME HistoryInv, NEW c \in Callers, Sits(c), ClearHeads(c)
    PROVE  Sits(c)'
<1> DEFINE call == calls[c]
           next == [call EXCEPT !.pc = "commit"]
           T == Cleared(rows, call.branch, call.key)
           D == past.doomed
           L == past.lowered
<1>0. /\ call.pc = "clear" /\ RowsOK(rows) /\ DOMAIN call = CallFields
      /\ clock \in Nat /\ (\A r \in rows \cup saved : r.at < clock)
      /\ Good(saved, Branches, D, L)
      /\ CallTypes(call) /\ CallTable(call, rows, saved, D, L) /\ CallContent(call, rows, D, L)
      /\ rows' = T /\ saved' = saved /\ clock' = clock /\ past' = past /\ Goto(c, next)
    BY DEF ClearHeads, Cleared, Sits, CallInv, HistoryInv, CallsOK, CallOK
<1>1. Good(rows, Branches \ {call.branch}, D, L) /\ Table(rows)
    BY <1>0 DEF CallTable, Good
<1>2. Good(T, Branches, D, L) /\ Ids(T) = Ids(rows)
  <2>1. call.key = Id(call.branch, call.key[2])
      BY <1>0 DEF CallTypes
  <2> DEFINE v == call.key[2]
             U == Cleared(rows, call.branch, Id(call.branch, v))
  <2>2. D = {} /\ ~L =>
            \E k \in rows : IdOf(k) = Id(call.branch, v) /\ k.head /\ Newest(k, rows)
      BY <1>0, <2>1 DEF CallTable
  <2> HIDE DEF v
  <2>3. Good(U, Branches, D, L) /\ Ids(U) = Ids(rows)
      BY <1>0, <1>1, <2>2, GoodCleared
  <2>4. U = T
      BY <2>1 DEF v
  <2> QED BY <2>3, <2>4
<1>3. \A t \in T : \E r \in rows : Like(t, r) /\ t.def = r.def
    BY <1>0 DEF Cleared, Like, RowsOK, RowFields
<1> HIDE DEF T
<1>4. \A t \in T : t.at < clock
    BY <1>0, <1>3 DEF Like
<1>5. /\ next.pc = "commit" /\ next.op = call.op /\ next.branch = call.branch
      /\ next.head = call.head /\ next.key = call.key /\ next.base = call.base
      /\ next.theirs = call.theirs
    BY <1>0 DEF CallFields
<1> HIDE DEF next
<1>6. CallTypes(next)
    BY <1>0, <1>5 DEF CallTypes
<1>7. CallTable(next, T, saved, D, L)
    BY <1>0, <1>2, <1>5 DEF CallTable
<1>8. CallContent(next, T, D, L)
    BY <1>0, <1>3, <1>5 DEF CallContent, Like, IdOf
<1>9. CallInv(next, T, saved, D, L, clock)
    BY <1>5, <1>6, <1>7, <1>8 DEF CallInv, CallDated, CallInsert
<1> QED BY <1>0, <1>4, <1>5, <1>9, SitsGoto

\* A commit makes the table of the call the committed one.
LEMMA SitsCommit ==
    ASSUME HistoryInv, NEW c \in Callers, DOMAIN ret = Callers, Sits(c), Commit(c)
    PROVE  Sits(c)'
<1> DEFINE call == calls[c]
           next == [call EXCEPT !.pc = "log"]
           D == past.doomed
           L == past.lowered
<1>0. /\ call.pc = "commit" /\ DOMAIN call = CallFields
      /\ clock \in Nat /\ (\A r \in rows \cup saved : r.at < clock)
      /\ Good(rows, Branches, D, L) /\ call.key \in Ids(rows)
      /\ CallTypes(call) /\ CallContent(call, rows, D, L)
    BY DEF Commit, Sits, CallInv, CallTable, HistoryInv, CallsOK, CallOK
<1>1. CASE RollBack(c, Failed)
    BY <1>1, SitsRollBack
<1>2. CASE saved' = rows /\ Return(c, call.key) /\ UNCHANGED <<rows, clock, past>>
    BY <1>0, <1>2, SitsReturn
<1>3. CASE saved' = rows /\ Creates(call) /\ Goto(c, next) /\ UNCHANGED <<rows, clock, past>>
  <2>1. /\ next.pc = "log" /\ next.op = call.op /\ next.branch = call.branch
        /\ next.head = call.head /\ next.key = call.key /\ next.base = call.base
        /\ next.theirs = call.theirs
      BY <1>0 DEF CallFields
  <2> HIDE DEF next
  <2>2. CallTypes(next)
      BY <1>0, <2>1 DEF CallTypes
  <2>3. CallTable(next, rows, rows, D, L)
      BY <1>0, <2>1 DEF CallTable
  <2>4. CallContent(next, rows, D, L)
      BY <1>0, <2>1 DEF CallContent
  <2>5. CallInv(next, rows, rows, D, L, clock)
      BY <2>1, <2>2, <2>3, <2>4 DEF CallInv, CallDated, CallInsert
  <2> QED BY <1>0, <1>3, <2>1, <2>5, SitsGoto
<1> QED BY <1>1, <1>2, <1>3 DEF Commit

\* The changelog adds nothing to the table.
LEMMA SitsLog ==
    ASSUME HistoryInv, NEW c \in Callers, DOMAIN ret = Callers, Sits(c), Log(c)
    PROVE  Sits(c)'
<1>1. /\ rows = saved /\ Good(rows, Branches, past.doomed, past.lowered)
      /\ clock \in Nat /\ \A r \in rows : r.at < clock
    BY DEF Log, Sits, CallInv, CallTable
<1>2. rows' = rows /\ saved' = rows /\ clock' = clock /\ past' = past
    BY <1>1 DEF Log
<1> QED BY <1>1, <1>2, SitsReturn DEF Log

\* delete_tool: what is selected is doomed, and what is removed was selected.
LEMMA SitsSelect ==
    ASSUME HistoryInv, NEW c \in Callers, DOMAIN ret = Callers, Sits(c), Select(c)
    PROVE  Sits(c)'
<1> DEFINE call == calls[c]
           ids == Ids({r \in rows : call.ver \in {None, r.ver}})
           next == [call EXCEPT !.pc = "delete", !.ids = ids]
           L == past.lowered
<1>0. /\ call.pc = "select" /\ DOMAIN call = CallFields
      /\ clock \in Nat /\ (\A r \in rows : r.at < clock)
      /\ rows = saved /\ Good(rows, Branches, past.doomed, L) /\ CallTypes(call)
      /\ rows' = rows /\ saved' = saved /\ clock' = clock
      /\ past.doomed \subseteq past'.doomed /\ past'.lowered = L
      /\ (Return(c, NoId) \/ Goto(c, next))
    BY SitsSettled DEF Select, HistoryInv, PastOK, CallsOK, CallOK
<1>1. Good(rows, Branches, past'.doomed, past'.lowered)
    BY <1>0, GoodMore
<1>2. CASE Return(c, NoId)
    BY <1>0, <1>1, <1>2, SitsReturn
<1>3. CASE Goto(c, next)
  <2>1. next.pc = "delete" /\ next.op = call.op /\ next.branch = call.branch
        /\ next.head = call.head
      BY <1>0 DEF CallFields
  <2> HIDE DEF next
  <2>2. CallTypes(next)
      BY <1>0, <2>1 DEF CallTypes
  <2>3. CallTable(next, rows, saved, past'.doomed, past'.lowered)
      BY <1>1, <2>1 DEF CallTable
  <2>4. CallInv(next, rows, saved, past'.doomed, past'.lowered, clock)
      BY <2>1, <2>2, <2>3 DEF CallInv, CallDated, CallInsert, CallContent
  <2> QED BY <1>0, <1>1, <1>3, <2>1, <2>4, SitsGoto
<1> QED BY <1>0, <1>2, <1>3

\* Deleting leaves a good table without a tree.
LEMMA SitsDelete ==
    ASSUME HistoryInv, NEW c \in Callers, DOMAIN ret = Callers, Sits(c), Delete(c)
    PROVE  Sits(c)'
<1> DEFINE call == calls[c]
           D == past.doomed
           L == past.lowered
<1>0. /\ call.pc = "delete" /\ DOMAIN call = CallFields /\ call.ids \subseteq D
      /\ clock \in Nat /\ (\A r \in rows \cup saved : r.at < clock)
      /\ Good(rows, Branches, D, L) /\ Good(saved, Branches, D, L) /\ CallTypes(call)
      /\ clock' = clock /\ past' = past
    BY DEF Delete, Sits, CallInv, CallTable, HistoryInv, CallsOK, CallOK
<1>1. CASE saved' = rows /\ Return(c, NoId) /\ rows' = rows
    BY <1>0, <1>1, SitsReturn
<1>2. ASSUME NEW id \in call.ids, rows' = {r \in rows : IdOf(r) # id}, saved' = saved,
             Goto(c, [call EXCEPT !.ids = @ \ {id}])
      PROVE  Sits(c)'
  <2> DEFINE next == [call EXCEPT !.ids = @ \ {id}]
  <2>1. next.pc = "delete" /\ next.op = call.op /\ next.branch = call.branch
        /\ next.head = call.head
      BY <1>0 DEF CallFields
  <2>2. Goto(c, next)
      BY <1>2
  <2> HIDE DEF next
  <2>3. rows' \subseteq rows /\ D # {}
      BY <1>0, <1>2
  <2>4. Good(rows', Branches, D, L)
      BY <1>0, <2>3, GoodPart
  <2>5. CallTypes(next)
      BY <1>0, <2>1 DEF CallTypes
  <2>6. CallTable(next, rows', saved, D, L)
      BY <2>1, <2>4 DEF CallTable
  <2>7. CallInv(next, rows', saved, D, L, clock)
      BY <2>1, <2>5, <2>6 DEF CallInv, CallDated, CallInsert, CallContent
  <2> QED BY <1>0, <1>2, <2>1, <2>2, <2>3, <2>7, SitsGoto
<1> QED BY <1>1, <1>2 DEF Delete

\* Every statement keeps what a lone caller can rely on.
LEMMA SitsStatement ==
    ASSUME HistoryInv, NEW c \in Callers, DOMAIN ret = Callers, Sits(c), Statements(c)
    PROVE  Sits(c)'
<1>1. CASE DeleteRefused(c)
    BY <1>1, SitsRollBack DEF DeleteRefused
<1> QED BY <1>1, SitsGetHead, SitsMark, SitsMarked, SitsFetch, SitsCollect, SitsReadUpsert,
           SitsReadCreate, SitsReadBranch, SitsReadPromote, SitsInsertUpsert,
           SitsInsertSelect, SitsInsertPromote, SitsClearHeads, SitsCommit, SitsLog,
           SitsSelect, SitsDelete DEF Statements

\* The others' calls, and what they have returned, are left alone.
Leaves(c) ==
    /\ DOMAIN ret' = Callers
    /\ \A d \in Callers \ {c} : calls'[d] = calls[d] /\ ret'[d] = ret[d]

\* A step is that of one caller.
LEMMA OthersLeft ==
    ASSUME HistoryInv, DOMAIN ret = Callers, NEW c \in Callers, Requests(c) \/ Statements(c)
    PROVE  Leaves(c)
<1>0. DOMAIN calls = Callers
    BY DEF HistoryInv, CallsOK
<1>1. \A call : Goto(c, call) \/ Begin(c, call) => Leaves(c)
    BY <1>0 DEF Goto, Begin, Leaves
<1>2. \A result : Return(c, result) \/ RollBack(c, result) => Leaves(c)
    BY <1>0 DEF Return, RollBack, Leaves
<1>3. CASE Requests(c)
    BY <1>1, <1>3 DEF Requests, upsert_tool, create_version, create_branch, merge_branch,
       rollback, promote_to_stable, mark_external, delete_tool, BeginNow
<1>4. CASE GetHead(c) \/ Fetch(c) \/ Collect(c) \/ Mark(c) \/ Marked(c)
    BY <1>1, <1>2, <1>4 DEF GetHead, Fetch, Collect, Mark, Marked
<1>5. CASE ReadUpsert(c) \/ ReadCreate(c) \/ ReadBranch(c) \/ ReadPromote(c)
    BY <1>1, <1>2, <1>5 DEF ReadUpsert, ReadCreate, ReadBranch, ReadPromote
<1>6. CASE InsertUpsert(c) \/ InsertSelect(c) \/ InsertPromote(c)
    BY <1>1, <1>2, <1>6 DEF InsertUpsert, InsertSelect, InsertPromote, Inserted
<1>7. CASE ClearHeads(c) \/ Commit(c) \/ Log(c)
    BY <1>1, <1>2, <1>7 DEF ClearHeads, Commit, Log
<1>8. CASE Select(c) \/ Delete(c) \/ DeleteRefused(c)
    BY <1>1, <1>2, <1>8 DEF Select, Delete, DeleteRefused
<1> QED BY <1>3, <1>4, <1>5, <1>6, <1>7, <1>8 DEF Statements

\* A statement is one of a call that has begun.
LEMMA StatementBusy ==
    ASSUME HistoryInv, NEW c \in Callers, Statements(c)
    PROVE  calls[c].pc # "idle" /\ past'.overlap = past.overlap
<1>0. PastOK
    BY DEF HistoryInv
<1>1. CASE \/ GetHead(c) \/ Mark(c) \/ Marked(c) \/ Fetch(c) \/ Collect(c)
           \/ ReadUpsert(c) \/ ReadCreate(c) \/ ReadBranch(c) \/ ReadPromote(c)
    BY <1>1 DEF GetHead, Mark, Marked, Fetch, Collect, ReadUpsert, ReadCreate, ReadBranch,
       ReadPromote, ReadOnly
<1>2. CASE \/ InsertUpsert(c) \/ InsertSelect(c) \/ InsertPromote(c)
           \/ ClearHeads(c) \/ Commit(c) \/ Log(c)
           \/ Select(c) \/ Delete(c) \/ DeleteRefused(c)
    BY <1>0, <1>2 DEF InsertUpsert, InsertSelect, InsertPromote, Inserted, ClearHeads, Commit,
       Log, Select, Delete, DeleteRefused, RollBack, PastOK
<1> QED BY <1>1, <1>2 DEF Statements

\* No deletion is taken back.
LEMMA StatementGrows ==
    ASSUME HistoryInv, NEW c \in Callers, Statements(c) PROVE Grows
<1>0. PastOK
    BY DEF HistoryInv
<1>1. CASE \/ GetHead(c) \/ Mark(c) \/ Marked(c) \/ Fetch(c) \/ Collect(c)
           \/ ReadUpsert(c) \/ ReadCreate(c) \/ ReadBranch(c) \/ ReadPromote(c)
    BY <1>1 DEF GetHead, Mark, Marked, Fetch, Collect, ReadUpsert, ReadCreate, ReadBranch,
       ReadPromote, ReadOnly, Grows
<1>2. CASE \/ InsertUpsert(c) \/ InsertSelect(c) \/ InsertPromote(c)
           \/ ClearHeads(c) \/ Commit(c) \/ Log(c)
           \/ Select(c) \/ Delete(c) \/ DeleteRefused(c)
    BY <1>0, <1>2 DEF InsertUpsert, InsertSelect, InsertPromote, Inserted, ClearHeads, Commit,
       Log, Select, Delete, DeleteRefused, RollBack, Grows, PastOK
<1> QED BY <1>1, <1>2 DEF Statements

\* A call that does not overlap begins when no other is running.
LEMMA RequestAlone ==
    ASSUME HistoryInv, NEW c \in Callers, Requests(c), Alone'
    PROVE  Alone /\ OthersIdle(c) /\ Grows
<1>1. PICK call : Begin(c, call)
    BY DEF Requests, upsert_tool, create_version, create_branch, merge_branch,
       rollback, promote_to_stable, mark_external, delete_tool, BeginNow
<1> QED BY <1>1 DEF Begin, Others, OthersIdle, Alone, HistoryInv, PastOK, Grows

\* A new store, or one with a version and a branch, is a tree.
LEMMA SeqInit == Init => SeqInv
<1> SUFFICES ASSUME Init PROVE SeqInv
    OBVIOUS
<1>1. DOMAIN ret = Callers /\ \A c \in Callers : calls[c].pc = "idle" /\ ret[c] = NoId
    BY DEF Init, Idle
<1>2. Table(saved) /\ OneFlag(saved, Branches) /\ Tree(saved)
      /\ Ascends(saved) /\ NewestFlagged(saved, Branches)
  <2>1. CASE saved = {}
      BY <2>1 DEF Table, OneFlag, Tree, Ascends, NewestFlagged
  <2>2. CASE saved = {First(Main, 0), First("dev", 1)}
    <3> DEFINE m == First(Main, 0)
               d == First("dev", 1)
               v == GENERATED_INITIAL_VERSION
    <3>1. /\ m.branch = Main /\ m.ver = v /\ m.parent = NoId /\ m.at = 0 /\ m.head = TRUE
          /\ d.branch = "dev" /\ d.ver = v /\ d.parent = Id(Main, v) /\ d.at = 1 /\ d.head = TRUE
        BY DEF First, Main
    <3>2. v \in Versions
        BY DEF Versions, GENERATED_INITIAL_VERSION
    <3> HIDE DEF m, d, v
    <3>3. IdOf(m) = Id(Main, v) /\ IdOf(d) = Id("dev", v) /\ IdOf(m) # IdOf(d) /\ d.parent # NoId
        BY <3>1 DEF IdOf, Id, Main, NoId
    <3>4. saved = {m, d}
        BY <2>2 DEF m, d
    <3> QED BY <3>1, <3>2, <3>3, <3>4
        DEF Table, OneFlag, Tree, Ascends, NewestFlagged, Newest, Branches, Main
  <2> QED BY <2>1, <2>2 DEF Init
<1>4. clock \in Nat /\ (\A r \in rows \cup saved : r.at < clock) /\ rows = saved
    BY DEF Init, First
<1> QED BY <1>1, <1>2, <1>4 DEF SeqInv, AloneInv, Good

\* Every step keeps it.
LEMMA SeqStep ==
    HistoryInv /\ SeqInv /\ [Next]_vars => SeqInv'
<1> SUFFICES ASSUME HistoryInv, SeqInv, [Next]_vars PROVE SeqInv'
    OBVIOUS
<1>0. Kept(saved, saved', past'.doomed, past'.upserted)
    BY HistoryStep
<1>1. CASE UNCHANGED vars
    BY <1>1 DEF vars, SeqInv, Alone, AloneInv, Quiet
<1>2. ASSUME NEW c \in Callers, Requests(c) \/ Statements(c) PROVE SeqInv'
  <2>1. /\ DOMAIN ret' = Callers
        /\ \A d \in Callers \ {c} : calls'[d] = calls[d] /\ ret'[d] = ret[d]
      BY <1>2, OthersLeft DEF SeqInv, Leaves
  <2>2. ASSUME Alone' PROVE AloneInv'
    <3>1. Alone /\ OthersIdle(c) /\ Grows
      <4>1. CASE Requests(c)
          BY <2>2, <4>1, RequestAlone
      <4>2. CASE Statements(c)
        <5>1. calls[c].pc # "idle" /\ Alone
            BY <2>2, <4>2, StatementBusy DEF Alone
        <5>2. OthersIdle(c)
            BY <5>1 DEF SeqInv, AloneInv, OthersIdle
        <5> QED BY <4>2, <5>1, <5>2, StatementGrows
      <4> QED BY <1>2, <4>1, <4>2
    <3>2. AloneInv /\ DOMAIN ret = Callers
        BY <3>1 DEF SeqInv
    <3>3. Sits(c)
        BY <3>1, <3>2, AloneSits
    <3>4. Sits(c)'
        BY <1>2, <3>2, <3>3, SitsRequest, SitsStatement
    <3> QED BY <1>0, <2>1, <3>1, <3>2, <3>4, SitsAlone
  <2> QED BY <2>1, <2>2 DEF SeqInv
<1> QED BY <1>1, <1>2 DEF Next
-----------------------------------------------------------------------------
(* The chain of a branch *)

\* A finite table whose rows have dates, each its own.
Dated(S) ==
    /\ IsFiniteSet(S) /\ \A r \in S : r.at \in Nat
    /\ \A r, o \in S : r.at = o.at => r = o

\* A table with dates below n is finite.
LEMMA DatedTable ==
    ASSUME NEW S, NEW n \in Nat, \A r \in S : r.at \in Nat /\ r.at < n,
           \A r, o \in S : r.at = o.at => r = o
    PROVE  Dated(S)
<1> DEFINE f == [r \in S |-> r.at]
<1>1. f \in [S -> 0..n] /\ \A r, o \in S : f[r] = f[o] => r = o
    OBVIOUS
<1>2. f \in Injection(S, 0..n)
    BY <1>1, Fun_IsInj
<1> QED BY <1>2, FS_Injection, FS_Interval DEF Dated

\* The newer rows, the older ones and the row itself are all there is.
LEMMA Ranks ==
    ASSUME NEW S, Dated(S), NEW r \in S
    PROVE  /\ Cardinality(Newer(r, S)) \in Nat /\ Cardinality(Older(r, S)) \in Nat
           /\ Cardinality(Newer(r, S)) + Cardinality(Older(r, S)) = Cardinality(S) - 1
           /\ IsFiniteSet(Newer(r, S)) /\ Cardinality(S) \in Nat
<1>1. Newer(r, S) \subseteq S /\ Older(r, S) \subseteq S
    BY DEF Newer, Older
<1>2. /\ IsFiniteSet(Newer(r, S)) /\ IsFiniteSet(Older(r, S))
      /\ Cardinality(Newer(r, S)) \in Nat /\ Cardinality(Older(r, S)) \in Nat
      /\ Cardinality(S) \in Nat
    BY <1>1, FS_Subset, FS_CardinalityType DEF Dated
<1>3. Newer(r, S) \cup Older(r, S) = S \ {r} /\ Newer(r, S) \cap Older(r, S) = {}
    BY DEF Newer, Older, Dated
<1>4. Cardinality(S \ {r}) = Cardinality(S) - 1
    BY FS_RemoveElement DEF Dated
<1>5. Cardinality(Newer(r, S) \cup Older(r, S))
        = Cardinality(Newer(r, S)) + Cardinality(Older(r, S)) - Cardinality({})
    BY <1>2, <1>3, FS_Union
<1>6. Cardinality({}) = 0
    BY FS_EmptySet
<1>7. Cardinality(S) - 1 = Cardinality(Newer(r, S)) + Cardinality(Older(r, S)) - 0
    BY <1>3, <1>4, <1>5, <1>6
<1> QED BY <1>2, <1>7

\* The later of two rows has fewer that are newer.
LEMMA RankOrder ==
    ASSUME NEW S, Dated(S), NEW r \in S, NEW o \in S
    PROVE  r.at > o.at <=> Cardinality(Newer(r, S)) < Cardinality(Newer(o, S))
<1>1. ASSUME NEW p \in S, NEW q \in S, p.at > q.at
      PROVE  Cardinality(Newer(p, S)) < Cardinality(Newer(q, S))
  <2>1. Newer(p, S) \subseteq Newer(q, S) /\ p \in Newer(q, S) /\ p \notin Newer(p, S)
      BY <1>1 DEF Newer, Dated
  <2>2. /\ IsFiniteSet(Newer(q, S)) /\ Cardinality(Newer(p, S)) \in Nat
        /\ Cardinality(Newer(q, S)) \in Nat
      BY Ranks
  <2>3. /\ Cardinality(Newer(p, S)) <= Cardinality(Newer(q, S))
        /\ Cardinality(Newer(q, S)) = Cardinality(Newer(p, S)) => Newer(q, S) = Newer(p, S)
      BY <2>1, <2>2, FS_Subset
  <2> QED BY <2>1, <2>2, <2>3
<1>2. r.at \in Nat /\ o.at \in Nat /\ (r.at = o.at => r = o)
    BY DEF Dated
<1>3. Cardinality(Newer(r, S)) \in Nat /\ Cardinality(Newer(o, S)) \in Nat
    BY Ranks
<1> QED BY <1>1, <1>2, <1>3

\* Every place is taken, by one row.
LEMMA PlacesTaken ==
    ASSUME NEW S, Dated(S), NEW i \in 1..Cardinality(S)
    PROVE  \E r \in S : Cardinality(Newer(r, S)) = i - 1
<1> DEFINE n == Cardinality(S)
           f == [r \in S |-> Cardinality(Newer(r, S))]
<1>1. \A r \in S : Cardinality(Newer(r, S)) \in 0..(n - 1) /\ n \in Nat
    BY Ranks
<1>2. \A r, o \in S : f[r] = f[o] => r = o
  <2> TAKE r, o \in S
  <2> HAVE f[r] = f[o]
  <2>1. Cardinality(Newer(r, S)) = Cardinality(Newer(o, S)) /\ Cardinality(Newer(r, S)) \in Nat
      BY Ranks
  <2>2. ~(r.at > o.at) /\ ~(o.at > r.at)
      BY <2>1, RankOrder
  <2> QED BY <2>2 DEF Dated
<1>3. n \in Nat
    BY FS_CardinalityType DEF Dated
<1>4. f \in Injection(S, 0..(n - 1))
    BY <1>1, <1>2, Fun_IsInj
<1>5. IsFiniteSet(0..(n - 1)) /\ Cardinality(0..(n - 1)) = n
  <2>1. 0 \in Int /\ n - 1 \in Int
      BY <1>3
  <2> HIDE DEF n
  <2>2. /\ IsFiniteSet(0..(n - 1))
        /\ Cardinality(0..(n - 1)) = IF 0 > n - 1 THEN 0 ELSE n - 1 - 0 + 1
      BY <2>1, FS_Interval
  <2> QED BY <2>2, <1>3
<1> HIDE DEF f
<1>6. f \in Surjection(S, 0..(n - 1))
    BY <1>4, <1>5, FS_Injection
<1>7. i - 1 \in 0..(n - 1)
    BY <1>3
<1>8. PICK r \in S : f[r] = i - 1
    BY <1>6, <1>7 DEF Surjection
<1> QED BY <1>8 DEF f

\* NewestFirst is a sequence of all rows, and OldestFirst is its reverse.
LEMMA Places ==
    ASSUME NEW S, Dated(S)
    PROVE  /\ Len(NewestFirst(S)) = Cardinality(S) /\ Len(OldestFirst(S)) = Cardinality(S)
           /\ \A i \in 1..Cardinality(S) :
                 /\ NewestFirst(S)[i] \in S
                 /\ Cardinality(Newer(NewestFirst(S)[i], S)) = i - 1
                 /\ NewestFirst(S)[i] = OldestFirst(S)[Cardinality(S) + 1 - i]
<1> DEFINE n == Cardinality(S)
<1>1. n \in Nat
    BY FS_CardinalityType DEF Dated
<1>2. Len(NewestFirst(S)) = n /\ Len(OldestFirst(S)) = n
    BY <1>1 DEF NewestFirst, OldestFirst
<1>3. ASSUME NEW i \in 1..n
      PROVE  /\ NewestFirst(S)[i] \in S /\ Cardinality(Newer(NewestFirst(S)[i], S)) = i - 1
             /\ NewestFirst(S)[i] = OldestFirst(S)[n + 1 - i]
  <2> DEFINE r == NewestFirst(S)[i]
             j == n + 1 - i
             o == OldestFirst(S)[j]
  <2>1. r \in S /\ Cardinality(Newer(r, S)) = i - 1
      BY PlacesTaken DEF NewestFirst
  <2>2. j \in 1..n /\ j - 1 = n - i
      BY <1>1
  <2>3. Cardinality(Older(r, S)) = j - 1
      BY <2>1, <2>2, <1>1, Ranks
  <2>4. o = CHOOSE p \in S : Cardinality(Older(p, S)) = j - 1
      BY <2>2 DEF OldestFirst
  <2>5. o \in S /\ Cardinality(Older(o, S)) = j - 1
      BY <2>1, <2>3, <2>4
  <2>6. Cardinality(Newer(o, S)) = Cardinality(Newer(r, S))
      BY <2>1, <2>3, <2>5, <1>1, Ranks
  <2>7. ~(r.at > o.at) /\ ~(o.at > r.at)
      BY <2>1, <2>5, <2>6, RankOrder, Ranks
  <2>8. r = o
      BY <2>1, <2>5, <2>7 DEF Dated
  <2> QED BY <2>1, <2>8
<1> QED BY <1>2, <1>3

\* The first is the latest, the last is the earliest.
LEMMA Ends ==
    ASSUME NEW S, Dated(S), S # {}
    PROVE  /\ Cardinality(S) \in Nat \ {0}
           /\ \A o \in S : o.at <= NewestFirst(S)[1].at
           /\ \A o \in S : o.at >= NewestFirst(S)[Cardinality(S)].at
<1> DEFINE n == Cardinality(S)
<1>1. n \in Nat /\ n # 0
    BY FS_CardinalityType, FS_EmptySet DEF Dated
<1>2. NewestFirst(S)[1] \in S /\ Cardinality(Newer(NewestFirst(S)[1], S)) = 0
    BY <1>1, Places
<1>3. NewestFirst(S)[n] \in S /\ Cardinality(Newer(NewestFirst(S)[n], S)) = n - 1
    BY <1>1, Places
<1>4. ASSUME NEW o \in S PROVE o.at <= NewestFirst(S)[1].at
    BY <1>2, Ranks, RankOrder DEF Dated
<1>5. ASSUME NEW o \in S PROVE o.at >= NewestFirst(S)[n].at
    BY <1>1, <1>3, Ranks, RankOrder DEF Dated
<1> QED BY <1>1, <1>4, <1>5

\* Of two rows in a row, the first is the later.
LEMMA Descends ==
    ASSUME NEW S, Dated(S), NEW i \in 2..Cardinality(S)
    PROVE  /\ NewestFirst(S)[i - 1] \in S /\ NewestFirst(S)[i] \in S
           /\ NewestFirst(S)[i - 1].at > NewestFirst(S)[i].at
<1>1. Cardinality(S) \in Nat
    BY FS_CardinalityType DEF Dated
<1>2. i - 1 \in 1..Cardinality(S) /\ i \in 1..Cardinality(S)
    BY <1>1
<1> QED BY <1>1, <1>2, Places, RankOrder

-----------------------------------------------------------------------------
(* What the readers see *)

\* Between two calls the table is the committed one, and good.
LEMMA SettledTable ==
    ASSUME SeqInv, Quiet, Alone
    PROVE  /\ Good(rows, Branches, past.doomed, past.lowered) /\ Table(rows)
           /\ clock \in Nat /\ \A r \in rows : r.at < clock
BY DEF SeqInv, AloneInv, Good

\* With nothing deleted, it is a tree whose newest versions are the heads.
LEMMA SettledTree ==
    ASSUME SeqInv, Undisturbed
    PROVE  /\ Tree(rows) /\ Table(rows) /\ OneFlag(rows, Branches)
           /\ ~past.lowered => Ascends(rows) /\ NewestFlagged(rows, Branches)
           /\ clock \in Nat /\ \A r \in rows : r.at < clock
BY SettledTable DEF Undisturbed, Good

\* A set with a single member has one, and none has none.
LEMMA AtMostOne ==
    ASSUME NEW S, \A r, o \in S : r = o
    PROVE  Cardinality(S) <= 1 /\ (S # {} => Cardinality(S) = 1)
<1>1. CASE S = {}
    BY <1>1, FS_EmptySet
<1>2. ASSUME NEW r \in S PROVE Cardinality(S) = 1
  <2>1. S = {r}
      BY <1>2
  <2> QED BY <2>1, FS_Singleton
<1> QED BY <1>1, <1>2

\* The two ideas of a head are one.
LEMMA HeadsHold == ASSUME SeqInv PROVE HeadsSound
<1>1. ASSUME Quiet, Alone, NEW b \in Branches
      PROVE  /\ Cardinality(Flagged(b)) <= 1
             /\ past.doomed = {} /\ ~past.lowered /\ On(b) # {} =>
                   Latest(On(b)) \in Flagged(b) /\ Latest(On(b)).head
  <2>1. OneFlag(rows, Branches)
      BY <1>1, SettledTable DEF Good
  <2>2. \A r, o \in Flagged(b) : r = o
      BY <1>1, <2>1 DEF Flagged, On, OneFlag
  <2>3. Cardinality(Flagged(b)) <= 1
      BY <2>2, AtMostOne
  <2>4. ASSUME past.doomed = {}, ~past.lowered, On(b) # {}
        PROVE  Latest(On(b)) \in Flagged(b) /\ Latest(On(b)).head
    <3>1. /\ Latest(On(b)) \in rows /\ Latest(On(b)).branch = b
          /\ Newest(Latest(On(b)), rows)
        BY <1>1, <2>4, SettledTable, NewestOn
    <3>2. NewestFlagged(rows, Branches)
        BY <1>1, <2>4, SettledTable DEF Good
    <3> QED BY <1>1, <3>1, <3>2 DEF NewestFlagged, Flagged, On
  <2> QED BY <2>3, <2>4
<1>2. OneHead
  <2> SUFFICES ASSUME Quiet, Alone, NEW b \in Branches
               PROVE  /\ Cardinality(Flagged(b)) <= 1
                      /\ past.doomed = {} /\ ~past.lowered /\ On(b) # {} => Flagged(b) # {}
      BY DEF OneHead
  <2> QED BY <1>1
<1>3. HeadsAgree
    BY <1>1 DEF HeadsAgree
<1> QED BY <1>2, <1>3 DEF HeadsSound

\* The earliest row of a tree is the one without a parent, on main.
LEMMA RootIsEarliest ==
    ASSUME SeqInv, Undisturbed, rows # {}
    PROVE  /\ Earliest(rows) \in rows /\ Earliest(rows).parent = NoId
           /\ Earliest(rows).branch = Main /\ \A o \in rows : o.at >= Earliest(rows).at
<1>1. Tree(rows) /\ Table(rows)
    BY SettledTree
<1>2. Earliest(rows) \in rows /\ \A o \in rows : o.at >= Earliest(rows).at
    BY <1>1, EarliestRow DEF Table
<1>3. \A o \in rows : ~(o.at < Earliest(rows).at)
    BY <1>1, <1>2 DEF Table
<1> QED BY <1>1, <1>2, <1>3 DEF Tree

\* The root is one, and every other version has its older parent.
LEMMA TreeHolds == ASSUME SeqInv PROVE HistoryIsTree
<1> SUFFICES ASSUME Undisturbed, rows # {}
             PROVE  /\ Cardinality({r \in rows : r.parent = NoId}) = 1
                    /\ \A r \in rows : r.parent # NoId =>
                          \E p \in rows : IdOf(p) = r.parent /\ p.at < r.at
    BY DEF HistoryIsTree
<1> DEFINE Roots == {r \in rows : r.parent = NoId}
<1>1. Tree(rows)
    BY SettledTree
<1>2. \A r, o \in Roots : r = o
    BY <1>1 DEF Tree
<1>3. Roots # {}
    BY RootIsEarliest
<1>4. Cardinality(Roots) = 1
  <2> HIDE DEF Roots
  <2> QED BY <1>2, <1>3, AtMostOne
<1> QED BY <1>1, <1>4 DEF Tree

\* A branch is a table with dates.
LEMMA DatedBranch ==
    ASSUME SeqInv, Undisturbed, NEW b
    PROVE  Dated(On(b))
<1>1. Table(rows) /\ clock \in Nat /\ \A r \in rows : r.at < clock
    BY SettledTree
<1>2. \A r \in On(b) : r.at \in Nat /\ r.at < clock
    BY <1>1 DEF On, Table
<1>3. \A r, o \in On(b) : r.at = o.at => r = o
    BY <1>1 DEF On, Table
<1> QED BY <1>1, <1>2, <1>3, DatedTable

\* A later version of the chain has the lower place.
LEMMA AscentHolds == ASSUME SeqInv PROVE VersionsAscend
<1> SUFFICES ASSUME Undisturbed, ~past.lowered, NEW i \in 2..Len(VersionChain)
             PROVE  compare_greater(VersionChain[i - 1].ver, VersionChain[i].ver)
    BY DEF VersionsAscend
<1>1. Dated(On(Main))
    BY DatedBranch
<1>2. Len(NewestFirst(On(Main))) = Cardinality(On(Main))
    BY <1>1, Places
<1>3. i \in 2..Cardinality(On(Main))
    BY <1>2 DEF VersionChain
<1> DEFINE r == NewestFirst(On(Main))[i - 1]
           o == NewestFirst(On(Main))[i]
<1>4. r \in On(Main) /\ o \in On(Main) /\ r.at > o.at
    BY <1>1, <1>3, Descends
<1>5. r \in rows /\ o \in rows /\ r.branch = Main /\ o.branch = Main
    BY <1>4 DEF On
<1>6. o.at < r.at
    BY <1>4, <1>5, SettledTree DEF Table
<1>7. Ascends(rows)
    BY SettledTree
<1>8. Greater(r.ver, o.ver)
  <2> HIDE DEF r, o
  <2> QED BY <1>5, <1>6, <1>7 DEF Ascends
<1> QED BY <1>8 DEF Greater, VersionChain

\* What list_tools shows is the latest of main.
LEMMA FlaggedLatest ==
    ASSUME SeqInv, Undisturbed, ~past.lowered, On(Main) # {}
    PROVE  Flagged(Main) = {Latest(On(Main))}
<1>1. /\ NewestFlagged(rows, Branches) /\ Table(rows) /\ clock \in Nat
      /\ \A r \in rows : r.at < clock /\ Main \in Branches
    BY SettledTree DEF Branches, Main
<1>2. /\ Latest(On(Main)) \in rows /\ Latest(On(Main)).branch = Main
      /\ Newest(Latest(On(Main)), rows)
      /\ \A r \in rows : r.branch = Main /\ Newest(r, rows) => r = Latest(On(Main))
    BY <1>1, NewestOn
<1> QED BY <1>1, <1>2 DEF Flagged, On, NewestFlagged

\* A stable version stays below the later ones.
LEMMA StableGreater ==
    ASSUME NEW v \in Versions, NEW w \in Versions, Greater(v, w), is_stable(w)
    PROVE  is_stable(v)
BY DEF Versions, Greater, compare_greater, is_stable

\* The latest of main is above every stable version, so it is stable.
LEMMA StableHolds == ASSUME SeqInv PROVE StableStays
<1> SUFFICES ASSUME Undisturbed, ~past.lowered, NEW r \in On(Main), is_stable(r.ver)
             PROVE  ListTools({"candidate"}) = {}
    BY DEF StableStays
<1> DEFINE h == Latest(On(Main))
<1>1. Flagged(Main) = {h}
    BY FlaggedLatest
<1>2. Table(rows) /\ Ascends(rows) /\ clock \in Nat /\ \A o \in rows : o.at < clock
    BY SettledTree
<1>3. h \in rows /\ h.branch = Main /\ Newest(h, rows)
    BY <1>2, NewestOn
<1>4. r \in rows /\ r.branch = Main
    BY DEF On
<1> HIDE DEF h
<1>5. r.at <= h.at
    BY <1>3, <1>4 DEF Newest
<1>6. r = h \/ r.at < h.at
    BY <1>2, <1>3, <1>4, <1>5 DEF Table
<1>7. r = h \/ Greater(h.ver, r.ver)
    BY <1>2, <1>3, <1>4, <1>6 DEF Ascends
<1>8. is_stable(h.ver)
    BY <1>2, <1>3, <1>4, <1>7, StableGreater DEF Table
<1> QED BY <1>1, <1>8 DEF ListTools, StageOf

\* get_root_version returns the version without a parent.
LEMMA RootOfMain ==
    ASSUME SeqInv, Undisturbed, On(Main) # {}
    PROVE  /\ Earliest(On(Main)) \in On(Main) /\ Earliest(On(Main)).parent = NoId
           /\ \A o \in On(Main) : o.at >= Earliest(On(Main)).at
<1>1. Table(rows)
    BY SettledTree
<1>2. rows # {}
    BY DEF On
<1>3. /\ Earliest(On(Main)) \in On(Main)
      /\ \A o \in On(Main) : o.at >= Earliest(On(Main)).at
    BY <1>1, EarliestRow DEF On, Table
<1>4. /\ Earliest(rows) \in On(Main) /\ Earliest(rows).parent = NoId
      /\ \A o \in rows : o.at >= Earliest(rows).at
    BY <1>2, RootIsEarliest DEF On
<1>5. Earliest(rows).at = Earliest(On(Main)).at
    BY <1>1, <1>3, <1>4 DEF On, Table
<1>6. Earliest(rows) = Earliest(On(Main))
    BY <1>1, <1>3, <1>4, <1>5 DEF On, Table
<1> QED BY <1>3, <1>4, <1>6

\* A version of main that is stored is what get_tool returns for its number.
LEMMA Fetched ==
    ASSUME SeqInv, Undisturbed, NEW r \in On(Main)
    PROVE  GetTool(r.ver) = r
<1> DEFINE found == {o \in rows : IdOf(o) = Id(Main, r.ver)}
<1>1. Table(rows) /\ r \in rows /\ r.branch = Main
    BY SettledTree DEF On
<1>2. r.ver # None
  <2>1. None \notin Versions
      BY DEF Versions, None
  <2> QED BY <1>1, <2>1 DEF Table
<1>3. found = {r}
    BY <1>1 DEF Table, IdOf
<1>4. Latest({r}) = r
    BY <1>1 DEF Latest, Table
<1>5. GetTool(r.ver) = IF found = {} THEN NoEntry ELSE Latest(found)
    BY <1>2 DEF GetTool
<1> HIDE DEF found
<1> QED BY <1>3, <1>4, <1>5

\* Both the root and the head can be fetched by their ids.
LEMMA PathsHold == ASSUME SeqInv PROVE PathsResolve
<1> SUFFICES ASSUME Undisturbed, On(Main) # {}, NEW source \in Sources, NEW bound \in BOOLEAN
             PROVE  /\ GetTool(Resolve(source, bound).ver) = Resolve(source, bound)
                    /\ source = "skill" /\ bound => Resolve(source, bound).parent = NoId
    BY DEF PathsResolve
<1>1. /\ Earliest(On(Main)) \in On(Main) /\ Earliest(On(Main)).parent = NoId
    BY RootOfMain
<1>2. Latest(On(Main)) \in On(Main)
    BY SettledTree, NewestOn DEF On
<1>3. CASE source = "skill" /\ bound
  <2>1. Resolve(source, bound) = Earliest(On(Main))
      BY <1>3 DEF Resolve, RootVersion
  <2> QED BY <1>1, <2>1, Fetched
<1>4. CASE ~(source = "skill" /\ bound)
  <2>1. Resolve(source, bound) = Latest(On(Main))
      BY <1>4 DEF Resolve
  <2> QED BY <1>2, <1>4, <2>1, Fetched
<1> QED BY <1>3, <1>4

\* The ends of the chain are the head and the root.
LEMMA QueriesHold == ASSUME SeqInv PROVE QueriesAgree
<1> SUFFICES ASSUME Undisturbed, ~past.lowered, On(Main) # {}
             PROVE  /\ VersionChain[1] = GetTool(None)
                    /\ VersionChain[Len(VersionChain)] = RootVersion
                    /\ Len(VersionTree[Main]) = Len(VersionChain)
                    /\ \A i \in 1..Len(VersionChain) :
                          VersionChain[i] = VersionTree[Main][Len(VersionChain) + 1 - i]
                    /\ ListTools(Stages) = {GetTool(None)}
    BY DEF QueriesAgree
<1> DEFINE S == On(Main)
           n == Cardinality(S)
<1>1. Dated(S)
    BY DatedBranch
<1>2. /\ n \in Nat \ {0}
      /\ \A o \in S : o.at <= NewestFirst(S)[1].at
      /\ \A o \in S : o.at >= NewestFirst(S)[n].at
    BY <1>1, Ends
<1>3. /\ Len(NewestFirst(S)) = n /\ Len(OldestFirst(S)) = n
      /\ \A i \in 1..n : /\ NewestFirst(S)[i] \in S
                         /\ NewestFirst(S)[i] = OldestFirst(S)[n + 1 - i]
    BY <1>1, Places
<1>4. NewestFirst(S)[1] \in S /\ NewestFirst(S)[n] \in S
  <2>1. 1 \in 1..n /\ n \in 1..n
      BY <1>2
  <2> QED BY <1>3, <2>1
<1>5. GetTool(None) = Latest(S)
    BY DEF GetTool
<1>6. Latest(S) \in S /\ \A o \in S : o.at <= Latest(S).at
    BY SettledTree, LatestRow DEF On, Table
<1>7. NewestFirst(S)[1] = Latest(S)
  <2>1. /\ NewestFirst(S)[1].at <= Latest(S).at /\ Latest(S).at <= NewestFirst(S)[1].at
        /\ NewestFirst(S)[1].at \in Nat /\ Latest(S).at \in Nat
      BY <1>1, <1>2, <1>4, <1>6 DEF Dated
  <2>2. NewestFirst(S)[1].at = Latest(S).at
      BY <2>1
  <2> QED BY <1>1, <1>4, <1>6, <2>2 DEF Dated
<1>8. NewestFirst(S)[n] = Earliest(S)
  <2>1. Earliest(S) \in S /\ \A o \in S : o.at >= Earliest(S).at
      BY RootOfMain
  <2>2. /\ NewestFirst(S)[n].at >= Earliest(S).at /\ Earliest(S).at >= NewestFirst(S)[n].at
        /\ NewestFirst(S)[n].at \in Nat /\ Earliest(S).at \in Nat
      BY <1>1, <1>2, <1>4, <2>1 DEF Dated
  <2>3. NewestFirst(S)[n].at = Earliest(S).at
      BY <2>2
  <2> QED BY <1>1, <1>4, <2>1, <2>3 DEF Dated
<1>9. VersionTree[Main] = OldestFirst(S)
  <2>1. Main \in {r.branch : r \in rows}
      BY DEF On
  <2> QED BY <2>1 DEF VersionTree
<1>10. RootVersion = Earliest(S)
    BY DEF RootVersion
<1>11. ListTools(Stages) = {Latest(S)}
    BY FlaggedLatest DEF ListTools, Stages, StageOf
<1> HIDE DEF S, n
<1>12. VersionChain = NewestFirst(S)
    BY DEF VersionChain, S
<1> QED BY <1>3, <1>5, <1>7, <1>8, <1>9, <1>10, <1>11, <1>12
-----------------------------------------------------------------------------
(* What the writing calls promise *)

\* Outside a call nothing of it is pending; inside, CallInv says what it writes.
LEMMA ContentHolds ==
    ASSUME HistoryInv, SeqInv PROVE PromotionKeepsContent /\ MergeKeepsBoth
<1>1. ASSUME Alone, NEW c \in Callers, calls[c].pc # "idle"
      PROVE  CallContent(calls[c], rows, past.doomed, past.lowered)
    BY <1>1 DEF SeqInv, AloneInv, CallInv
<1>2. PromotionKeepsContent
  <2> SUFFICES ASSUME Alone, ~past.lowered, past.doomed = {}, NEW c \in Callers,
                      calls[c].pc \in {"clear", "commit"}, calls[c].op = "promote",
                      NEW r \in rows, NEW p \in rows,
                      IdOf(r) = calls[c].key, IdOf(p) = r.parent
               PROVE  r.def = p.def
      BY DEF PromotionKeepsContent
  <2> QED BY <1>1 DEF CallContent
<1>3. MergeKeepsBoth
  <2> SUFFICES ASSUME Alone, NEW c \in Callers, calls[c].pc = "log", calls[c].op = "merge",
                      NEW r \in rows, NEW p \in rows,
                      IdOf(r) = calls[c].key, IdOf(p) = r.parent, NEW f \in Fields
               PROVE  /\ calls[c].theirs[f] # calls[c].base[f]
                            => r.def[f] = calls[c].theirs[f]
                      /\ p.def[f] # calls[c].base[f] => r.def[f] = p.def[f]
      BY DEF MergeKeepsBoth
  <2>1. Merged(r.def, calls[c].base, p.def, calls[c].theirs)
      BY <1>1 DEF CallContent
  <2> QED BY <2>1 DEF Merged
<1> QED BY <1>2, <1>3

\* The last row of AloneInv is the atomicity of the calls.
LEMMA AtomicityHolds == ASSUME SeqInv PROVE CallsAtomic
BY DEF SeqInv, AloneInv, CallsAtomic

\* For any callers and calls, as long as no two of them overlap: the two
\* ideas of a head agree, the history is a tree whose numbers go up along main,
\* a stable tool stays so, all queries see the same tree, promotions and
\* merges keep the content and a call that returns a version has committed it.
THEOREM VersionTreeSound == Spec => []StoreSound
<1>1. SeqInv /\ HistoryInv /\ VersionInv => StoreSound
  <2> SUFFICES ASSUME SeqInv, HistoryInv, VersionInv PROVE StoreSound
      OBVIOUS
  <2>1. NoWayAroundPromotion
      BY DEF VersionInv, Lawful, NoWayAroundPromotion
  <2> QED BY <2>1, HeadsHold, TreeHolds, AscentHolds, StableHolds, QueriesHold, PathsHold,
             ContentHolds, AtomicityHolds DEF StoreSound, ContentSound
<1> QED BY <1>1, HistoryInit, HistoryStep, VersionInit, VersionStep, SeqInit, SeqStep, PTL
        DEF Spec
=============================================================================
