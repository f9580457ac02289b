---------------------------- MODULE ToolStoreReads ----------------------------
(***************************************************************************)
(* What the readers of ToolStore (youmi/mcp/tool_store.py) see of the      *)
(* version tree.  Every one of them has its own query: by id, by date, by  *)
(* flag, by branch.  The operators below are those queries over the rows   *)
(* of ToolStore; the properties say how their answers relate.              *)
(***************************************************************************)
EXTENDS ToolStore, Sequences

\* The answer of a query for one version that finds none.
NoEntry == [branch |-> "none"]

\* get_tool: a version by its id, else the latest of main.
GetTool(ver) ==
    LET found == IF ver = None THEN On(Main)
                 ELSE {r \in rows : IdOf(r) = Id(Main, ver)}
    IN IF found = {} THEN NoEntry ELSE Latest(found)

\* get_root_version, the version that version_router falls back to
RootVersion == IF On(Main) = {} THEN NoEntry ELSE Earliest(On(Main))

\* CallPathRouter.resolve (mcp/version_router.py): a skill, if it is bound to
\* the tool, goes on with the root version; any other call takes the head.
Sources == {"skill", "cross_domain", "direct"}
Resolve(source, bound) ==
    IF source = "skill" /\ bound THEN RootVersion
    ELSE IF On(Main) = {} THEN NoEntry ELSE Latest(On(Main))

\* list_tools: the flagged heads of main, of one stage or of both
Stages == {"candidate", "stable"}
StageOf(r) == IF is_stable(r.ver) THEN "stable" ELSE "candidate"
ListTools(stages) == {r \in Flagged(Main) : StageOf(r) \in stages}

\* ORDER BY created_at, over all rows: the i-th has i - 1 before it.
Newer(r, S) == {o \in S : o.at > r.at}
Older(r, S) == {o \in S : o.at < r.at}
NewestFirst(S) ==
    [i \in 1..Cardinality(S) |-> CHOOSE r \in S : Cardinality(Newer(r, S)) = i - 1]
OldestFirst(S) ==
    [i \in 1..Cardinality(S) |-> CHOOSE r \in S : Cardinality(Older(r, S)) = i - 1]

\* get_version_chain: main, the newest first
VersionChain == NewestFirst(On(Main))

\* get_version_tree: every branch, the oldest first
VersionTree == [b \in {r.branch : r \in rows} |-> OldestFirst(On(b))]
-----------------------------------------------------------------------------
Undisturbed == Quiet /\ Alone /\ past.doomed = {}

\* The history is one tree: calls that do not overlap, and delete nothing,
\* leave one version without a parent, and every other has a stored parent
\* that is older, whichever of the five ways of adding a version made it.
HistoryIsTree ==
    Undisturbed /\ rows # {} =>
        /\ Cardinality({r \in rows : r.parent = NoId}) = 1
        /\ \A r \in rows : r.parent # NoId =>
              \E p \in rows : IdOf(p) = r.parent /\ p.at < r.at

\* Along main the later version has the greater number, unless an upsert
\* stored a version below the head.  (Of another branch this is not true: a
\* second create_branch with its name forks it again at a smaller number.)
VersionsAscend ==
    Undisturbed /\ ~past.lowered =>
        \A i \in 2..Len(VersionChain) :
            compare_greater(VersionChain[i - 1].ver, VersionChain[i].ver)

\* The queries agree: the chain begins with what get_tool returns and ends
\* with the root, it is the main branch of the tree backwards, and what
\* list_tools shows is what get_tool returns.
QueriesAgree ==
    Undisturbed /\ ~past.lowered /\ On(Main) # {} =>
        /\ VersionChain[1] = GetTool(None) /\ VersionChain[Len(VersionChain)] = RootVersion
        /\ Len(VersionTree[Main]) = Len(VersionChain)
        /\ \A i \in 1..Len(VersionChain) :
              VersionChain[i] = VersionTree[Main][Len(VersionChain) + 1 - i]
        /\ ListTools(Stages) = {GetTool(None)}

\* The version a call path resolves to can be fetched again by its id, and a
\* bound skill keeps to the version the tool began with, whatever has been
\* added since.
PathsResolve ==
    Undisturbed /\ On(Main) # {} =>
        \A source \in Sources, bound \in BOOLEAN : LET r == Resolve(source, bound) IN
            /\ GetTool(r.ver) = r
            /\ source = "skill" /\ bound => r.parent = NoId

\* A tool that has left the candidate library stays out of it: as long as a
\* stable version is stored, list_tools shows no candidate.
StableStays ==
    Undisturbed /\ ~past.lowered =>
        ((\E r \in On(Main) : is_stable(r.ver)) => ListTools({"candidate"}) = {})

\* What the readers are promised of the version tree, heads included, and what
\* the writing calls promise of content and atomicity.
StoreSound ==
    /\ HeadsSound /\ HistoryIsTree /\ VersionsAscend /\ StableStays
    /\ QueriesAgree /\ PathsResolve
    /\ ContentSound /\ CallsAtomic
=============================================================================
