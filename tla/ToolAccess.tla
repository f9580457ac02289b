----------------------------- MODULE ToolAccess -----------------------------
(***************************************************************************)
(* What one agent may call and see: its ToolBridge (youmi/mcp/bridge.py),  *)
(* AgentToolContext (context.py), the ToolVault and ConeRetriever behind   *)
(* them, the routes of the MCPServer, the AuditGate in front of a load and *)
(* the ApprovalManager of the master.  Permission strings are compared     *)
(* with the names of the whitelist, as _cone_granted_permissions does.     *)
(* The scores of a search are abstracted: a search may return any part of  *)
(* what passes its filters.                                                *)
(***************************************************************************)
EXTENDS Integers, Sequences, FiniteSets

CONSTANTS Tools,
          Initial,                 \* the whitelist the agent is created with
          OwnTools, SharedTools,   \* what the two providers offer
          LineageOf,               \* the version chain of a tool
          Needs,                   \* required_permissions of a tool
          Risky,                   \* tools above the gate's risk_threshold
          Sensitive, AutoApproved, \* lists of the ApprovalManager
          RecycleAfter, MaxHot     \* recycle_after_turns, max_hot_tools

ASSUME AccessAssumption ==
    /\ IsFiniteSet(Tools)
    /\ Initial \subseteq Tools /\ Risky \subseteq Tools
    /\ OwnTools \subseteq Tools /\ SharedTools \subseteq Tools
    /\ Needs \in [Tools -> SUBSET Tools]
    /\ RecycleAfter \in Nat \ {0} /\ MaxHot \in Nat

VARIABLES
    limited,    \* _allowed_tools is not None
    allowed,    \* _allowed_tools
    essential,  \* the context entries marked essential
    tier,       \* the context's tier of a tool; "COLD" when it has no entry
    age,        \* _current_turn minus last_used_turn (0 when never used), up to RecycleAfter
    rejected,   \* _rejected_tools
    lineages,   \* the keys of _active_lineages
    vault,      \* the names in ToolVault._entries
    providers,  \* MCPServer._providers
    route,      \* MCPServer._tool_route, "none" when absent
    records     \* ApprovalManager._records, in order of submission

contextVars == <<tier, age, essential>>
serverVars  == <<vault, providers, route>>
accessVars  == <<limited, allowed, contextVars, rejected, lineages, serverVars, records>>

ToolsOf(p) == IF p = "own" THEN OwnTools ELSE SharedTools
Hot  == {t \in Tools : tier[t] = "HOT"}
Warm == {t \in Tools : tier[t] = "WARM"}
-----------------------------------------------------------------------------
(* The context: tiers, usage and recycling.                                *)

\* attach_vault: the whitelisted tools are essential.
EssentialNames == IF limited THEN Initial ELSE {}

\* init_tools: the whitelisted tools are HOT, without a whitelist all are.
ContextInit ==
    /\ essential = EssentialNames
    /\ tier = [t \in Tools |-> IF t \in vault /\ (limited => t \in Initial) THEN "HOT" ELSE "COLD"]
    /\ age = [t \in Tools |-> 0]

\* recycle: the HOT tools, not essential ones, that were not used for
\* `threshold` turns.  A tool never used counts from turn 0.
Idle(threshold) ==
    {t \in Hot \ essential : age[t] >= threshold}

Recycled(threshold) ==
    [t \in Tools |-> IF t \in Idle(threshold) THEN "WARM" ELSE tier[t]]

\* promote, for each tool of S in turn: a tool of the vault becomes HOT; when
\* one finds the context full, idle tools are recycled first (if there are
\* any: the bound is not enforced).
Promoted(S) ==
    LET known == S \cap vault
        new   == known \ Hot
        full  == new # {} /\ Cardinality(Hot) + Cardinality(new) > MaxHot
    IN  [t \in Tools |-> IF t \in known THEN "HOT"
                         ELSE IF full THEN Recycled(1)[t] ELSE tier[t]]

\* load_tool of the bridge: a promotion in the agent's context.
LoadTool(S) == Promoted(S)

\* record_usage: ignored for a tool the context does not know.
UsedNow(S) == [t \in Tools |-> IF t \in S \cap vault THEN 0 ELSE age[t]]

\* advance_turn of the context: every tool is one turn older.
Older == [t \in Tools |-> IF age[t] < RecycleAfter THEN age[t] + 1 ELSE age[t]]

\* _advance_tool_context of the agent: the next turn, then the recycling.
AdvanceTurn ==
    /\ age' = Older
    /\ tier' = [t \in Tools |->
                  IF t \in Hot \ essential /\ age'[t] >= RecycleAfter THEN "WARM" ELSE tier[t]]
    /\ UNCHANGED <<essential, limited, allowed, rejected, lineages, serverVars, records>>
-----------------------------------------------------------------------------
(* The bridge: permission, what the LLM is shown, search and load.         *)

CheckPermission(t) == limited => t \in allowed

\* to_openai_tools of the context: the HOT tools the vault knows.
ContextSchemas == Hot \cap vault

\* to_openai_tools of the bridge, without the search_new_tools schema.
Offered == {t \in ContextSchemas : CheckPermission(t)}

\* to_warm_summaries of the context and the bridge, which the agent puts in
\* its prompt layer "warm_tools" before every LLM call of the loop.
WarmContext == Warm \cap vault
WarmListed == {t \in WarmContext : CheckPermission(t)}

VisibleToolNames == IF limited THEN allowed ELSE Hot

\* _cone_granted_permissions: the whitelist stands for the permissions; without
\* one everything is granted.
Granted == IF limited THEN allowed ELSE Tools
PermissionsSatisfied(t) == Needs[t] \subseteq Granted

\* ToolVault.search and its keyword fallback: not the excluded names.
VaultHits(exclude) == vault \ exclude

\* ConeRetriever: the search's hits without the active lineages, then
\* without those whose permissions are not granted.
ConeHits(exclude) ==
    {t \in VaultHits(exclude) : LineageOf[t] \notin lineages /\ PermissionsSatisfied(t)}

\* _register_lineage, for each of the tools.
LineagesOf(S) == {LineageOf[t] : t \in S}

\* _activate_tool: whitelist, context, usage, rejections and lineage.
\* Mutant: the whitelist is not extended.
Activate_NotAllowed(S) ==
    /\ tier' = LoadTool(S)
    /\ age' = UsedNow(S)
    /\ rejected' = {}
    /\ lineages' = lineages \cup LineagesOf(S)
    /\ UNCHANGED <<allowed, limited, essential>>
Activate(S) ==
    /\ allowed' = IF limited THEN allowed \cup S ELSE allowed
    /\ tier' = LoadTool(S)
    /\ age' = UsedNow(S)
    /\ rejected' = {}
    /\ lineages' = lineages \cup LineagesOf(S)
    /\ UNCHANGED <<limited, essential>>

\* ApprovalManager.evaluate, called with the tool's risk by the gate and
\* without it by the master.
Evaluate(t, critical) ==
    CASE t \in AutoApproved -> "auto"
      [] t \notin AutoApproved /\ (t \in Sensitive \/ critical) -> "manual"
      [] OTHER -> "master"

\* submit_request: a new record, approved at once at level "auto".
Submitted(t, level) ==
    [tool |-> t, level |-> level, decision |-> IF level = "auto" THEN "approved" ELSE "pending"]

\* approve and deny: a decided record keeps its decision.
\* Mutant: the check for a pending record is dropped.
Decided_Flips(decision, i) == [records[i] EXCEPT !.decision = decision]
Decided(decision, i) ==
    IF records[i].decision = "pending" THEN [records[i] EXCEPT !.decision = decision]
    ELSE records[i]

\* _audit_candidate: what the gate is told of a tool; one the vault does not
\* know has no permissions and a low risk.
AuditedNeeds(t) == IF t \in vault THEN Needs[t] ELSE {}

\* AuditGate.check: permissions first, then the risk.
AuditBlocks(t) == ~(AuditedNeeds(t) \subseteq Granted)
AuditManual(t) == ~AuditBlocks(t) /\ t \in Risky \cap vault

\* What a search of the bridge may propose.
Candidates == ConeHits(VisibleToolNames \cup rejected)

\* search_new_tools with `query`: the LLM is told some part of the candidates,
\* or of the server's list.
MetaSearch == UNCHANGED accessVars

\* _reject_and_research: the third rejection in a row tells the LLM to stop, an
\* earlier one searches again with the last query.
MetaReject(t) ==
    /\ rejected' = rejected \cup {t}
    /\ UNCHANGED <<limited, allowed, contextVars, lineages, serverVars, records>>

\* _load_discovered_tool: unknown name, lineage already active, blocked by
\* the gate, waiting for a person, or loaded.
Known(t) == t \in vault \/ \E p \in providers : t \in ToolsOf(p)
Active(t) == LineageOf[t] \in lineages

LoadUnknown == UNCHANGED accessVars

LoadReused(t) == Known(t) /\ Active(t) /\ UNCHANGED accessVars

LoadBlocked(t) ==
    /\ Known(t) /\ ~Active(t) /\ AuditBlocks(t)
    /\ rejected' = rejected \cup {t}
    /\ UNCHANGED <<limited, allowed, contextVars, lineages, serverVars, records>>

LoadManual(t) ==
    /\ Known(t) /\ ~Active(t) /\ AuditManual(t)
    /\ records' = Append(records, Submitted(t, Evaluate(t, TRUE)))
    /\ UNCHANGED <<rejected, limited, allowed, contextVars, lineages, serverVars>>

LoadPassed(t) ==
    /\ Known(t) /\ ~Active(t) /\ ~AuditBlocks(t) /\ ~AuditManual(t)
    /\ Activate({t})
    /\ UNCHANGED <<serverVars, records>>

\* reject_search_result.
RejectAll(S) ==
    /\ rejected' = rejected \cup S
    /\ UNCHANGED <<limited, allowed, contextVars, lineages, records>>

\* call_confirmer: a confirmer may accept or turn down any candidate; one that
\* raises turns it down.
Verdicts(S) == [S -> {"accept", "reject"}]

\* search_and_confirm: candidates turned down by the confirmer, or blocked by
\* the gate, are rejected; the first one accepted is activated, reported only
\* (activate=False), or left to a person.
SearchAndConfirm ==
    /\ \E S \in SUBSET Candidates : \E verdict \in Verdicts(S) :
        LET accepted == {t \in S : verdict[t] = "accept" /\ ~AuditBlocks(t)} IN
        \/ accepted = {} /\ RejectAll(S)
        \/ \E t \in accepted :
             /\ rejected' = {}
             /\ records' = IF AuditManual(t) THEN Append(records, Submitted(t, Evaluate(t, TRUE)))
                           ELSE records
             /\ UNCHANGED <<limited, allowed, contextVars, lineages>>
        \/ \E t \in accepted :
             /\ ~AuditManual(t)
             /\ Activate({t})
             /\ UNCHANGED records
    /\ UNCHANGED serverVars

\* inject_tool_context: promote, then add_allowed_tool, which turns "no
\* whitelist" into a whitelist.
InjectContext(S) ==
    /\ S # {}
    /\ tier' = Promoted(S)
    /\ limited' = (limited \/ S \cap vault # {})
    /\ allowed' = allowed \cup (S \cap vault)
    /\ UNCHANGED <<age, essential, rejected, lineages, serverVars, records>>

\* call_tool, after the client's answer: the usage is recorded.
UseTool(t) ==
    /\ age' = UsedNow({t})
    /\ UNCHANGED <<tier, essential, limited, allowed, rejected, lineages, serverVars, records>>

\* MCPServer._handle_call_tool: a tool without a route is an error result.
Routed(t) == route[t] # "none"
-----------------------------------------------------------------------------
(* The server: providers and routes.                                       *)

\* unregister_provider: the routes of its tools go with it, whoever they
\* point to.
Unregister(p) ==
    /\ p \in providers
    /\ providers' = providers \ {p}
    /\ route' = [t \in Tools |-> IF t \in ToolsOf(p) THEN "none" ELSE route[t]]
    /\ UNCHANGED <<vault, limited, allowed, contextVars, rejected, lineages, records>>

\* add_tools_from_provider of the vault.
VaultAdds(p) == vault' = vault \cup ToolsOf(p)

\* register_provider: the last provider to offer a tool gets its route; the
\* vault takes over the definitions.
Register(p) ==
    /\ providers' = providers \cup {p}
    /\ route' = [t \in Tools |-> IF t \in ToolsOf(p) THEN p ELSE route[t]]
    /\ VaultAdds(p)
    /\ UNCHANGED <<limited, allowed, contextVars, rejected, lineages, records>>
-----------------------------------------------------------------------------
\* connect_mcp and attach_vault, before the agent is initialised: the shared
\* provider is registered.
AccessInit ==
    /\ limited \in BOOLEAN
    /\ allowed = IF limited THEN Initial ELSE {}
    /\ vault = SharedTools /\ providers = {"shared"}
    /\ route = [t \in Tools |-> IF t \in SharedTools THEN "shared" ELSE "none"]
    /\ ContextInit
    /\ rejected = {}
    /\ lineages = {}
    /\ records = <<>>
=============================================================================
