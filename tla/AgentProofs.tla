----------------------------- MODULE AgentProofs -----------------------------
(***************************************************************************)
(* What TLAPS proves of one agent: of its loop and its tools (AgentLoop,   *)
(* ToolAccess) for any finite set of tools, any whitelist, permissions and *)
(* bounds, and of the breaker its LLM calls share (CircuitBreaker,         *)
(* LLMClient) for any number of callers and any thresholds, and of what a  *)
(* stream collects (LLMClient) for any deltas and any number of chunks.    *)
(* The agent's inductive invariant has one part per concern: Catalogue for *)
(* the vault, the providers and the routes; Whitelist for what may be      *)
(* called and what is shown; Approvals for answers under way; Answered for *)
(* the conversation.  Every step is first put into one of five classes by  *)
(* what it does to the whitelist and the tiers (Effect), which is all that *)
(* Whitelist and HotIsFresh depend on.                                     *)
(***************************************************************************)
EXTENDS AgentLoop, LLMClient, FiniteSetTheorems, FunctionTheorems, SequenceTheorems, TLAPS

-----------------------------------------------------------------------------
(* The loop and its tools *)

Providers == {"own", "shared"}
Tiers == {"HOT", "WARM", "COLD"}
Record == [tool : Tools, level : {"auto", "manual", "master"},
           decision : {"pending", "approved", "denied"}]
Message == [approved : BOOLEAN, tools : SUBSET Tools]

\* The route of a tool leads to a registered provider that offers it, and the
\* vault keeps what it knew when the context was built.
Catalogue ==
    /\ providers \subseteq Providers
    /\ route \in [Tools -> Providers \cup {"none"}]
    /\ \A t \in Tools : route[t] # "none" => route[t] \in providers /\ t \in ToolsOf(route[t])
    /\ vault \subseteq Tools /\ SharedTools \subseteq vault

\* Of a supervised agent: a whitelist exists, it holds every HOT tool, and a
\* tool on it that the vault had at first is never COLD.
Whitelist ==
    /\ tier \in [Tools -> Tiers]
    /\ limited \in BOOLEAN
    /\ Supervised => /\ limited
                     /\ Hot \subseteq allowed
                     /\ \A t \in allowed \cap SharedTools : tier[t] # "COLD"

\* An approval, decided or delivered, names tools that may be called.
Approvals ==
    /\ mailbox \in Seq(Message)
    /\ handling.approved \in BOOLEAN /\ handling.tools \in SUBSET Tools
    /\ ResponsesHonoured

\* A call is unanswered only while its tool is being executed.
Answered == conv = "open" => pc = "calling"

\* The records of an enlisted agent.
Recorded == enlisted => records \in Seq(Record)

IInv == Catalogue /\ Whitelist /\ HotIsFresh /\ Approvals /\ Answered /\ Recorded
-----------------------------------------------------------------------------
(* What a step does to the whitelist and the tiers.                        *)

Same == UNCHANGED <<limited, allowed, tier>>

\* Nothing, but for the time of the last use.
Quiet == Same /\ \A t \in Tools : age'[t] \in {age[t], 0}

\* One or more tools become active.
Activates == \E S \in SUBSET Tools : Activate(S)

\* Tools are injected from outside a run.
Injects == \E S \in SUBSET Tools : InjectContext(S) /\ pc = "off" /\ pc' = "off"

Effect ==
    /\ essential' = essential
    /\ enlisted' => enlisted
    /\ vault \subseteq vault'
    /\ \/ Quiet \/ Activates \/ Injects \/ AdvanceTurn
       \/ ~enlisted' /\ pc' = "off" /\ tier' = tier /\ limited' \in BOOLEAN
-----------------------------------------------------------------------------
\* What goes on between the steps of the others is quiet.
LEMMA QuietEffect ==
    ASSUME Quiet, UNCHANGED <<essential, enlisted>>, vault \subseteq vault'
    PROVE  Effect
  BY DEF Effect

\* A step that leaves the tool access alone is quiet.
LEMMA KeptAccess ==
    ASSUME UNCHANGED accessVars, UNCHANGED enlisted PROVE Effect
  BY QuietEffect DEF Quiet, Same, accessVars, contextVars, serverVars

\* The call of a tool is served, and the usage recorded.
LEMMA UseEffect ==
    ASSUME NEW t, UseTool(t), UNCHANGED enlisted PROVE Effect
  BY QuietEffect DEF UseTool, UsedNow, Quiet, Same, serverVars

\* search_new_tools: a search, a rejection or a load.
LEMMA MetaEffect ==
    ASSUME NEW parallel, CallMeta(parallel), UNCHANGED enlisted PROVE Effect
<1>1. CASE UNCHANGED accessVars
  BY <1>1, KeptAccess
<1>2. CASE Same /\ age' = age /\ UNCHANGED <<essential, vault>>
  BY <1>2, QuietEffect DEF Quiet
<1>3. CASE \E t \in Tools : LoadPassed(t)
  <2>1. PICK t \in Tools : LoadPassed(t)
    BY <1>3
  <2>2. Activate({t}) /\ UNCHANGED <<essential, vault>>
    BY <2>1 DEF LoadPassed, Activate, serverVars
  <2>3. Activates
    BY <2>2 DEF Activates
  <2> QED
    BY <2>2, <2>3 DEF Effect
<1>4. CASE \E t \in Tools : MetaReject(t) \/ LoadBlocked(t) \/ LoadManual(t)
  <2>1. PICK t \in Tools : MetaReject(t) \/ LoadBlocked(t) \/ LoadManual(t)
    BY <1>4
  <2> QED
    BY <2>1, <1>2 DEF MetaReject, LoadBlocked, LoadManual, Same, contextVars, serverVars
<1> QED
  BY <1>1, <1>3, <1>4 DEF CallMeta, MetaSearch, LoadUnknown, LoadReused

\* A tool call, whatever becomes of it.
LEMMA CallEffect == ASSUME ThinkCalls PROVE Effect
<1>1. UNCHANGED enlisted
  BY DEF ThinkCalls, Keep, masterVars
<1>2. PICK native \in BOOLEAN, parallel \in BOOLEAN :
        \/ CallBlocked(native) \/ CallRejected(native, parallel) \/ CallMeta(parallel)
        \/ \E t \in Named(native) : \/ CallDenied(t, parallel) \/ CallUnrouted(t, parallel)
                                    \/ CallDispatched(t, native, parallel)
  BY DEF ThinkCalls
<1>3. CASE CallMeta(parallel)
  BY <1>1, <1>3, MetaEffect
<1>4. CASE \E t \in Named(native) : CallUnrouted(t, parallel)
  BY <1>1, <1>4, UseEffect DEF CallUnrouted
<1>5. CASE \/ CallBlocked(native) \/ CallRejected(native, parallel)
           \/ \E t \in Named(native) : CallDenied(t, parallel) \/ CallDispatched(t, native, parallel)
  BY <1>1, <1>5, KeptAccess DEF CallBlocked, CallRejected, CallDenied, CallDispatched
<1> QED
  BY <1>2, <1>3, <1>4, <1>5

\* The agent's own steps.
LEMMA AgentEffect == ASSUME Catalogue, AgentStep PROVE Effect
<1>1. CASE Initialize
  BY <1>1, QuietEffect
     DEF Initialize, Register, VaultAdds, masterVars, Quiet, Same, contextVars
<1>2. CASE \/ StartRun \/ CheckPassed \/ StartTurn \/ OutOfBudget \/ Respond \/ Remind
           \/ ThinkRaises \/ Recover400 \/ ToolTimeout \/ ToolStored \/ Stop
  BY <1>2, KeptAccess DEF StartRun, CheckPassed, StartTurn, OutOfBudget, Respond, Remind,
     ThinkRaises, Recover400, ToolTimeout, ToolStored, Stop, KeepAll, Keep, masterVars
<1>3. CASE CheckFailed \/ AskReturns \/ DelegationReturns
  BY <1>3, KeptAccess DEF CheckFailed, AskReturns, DelegationReturns, Ask, masterVars
<1>4. CASE NextIteration
  BY <1>4 DEF NextIteration, Effect, AdvanceTurn, Keep, masterVars, serverVars
<1>5. CASE ThinkCalls
  BY <1>5, CallEffect
<1>6. CASE ToolReturns
  BY <1>6, UseEffect DEF ToolReturns, Keep, masterVars
<1> QED
  BY <1>1, <1>2, <1>3, <1>4, <1>5, <1>6 DEF AgentStep

\* A candidate of a search is a tool the vault knows.
LEMMA CandidatesKnown == ASSUME Catalogue PROVE Candidates \subseteq Tools
  BY DEF Candidates, ConeHits, VaultHits, Catalogue

\* A confirmed search activates one tool, or touches neither tiers nor
\* whitelist.
LEMMA SearchEffect ==
    ASSUME Catalogue, SearchAndConfirm, UNCHANGED enlisted PROVE Effect
<1>1. CASE Same /\ age' = age /\ UNCHANGED <<essential, vault>>
  BY <1>1, QuietEffect DEF Quiet
<1>2. CASE /\ \E t \in Candidates : Activate({t})
           /\ UNCHANGED vault
  <2>1. PICK t \in Candidates : Activate({t})
    BY <1>2
  <2>2. {t} \in SUBSET Tools
    BY <2>1, CandidatesKnown
  <2>3. Activates
    BY <2>1, <2>2 DEF Activates
  <2> QED
    BY <1>2, <2>1, <2>3 DEF Effect, Activate
<1> QED
  BY <1>1, <1>2 DEF SearchAndConfirm, RejectAll, Same, contextVars, serverVars

\* The listener's steps.
LEMMA MasterEffect == ASSUME Catalogue, MasterStep PROVE Effect
<1>1. CASE HandleRequest \/ RespondRequest
  BY <1>1, KeptAccess DEF HandleRequest, RespondRequest
<1>2. CASE DecideRequest
  <2>1. /\ UNCHANGED <<vault, enlisted>>
        /\ \/ \E S \in SUBSET vault : Activate(S)
           \/ UNCHANGED <<limited, allowed, contextVars>>
    BY <1>2 DEF DecideRequest, serverVars
  <2>2. CASE \E S \in SUBSET vault : Activate(S)
    <3>1. Activates
      BY <2>2 DEF Activates, Catalogue
    <3> QED
      BY <2>1, <2>2, <3>1 DEF Effect, Activate
  <2>3. CASE UNCHANGED <<limited, allowed, contextVars>>
    BY <2>1, <2>3, QuietEffect DEF Quiet, Same, contextVars
  <2> QED
    BY <2>1, <2>2, <2>3
<1> QED
  BY <1>1, <1>2 DEF MasterStep

\* What users, peers and the end of the task do.
LEMMA InterventionEffect == ASSUME Catalogue, Intervention PROVE Effect
<1>1. CASE Cancel \/ Handoff \/ PeerMessage \/ ListenerStops
  BY <1>1, KeptAccess
     DEF Cancel, Handoff, PeerMessage, ListenerStops, KeepAll, Keep, masterVars
<1>2. CASE DenyToolRequest
  BY <1>2, QuietEffect DEF DenyToolRequest, Quiet, Same, contextVars, serverVars
<1>3. CASE ResetForNewTask
  <2>1. /\ ~enlisted' /\ pc' = "off" /\ tier' = tier /\ limited' \in BOOLEAN
        /\ UNCHANGED <<essential, vault>>
    BY <1>3 DEF ResetForNewTask, ResetToolPermissions, contextVars, serverVars
  <2> QED
    BY <2>1 DEF Effect
<1>4. CASE \E t \in Tools : ApproveToolRequest(t)
  <2>1. PICK t \in Tools : ApproveToolRequest(t)
    BY <1>4
  <2>2. Activate({t}) /\ UNCHANGED <<vault, enlisted>>
    BY <2>1 DEF ApproveToolRequest, serverVars
  <2>3. Activates
    BY <2>2 DEF Activates
  <2> QED
    BY <2>2, <2>3 DEF Effect, Activate
<1>5. CASE Operate
  <2>1. UNCHANGED <<enlisted, pc>>
    BY <1>5 DEF Operate, masterVars
  <2>2. CASE SearchAndConfirm
    BY <2>1, <2>2, SearchEffect
  <2>3. CASE pc = "off" /\ \E t \in Tools : InjectContext({t})
    <3>1. PICK t \in Tools : InjectContext({t})
      BY <2>3
    <3>2. Injects /\ UNCHANGED <<essential, vault>>
      BY <2>1, <2>3, <3>1 DEF Injects, InjectContext, serverVars
    <3> QED
      BY <2>1, <3>2 DEF Effect
  <2>4. CASE \E p \in providers : Unregister(p)
    BY <2>1, <2>4, QuietEffect DEF Unregister, Quiet, Same, contextVars
  <2> QED
    BY <1>5, <2>2, <2>3, <2>4 DEF Operate
<1> QED
  BY <1>1, <1>2, <1>3, <1>4, <1>5 DEF Intervention

\* Every step is of one of the five classes.
LEMMA StepEffect == ASSUME Catalogue, [Next]_vars PROVE Effect
<1>1. CASE UNCHANGED vars
  BY <1>1, KeptAccess DEF vars, masterVars
<1> QED
  BY <1>1, AgentEffect, MasterEffect, InterventionEffect DEF Next
-----------------------------------------------------------------------------
(* The vault, the providers and the routes.                                *)

\* connect_mcp registers the shared provider; its tools are in the vault.
LEMMA InitCatalogue == ASSUME LoopInit PROVE Catalogue
  BY AccessAssumption DEF LoopInit, AccessInit, Catalogue, Providers, ToolsOf

\* Providers come and go.
LEMMA RegisterCatalogue == ASSUME Catalogue, Register("own") PROVE Catalogue'
  BY AccessAssumption DEF Register, VaultAdds, Catalogue, Providers, ToolsOf

\* A provider that goes takes the routes of its tools along.
LEMMA UnregisterCatalogue ==
    ASSUME Catalogue, NEW p \in providers, Unregister(p) PROVE Catalogue'
  BY DEF Unregister, Catalogue, Providers

\* No other step concerns the server.
LEMMA NextCatalogue == ASSUME Catalogue, [Next]_vars PROVE Catalogue'
<1>1. CASE UNCHANGED serverVars
  BY <1>1 DEF Catalogue, serverVars
<1>2. CASE Initialize
  BY <1>2, RegisterCatalogue DEF Initialize
<1>3. CASE \E p \in providers : Unregister(p)
  BY <1>3, UnregisterCatalogue
<1>4. ASSUME AgentStep PROVE Initialize \/ UNCHANGED serverVars
  <2>1. CASE ThinkCalls
    BY <2>1 DEF ThinkCalls, CallBlocked, CallRejected, CallMeta, CallDenied, CallUnrouted,
       CallDispatched, UseTool, MetaSearch, LoadUnknown, MetaReject, LoadReused, LoadBlocked,
       LoadManual, LoadPassed, accessVars
  <2>2. CASE \/ StartRun \/ CheckPassed \/ StartTurn \/ OutOfBudget \/ Respond \/ Remind
             \/ ThinkRaises \/ Recover400 \/ ToolTimeout \/ ToolStored \/ Stop
    BY <2>2 DEF StartRun, CheckPassed, StartTurn, OutOfBudget, Respond, Remind,
       ThinkRaises, Recover400, ToolTimeout, ToolStored, Stop, KeepAll, accessVars
  <2>3. CASE CheckFailed \/ AskReturns \/ DelegationReturns \/ NextIteration \/ ToolReturns
    BY <2>3 DEF CheckFailed, AskReturns, DelegationReturns, NextIteration, AdvanceTurn,
       ToolReturns, UseTool, accessVars
  <2> QED
    BY <1>4, <2>1, <2>2, <2>3 DEF AgentStep
<1>5. ASSUME MasterStep PROVE UNCHANGED serverVars
  BY <1>5 DEF MasterStep, HandleRequest, DecideRequest, RespondRequest, accessVars
<1>6. ASSUME Intervention PROVE UNCHANGED serverVars \/ \E p \in providers : Unregister(p)
  BY <1>6 DEF Intervention, Cancel, Handoff, PeerMessage, ListenerStops, DenyToolRequest,
     Operate, ResetForNewTask, ApproveToolRequest, SearchAndConfirm, InjectContext, KeepAll,
     accessVars
<1> QED
  BY <1>1, <1>2, <1>3, <1>4, <1>5, <1>6 DEF Next, vars, accessVars
-----------------------------------------------------------------------------
(* The whitelist and the tiers.                                            *)

\* A promotion makes the known ones HOT, leaves the others or recycles them.
LEMMA PromotedTiers ==
    ASSUME NEW S, tier \in [Tools -> Tiers]
    PROVE  /\ Promoted(S) \in [Tools -> Tiers]
           /\ \A t \in Tools : t \in S \cap vault => Promoted(S)[t] = "HOT"
           /\ \A t \in Tools : Promoted(S)[t] = "HOT" => t \in S \cap vault \/ tier[t] = "HOT"
           /\ \A t \in Tools : Promoted(S)[t] = "COLD" => tier[t] = "COLD"
  BY DEF Promoted, Recycled, Tiers

\* The whitelisted tools of the vault are HOT at first, nothing else is.
LEMMA InitWhitelist == ASSUME LoopInit PROVE Whitelist
<1>1. /\ limited \in BOOLEAN /\ allowed = IF limited THEN Initial ELSE {}
      /\ vault = SharedTools /\ essential = IF limited THEN Initial ELSE {}
      /\ tier = [t \in Tools |-> IF t \in vault /\ (limited => t \in Initial) THEN "HOT" ELSE "COLD"]
  BY DEF LoopInit, AccessInit, ContextInit, EssentialNames
<1>2. tier \in [Tools -> Tiers]
  BY <1>1 DEF Tiers
<1>3. ASSUME Supervised PROVE limited
  BY <1>1, <1>3 DEF Supervised
<1>4. ASSUME Supervised PROVE Hot \subseteq allowed
  BY <1>1, <1>3, <1>4 DEF Hot
<1>5. ASSUME Supervised, NEW t \in allowed \cap SharedTools PROVE tier[t] # "COLD"
  BY <1>1, <1>3, <1>5, AccessAssumption
<1> QED
  BY <1>1, <1>2, <1>3, <1>4, <1>5 DEF Whitelist

\* More tools are promoted and enter the whitelist.
LEMMA GrowWhitelist ==
    ASSUME Catalogue, Whitelist, NEW S \in SUBSET Tools, tier' = Promoted(S), limited => limited',
           limited' \in BOOLEAN, limited => allowed' = allowed \cup (S \cap vault) \/ allowed' = allowed \cup S,
           essential' = essential, enlisted' => enlisted
    PROVE  Whitelist'
<1>1. /\ tier' \in [Tools -> Tiers]
      /\ \A t \in Tools : t \in S \cap vault => tier'[t] = "HOT"
      /\ \A t \in Tools : tier'[t] = "HOT" => t \in S \cap vault \/ tier[t] = "HOT"
      /\ \A t \in Tools : tier'[t] = "COLD" => tier[t] = "COLD"
  BY PromotedTiers DEF Whitelist
<1>2. ASSUME Supervised' PROVE Supervised /\ limited
  BY <1>2 DEF Supervised, Whitelist
<1>3. ASSUME Supervised' PROVE Hot' \subseteq allowed'
  BY <1>1, <1>2, <1>3 DEF Hot, Whitelist
<1>4. ASSUME Supervised', NEW t \in allowed' \cap SharedTools PROVE tier'[t] # "COLD"
  BY <1>1, <1>2, <1>4, AccessAssumption DEF Whitelist, Catalogue
<1> QED
  BY <1>1, <1>2, <1>3, <1>4 DEF Whitelist

\* Each class of steps keeps the whitelist and the tiers together.
LEMMA NextWhitelist == ASSUME Catalogue, Whitelist, Effect PROVE Whitelist'
<1>1. CASE Quiet
  BY <1>1 DEF Effect, Quiet, Same, Whitelist, Supervised, Hot
<1>2. CASE Activates
  <2>1. PICK S \in SUBSET Tools : Activate(S)
    BY <1>2 DEF Activates
  <2> QED
    BY <2>1, GrowWhitelist DEF Activate, LoadTool, Effect, Whitelist
<1>3. CASE Injects
  <2>1. PICK S \in SUBSET Tools : InjectContext(S)
    BY <1>3 DEF Injects
  <2> QED
    BY <2>1, GrowWhitelist DEF InjectContext, Effect, Whitelist
<1>4. CASE AdvanceTurn
  <2>1. /\ tier' \in [Tools -> Tiers]
        /\ \A t \in Tools : tier'[t] = tier[t] \/ (tier[t] = "HOT" /\ tier'[t] = "WARM")
    BY <1>4 DEF AdvanceTurn, Whitelist, Hot, Tiers
  <2>2. UNCHANGED <<limited, allowed, essential>> /\ (enlisted' => enlisted)
    BY <1>4 DEF Effect, AdvanceTurn
  <2>3. Hot' \subseteq Hot
    BY <2>1 DEF Hot
  <2> QED
    BY <2>1, <2>2, <2>3, AccessAssumption DEF Whitelist, Supervised
<1>5. CASE ~enlisted' /\ pc' = "off" /\ tier' = tier /\ limited' \in BOOLEAN
  BY <1>5 DEF Whitelist, Supervised
<1> QED
  BY <1>1, <1>2, <1>3, <1>4, <1>5 DEF Effect
-----------------------------------------------------------------------------
(* Recycling.                                                              *)

AtLLM == {"thinking", "retrying"}

\* The LLM is asked at the start of an iteration, or once more in it.
LEMMA EnterLLM ==
    ASSUME [Next]_vars, pc' \in AtLLM PROVE AdvanceTurn \/ pc \in AtLLM
<1>1. CASE AgentStep
  <2>1. CASE ThinkCalls
    BY <2>1 DEF ThinkCalls, AwaitsLLM, AtLLM
  <2>2. CASE NextIteration
    BY <2>2 DEF NextIteration
  <2>3. CASE \/ Initialize \/ StartRun \/ CheckPassed \/ CheckFailed \/ AskReturns \/ StartTurn
             \/ OutOfBudget \/ Respond \/ Remind \/ ThinkRaises \/ Recover400 \/ ToolReturns
             \/ ToolTimeout \/ ToolStored \/ Stop \/ DelegationReturns
    BY <2>3 DEF Initialize, StartRun, CheckPassed, CheckFailed, AskReturns, StartTurn,
       OutOfBudget, Respond, Remind, ThinkRaises, Recover400, ToolReturns, ToolTimeout,
       ToolStored, Stop, DelegationReturns, BeginLoop, Ask, Finish, Reflect, AwaitsLLM, AtLLM
  <2> QED
    BY <1>1, <2>1, <2>2, <2>3 DEF AgentStep
<1>2. CASE MasterStep
  BY <1>2 DEF MasterStep, HandleRequest, DecideRequest, RespondRequest
<1>3. CASE Intervention
  BY <1>3 DEF Intervention, Cancel, Handoff, PeerMessage, ListenerStops, DenyToolRequest,
     Operate, ResetForNewTask, ApproveToolRequest, AtLLM
<1> QED
  BY <1>1, <1>2, <1>3 DEF Next, vars

\* A turn leaves no idle tool HOT.
LEMMA AdvanceFresh ==
    ASSUME AdvanceTurn, tier \in [Tools -> Tiers] PROVE Idle(RecycleAfter)' = {}
<1> SUFFICES ASSUME NEW t \in Tools, tier'[t] = "HOT", t \notin essential', age'[t] >= RecycleAfter
             PROVE  FALSE
  BY DEF Idle, Hot
<1> QED
  BY DEF AdvanceTurn, Hot

\* What is activated has just been used.
LEMMA ActivateFresh ==
    ASSUME NEW S \in SUBSET Tools, Activate(S), tier \in [Tools -> Tiers]
    PROVE  Idle(RecycleAfter)' \subseteq Idle(RecycleAfter)
<1> SUFFICES ASSUME NEW t \in Tools, tier'[t] = "HOT", t \notin essential', age'[t] >= RecycleAfter
             PROVE  t \in Idle(RecycleAfter)
  BY DEF Idle, Hot
<1>1. tier' = Promoted(S) /\ age' = UsedNow(S) /\ essential' = essential
  BY DEF Activate, LoadTool
<1>2. t \in S \cap vault \/ tier[t] = "HOT"
  BY <1>1, PromotedTiers
<1>3. age'[t] = IF t \in S \cap vault THEN 0 ELSE age[t]
  BY <1>1 DEF UsedNow
<1>4. t \notin S \cap vault
  BY <1>3, AccessAssumption
<1> QED
  BY <1>1, <1>2, <1>3, <1>4 DEF Idle, Hot

\* A step that ends at the LLM leaves no idle tool HOT.
LEMMA NextFresh ==
    ASSUME Whitelist, HotIsFresh, Effect, [Next]_vars PROVE HotIsFresh'
<1> SUFFICES ASSUME pc' \in AtLLM PROVE Idle(RecycleAfter)' = {}
  BY DEF HotIsFresh, AtLLM
<1>1. tier \in [Tools -> Tiers]
  BY DEF Whitelist
<1>2. CASE AdvanceTurn
  BY <1>1, <1>2, AdvanceFresh
<1>3. CASE ~AdvanceTurn
  <2>1. Idle(RecycleAfter) = {}
    BY <1>3, EnterLLM DEF HotIsFresh, AtLLM
  <2>2. CASE Quiet
    BY <2>1, <2>2, AccessAssumption DEF Quiet, Same, Effect, Idle, Hot
  <2>3. CASE Activates
    BY <1>1, <2>1, <2>3, ActivateFresh DEF Activates
  <2> QED
    BY <1>3, <2>2, <2>3 DEF Effect, Injects, AtLLM
<1> QED
  BY <1>2, <1>3
-----------------------------------------------------------------------------
(* Approvals under way.                                                    *)

\* While the agent is supervised its whitelist only grows.
LEMMA WhitelistGrows ==
    ASSUME Whitelist, Effect, Supervised' PROVE Supervised /\ allowed \subseteq allowed'
<1>1. Supervised /\ limited
  BY DEF Effect, Supervised, Whitelist
<1> QED
  BY <1>1 DEF Effect, Quiet, Same, Activates, Activate, Injects, InjectContext, AdvanceTurn,
     Supervised

\* What a step does to the answers: nothing, the first one is taken, a
\* status message comes, the listener starts or gives up, decides, responds.
LEMMA MailSteps ==
    ASSUME [Next]_vars
    PROVE  \/ handling' = handling /\ mailbox' = mailbox
           \/ handling' = handling /\ mailbox # <<>> /\ mailbox' = Tail(mailbox)
           \/ PeerMessage
           \/ mailbox' = mailbox /\ handling'.approved = FALSE /\ handling'.tools = {}
           \/ DecideRequest
           \/ RespondRequest
<1>1. CASE AgentStep
  <2>1. CASE \/ Initialize \/ StartRun \/ CheckPassed \/ StartTurn \/ NextIteration
             \/ OutOfBudget \/ Respond \/ Remind \/ ThinkRaises \/ Recover400 \/ ThinkCalls
             \/ ToolReturns \/ ToolTimeout \/ ToolStored \/ Stop
    BY <2>1 DEF Initialize, StartRun, CheckPassed, StartTurn, NextIteration, OutOfBudget,
       Respond, Remind, ThinkRaises, Recover400, ThinkCalls, ToolReturns, ToolTimeout,
       ToolStored, Stop, KeepAll, Keep, masterVars
  <2>2. CASE CheckFailed \/ AskReturns \/ DelegationReturns
    BY <2>2 DEF CheckFailed, AskReturns, DelegationReturns, Ask, masterVars
  <2> QED
    BY <1>1, <2>1, <2>2 DEF AgentStep
<1>2. CASE MasterStep
  BY <1>2 DEF MasterStep, HandleRequest, NoRequest
<1>3. CASE Intervention
  <2>1. CASE ListenerStops \/ ResetForNewTask
    BY <2>1 DEF ListenerStops, ResetForNewTask, NoRequest
  <2>2. CASE Cancel \/ Handoff \/ DenyToolRequest \/ Operate
             \/ \E t \in Tools : ApproveToolRequest(t)
    BY <2>2 DEF Cancel, Handoff, DenyToolRequest, Operate, ApproveToolRequest, KeepAll, Keep,
       masterVars
  <2> QED
    BY <1>3, <2>1, <2>2 DEF Intervention
<1> QED
  BY <1>1, <1>2, <1>3 DEF Next, vars, masterVars

\* No answer is under way at first.
LEMMA InitApprovals == ASSUME LoopInit PROVE Approvals
  BY DEF LoopInit, NoRequest, Approvals, ResponsesHonoured

\* An answer is added to the mailbox.
LEMMA Delivered ==
    ASSUME Approvals, NEW m \in Message, mailbox' = Append(mailbox, m),
           Supervised' => Supervised /\ allowed \subseteq allowed',
           m.approved /\ Supervised => m.tools \subseteq allowed
    PROVE  /\ mailbox' \in Seq(Message)
           /\ Supervised' => \A i \in DOMAIN mailbox' :
                                mailbox'[i].approved => mailbox'[i].tools \subseteq allowed'
<1>1. mailbox \in Seq(Message)
  BY DEF Approvals
<1>2. /\ mailbox' \in Seq(Message) /\ DOMAIN mailbox' = 1..(Len(mailbox) + 1)
      /\ \A i \in DOMAIN mailbox' : mailbox'[i] = IF i = Len(mailbox) + 1 THEN m ELSE mailbox[i]
      /\ DOMAIN mailbox = 1..Len(mailbox) /\ Len(mailbox) \in Nat
  BY <1>1
<1>3. ASSUME Supervised', NEW i \in DOMAIN mailbox', mailbox'[i].approved
      PROVE  mailbox'[i].tools \subseteq allowed
  <2>1. CASE i = Len(mailbox) + 1
    BY <1>2, <1>3, <2>1
  <2>2. CASE i \in DOMAIN mailbox /\ mailbox'[i] = mailbox[i]
    BY <1>3, <2>2 DEF Approvals, ResponsesHonoured
  <2> QED
    BY <1>2, <2>1, <2>2
<1> QED
  BY <1>2, <1>3

\* Decided, delivered or taken, an approval names callable tools.
LEMMA NextApprovals ==
    ASSUME Catalogue, Whitelist, Effect, Approvals, [Next]_vars PROVE Approvals'
<1>0. Supervised' => Supervised /\ allowed \subseteq allowed'
  BY WhitelistGrows
<1>1. CASE handling' = handling /\ mailbox' = mailbox
  BY <1>0, <1>1 DEF Approvals, ResponsesHonoured
<1>2. CASE handling' = handling /\ mailbox # <<>> /\ mailbox' = Tail(mailbox)
  <2>1. /\ mailbox' \in Seq(Message)
        /\ \A i \in DOMAIN mailbox' : i + 1 \in DOMAIN mailbox /\ mailbox'[i] = mailbox[i + 1]
    BY <1>2 DEF Approvals
  <2> QED
    BY <1>0, <1>2, <2>1 DEF Approvals, ResponsesHonoured
<1>3. CASE PeerMessage
  <2> DEFINE m == [approved |-> FALSE, tools |-> {}]
  <2>1. m \in Message /\ m.approved = FALSE
    BY DEF Message
  <2>2. mailbox' = Append(mailbox, m) /\ handling' = handling
    BY <1>3 DEF PeerMessage, masterVars
  <2> QED
    BY <1>0, <2>1, <2>2, Delivered DEF Approvals, ResponsesHonoured
<1>4. CASE mailbox' = mailbox /\ handling'.approved = FALSE /\ handling'.tools = {}
  BY <1>0, <1>4 DEF Approvals, ResponsesHonoured
<1>5. CASE DecideRequest
  <2>1. PICK S \in SUBSET vault, manual \in BOOLEAN :
          /\ handling' = [at |-> "responding", manual |-> manual, tools |-> S,
                          approved |-> S # {} /\ ~manual]
          /\ S # {} /\ ~manual => Activate(S)
    BY <1>5 DEF DecideRequest
  <2>2. mailbox' = mailbox
    BY <1>5 DEF DecideRequest
  <2>3. handling'.approved \in BOOLEAN /\ handling'.tools = S
    BY <2>1
  <2>4. ASSUME Supervised', handling'.approved PROVE S \subseteq allowed'
    <3>1. handling'.approved = (S # {} /\ ~manual)
      BY <2>1
    <3>2. S # {} /\ ~manual
      BY <2>4, <3>1
    <3>3. Activate(S) /\ limited
      BY <1>0, <2>1, <2>4, <3>2 DEF Whitelist
    <3> QED
      BY <3>3 DEF Activate
  <2> QED
    BY <1>0, <2>2, <2>3, <2>4 DEF Approvals, ResponsesHonoured, Catalogue
<1>6. CASE RespondRequest
  <2> DEFINE m == [approved |-> handling.approved, tools |-> handling.tools]
  <2>1. m \in Message
    BY DEF Message, Approvals
  <2>2. mailbox' = Append(mailbox, m)
    BY <1>6 DEF RespondRequest
  <2>3. handling'.approved = FALSE /\ handling'.tools = {}
    BY <1>6 DEF RespondRequest, NoRequest
  <2>4. m.approved /\ Supervised => m.tools \subseteq allowed
    BY DEF Approvals, ResponsesHonoured
  <2> HIDE DEF m
  <2> QED
    BY <1>0, <2>1, <2>2, <2>3, <2>4, Delivered DEF Approvals, ResponsesHonoured
<1> QED
  BY <1>1, <1>2, <1>3, <1>4, <1>5, <1>6, MailSteps
-----------------------------------------------------------------------------
(* The conversation.                                                       *)

\* The conversation starts without calls.
LEMMA InitAnswered == ASSUME LoopInit PROVE Answered
  BY DEF LoopInit, Answered

\* A tool call is answered, left for good, or in execution.
LEMMA CallAnswered == ASSUME Answered, ThinkCalls PROVE Answered'
<1>1. conv # "open"
  BY DEF ThinkCalls, AwaitsLLM, Answered
<1>2. PICK native \in BOOLEAN, parallel \in BOOLEAN :
        \/ CallBlocked(native) \/ CallRejected(native, parallel) \/ CallMeta(parallel)
        \/ \E t \in Named(native) : \/ CallDenied(t, parallel) \/ CallUnrouted(t, parallel)
                                    \/ CallDispatched(t, native, parallel)
  BY DEF ThinkCalls
<1>3. CASE \E t \in Named(native) : CallDispatched(t, native, parallel)
  BY <1>3 DEF CallDispatched, Answered
<1>4. CASE \/ CallBlocked(native) \/ CallRejected(native, parallel) \/ CallMeta(parallel)
           \/ \E t \in Named(native) : CallDenied(t, parallel) \/ CallUnrouted(t, parallel)
  BY <1>1, <1>4 DEF CallBlocked, CallRejected, CallMeta, CallDenied, CallUnrouted, AnswerNow,
     AppendAnswered, Answered
<1> QED
  BY <1>2, <1>3, <1>4

\* A call stays unanswered only while its tool is executed.
LEMMA NextAnswered == ASSUME Answered, [Next]_vars PROVE Answered'
<1>1. CASE AgentStep
  <2>1. CASE ThinkCalls
    BY <2>1, CallAnswered
  <2>2. CASE \/ Initialize \/ StartRun \/ CheckPassed \/ CheckFailed \/ AskReturns \/ StartTurn
             \/ NextIteration \/ OutOfBudget \/ Respond \/ Remind \/ ThinkRaises \/ Recover400
             \/ ToolReturns \/ ToolTimeout \/ ToolStored \/ Stop \/ DelegationReturns
    BY <2>2 DEF Initialize, StartRun, CheckPassed, CheckFailed, AskReturns, StartTurn,
       NextIteration, OutOfBudget, Respond, Remind, ThinkRaises, Recover400, ToolReturns,
       ToolTimeout, ToolStored, Stop, DelegationReturns, BeginLoop, Ask, Answer, AwaitsLLM,
       Answered
  <2> QED
    BY <1>1, <2>1, <2>2 DEF AgentStep
<1>2. CASE MasterStep
  BY <1>2 DEF MasterStep, HandleRequest, DecideRequest, RespondRequest, Answered
<1>3. CASE Intervention
  BY <1>3 DEF Intervention, Cancel, Handoff, PeerMessage, ListenerStops, DenyToolRequest,
     Operate, ResetForNewTask, ApproveToolRequest, Answered
<1> QED
  BY <1>1, <1>2, <1>3 DEF Next, vars, Answered
-----------------------------------------------------------------------------
(* The approval records.                                                   *)

Final == \A i \in DOMAIN records : records[i].decision # "pending" => records'[i] = records[i]

\* submit_request makes a record.
LEMMA SubmittedRecord ==
    ASSUME NEW t \in Tools, NEW critical PROVE Submitted(t, Evaluate(t, critical)) \in Record
  BY DEF Submitted, Evaluate, Record

\* The elements of a finite set in some order.
LEMMA OrderOfSet ==
    ASSUME NEW S \in SUBSET Tools
    PROVE  Cardinality(S) \in Nat /\ OrderOf(S) \in [1..Cardinality(S) -> S]
<1>1. IsFiniteSet(S)
  BY AccessAssumption, FS_Subset
<1>2. Cardinality(S) \in Nat /\ ExistsBijection(1..Cardinality(S), S)
  BY <1>1, FS_CardinalityType
<1>3. PICK f \in [1..Cardinality(S) -> S] : \A x \in S : \E i \in 1..Cardinality(S) : f[i] = x
  BY <1>2 DEF ExistsBijection, Bijection, Surjection
<1>4. {f[i] : i \in DOMAIN f} = S
  BY <1>3
<1> QED
  BY <1>2, <1>3, <1>4 DEF OrderOf

\* A list is a function on an initial segment.
LEMMA FunctionIsSeq ==
    ASSUME NEW R, NEW n \in Nat, NEW f \in [1..n -> R] PROVE f \in Seq(R)
  OBVIOUS

\* A list of records.
LEMMA RecordsSeq ==
    ASSUME NEW S \in SUBSET Tools, NEW d \in {"pending", "approved"}
    PROVE  Records(S, d) \in Seq(Record)
<1>1. /\ Cardinality(S) \in Nat
      /\ \A i \in 1..Cardinality(S) : OrderOf(S)[i] \in Tools
  BY OrderOfSet
<1>2. \A t \in Tools : [tool |-> t, level |-> Evaluate(t, FALSE), decision |-> d] \in Record
  BY DEF Evaluate, Record
<1>3. Records(S, d) \in [1..Cardinality(S) -> Record]
  BY <1>1, <1>2 DEF Records
<1> HIDE DEF Record
<1> QED
  BY <1>1, <1>3, FunctionIsSeq

\* New records follow the old ones.
LEMMA MoreRecords ==
    ASSUME records \in Seq(Record), NEW s \in Seq(Record), records' = records \o s
    PROVE  records' \in Seq(Record) /\ Final
  BY DEF Final

\* One more record follows the old ones.
LEMMA OneMoreRecord ==
    ASSUME records \in Seq(Record), NEW r \in Record, records' = Append(records, r)
    PROVE  records' \in Seq(Record) /\ Final
  BY DEF Final

\* Of the records that wait all are decided, the others are kept.
LEMMA AllDecided ==
    ASSUME records \in Seq(Record), NEW d \in {"approved", "denied"},
           records' = [i \in DOMAIN records |-> Decided(d, i)]
    PROVE  records' \in Seq(Record) /\ Final
<1>1. DOMAIN records = 1..Len(records) /\ Len(records) \in Nat
  OBVIOUS
<1>2. \A r \in Record : [r EXCEPT !.decision = d] \in Record
  BY DEF Record
<1>3. \A i \in DOMAIN records : records[i] \in Record
  BY <1>1
<1>4. \A i \in DOMAIN records : Decided(d, i) \in Record
  BY <1>2, <1>3 DEF Decided
<1>5. records' \in Seq(Record)
  BY <1>1, <1>4
<1>6. Final
  BY <1>1, <1>3 DEF Final, Decided
<1> QED
  BY <1>5, <1>6

\* Every step that leaves the agent enlisted keeps the decisions.
LEMMA NextRecorded ==
    ASSUME Catalogue, Recorded, [Next]_vars, enlisted'
    PROVE  records' \in Seq(Record) /\ Final
<1>0. enlisted /\ records \in Seq(Record)
  BY StepEffect DEF Effect, Recorded
<1>1. CASE records' = records
  BY <1>0, <1>1 DEF Final
<1>2. CASE \E t \in Tools : LoadManual(t)
  BY <1>0, <1>2, OneMoreRecord, SubmittedRecord DEF LoadManual
<1>3. CASE SearchAndConfirm
  <2>1. records' = records \/ \E t \in Tools : records' = Append(records, Submitted(t, Evaluate(t, TRUE)))
    BY <1>3, CandidatesKnown DEF SearchAndConfirm, RejectAll
  <2> QED
    BY <1>0, <1>1, <2>1, OneMoreRecord, SubmittedRecord
<1>4. CASE DecideRequest
  <2>1. \E S \in SUBSET Tools, d \in {"pending", "approved"} : records' = records \o Records(S, d)
    BY <1>4 DEF DecideRequest, SensitiveMatches, Catalogue
  <2> QED
    BY <1>0, <2>1, MoreRecords, RecordsSeq
<1>5. CASE DenyToolRequest \/ \E t \in Tools : ApproveToolRequest(t)
  BY <1>0, <1>5, AllDecided DEF DenyToolRequest, ApproveToolRequest
<1>6. CASE AgentStep
  <2>1. CASE ThinkCalls
    BY <1>1, <1>2, <2>1 DEF ThinkCalls, CallBlocked, CallRejected, CallMeta, CallDenied,
       CallUnrouted, CallDispatched, UseTool, MetaSearch, LoadUnknown, MetaReject, LoadReused,
       LoadBlocked, LoadPassed, accessVars
  <2>2. CASE \/ Initialize \/ StartRun \/ CheckPassed \/ StartTurn \/ OutOfBudget \/ Respond
             \/ Remind \/ ThinkRaises \/ Recover400 \/ ToolTimeout \/ ToolStored \/ Stop
    BY <1>1, <2>2 DEF Initialize, Register, StartRun, CheckPassed, StartTurn, OutOfBudget,
       Respond, Remind, ThinkRaises, Recover400, ToolTimeout, ToolStored, Stop, KeepAll,
       accessVars
  <2>3. CASE CheckFailed \/ AskReturns \/ DelegationReturns \/ NextIteration \/ ToolReturns
    BY <1>1, <2>3 DEF CheckFailed, AskReturns, DelegationReturns, NextIteration, AdvanceTurn,
       ToolReturns, UseTool, accessVars
  <2> QED
    BY <1>6, <2>1, <2>2, <2>3 DEF AgentStep
<1>7. CASE HandleRequest \/ RespondRequest
  BY <1>1, <1>7 DEF HandleRequest, RespondRequest, accessVars
<1>8. CASE Cancel \/ Handoff \/ PeerMessage \/ ListenerStops
  BY <1>1, <1>8 DEF Cancel, Handoff, PeerMessage, ListenerStops, KeepAll, accessVars
<1>9. CASE Operate
  BY <1>1, <1>3, <1>9 DEF Operate, InjectContext, Unregister
<1> QED
  BY <1>1, <1>4, <1>5, <1>6, <1>7, <1>8, <1>9
     DEF Next, MasterStep, Intervention, ResetForNewTask, vars, accessVars
-----------------------------------------------------------------------------
(* The theorems.                                                           *)

\* The agent starts in the invariant.
LEMMA InitIInv == LoopInit => IInv
<1> SUFFICES ASSUME LoopInit PROVE IInv
  OBVIOUS
<1>1. HotIsFresh
  BY DEF LoopInit, HotIsFresh
<1>2. Recorded
  BY DEF LoopInit, AccessInit, Recorded
<1> QED
  BY <1>1, <1>2, InitCatalogue, InitWhitelist, InitApprovals, InitAnswered DEF IInv

\* Every step keeps it.
LEMMA NextIInv == IInv /\ [Next]_vars => IInv'
<1> SUFFICES ASSUME IInv, [Next]_vars PROVE IInv'
  OBVIOUS
<1>1. Catalogue /\ Whitelist /\ HotIsFresh /\ Approvals /\ Answered /\ Recorded
  BY DEF IInv
<1>2. Effect
  BY <1>1, StepEffect
<1>3. Recorded'
  BY <1>1, NextRecorded DEF Recorded
<1> QED
  BY <1>1, <1>2, <1>3, NextCatalogue, NextWhitelist, NextFresh, NextApprovals, NextAnswered
     DEF IInv

\* The invariant says what AccessSound does.
LEMMA IInvAccess == IInv => AccessSound
<1> SUFFICES ASSUME IInv PROVE AccessSound
  OBVIOUS
<1>1. Catalogue /\ Whitelist
  BY DEF IInv
<1>2. HotIsAllowed
  BY <1>1 DEF Whitelist, HotIsAllowed, ContextSchemas, Offered, CheckPermission, Hot
<1>3. ASSUME Supervised, NEW t \in allowed \cap SharedTools PROVE t \in Offered \cup WarmListed
  <2>1. t \in Tools /\ t \in vault /\ tier[t] \in {"HOT", "WARM"}
    BY <1>1, <1>3, AccessAssumption DEF Catalogue, Whitelist, Tiers
  <2> QED
    BY <2>1, <1>3 DEF Offered, WarmListed, ContextSchemas, WarmContext, Hot, Warm, CheckPermission
<1>4. AllowedIsShown
  BY <1>3 DEF AllowedIsShown
<1>5. RoutesLead
  BY <1>1 DEF Catalogue, RoutesLead
<1> QED
  BY <1>2, <1>4, <1>5 DEF IInv, Approvals, AccessSound

\* Tool access of one agent, in any interleaving of its loop with the listener,
\* the user and the end of the task: what is HOT may be called and what may be
\* called is shown, idle tools are recycled before the LLM is asked, routes lead
\* to providers, and an approval, late or not, names callable tools
\* (mcp/bridge.py, context.py, server.py, coordinator/tool_approval.py).
THEOREM AccessHolds == Spec => []AccessSound
<1>1. LoopInit => IInv
  BY InitIInv
<1>2. IInv /\ [Next]_vars => IInv'
  BY NextIInv
<1>3. IInv => AccessSound
  BY IInvAccess
<1> QED
  BY <1>1, <1>2, <1>3, PTL DEF Spec

\* No executed tool call is without its tool message when the loop goes on
\* (core/agent.py _act, tool_executor.py).
THEOREM ConversationHolds == Spec => []ConversationSound
<1>1. LoopInit => Answered
  BY InitAnswered
<1>2. Answered /\ [Next]_vars => Answered'
  BY NextAnswered
<1>3. Answered => ConversationSound
  BY DEF Answered, ConversationSound
<1> QED
  BY <1>1, <1>2, <1>3, PTL DEF Spec

\* A decided approval record keeps its decision (mcp/approval.py).
THEOREM DecisionsHold == Spec => DecisionsFinal
<1>1. LoopInit => IInv
  BY InitIInv
<1>2. IInv /\ [Next]_vars => IInv'
  BY NextIInv
<1>3. IInv /\ [Next]_vars =>
        [enlisted' => \A i \in DOMAIN records :
            records[i].decision # "pending" => records'[i] = records[i]]_vars
  BY NextRecorded DEF IInv, Final
<1> QED
  BY <1>1, <1>2, <1>3, PTL DEF Spec, DecisionsFinal
-----------------------------------------------------------------------------
(* The breaker.  TypeOK is not inductive: BackoffOver adds an attempt, so  *)
(* the budget has to hold with one to spare during a backoff.              *)
(* ClosedMeansHealthy speaks of the true run of failures, so the proof     *)
(* needs that a CLOSED breaker counts that run exactly.  The last part     *)
(* carries the results over to callers that stream.                        *)

BackoffBudget == \A c \in Calls : phase[c] = "backoff" => attempt[c] <= MaxRetries

CountsStreak == state = "closed" => fails = streak /\ fails < Threshold

\* TypeOK in two halves: the truth values go to Zenon, the rest to SMT.
NumOK ==
    /\ state \in {"closed", "open", "half_open"}
    /\ fails \in 0..Threshold /\ streak \in 0..Threshold
    /\ inFlight \in 0..MaxProbes
    /\ phase \in [Calls -> {"idle", "running", "backoff"}]
    /\ attempt \in [Calls -> 0..(MaxRetries + 1)]

BoolOK == elapsed \in BOOLEAN /\ probe \in [Calls -> BOOLEAN]
          /\ cut \in BOOLEAN /\ healthy \in BOOLEAN

BreakerInv == NumOK /\ BackoffBudget /\ CountsStreak

\* Counting cut off at Threshold stays in range and reaches it only from
\* the number before.
LEMMA IncFacts ==
    ASSUME NEW n \in 0..Threshold
    PROVE  Inc(n) \in 0..Threshold /\ (n < Threshold => Inc(n) = n + 1)
BY BreakerAssumption DEF Inc

\* A released slot was counted: inFlight never goes below zero.
LEMMA ReleaseFacts == NumOK => Release \in 0..MaxProbes
BY BreakerAssumption DEF NumOK, Release

\* The invariant holds of a fresh breaker.
LEMMA InvInit == Init => BreakerInv
BY BreakerAssumption DEF Init, BreakerInv, NumOK, BackoffBudget, CountsStreak

\* What a reported success does to the breaker.
LEMMA SuccessKeeps ==
    ASSUME BreakerInv, RecordSuccess
    PROVE  /\ state' \in {"closed", "open", "half_open"}
           /\ fails' \in 0..Threshold /\ streak' \in 0..Threshold
           /\ inFlight' \in 0..MaxProbes
           /\ CountsStreak'
BY BreakerAssumption, ReleaseFacts DEF BreakerInv, NumOK, CountsStreak, RecordSuccess

\* What a reported failure does: a CLOSED breaker counts it or trips.
LEMMA FailureKeeps ==
    ASSUME BreakerInv, RecordFailure
    PROVE  /\ state' \in {"closed", "open", "half_open"}
           /\ fails' \in 0..Threshold /\ streak' \in 0..Threshold
           /\ inFlight' \in 0..MaxProbes
           /\ CountsStreak'
<1>1. /\ Inc(fails) \in 0..Threshold /\ Inc(streak) \in 0..Threshold
      /\ fails < Threshold => Inc(fails) = fails + 1
      /\ streak < Threshold => Inc(streak) = streak + 1
  BY IncFacts DEF BreakerInv, NumOK
<1>2. CASE state = "half_open"
  BY <1>1, <1>2, ReleaseFacts DEF BreakerInv, NumOK, CountsStreak, RecordFailure, Trip
<1>3. CASE state # "half_open"
  <2>1. /\ streak' = Inc(streak) /\ fails' = Inc(fails) /\ inFlight' = inFlight
        /\ \/ fails' >= Threshold /\ state' = "open"
           \/ ~(fails' >= Threshold) /\ state' = state
    BY <1>3, Zenon DEF RecordFailure, Trip
  <2> QED BY <1>1, <1>3, <2>1, BreakerAssumption DEF BreakerInv, NumOK, CountsStreak
<1> QED BY <1>2, <1>3

\* Every step preserves it.
LEMMA InvStep == BreakerInv /\ [BreakerNext]_breakerVars => BreakerInv'
<1> SUFFICES ASSUME BreakerInv, [BreakerNext]_breakerVars PROVE BreakerInv'
  OBVIOUS
<1> USE BreakerAssumption
<1>1. ASSUME NEW c \in Calls, Begin(c) PROVE BreakerInv'
  <2>1. NumOK'
    BY <1>1 DEF BreakerInv, NumOK, Begin, Admit, breaker
  <2>2. BackoffBudget'
    BY <1>1 DEF BreakerInv, NumOK, BackoffBudget, Begin
  <2>3. CountsStreak'
    BY <1>1 DEF BreakerInv, CountsStreak, Begin, Admit, breaker
  <2> QED BY <2>1, <2>2, <2>3 DEF BreakerInv
<1>2. ASSUME NEW c \in Calls, Succeeds(c) \/ BusinessError(c) PROVE BreakerInv'
  <2>1. NumOK'
    BY <1>2, SuccessKeeps DEF BreakerInv, NumOK, Succeeds, BusinessError, Done
  <2>2. BackoffBudget'
    BY <1>2 DEF BreakerInv, NumOK, BackoffBudget, Succeeds, BusinessError, Done
  <2> QED BY <1>2, <2>1, <2>2, SuccessKeeps DEF BreakerInv, Succeeds, BusinessError
<1>3. ASSUME NEW c \in Calls, AttemptFails(c) PROVE BreakerInv'
  BY <1>3 DEF BreakerInv, NumOK, BackoffBudget, CountsStreak, AttemptFails, breaker
<1>4. ASSUME NEW c \in Calls, BackoffOver(c) PROVE BreakerInv'
  BY <1>4 DEF BreakerInv, NumOK, BackoffBudget, CountsStreak, BackoffOver, breaker
<1>5. ASSUME NEW c \in Calls, CallFails(c) PROVE BreakerInv'
  <2>1. NumOK'
    BY <1>5, FailureKeeps DEF BreakerInv, NumOK, CallFails, Done
  <2>2. BackoffBudget'
    BY <1>5 DEF BreakerInv, NumOK, BackoffBudget, CallFails, Done
  <2> QED BY <1>5, <2>1, <2>2, FailureKeeps DEF BreakerInv, CallFails
<1>6. ASSUME NEW c \in Calls, Cancelled(c) PROVE BreakerInv'
  BY <1>6 DEF BreakerInv, NumOK, BackoffBudget, CountsStreak, Cancelled, Done, breaker
<1>7. CASE RecoveryElapses
  BY <1>7 DEF BreakerInv, NumOK, BackoffBudget, CountsStreak, RecoveryElapses, callVars
<1>8. CASE Reset
  BY <1>8 DEF BreakerInv, NumOK, BackoffBudget, CountsStreak, Reset, callVars
<1>9. CASE TargetChanges
  BY <1>9 DEF BreakerInv, NumOK, BackoffBudget, CountsStreak, TargetChanges, breaker, callVars
<1>10. CASE UNCHANGED breakerVars
  BY <1>10 DEF BreakerInv, NumOK, BackoffBudget, CountsStreak, breakerVars, breaker, callVars
<1>11. ASSUME NEW c \in Calls, Rejected(c) PROVE BreakerInv'
  BY <1>10, <1>11 DEF Rejected
<1> QED
  BY <1>1, <1>2, <1>3, <1>4, <1>5, <1>6, <1>7, <1>8, <1>9, <1>10, <1>11 DEF BreakerNext

\* It holds throughout.
LEMMA InvHolds == BreakerSpec => []BreakerInv
BY InvInit, InvStep, PTL DEF BreakerSpec

\* Truth values stay truth values.
LEMMA BoolStep == BoolOK /\ [BreakerNext]_breakerVars => BoolOK'
<1> SUFFICES ASSUME BoolOK, [BreakerNext]_breakerVars PROVE BoolOK'
  OBVIOUS
<1> USE DEF BoolOK
<1>1. ASSUME NEW c \in Calls, Begin(c) PROVE BoolOK'
  <2>1. (state # "closed") \in BOOLEAN
    BY Zenon
  <2>2. probe' = [probe EXCEPT ![c] = state # "closed"]
    BY <1>1, Zenon DEF Begin
  <2>3. probe' \in [Calls -> BOOLEAN]
    BY <2>1, <2>2, Zenon
  <2>4. cut' = (cut /\ state # "open")
    BY <1>1, Zenon DEF Begin
  <2>5. cut' \in BOOLEAN
    BY <2>4, Zenon
  <2> QED BY <1>1, <2>3, <2>5, Zenon DEF Begin, Admit, breaker
<1>2. ASSUME NEW c \in Calls, Succeeds(c) \/ BusinessError(c) PROVE BoolOK'
  BY <1>2, Zenon DEF Succeeds, BusinessError, RecordSuccess
<1>3. ASSUME NEW c \in Calls, AttemptFails(c) \/ BackoffOver(c) PROVE BoolOK'
  BY <1>3, Zenon DEF AttemptFails, BackoffOver, breaker
<1>8. ASSUME NEW c \in Calls, Cancelled(c) PROVE BoolOK'
  <2>1. cut' = (cut \/ (probe[c] /\ state = "half_open"))
    BY <1>8, Zenon DEF Cancelled
  <2>2. cut' \in BOOLEAN
    BY <2>1, Zenon
  <2> QED BY <1>8, <2>2, Zenon DEF Cancelled, breaker
<1>4. ASSUME NEW c \in Calls, CallFails(c) PROVE BoolOK'
  BY <1>4, Zenon DEF CallFails, RecordFailure, Trip
<1>5. CASE RecoveryElapses \/ Reset
  BY <1>5, Zenon DEF RecoveryElapses, Reset, callVars
<1>6. CASE TargetChanges
  BY <1>6, Zenon DEF TargetChanges, breaker, callVars
<1>7. CASE UNCHANGED breakerVars
  BY <1>7, Zenon DEF breakerVars, breaker, callVars
<1> QED BY <1>1, <1>2, <1>3, <1>4, <1>5, <1>6, <1>7, <1>8, Zenon DEF BreakerNext, Rejected

\* The truth values are in their types throughout.
LEMMA BoolHolds == BreakerSpec => []BoolOK
<1>1. Init => BoolOK
  BY Zenon DEF Init, BoolOK
<1> QED BY <1>1, BoolStep, PTL DEF BreakerSpec

\* The breaker and its callers stay in their types: in particular no call
\* makes more than max_retries + 1 attempts.
THEOREM BreakerTypeCorrect == BreakerSpec => []TypeOK
<1>1. BreakerInv /\ BoolOK => TypeOK
  BY Zenon DEF BreakerInv, NumOK, BoolOK, TypeOK
<1> QED BY <1>1, InvHolds, BoolHolds, PTL

\* A CLOSED breaker has seen fewer than failure_threshold failures in a row,
\* for any number of concurrent callers and any order of their results.
THEOREM ClosedIsHealthy == BreakerSpec => []ClosedMeansHealthy
<1>1. BreakerInv => ClosedMeansHealthy
  BY DEF BreakerInv, NumOK, CountsStreak, ClosedMeansHealthy
<1> QED BY <1>1, InvHolds, PTL

\* The breaker trips in time and retries stay in their budget: both together.
THEOREM TripsOnTime == BreakerSpec => []TripsInTime
BY BreakerTypeCorrect, ClosedIsHealthy, PTL DEF TripsInTime
-----------------------------------------------------------------------------
\* Probes is a finite set with a natural number of members, before and after.
LEMMA ProbesFinite == IsFiniteSet(Probes) /\ Cardinality(Probes) \in Nat
<1>1. Probes \subseteq Calls
  BY DEF Probes
<1> QED BY <1>1, BreakerAssumption, FS_Subset, FS_CardinalityType

\* A step keeps the slots with running probes: the only steps that end a
\* probe in HALF_OPEN leave that state or are the cancellation of a probe,
\* and a new HALF_OPEN period starts with one slot and one new probe.
LEMMA SlotsStep ==
    ASSUME BreakerInv, BoolOK, SlotsHeld, [BreakerNext]_breakerVars
    PROVE  SlotsHeld'
<1> SUFFICES ASSUME state' = "half_open", ~cut' PROVE inFlight' <= Cardinality(Probes')
  BY DEF SlotsHeld
<1>1. ASSUME NEW c \in Calls, Begin(c) PROVE inFlight' <= Cardinality(Probes')
  <2>0. phase[c] = "idle" /\ state # "closed"
    BY <1>1, Zenon DEF Begin, Admit, breaker
  <2>1. Probes' = Probes \cup {c} /\ c \notin Probes
    <3>1. /\ phase' = [phase EXCEPT ![c] = "running"]
          /\ probe' = [probe EXCEPT ![c] = TRUE]
          /\ phase \in [Calls -> {"idle", "running", "backoff"}]
      BY <1>1, <2>0, Zenon DEF Begin, BreakerInv, NumOK
    <3>2. probe'[c] = TRUE /\ \A d \in Calls \ {c} : probe'[d] = probe[d]
      BY <3>1 DEF BoolOK
    <3> QED BY <2>0, <3>1, <3>2 DEF Probes
  <2>2. Cardinality(Probes') = Cardinality(Probes) + 1
    BY <2>1, ProbesFinite, FS_AddElement
  <2>3. inFlight' = 1 \/ (state = "half_open" /\ inFlight' = inFlight + 1)
    BY <1>1 DEF Begin, Admit, breaker
  <2>4. state = "half_open" => ~cut
    <3>1. cut' = (cut /\ state # "open")
      BY <1>1, Zenon DEF Begin
    <3> QED BY <3>1, Zenon
  <2> QED BY <2>2, <2>3, <2>4, ProbesFinite, BreakerAssumption DEF SlotsHeld, BreakerInv, NumOK
<1>2. ASSUME NEW c \in Calls, Succeeds(c) \/ BusinessError(c) PROVE FALSE
  BY <1>2 DEF Succeeds, BusinessError, RecordSuccess
<1>3. ASSUME NEW c \in Calls, CallFails(c) PROVE FALSE
  BY <1>3 DEF CallFails, RecordFailure, Trip
<1>4. ASSUME UNCHANGED breaker, ~cut, Probes' = Probes PROVE inFlight' <= Cardinality(Probes')
  BY <1>4 DEF SlotsHeld, breaker
<1>5. ASSUME NEW c \in Calls, AttemptFails(c) PROVE inFlight' <= Cardinality(Probes')
  <2>1. Probes' = Probes
    BY <1>5 DEF AttemptFails, Probes, BreakerInv, NumOK
  <2> QED BY <1>4, <1>5, <2>1, Zenon DEF AttemptFails
<1>6. ASSUME NEW c \in Calls, BackoffOver(c) PROVE inFlight' <= Cardinality(Probes')
  <2>1. Probes' = Probes
    BY <1>6 DEF BackoffOver, Probes, BreakerInv, NumOK
  <2> QED BY <1>4, <1>6, <2>1, Zenon DEF BackoffOver
<1>7. CASE RecoveryElapses \/ Reset
  BY <1>7 DEF RecoveryElapses, Reset
<1>8. CASE TargetChanges
  <2>1. Probes' = Probes
    BY <1>8 DEF TargetChanges, Probes, callVars
  <2> QED BY <1>4, <1>8, <2>1, Zenon DEF TargetChanges
<1>9. CASE UNCHANGED breakerVars
  <2>1. Probes' = Probes
    BY <1>9 DEF Probes, breakerVars, callVars
  <2> QED BY <1>4, <1>9, <2>1, Zenon DEF breakerVars
<1>10. ASSUME NEW c \in Calls, Cancelled(c) PROVE inFlight' <= Cardinality(Probes')
  <2>1. UNCHANGED breaker /\ ~cut /\ ~(probe[c] /\ state = "half_open")
    <3>1. UNCHANGED breaker /\ cut' = (cut \/ (probe[c] /\ state = "half_open"))
      BY <1>10, Zenon DEF Cancelled
    <3> QED BY <3>1, Zenon
  <2>2. ~probe[c]
    BY <2>1, Zenon DEF breaker
  <2>3. Probes' = Probes
    BY <1>10, <2>2 DEF Cancelled, Done, Probes, BreakerInv, NumOK
  <2> QED BY <1>4, <2>1, <2>3
<1> QED
  BY <1>1, <1>2, <1>3, <1>5, <1>6, <1>7, <1>8, <1>9, <1>10 DEF BreakerNext, Rejected

\* Unless one of its probes is cancelled, a HALF_OPEN breaker loses no slot:
\* every slot before_call counted is held by a call that will still report.
THEOREM SlotsNeverLost == BreakerSpec => []SlotsHeld
<1>1. Init => SlotsHeld
  BY DEF Init, SlotsHeld
<1>2. BreakerInv /\ BoolOK /\ SlotsHeld /\ [BreakerNext]_breakerVars => SlotsHeld'
  BY SlotsStep
<1> QED BY <1>1, <1>2, InvHolds, BoolHolds, PTL DEF BreakerSpec
-----------------------------------------------------------------------------
\* A step of a stream is a step of the breaker and its callers, or one they
\* do not see.
LEMMA StreamRefines ==
    ASSUME [StreamNext]_<<breakerVars, streamVars>> PROVE [BreakerNext]_breakerVars
<1>1. ASSUME NEW c \in Streamers, StreamStep(c) PROVE [BreakerNext]_breakerVars
  <2>1. c \in Calls
    BY StreamAssumption
  <2> QED BY <1>1, <2>1 DEF StreamStep, BreakerNext, Chunk, Opened, StreamEnds, StreamRetries,
                            StreamBreaks, StreamRefused, StreamCancelled
<1>2. CASE OtherStep
  BY <1>2 DEF OtherStep, BreakerNext
<1>3. CASE UNCHANGED <<breakerVars, streamVars>>
  BY <1>3
<1> QED BY <1>1, <1>2, <1>3 DEF StreamNext

\* The breaker of a target that is read as streams too is the same breaker:
\* chat_stream tells it what chat does, each call once (llm/client.py).
THEOREM StreamsUseTheBreaker == StreamSpec => BreakerSpec
<1>1. StreamInit => Init
  BY DEF StreamInit
<1> QED BY <1>1, StreamRefines, PTL DEF StreamSpec, BreakerSpec

\* So with streams a CLOSED breaker has seen fewer than failure_threshold
\* failures in a row, and an attempt that broke off after its first piece
\* spends the retry budget like any other (core/resilience.py).
THEOREM StreamsTripInTime == StreamSpec => []TripsInTime
BY StreamsUseTheBreaker, TripsOnTime, PTL

\* And no probe slot is lost to a stream that failed, broke off or was refused.
THEOREM StreamsHoldSlots == StreamSpec => []SlotsHeld
BY StreamsUseTheBreaker, SlotsNeverLost, PTL
-----------------------------------------------------------------------------
(* What a stream collects.  Exact relates the local variables of           *)
(* chat_stream to the chunks the attempt was sent; it is kept by each kind  *)
(* of chunk, and a retry starts from nothing because what it drops held no  *)
(* text.  The first lemmas are about parts of sequences: a part is listed   *)
(* in the order of its places, so that a new place, above all others, comes *)
(* last.                                                                    *)

\* A number's rank among those of a finite set.
LEMMA RankType ==
    ASSUME NEW F \in SUBSET Nat, IsFiniteSet(F), NEW i \in F
    PROVE  Cardinality(F) \in Nat /\ Cardinality(UpToIn(F, i)) \in 1..Cardinality(F)
<1>1. UpToIn(F, i) \subseteq F /\ i \in UpToIn(F, i)
    BY DEF UpToIn
<1>2. IsFiniteSet(UpToIn(F, i)) /\ Cardinality(UpToIn(F, i)) <= Cardinality(F)
    BY <1>1, FS_Subset
<1>3. Cardinality(UpToIn(F, i)) \in Nat /\ Cardinality(F) \in Nat
    BY <1>2, FS_CardinalityType
<1>4. Cardinality(UpToIn(F, i)) # 0
    BY <1>1, <1>2, FS_EmptySet
<1> QED BY <1>2, <1>3, <1>4

\* Two numbers have different ranks.
LEMMA RanksDiffer ==
    ASSUME NEW F \in SUBSET Nat, IsFiniteSet(F), NEW i \in F, NEW j \in F,
           Cardinality(UpToIn(F, i)) = Cardinality(UpToIn(F, j))
    PROVE  i = j
<1>1. ASSUME NEW a \in F, NEW b \in F, a < b PROVE Cardinality(UpToIn(F, a)) # Cardinality(UpToIn(F, b))
  <2>0. a \in Nat /\ b \in Nat /\ \A c \in F : c \in Nat
      OBVIOUS
  <2>1. b \in UpToIn(F, b) /\ b \notin UpToIn(F, a)
      BY <1>1, <2>0 DEF UpToIn
  <2>2. \A c \in F : c <= a => c <= b
      BY <1>1, <2>0
  <2>3. UpToIn(F, a) \subseteq UpToIn(F, b)
      BY <2>2 DEF UpToIn
  <2>4. UpToIn(F, b) \subseteq F
      BY DEF UpToIn
  <2>5. IsFiniteSet(UpToIn(F, b))
      BY <2>4, FS_Subset
  <2> QED BY <2>1, <2>3, <2>5, FS_Subset
<1>2. ~(i < j) /\ ~(j < i)
    BY <1>1
<1> QED BY <1>2

\* Every rank is some number's, so that Sorted lists the set's members.
LEMMA SortedType ==
    ASSUME NEW F \in SUBSET Nat, IsFiniteSet(F), NEW k \in 1..Cardinality(F)
    PROVE  Sorted(F)[k] \in F /\ Cardinality(UpToIn(F, Sorted(F)[k])) = k
<1> DEFINE f == [i \in F |-> Cardinality(UpToIn(F, i))]
           n == Cardinality(F)
<1>1. f \in [F -> 1..n] /\ \A i, j \in F : f[i] = f[j] => i = j
    BY RankType, RanksDiffer
<1>2. f \in Injection(F, 1..n)
    BY <1>1, Fun_IsInj
<1>3. n \in Nat
    BY FS_CardinalityType
<1>4. IsFiniteSet(1..n) /\ Cardinality(1..n) = n
    BY <1>3, FS_Interval
<1> HIDE DEF f
<1>5. f \in Surjection(F, 1..n)
    BY <1>2, <1>4, FS_Injection
<1>6. PICK i \in F : f[i] = k
    BY <1>5 DEF Surjection
<1>7. \E j \in F : Cardinality(UpToIn(F, j)) = k
    BY <1>6 DEF f
<1>8. Sorted(F)[k] = CHOOSE j \in F : Cardinality(UpToIn(F, j)) = k
    BY DEF Sorted
<1> QED BY <1>7, <1>8

\* The member of a rank.
LEMMA SortedIs ==
    ASSUME NEW F \in SUBSET Nat, IsFiniteSet(F), NEW i \in F
    PROVE  Sorted(F)[Cardinality(UpToIn(F, i))] = i
<1>1. Cardinality(UpToIn(F, i)) \in 1..Cardinality(F)
    BY RankType
<1>2. PICK j \in F : j = Sorted(F)[Cardinality(UpToIn(F, i))]
                     /\ Cardinality(UpToIn(F, j)) = Cardinality(UpToIn(F, i))
    BY <1>1, SortedType
<1> QED BY <1>2, RanksDiffer

\* A number above all others comes last.
LEMMA SortedGrows ==
    ASSUME NEW F \in SUBSET Nat, IsFiniteSet(F), NEW m \in Nat, \A i \in F : i < m
    PROVE  /\ IsFiniteSet(F \cup {m}) /\ Cardinality(F) \in Nat
           /\ Cardinality(F \cup {m}) = Cardinality(F) + 1
           /\ \A k \in 1..Cardinality(F) : Sorted(F \cup {m})[k] = Sorted(F)[k]
           /\ Sorted(F \cup {m})[Cardinality(F) + 1] = m
<1> DEFINE G == F \cup {m}
<1>1. m \notin F /\ G \in SUBSET Nat
    OBVIOUS
<1>2. IsFiniteSet(G) /\ Cardinality(F) \in Nat /\ Cardinality(G) = Cardinality(F) + 1
    BY <1>1, FS_AddElement, FS_CardinalityType
<1>3. ASSUME NEW i \in F PROVE UpToIn(G, i) = UpToIn(F, i)
  <2>1. i \in Nat /\ i < m /\ ~(m <= i)
      OBVIOUS
  <2> QED BY <2>1 DEF UpToIn
<1>4. UpToIn(G, m) = G
  <2>1. \A i \in G : i \in Nat /\ i <= m
      OBVIOUS
  <2> HIDE DEF G
  <2> QED BY <2>1 DEF UpToIn
<1>5. \A i \in F : i \in G
    OBVIOUS
<1> HIDE DEF G
<1>6. ASSUME NEW k \in 1..Cardinality(F) PROVE Sorted(G)[k] = Sorted(F)[k]
  <2>1. Sorted(F)[k] \in F /\ Cardinality(UpToIn(F, Sorted(F)[k])) = k
      BY SortedType
  <2>2. Cardinality(UpToIn(G, Sorted(F)[k])) = k
      BY <1>3, <2>1
  <2> QED BY <1>1, <1>2, <1>5, <2>1, <2>2, SortedIs
<1>7. m \in G
    BY DEF G
<1>8. Sorted(G)[Cardinality(F) + 1] = m
    BY <1>1, <1>2, <1>4, <1>7, SortedIs
<1> QED BY <1>2, <1>6, <1>8 DEF G

\* A piece, or the blank line: an attempt and the number of a chunk.
Places == Nat \X Nat

\* A part of a sequence that is lengthened.
LEMMA PartGrows ==
    ASSUME NEW s \in Seq(Places), NEW x \in Places, NEW N \in SUBSET (1..Len(s))
    PROVE  /\ IsFiniteSet(N) /\ N \in SUBSET Nat
           /\ Part(s, N) \in Seq(Places)
           /\ Part(Append(s, x), N) = Part(s, N)
           /\ Part(Append(s, x), N \cup {Len(s) + 1}) = Append(Part(s, N), x)
<1> DEFINE n == Len(s)
           u == Append(s, x)
<1>1. n \in Nat /\ Len(u) = n + 1 /\ u[n + 1] = x /\ \A i \in 1..n : u[i] = s[i] /\ s[i] \in Places
    OBVIOUS
<1>2. IsFiniteSet(N) /\ N \in SUBSET Nat /\ n + 1 \in Nat /\ \A i \in N : i < n + 1
  <2>1. IsFiniteSet(1..n)
      BY <1>1, FS_Interval
  <2>2. \A i \in N : i \in Nat /\ i < n + 1
      BY <1>1
  <2>3. N \in SUBSET Nat
      BY <2>2
  <2>4. N \subseteq 1..n
      OBVIOUS
  <2>5. IsFiniteSet(N)
      BY <2>1, <2>4, FS_Subset
  <2> QED BY <1>1, <2>2, <2>3, <2>5
<1> DEFINE c == Cardinality(N)
           M == N \cup {n + 1}
<1>3. c \in Nat
    BY <1>2, FS_CardinalityType
<1>4. \A k \in 1..c : Sorted(N)[k] \in N
    BY <1>2, SortedType
<1>5. /\ Cardinality(M) = c + 1 /\ \A k \in 1..c : Sorted(M)[k] = Sorted(N)[k]
      /\ Sorted(M)[c + 1] = n + 1
    BY <1>2, SortedGrows
<1> HIDE DEF u, n, M
<1>6. \A k \in 1..c : u[Sorted(N)[k]] = s[Sorted(N)[k]] /\ s[Sorted(N)[k]] \in Places
    BY <1>1, <1>4 DEF n
<1>7. Part(u, N) = [k \in 1..c |-> u[Sorted(N)[k]]] /\ Part(s, N) = [k \in 1..c |-> s[Sorted(N)[k]]]
      /\ Part(u, M) = [k \in 1..(c + 1) |-> u[Sorted(M)[k]]]
    BY <1>5 DEF Part
<1> DEFINE p == Part(s, N)
           r == Part(u, M)
<1> HIDE DEF c, p, r
<1>8. p \in Seq(Places) /\ Len(p) = c
  <2>1. p \in [1..c -> Places]
      BY <1>6, <1>7 DEF p
  <2> QED BY <1>3, <2>1
<1>9. Part(u, N) = p
    BY <1>6, <1>7 DEF p
<1>10. r \in Seq(Places) /\ Len(r) = c + 1 /\ r[c + 1] = x /\ \A k \in 1..c : r[k] = p[k]
  <2>1. \A k \in 1..c : r[k] = p[k] /\ r[k] \in Places
      BY <1>3, <1>5, <1>6, <1>7 DEF p, r
  <2>2. r[c + 1] = x
      BY <1>1, <1>3, <1>5, <1>7 DEF r
  <2>3. r \in [1..(c + 1) -> Places]
    <3>1. \A k \in 1..(c + 1) : r[k] \in Places
      <4> TAKE k \in 1..(c + 1)
      <4>1. k = c + 1 \/ k \in 1..c
          BY <1>3
      <4> QED BY <2>1, <2>2, <4>1
    <3>2. r = [k \in 1..(c + 1) |-> r[k]]
        BY <1>7 DEF r
    <3> QED BY <3>1, <3>2
  <2>4. r \in Seq(Places) /\ Len(r) = c + 1
      BY <1>3, <2>3
  <2> QED BY <2>1, <2>2, <2>4
<1>11. r = Append(p, x)
  <2>1. Append(p, x) \in Seq(Places) /\ Len(Append(p, x)) = c + 1
      BY <1>8
  <2>2. \A k \in 1..(c + 1) : r[k] = Append(p, x)[k]
      BY <1>3, <1>8, <1>10
  <2> QED BY <1>10, <2>1, <2>2, SeqEqual
<1> QED BY <1>2, <1>8, <1>9, <1>11 DEF p, r, u, M, n

\* The local variables of chat_stream.
StreamFields == {"text", "reasoning", "calls", "received", "seen"}

\* What one attempt has collected is what it was sent, and nothing is said to
\* have been received unless something was given.
Exact(s, a, q) ==
    /\ DOMAIN s = StreamFields
    /\ s.text = Pieces(a, q, TextAt(q)) /\ s.reasoning = Pieces(a, q, ReasoningAt(q))
    /\ DOMAIN s.calls = Indices(q)
    /\ \A i \in Indices(q) : s.calls[i] = ExpectedCall(a, q, i, NoPiece)
    /\ s.seen \in Seq(Places)
    /\ Part(s.seen, NotBlank(s.seen)) = Pieces(a, q, TextAt(q) \cup ReasoningAt(q))
    /\ s.received \in BOOLEAN /\ (s.received = FALSE => s.seen = <<>>)

\* Pieces of a sequence with one chunk more.
LEMMA PiecesGrow ==
    ASSUME NEW a \in Nat, NEW q \in Seq(Deltas), NEW d \in Deltas, NEW N \in SUBSET (1..Len(q))
    PROVE  /\ Pieces(a, q, N) \in Seq(Places)
           /\ Pieces(a, Append(q, d), N) = Pieces(a, q, N)
           /\ Pieces(a, Append(q, d), N \cup {Len(q) + 1})
                = Append(Pieces(a, q, N), <<a, Len(q) + 1>>)
<1> DEFINE n == Len(q)
           s == [k \in 1..n |-> <<a, k>>]
           x == <<a, n + 1>>
           u == [k \in 1..(n + 1) |-> <<a, k>>]
<1>1. n \in Nat /\ Len(Append(q, d)) = n + 1
    OBVIOUS
<1>2. x \in Places /\ s \in [1..n -> Places] /\ u \in [1..(n + 1) -> Places]
    BY <1>1 DEF Places
<1>3. s \in Seq(Places) /\ Len(s) = n /\ u \in Seq(Places) /\ Len(u) = n + 1
    BY <1>1, <1>2
<1>4. u = Append(s, x)
  <2>1. Append(s, x) \in Seq(Places) /\ Len(Append(s, x)) = n + 1
      BY <1>2, <1>3
  <2>2. ASSUME NEW k \in 1..(n + 1) PROVE u[k] = Append(s, x)[k]
    <3>1. CASE k = n + 1
        BY <1>1, <1>3, <3>1
    <3>2. CASE k # n + 1
      <4>1. k \in 1..n
          BY <1>1, <3>2
      <4>2. Append(s, x)[k] = s[k]
          BY <1>2, <1>3, <4>1
      <4> QED BY <4>1, <4>2
    <3> QED BY <3>1, <3>2
  <2> QED BY <1>3, <2>1, <2>2, SeqEqual
<1>5. N \in SUBSET (1..Len(s))
    BY <1>3
<1>6. Pieces(a, q, N) = Part(s, N) /\ \A M : Pieces(a, Append(q, d), M) = Part(u, M)
    BY <1>1 DEF Pieces
<1>a. s \in Seq(Places) /\ x \in Places /\ N \in SUBSET (1..Len(s))
    BY <1>2, <1>3, <1>5
<1> HIDE DEF s, u, x, n
<1>7. /\ Part(s, N) \in Seq(Places) /\ Part(Append(s, x), N) = Part(s, N)
      /\ Part(Append(s, x), N \cup {Len(s) + 1}) = Append(Part(s, N), x)
    BY <1>a, PartGrows
<1> QED BY <1>3, <1>4, <1>6, <1>7 DEF x, n

\* The places of what the next chunk adds.
LEMMA PlacesGrow ==
    ASSUME NEW q \in Seq(Deltas), NEW d \in Deltas
    PROVE  /\ TextAt(Append(q, d)) = TextAt(q) \cup (IF d.kind = "text" THEN {Len(q) + 1} ELSE {})
           /\ ReasoningAt(Append(q, d))
                = ReasoningAt(q) \cup (IF d.kind = "reasoning" THEN {Len(q) + 1} ELSE {})
           /\ \A i : CallAt(Append(q, d), i)
                = CallAt(q, i) \cup (IF d.kind = "call" /\ d.idx = i THEN {Len(q) + 1} ELSE {})
           /\ \A i : IdAt(Append(q, d), i)
                = IdAt(q, i) \cup (IF d.kind = "call" /\ d.idx = i /\ d.id THEN {Len(q) + 1} ELSE {})
           /\ \A i : NameAt(Append(q, d), i)
                = NameAt(q, i) \cup (IF d.kind = "call" /\ d.idx = i /\ d.name THEN {Len(q) + 1} ELSE {})
           /\ Indices(Append(q, d)) = Indices(q) \cup (IF d.kind = "call" THEN {d.idx} ELSE {})
<1> DEFINE n == Len(q)
           r == Append(q, d)
<1>1. n \in Nat /\ Len(r) = n + 1 /\ r[n + 1] = d /\ \A k \in 1..n : r[k] = q[k]
    OBVIOUS
<1>2. 1..(n + 1) = (1..n) \cup {n + 1}
    BY <1>1
<1> HIDE DEF n, r
<1>3. TextAt(r) = TextAt(q) \cup (IF d.kind = "text" THEN {n + 1} ELSE {})
    BY <1>1, <1>2 DEF TextAt, n
<1>4. ReasoningAt(r) = ReasoningAt(q) \cup (IF d.kind = "reasoning" THEN {n + 1} ELSE {})
    BY <1>1, <1>2 DEF ReasoningAt, n
<1>5. ASSUME NEW i
      PROVE  CallAt(r, i) = CallAt(q, i) \cup (IF d.kind = "call" /\ d.idx = i THEN {n + 1} ELSE {})
    BY <1>1, <1>2 DEF CallAt, n
<1>6. \A i : CallAt(q, i) \subseteq 1..n
    BY DEF CallAt, n
<1>7. ASSUME NEW i
      PROVE  IdAt(r, i) = IdAt(q, i) \cup (IF d.kind = "call" /\ d.idx = i /\ d.id THEN {n + 1} ELSE {})
    BY <1>1, <1>5, <1>6 DEF IdAt
<1>8. ASSUME NEW i
      PROVE  NameAt(r, i) = NameAt(q, i) \cup (IF d.kind = "call" /\ d.idx = i /\ d.name THEN {n + 1} ELSE {})
    BY <1>1, <1>5, <1>6 DEF NameAt
<1>9. Indices(r) = Indices(q) \cup (IF d.kind = "call" THEN {d.idx} ELSE {})
  <2>1. Indices(r) = {r[k].idx : k \in {m \in 1..(n + 1) : r[m].kind = "call"}}
      BY <1>1 DEF Indices
  <2>2. Indices(q) = {q[k].idx : k \in {m \in 1..n : q[m].kind = "call"}}
      BY DEF Indices, n
  <2>3. {m \in 1..(n + 1) : r[m].kind = "call"}
          = {m \in 1..n : q[m].kind = "call"} \cup (IF d.kind = "call" THEN {n + 1} ELSE {})
      BY <1>1, <1>2
  <2>4. \A k \in {m \in 1..n : q[m].kind = "call"} : r[k].idx = q[k].idx
      BY <1>1
  <2>5. d.kind = "call" => r[n + 1].idx = d.idx
      BY <1>1
  <2> QED BY <2>1, <2>2, <2>3, <2>4, <2>5
<1> QED BY <1>3, <1>4, <1>5, <1>7, <1>8, <1>9 DEF n, r

\* ... a chunk of text or of reasoning.
LEMMA GivenGrows ==
    ASSUME NEW q \in Seq(Deltas), NEW d \in Deltas, d.kind # "call"
    PROVE  /\ d.kind = "text" => /\ TextAt(Append(q, d)) = TextAt(q) \cup {Len(q) + 1}
                                 /\ ReasoningAt(Append(q, d)) = ReasoningAt(q)
           /\ d.kind = "reasoning" => /\ ReasoningAt(Append(q, d)) = ReasoningAt(q) \cup {Len(q) + 1}
                                      /\ TextAt(Append(q, d)) = TextAt(q)
           /\ \A i : CallAt(Append(q, d), i) = CallAt(q, i)
           /\ \A i : IdAt(Append(q, d), i) = IdAt(q, i)
           /\ \A i : NameAt(Append(q, d), i) = NameAt(q, i)
           /\ Indices(Append(q, d)) = Indices(q)
<1>1. ASSUME d.kind = "text"
      PROVE  /\ TextAt(Append(q, d)) = TextAt(q) \cup {Len(q) + 1}
             /\ ReasoningAt(Append(q, d)) = ReasoningAt(q) \cup {}
  <2>1. TextAt(Append(q, d)) = TextAt(q) \cup {Len(q) + 1}
      BY <1>1, PlacesGrow
  <2>2. d.kind # "reasoning"
      BY <1>1
  <2>3. ReasoningAt(Append(q, d)) = ReasoningAt(q) \cup {}
      BY <2>2, PlacesGrow
  <2> QED BY <2>1, <2>3
<1>2. ASSUME d.kind = "reasoning"
      PROVE  /\ ReasoningAt(Append(q, d)) = ReasoningAt(q) \cup {Len(q) + 1}
             /\ TextAt(Append(q, d)) = TextAt(q) \cup {}
  <2>1. ReasoningAt(Append(q, d)) = ReasoningAt(q) \cup {Len(q) + 1}
      BY <1>2, PlacesGrow
  <2>2. d.kind # "text"
      BY <1>2
  <2>3. TextAt(Append(q, d)) = TextAt(q) \cup {}
      BY <2>2, PlacesGrow
  <2> QED BY <2>1, <2>3
<1>3. Indices(Append(q, d)) = Indices(q) \cup {}
    BY PlacesGrow
<1>4. ASSUME NEW i PROVE CallAt(Append(q, d), i) = CallAt(q, i) \cup {}
    BY PlacesGrow
<1>5. ASSUME NEW i PROVE IdAt(Append(q, d), i) = IdAt(q, i) \cup {}
    BY PlacesGrow
<1>6. ASSUME NEW i PROVE NameAt(Append(q, d), i) = NameAt(q, i) \cup {}
    BY PlacesGrow
<1> QED BY <1>1, <1>2, <1>3, <1>4, <1>5, <1>6

\* ... a chunk of a tool call.
LEMMA CallGrows ==
    ASSUME NEW q \in Seq(Deltas), NEW d \in Deltas, d.kind = "call"
    PROVE  /\ TextAt(Append(q, d)) = TextAt(q) /\ ReasoningAt(Append(q, d)) = ReasoningAt(q)
           /\ \A j : j # d.idx => /\ CallAt(Append(q, d), j) = CallAt(q, j)
                                 /\ IdAt(Append(q, d), j) = IdAt(q, j)
                                 /\ NameAt(Append(q, d), j) = NameAt(q, j)
           /\ CallAt(Append(q, d), d.idx) = CallAt(q, d.idx) \cup {Len(q) + 1}
           /\ IdAt(Append(q, d), d.idx)
                = IF d.id THEN IdAt(q, d.idx) \cup {Len(q) + 1} ELSE IdAt(q, d.idx)
           /\ NameAt(Append(q, d), d.idx)
                = IF d.name THEN NameAt(q, d.idx) \cup {Len(q) + 1} ELSE NameAt(q, d.idx)
           /\ Indices(Append(q, d)) = Indices(q) \cup {d.idx}
<1>1. d.kind # "text" /\ d.kind # "reasoning"
    OBVIOUS
<1>2. TextAt(Append(q, d)) = TextAt(q) \cup {}
    BY <1>1, PlacesGrow
<1>3. ReasoningAt(Append(q, d)) = ReasoningAt(q) \cup {}
    BY <1>1, PlacesGrow
<1>4. Indices(Append(q, d)) = Indices(q) \cup {d.idx}
    BY PlacesGrow
<1>5. CallAt(Append(q, d), d.idx) = CallAt(q, d.idx) \cup {Len(q) + 1}
    BY PlacesGrow
<1>6. IdAt(Append(q, d), d.idx) = IdAt(q, d.idx) \cup (IF d.id THEN {Len(q) + 1} ELSE {})
    BY PlacesGrow
<1>7. NameAt(Append(q, d), d.idx) = NameAt(q, d.idx) \cup (IF d.name THEN {Len(q) + 1} ELSE {})
    BY PlacesGrow
<1>8. ASSUME NEW j, j # d.idx PROVE CallAt(Append(q, d), j) = CallAt(q, j) \cup {}
    BY <1>8, PlacesGrow
<1>9. ASSUME NEW j, j # d.idx PROVE IdAt(Append(q, d), j) = IdAt(q, j) \cup {}
    BY <1>9, PlacesGrow
<1>10. ASSUME NEW j, j # d.idx PROVE NameAt(Append(q, d), j) = NameAt(q, j) \cup {}
    BY <1>10, PlacesGrow
<1> QED BY <1>2, <1>3, <1>4, <1>5, <1>6, <1>7, <1>8, <1>9, <1>10

\* ... all of them among the chunks sent so far.
LEMMA PlacesType ==
    ASSUME NEW q \in Seq(Deltas)
    PROVE  /\ TextAt(q) \subseteq 1..Len(q) /\ ReasoningAt(q) \subseteq 1..Len(q)
           /\ \A i : /\ CallAt(q, i) \subseteq 1..Len(q)
                     /\ IdAt(q, i) \subseteq 1..Len(q) /\ NameAt(q, i) \subseteq 1..Len(q)
                     /\ CallAt(q, i) = {} <=> i \notin Indices(q)
BY DEF TextAt, ReasoningAt, CallAt, IdAt, NameAt, Indices

\* The last of some places, with one chunk more.
LEMMA LastGrows ==
    ASSUME NEW a, NEW n \in Nat, NEW N \in SUBSET (1..n), NEW other
    PROVE  LastOf(a, N \cup {n + 1}, other) = <<a, n + 1>>
<1> DEFINE M == N \cup {n + 1}
<1>1. n + 1 \in M /\ \A m \in M : m <= n + 1 /\ m \in Nat
    OBVIOUS
<1> HIDE DEF M
<1> DEFINE top == CHOOSE k \in M : \A m \in M : m <= k
<1>2. top \in M /\ \A m \in M : m <= top
    BY <1>1
<1> HIDE DEF top
<1>3. top = n + 1
    BY <1>1, <1>2
<1>4. LastOf(a, M, other) = <<a, top>>
    BY <1>1 DEF LastOf, top
<1> QED BY <1>3, <1>4 DEF M

\* The caller is given a piece, or the blank line.
LEMMA SeenGrows ==
    ASSUME NEW s \in Seq(Places), NEW x \in Places
    PROVE  /\ Append(s, x) \in Seq(Places)
           /\ Part(Append(s, x), NotBlank(Append(s, x)))
                = IF x = Separator THEN Part(s, NotBlank(s)) ELSE Append(Part(s, NotBlank(s)), x)
<1> DEFINE n == Len(s)
           u == Append(s, x)
<1>1. n \in Nat /\ Len(u) = n + 1 /\ u[n + 1] = x /\ u \in Seq(Places) /\ \A k \in 1..n : u[k] = s[k]
    OBVIOUS
<1>2. 1..(n + 1) = (1..n) \cup {n + 1}
    BY <1>1
<1> HIDE DEF u, n
<1>3. NotBlank(u) = NotBlank(s) \cup (IF x = Separator THEN {} ELSE {n + 1})
    BY <1>1, <1>2 DEF NotBlank, n
<1>4. NotBlank(s) \in SUBSET (1..Len(s))
    BY DEF NotBlank
<1>5. /\ Part(u, NotBlank(s)) = Part(s, NotBlank(s))
      /\ Part(u, NotBlank(s) \cup {n + 1}) = Append(Part(s, NotBlank(s)), x)
    BY <1>4, PartGrows DEF u, n
<1>6. CASE x = Separator
    BY <1>1, <1>3, <1>5, <1>6 DEF u
<1>7. CASE x # Separator
    BY <1>1, <1>3, <1>5, <1>7 DEF u
<1> QED BY <1>6, <1>7

\* A piece is none of the things that stand for one.
LEMMA PieceType ==
    ASSUME NEW a \in Nat, NEW n \in Nat
    PROVE  <<a, n + 1>> \in Places /\ <<a, n + 1>> # Separator /\ <<a, n + 1>> # NoPiece
           /\ Separator \in Places
BY DEF Places, Separator, NoPiece

\* A piece of reasoning.
LEMMA ReasonedExact ==
    ASSUME NEW a \in Nat, NEW q \in Seq(Deltas), NEW d \in Deltas, d.kind = "reasoning",
           NEW s, Exact(s, a, q)
    PROVE  Exact(Reasoned(s, <<a, Len(q) + 1>>), a, Append(q, d))
<1> DEFINE p == <<a, Len(q) + 1>>
           r == Reasoned(s, p)
           u == Append(q, d)
<1>0. Len(q) \in Nat
    OBVIOUS
<1>1. p \in Places /\ p # Separator
    BY <1>0, PieceType
<1>2. /\ DOMAIN r = StreamFields /\ r.text = s.text /\ r.reasoning = Append(s.reasoning, p)
      /\ r.calls = s.calls /\ r.received = TRUE /\ r.seen = Append(s.seen, p)
    BY DEF Exact, Reasoned, StreamFields
<1>3. /\ TextAt(u) = TextAt(q) /\ ReasoningAt(u) = ReasoningAt(q) \cup {Len(q) + 1}
      /\ (\A i : CallAt(u, i) = CallAt(q, i)) /\ (\A i : IdAt(u, i) = IdAt(q, i))
      /\ (\A i : NameAt(u, i) = NameAt(q, i)) /\ Indices(u) = Indices(q)
  <2>1. d.kind # "call"
      OBVIOUS
  <2> QED BY <2>1, GivenGrows
<1>4. /\ TextAt(q) \in SUBSET (1..Len(q)) /\ ReasoningAt(q) \in SUBSET (1..Len(q))
      /\ TextAt(q) \cup ReasoningAt(q) \in SUBSET (1..Len(q))
      /\ \A i : CallAt(q, i) \in SUBSET (1..Len(q))
    BY PlacesType
<1>5. \A N \in SUBSET (1..Len(q)) : /\ Pieces(a, u, N) = Pieces(a, q, N)
                                    /\ Pieces(a, u, N \cup {Len(q) + 1}) = Append(Pieces(a, q, N), p)
    BY PiecesGrow
<1> HIDE DEF p, r, u
<1>6. r.text = Pieces(a, u, TextAt(u)) /\ r.reasoning = Pieces(a, u, ReasoningAt(u))
    BY <1>2, <1>3, <1>4, <1>5 DEF Exact
<1>7. \A i \in Indices(u) : r.calls[i] = ExpectedCall(a, u, i, NoPiece)
    BY <1>2, <1>3, <1>4, <1>5 DEF Exact, ExpectedCall
<1>8. r.seen \in Seq(Places) /\ Part(r.seen, NotBlank(r.seen)) = Append(Part(s.seen, NotBlank(s.seen)), p)
  <2>1. s.seen \in Seq(Places)
      BY DEF Exact
  <2>2. Append(s.seen, p) \in Seq(Places)
      BY <1>1, <2>1
  <2>3. Part(Append(s.seen, p), NotBlank(Append(s.seen, p))) = Append(Part(s.seen, NotBlank(s.seen)), p)
      BY <1>1, <2>1, SeenGrows
  <2> QED BY <1>2, <2>2, <2>3
<1>9. TextAt(u) \cup ReasoningAt(u) = (TextAt(q) \cup ReasoningAt(q)) \cup {Len(q) + 1}
    BY <1>3
<1>10. Part(r.seen, NotBlank(r.seen)) = Pieces(a, u, TextAt(u) \cup ReasoningAt(u))
    BY <1>4, <1>5, <1>8, <1>9 DEF Exact
<1>11. DOMAIN r.calls = Indices(u)
    BY <1>2, <1>3 DEF Exact
<1> QED BY <1>2, <1>6, <1>7, <1>8, <1>10, <1>11 DEF Exact, r, p, u

\* A piece of text, the first of it after a blank line.
LEMMA SaidExact ==
    ASSUME NEW a \in Nat, NEW q \in Seq(Deltas), NEW d \in Deltas, d.kind = "text",
           NEW s, Exact(s, a, q)
    PROVE  Exact(Said(s, <<a, Len(q) + 1>>), a, Append(q, d))
<1> DEFINE p == <<a, Len(q) + 1>>
           r == Said(s, p)
           u == Append(q, d)
<1>0. Len(q) \in Nat
    OBVIOUS
<1>1. p \in Places /\ p # Separator /\ Separator \in Places
    BY <1>0, PieceType
<1>2. /\ DOMAIN r = StreamFields /\ r.reasoning = s.reasoning /\ r.text = Append(s.text, p)
      /\ r.calls = s.calls /\ r.received = TRUE
      /\ r.seen = s.seen \o <<Separator, p>> \/ r.seen = s.seen \o <<p>>
    BY DEF Exact, Said, StreamFields
<1>3. /\ ReasoningAt(u) = ReasoningAt(q) /\ TextAt(u) = TextAt(q) \cup {Len(q) + 1}
      /\ (\A i : CallAt(u, i) = CallAt(q, i)) /\ (\A i : IdAt(u, i) = IdAt(q, i))
      /\ (\A i : NameAt(u, i) = NameAt(q, i)) /\ Indices(u) = Indices(q)
  <2>1. d.kind # "call"
      OBVIOUS
  <2> QED BY <2>1, GivenGrows
<1>4. /\ TextAt(q) \in SUBSET (1..Len(q)) /\ ReasoningAt(q) \in SUBSET (1..Len(q))
      /\ TextAt(q) \cup ReasoningAt(q) \in SUBSET (1..Len(q))
      /\ \A i : CallAt(q, i) \in SUBSET (1..Len(q))
    BY PlacesType
<1>5. \A N \in SUBSET (1..Len(q)) : /\ Pieces(a, u, N) = Pieces(a, q, N)
                                    /\ Pieces(a, u, N \cup {Len(q) + 1}) = Append(Pieces(a, q, N), p)
    BY PiecesGrow
<1> HIDE DEF p, r, u
<1>6. r.text = Pieces(a, u, TextAt(u)) /\ r.reasoning = Pieces(a, u, ReasoningAt(u))
    BY <1>2, <1>3, <1>4, <1>5 DEF Exact
<1>7. \A i \in Indices(u) : r.calls[i] = ExpectedCall(a, u, i, NoPiece)
    BY <1>2, <1>3, <1>4, <1>5 DEF Exact, ExpectedCall
<1>8. r.seen \in Seq(Places) /\ Part(r.seen, NotBlank(r.seen)) = Append(Part(s.seen, NotBlank(s.seen)), p)
  <2>1. s.seen \in Seq(Places)
      BY DEF Exact
  <2>2. CASE r.seen = s.seen \o <<p>>
    <3>1. r.seen = Append(s.seen, p)
        BY <1>1, <2>1, <2>2
    <3> QED BY <1>1, <2>1, <3>1, SeenGrows
  <2>3. CASE r.seen = s.seen \o <<Separator, p>>
    <3>1. r.seen = Append(Append(s.seen, Separator), p)
        BY <1>1, <2>1, <2>3
    <3>2. /\ Append(s.seen, Separator) \in Seq(Places)
          /\ Part(Append(s.seen, Separator), NotBlank(Append(s.seen, Separator)))
               = Part(s.seen, NotBlank(s.seen))
        BY <1>1, <2>1, SeenGrows
    <3> QED BY <1>1, <3>1, <3>2, SeenGrows
  <2> QED BY <1>2, <2>2, <2>3
<1>9. TextAt(u) \cup ReasoningAt(u) = (TextAt(q) \cup ReasoningAt(q)) \cup {Len(q) + 1}
    BY <1>3
<1>10. Part(r.seen, NotBlank(r.seen)) = Pieces(a, u, TextAt(u) \cup ReasoningAt(u))
    BY <1>4, <1>5, <1>8, <1>9 DEF Exact
<1>11. DOMAIN r.calls = Indices(u)
    BY <1>2, <1>3 DEF Exact
<1> QED BY <1>2, <1>6, <1>7, <1>8, <1>10, <1>11 DEF Exact, r, p, u

\* A piece of a tool call, put to the call of its index.
LEMMA CalledExact ==
    ASSUME NEW a \in Nat, NEW q \in Seq(Deltas), NEW d \in Deltas, d.kind = "call",
           NEW s, Exact(s, a, q)
    PROVE  Exact(Called(s, d, <<a, Len(q) + 1>>), a, Append(q, d))
<1> DEFINE p == <<a, Len(q) + 1>>
           n == Len(q)
           i == d.idx
           call == IF i \in DOMAIN s.calls THEN s.calls[i] ELSE NewCall
           new == [id |-> IF d.id THEN p ELSE call.id, name |-> IF d.name THEN p ELSE call.name,
                   args |-> Append(call.args, p)]
           r == Called(s, d, p)
           u == Append(q, d)
<1>0. n \in Nat /\ d.id \in BOOLEAN /\ d.name \in BOOLEAN
    BY StreamAssumption DEF StreamAssumption
<1>1. /\ DOMAIN r = StreamFields /\ r.text = s.text /\ r.reasoning = s.reasoning
      /\ r.received = s.received /\ r.seen = s.seen
      /\ r.calls = [j \in DOMAIN s.calls \cup {i} |-> IF j = i THEN new ELSE s.calls[j]]
    BY DEF Exact, Called, StreamFields
<1>2. /\ TextAt(u) = TextAt(q) /\ ReasoningAt(u) = ReasoningAt(q)
      /\ \A j : j # i => CallAt(u, j) = CallAt(q, j) /\ IdAt(u, j) = IdAt(q, j) /\ NameAt(u, j) = NameAt(q, j)
      /\ CallAt(u, i) = CallAt(q, i) \cup {n + 1}
      /\ IdAt(u, i) = IF d.id THEN IdAt(q, i) \cup {n + 1} ELSE IdAt(q, i)
      /\ NameAt(u, i) = IF d.name THEN NameAt(q, i) \cup {n + 1} ELSE NameAt(q, i)
      /\ Indices(u) = Indices(q) \cup {i}
    BY CallGrows
<1>3. /\ TextAt(q) \in SUBSET (1..n) /\ ReasoningAt(q) \in SUBSET (1..n)
      /\ TextAt(q) \cup ReasoningAt(q) \in SUBSET (1..n)
      /\ \A j : CallAt(q, j) \in SUBSET (1..n) /\ IdAt(q, j) \in SUBSET (1..n) /\ NameAt(q, j) \in SUBSET (1..n)
      /\ \A j : CallAt(q, j) = {} <=> j \notin Indices(q)
    BY PlacesType
<1>4. \A N \in SUBSET (1..n) : /\ Pieces(a, u, N) = Pieces(a, q, N)
                               /\ Pieces(a, u, N \cup {n + 1}) = Append(Pieces(a, q, N), p)
    BY PiecesGrow
<1>5. \A N \in SUBSET (1..n) : LastOf(a, N \cup {n + 1}, NoPiece) = p
  <2> HIDE DEF n
  <2>1. ASSUME NEW N \in SUBSET (1..n) PROVE LastOf(a, N \cup {n + 1}, NoPiece) = <<a, n + 1>>
      BY <1>0, LastGrows
  <2> QED BY <2>1 DEF n
<1>6. /\ call.id = LastOf(a, IdAt(q, i), NoPiece) /\ call.name = LastOf(a, NameAt(q, i), NoPiece)
      /\ call.args = Pieces(a, q, CallAt(q, i))
  <2>1. CASE i \in Indices(q)
    <3>1. DOMAIN s.calls = Indices(q) /\ \A j \in Indices(q) : s.calls[j] = ExpectedCall(a, q, j, NoPiece)
        BY DEF Exact
    <3>2. call = ExpectedCall(a, q, i, NoPiece)
        BY <2>1, <3>1
    <3> HIDE DEF call
    <3> QED BY <3>2 DEF ExpectedCall
  <2>2. CASE i \notin Indices(q)
    <3>1. CallAt(q, i) = {} /\ IdAt(q, i) = {} /\ NameAt(q, i) = {}
        BY <1>3, <2>2 DEF IdAt, NameAt
    <3>2. call.id = NoPiece /\ call.name = NoPiece /\ call.args = <<>>
        BY <2>2 DEF Exact, NewCall
    <3>3. Pieces(a, q, {}) = <<>>
      <4>1. Cardinality({}) = 0
          BY FS_EmptySet
      <4> QED BY <4>1 DEF Pieces, Part
    <3> QED BY <3>1, <3>2, <3>3 DEF LastOf
  <2> QED BY <2>1, <2>2
<1> HIDE DEF p, n, i, call, r, u
<1>7. new = ExpectedCall(a, u, i, NoPiece)
  <2>1. (IF d.id THEN p ELSE call.id) = LastOf(a, IdAt(u, i), NoPiece)
      BY <1>0, <1>2, <1>3, <1>5, <1>6
  <2>2. (IF d.name THEN p ELSE call.name) = LastOf(a, NameAt(u, i), NoPiece)
      BY <1>0, <1>2, <1>3, <1>5, <1>6
  <2>3. Append(call.args, p) = Pieces(a, u, CallAt(u, i))
      BY <1>2, <1>3, <1>4, <1>6
  <2> QED BY <2>1, <2>2, <2>3 DEF ExpectedCall
<1> HIDE DEF new
<1>8. ASSUME NEW j \in Indices(u) PROVE r.calls[j] = ExpectedCall(a, u, j, NoPiece)
  <2>1. CASE j = i
      BY <1>1, <1>2, <1>7, <2>1
  <2>2. CASE j # i
    <3>1. r.calls[j] = s.calls[j] /\ s.calls[j] = ExpectedCall(a, q, j, NoPiece)
        BY <1>1, <1>2, <2>2 DEF Exact
    <3>2. CallAt(u, j) = CallAt(q, j) /\ IdAt(u, j) = IdAt(q, j) /\ NameAt(u, j) = NameAt(q, j)
        BY <1>2, <2>2
    <3>3. Pieces(a, u, CallAt(q, j)) = Pieces(a, q, CallAt(q, j))
        BY <1>3, <1>4
    <3> QED BY <3>1, <3>2, <3>3 DEF ExpectedCall
  <2> QED BY <2>1, <2>2
<1>9. r.text = Pieces(a, u, TextAt(u)) /\ r.reasoning = Pieces(a, u, ReasoningAt(u))
    BY <1>1, <1>2, <1>3, <1>4 DEF Exact
<1>10. Part(r.seen, NotBlank(r.seen)) = Pieces(a, u, TextAt(u) \cup ReasoningAt(u))
    BY <1>1, <1>2, <1>3, <1>4 DEF Exact
<1>11. DOMAIN r.calls = Indices(u)
    BY <1>1, <1>2 DEF Exact
<1>12. r.seen \in Seq(Places) /\ r.received \in BOOLEAN /\ (r.received = FALSE => r.seen = <<>>)
    BY <1>1 DEF Exact
<1> QED BY <1>1, <1>8, <1>9, <1>10, <1>11, <1>12 DEF Exact, r, p, u, n

\* Nothing is what has been collected of nothing.
LEMMA NothingExact == \A a : Exact(Nothing, a, <<>>)
<1>1. TextAt(<<>>) = {} /\ ReasoningAt(<<>>) = {} /\ Indices(<<>>) = {}
    BY DEF TextAt, ReasoningAt, Indices
<1>2. \A s : Part(s, {}) = <<>>
  <2>1. Cardinality({}) = 0
      BY FS_EmptySet
  <2> QED BY <2>1 DEF Part
<1>3. \A a : Pieces(a, <<>>, {}) = <<>>
    BY <1>2 DEF Pieces
<1>4. NotBlank(<<>>) = {}
    BY DEF NotBlank
<1>5. /\ DOMAIN Nothing = StreamFields /\ Nothing.text = <<>> /\ Nothing.reasoning = <<>>
      /\ Nothing.calls = <<>> /\ Nothing.seen = <<>> /\ Nothing.received = FALSE
    BY DEF Nothing, StreamFields
<1>6. DOMAIN <<>> = {} /\ <<>> \in Seq(Places)
    OBVIOUS
<1>7. {} \cup {} = {}
    OBVIOUS
<1> QED BY <1>1, <1>2, <1>3, <1>4, <1>5, <1>6, <1>7 DEF Exact

\* An id made up for a call that was given none.
LEMMA FinishedIs ==
    ASSUME NEW a, NEW q, NEW i
    PROVE  Finished(ExpectedCall(a, q, i, NoPiece), i) = ExpectedCall(a, q, i, MadeUp(i))
<1>1. CASE IdAt(q, i) = {}
    BY <1>1 DEF Finished, ExpectedCall, LastOf
<1>2. CASE IdAt(q, i) # {}
  <2> DEFINE top == CHOOSE n \in IdAt(q, i) : \A m \in IdAt(q, i) : m <= n
  <2>1. \A other : LastOf(a, IdAt(q, i), other) = <<a, top>>
      BY <1>2 DEF LastOf
  <2> HIDE DEF top
  <2>2. <<a, top>> # NoPiece
      BY DEF NoPiece
  <2>3. ExpectedCall(a, q, i, NoPiece) = ExpectedCall(a, q, i, MadeUp(i))
      BY <2>1 DEF ExpectedCall
  <2>4. ExpectedCall(a, q, i, NoPiece).id # NoPiece
      BY <2>1, <2>2 DEF ExpectedCall
  <2> QED BY <2>3, <2>4 DEF Finished
<1> QED BY <1>1, <1>2

\* The indices of the calls are finitely many numbers.
LEMMA IndicesType ==
    ASSUME NEW q \in Seq(Deltas)
    PROVE  Indices(q) \in SUBSET Nat /\ IsFiniteSet(Indices(q))
<1> DEFINE M == {m \in 1..Len(q) : q[m].kind = "call"}
<1>1. Len(q) \in Nat /\ \A m \in 1..Len(q) : q[m] \in Deltas
    OBVIOUS
<1>2. IsFiniteSet(1..Len(q))
    BY <1>1, FS_Interval
<1>3. M \subseteq 1..Len(q)
    OBVIOUS
<1>4. IsFiniteSet(M)
    BY <1>2, <1>3, FS_Subset
<1>5. \A m \in M : q[m].idx \in Nat
    BY <1>1, StreamAssumption DEF StreamAssumption
<1>6. Indices(q) = {q[m].idx : m \in M}
    BY DEF Indices
<1> HIDE DEF M
<1>7. IsFiniteSet({q[m].idx : m \in M})
  <2> DEFINE f == [m \in M |-> q[m].idx]
  <2>1. f \in Surjection(M, {q[m].idx : m \in M})
      BY DEF Surjection
  <2> QED BY <1>4, <2>1, FS_Surjection
<1> QED BY <1>5, <1>6, <1>7

\* So what one attempt collected is the response it should be.
LEMMA ExactResponse ==
    ASSUME NEW a \in Nat, NEW q \in Seq(Deltas), NEW s, Exact(s, a, q)
    PROVE  Response(s) = Expected(a, q)
<1>1. /\ s.text = Pieces(a, q, TextAt(q)) /\ s.reasoning = Pieces(a, q, ReasoningAt(q))
      /\ DOMAIN s.calls = Indices(q)
      /\ \A i \in Indices(q) : s.calls[i] = ExpectedCall(a, q, i, NoPiece)
    BY DEF Exact
<1> DEFINE n == Cardinality(Indices(q))
           at(k) == Sorted(Indices(q))[k]
<1>2. ASSUME NEW k \in 1..n
      PROVE  Finished(s.calls[at(k)], at(k)) = ExpectedCall(a, q, at(k), MadeUp(at(k)))
  <2>1. at(k) \in Indices(q)
      BY IndicesType, SortedType
  <2>2. s.calls[at(k)] = ExpectedCall(a, q, at(k), NoPiece)
      BY <1>1, <2>1
  <2> QED BY <2>2, FinishedIs
<1>3. Response(s) = [text |-> s.text, reasoning |-> s.reasoning,
                     calls |-> [k \in 1..n |-> Finished(s.calls[at(k)], at(k))]]
    BY <1>1 DEF Response
<1>4. Expected(a, q) = [text |-> Pieces(a, q, TextAt(q)), reasoning |-> Pieces(a, q, ReasoningAt(q)),
                        calls |-> [k \in 1..n |-> ExpectedCall(a, q, at(k), MadeUp(at(k)))]]
    BY DEF Expected
<1> HIDE DEF n, at
<1>5. [k \in 1..n |-> Finished(s.calls[at(k)], at(k))]
        = [k \in 1..n |-> ExpectedCall(a, q, at(k), MadeUp(at(k)))]
    BY <1>2
<1> QED BY <1>1, <1>3, <1>4, <1>5

\* The streams' invariant: while an attempt runs its collection is exact, and
\* an attempt that waits to be made has left nothing behind.
StreamOK(c) ==
    /\ sent[c] \in Seq(Deltas)
    /\ phase[c] = "running" => Exact(stream[c], attempt[c], sent[c])
    /\ phase[c] = "backoff" => stream[c] = Nothing /\ sent[c] = <<>>

StreamsOK ==
    /\ DOMAIN stream = Streamers /\ DOMAIN sent = Streamers
    /\ \A c \in Streamers : StreamOK(c)

\* The invariant is strong enough.
LEMMA StreamsExact == ASSUME NumOK, StreamsOK PROVE StreamExact
<1>1. \A c \in Streamers : attempt[c] \in Nat
    BY StreamAssumption, BreakerAssumption DEF NumOK, StreamAssumption, BreakerAssumption
<1>2. ASSUME NEW c \in Streamers, phase[c] = "running"
      PROVE  sent[c] \in Seq(Deltas) /\ Exact(stream[c], attempt[c], sent[c])
    BY <1>2 DEF StreamsOK, StreamOK
<1>3. ResponseExact
    BY <1>1, <1>2, ExactResponse DEF ResponseExact
<1>4. GivenOnce
    BY <1>2 DEF GivenOnce, Exact
<1> QED BY <1>3, <1>4 DEF StreamExact

\* It holds of callers that have not called.
LEMMA StreamsInit == StreamInit => StreamsOK
BY StreamAssumption DEF StreamInit, Init, StreamsOK, StreamOK, StreamAssumption

\* A chunk is added to what was collected.
LEMMA ChunkKeeps ==
    ASSUME NumOK, StreamsOK, NEW c \in Streamers, Chunk(c) PROVE StreamOK(c)'
<1>1. PICK d \in Deltas :
        /\ sent' = [sent EXCEPT ![c] = Append(@, d)]
        /\ stream' = [stream EXCEPT ![c] =
              CASE d.kind = "reasoning" -> Reasoned(@, Piece(c))
                [] d.kind = "text"      -> Said(@, Piece(c))
                [] d.kind = "call"      -> Called(@, d, Piece(c))]
    BY DEF Chunk
<1> DEFINE s == stream[c]
           q == sent[c]
           a == attempt[c]
<1>2. phase[c] = "running" /\ phase'[c] = "running" /\ attempt'[c] = a
    BY DEF Chunk, breakerVars, callVars
<1>3. q \in Seq(Deltas) /\ Exact(s, a, q) /\ Piece(c) = <<a, Len(q) + 1>>
    BY <1>2 DEF StreamsOK, StreamOK, Piece
<1>4. a \in Nat
    BY StreamAssumption, BreakerAssumption DEF NumOK, StreamAssumption, BreakerAssumption
<1>5. sent'[c] = Append(q, d) /\ Append(q, d) \in Seq(Deltas)
    BY <1>1, <1>3 DEF StreamsOK
<1>6. stream'[c] = CASE d.kind = "reasoning" -> Reasoned(s, Piece(c))
                     [] d.kind = "text"      -> Said(s, Piece(c))
                     [] d.kind = "call"      -> Called(s, d, Piece(c))
    BY <1>1 DEF StreamsOK
<1>7. d.kind \in {"text", "reasoning", "call"}
    BY StreamAssumption DEF StreamAssumption
<1> HIDE DEF s, q, a
<1>8. Exact(stream'[c], a, Append(q, d))
  <2>1. CASE d.kind = "reasoning"
    <3>1. stream'[c] = Reasoned(s, <<a, Len(q) + 1>>)
        BY <1>3, <1>6, <2>1
    <3> QED BY <1>3, <1>4, <2>1, <3>1, ReasonedExact
  <2>2. CASE d.kind = "text"
    <3>1. stream'[c] = Said(s, <<a, Len(q) + 1>>)
        BY <1>3, <1>6, <2>2
    <3> QED BY <1>3, <1>4, <2>2, <3>1, SaidExact
  <2>3. CASE d.kind = "call"
    <3>1. stream'[c] = Called(s, d, <<a, Len(q) + 1>>)
        BY <1>3, <1>6, <2>3
    <3> QED BY <1>3, <1>4, <2>3, <3>1, CalledExact
  <2> QED BY <1>7, <2>1, <2>2, <2>3
<1> QED BY <1>2, <1>5, <1>8 DEF StreamOK

\* A step that makes a stream anew, or ends it.
LEMMA FreshKeeps ==
    ASSUME StreamsOK, NEW c \in Streamers, Fresh(c) PROVE StreamOK(c)'
<1>1. stream'[c] = Nothing /\ sent'[c] = <<>> /\ <<>> \in Seq(Deltas)
    BY DEF StreamsOK, Fresh
<1>2. Exact(Nothing, attempt'[c], <<>>)
    BY NothingExact
<1> QED BY <1>1, <1>2 DEF StreamOK

\* A retry starts from nothing: what was collected held no text.
LEMMA RetryFresh ==
    ASSUME StreamsOK, NEW c \in Streamers, StreamRetries(c) PROVE Fresh(c)
<1>1. phase[c] = "running" /\ ~stream[c].received
    BY DEF StreamRetries, AttemptFails
<1>2. stream[c].received \in BOOLEAN /\ (stream[c].received = FALSE => stream[c].seen = <<>>)
    BY <1>1 DEF StreamsOK, StreamOK, Exact
<1>3. stream[c].seen = <<>>
    BY <1>1, <1>2
<1>4. [Nothing EXCEPT !.seen = <<>>] = Nothing
    BY DEF Nothing
<1> QED BY <1>3, <1>4 DEF StreamRetries, Fresh

\* Every step keeps the invariant.
LEMMA StreamsStep ==
    ASSUME NumOK, StreamsOK, [StreamNext]_<<breakerVars, streamVars>> PROVE StreamsOK'
<1>1. ASSUME NEW c \in Streamers, StreamStep(c) PROVE StreamsOK'
  <2> c \in Calls
      BY StreamAssumption DEF StreamAssumption
  <2>1. CASE Chunk(c)
    <3>1. DOMAIN stream' = Streamers /\ DOMAIN sent' = Streamers
        BY <2>1 DEF StreamsOK, Chunk
    <3>2. ASSUME NEW d \in Streamers, d # c PROVE StreamOK(d)'
      <4>1. stream'[d] = stream[d] /\ sent'[d] = sent[d] /\ phase'[d] = phase[d] /\ attempt'[d] = attempt[d]
          BY <2>1, <3>2 DEF StreamsOK, Chunk, breakerVars, callVars
      <4> QED BY <4>1 DEF StreamsOK, StreamOK
    <3> QED BY <2>1, <3>1, <3>2, ChunkKeeps DEF StreamsOK
  <2>2. CASE ~Chunk(c)
    <3>1. Fresh(c)
        BY <1>1, <2>2, RetryFresh DEF StreamStep, Opened, StreamEnds, StreamBreaks, StreamRefused,
                                      StreamCancelled
    <3>2. \A d \in Streamers \ {c} : phase'[d] = phase[d] /\ attempt'[d] = attempt[d]
        BY <1>1, <2>2, StreamAssumption
        DEF StreamStep, Opened, StreamEnds, StreamBreaks, StreamRefused, StreamCancelled, StreamRetries,
            Begin, Succeeds, CallFails, BusinessError, Cancelled, AttemptFails, Done, NumOK, StreamAssumption
    <3>3. DOMAIN stream' = Streamers /\ DOMAIN sent' = Streamers
        BY <3>1 DEF StreamsOK, Fresh
    <3>4. ASSUME NEW d \in Streamers, d # c PROVE StreamOK(d)'
      <4>1. stream'[d] = stream[d] /\ sent'[d] = sent[d]
          BY <3>1, <3>4 DEF StreamsOK, Fresh
      <4> QED BY <3>2, <3>4, <4>1 DEF StreamsOK, StreamOK
    <3> QED BY <3>1, <3>3, <3>4, FreshKeeps DEF StreamsOK
  <2> QED BY <2>1, <2>2
<1>2. CASE OtherStep
  <2>1. stream' = stream /\ sent' = sent
      BY <1>2 DEF OtherStep, streamVars
  <2>2. ASSUME NEW c \in Streamers, BackoffOver(c) PROVE StreamsOK'
    <3>1. phase[c] = "backoff" /\ stream[c] = Nothing /\ sent[c] = <<>>
        BY <2>2 DEF BackoffOver, StreamsOK, StreamOK
    <3>2. StreamOK(c)'
      <4>1. Exact(Nothing, attempt'[c], <<>>) /\ <<>> \in Seq(Deltas)
          BY NothingExact
      <4>2. phase'[c] = "running"
          BY <2>2, StreamAssumption DEF BackoffOver, NumOK, StreamAssumption
      <4> QED BY <2>1, <3>1, <4>1, <4>2 DEF StreamOK
    <3>3. \A d \in Streamers \ {c} : phase'[d] = phase[d] /\ attempt'[d] = attempt[d]
        BY <2>2, StreamAssumption DEF BackoffOver, NumOK, StreamAssumption
    <3>4. \A d \in Streamers \ {c} : StreamOK(d)'
        BY <2>1, <3>3 DEF StreamsOK, StreamOK
    <3> QED BY <2>1, <3>2, <3>4 DEF StreamsOK
  <2>3. CASE ~\E c \in Streamers : BackoffOver(c)
    <3>1. \A d \in Streamers : phase'[d] = phase[d] /\ attempt'[d] = attempt[d]
        BY <1>2, <2>3, StreamAssumption
        DEF OtherStep, Begin, Succeeds, CallFails, BusinessError, Cancelled, AttemptFails, Done, Rejected,
            BackoffOver, RecoveryElapses, Reset, TargetChanges, NumOK, breakerVars, callVars, StreamAssumption
    <3> QED BY <2>1, <3>1 DEF StreamsOK, StreamOK
  <2> QED BY <2>2, <2>3
<1>3. CASE UNCHANGED <<breakerVars, streamVars>>
    BY <1>3 DEF StreamsOK, StreamOK, breakerVars, callVars, streamVars
<1> QED BY <1>1, <1>2, <1>3 DEF StreamNext

\* A response is what one attempt sent, whole and in order, whatever was
\* retried before it, and the caller was given its text and reasoning once
\* (LLMClient.chat_stream, llm/client.py).
THEOREM StreamsAreExact == StreamSpec => []StreamExact
<1>1. BreakerInv => NumOK
  BY DEF BreakerInv
<1>2. StreamSpec => []BreakerInv
  BY StreamsUseTheBreaker, InvHolds, PTL
<1>3. StreamInit => StreamsOK
  BY StreamsInit
<1>4. NumOK /\ StreamsOK /\ [StreamNext]_<<breakerVars, streamVars>> => StreamsOK'
  BY StreamsStep
<1>5. NumOK /\ StreamsOK => StreamExact
  BY StreamsExact
<1> QED BY <1>1, <1>2, <1>3, <1>4, <1>5, PTL DEF StreamSpec
=============================================================================
