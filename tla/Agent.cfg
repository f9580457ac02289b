SPECIFICATION FairSpec
CONSTANTS
    Tools <- MCTools
    Initial = {"base"}
    OwnTools = {"base"}
    SharedTools = {"base", "x", "y"}
    LineageOf <- MCLineageOf
    Needs <- MCNeeds
    Risky = {"y"}
    Sensitive = {"y"}
    AutoApproved = {}
    RecycleAfter = 1
    MaxHot = 2
    Setups <- MCSetups
    TopK = 1
    MaxIter = 2
    MaxAsks = 2
    MaxTurns <- MCMaxTurns
    MaxDecisions = 1
INVARIANTS
    AccessSound
    ConversationSound
PROPERTIES
    DecisionsFinal
    RunReturns
CHECK_DEADLOCK FALSE
