SPECIFICATION FairSpec
CONSTANTS
    Tools = {"a", "b"}
    Routed = {"a"}
    Pipelines <- MCPipelines
    Writers = {"first", "second", "loop", "tool", "user"}
    Drivers = {"loop", "tool"}
    Results <- MCResults
    BatchSize = 2
    AutoFixMaxAttempts = 2
    PromotionMinSuccesses = 1
    FailuresToFix = 2
    HasLLM = TRUE
    MaxActs = 1
INVARIANTS
    EvolutionSound
    KnowledgeSound
PROPERTIES
    Settles
CHECK_DEADLOCK FALSE
