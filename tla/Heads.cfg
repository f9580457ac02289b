CONSTANTS
    Callers = {c1}
    Fields = {f1}
    Kinds = {"breaking", "major"}
    Declared <- OneVersion
    MaxCalls = 4
SPECIFICATION Spec
INVARIANT UniqueHead
CHECK_DEADLOCK FALSE
