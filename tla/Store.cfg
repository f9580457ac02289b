CONSTANTS
    Callers = {c1, c2}
    Fields = {f1, f2}
    Kinds = {"breaking", "major"}
    Declared <- OneVersion
    MaxCalls = 3
SPECIFICATION Spec
SYMMETRY Interchangeable
INVARIANT StoreSound
PROPERTY HistoryKept
CHECK_DEADLOCK FALSE
