SPECIFICATION StreamSpec
CONSTANTS
    Calls = {c1, c2, c3}
    Cancellable = {c1, c2}
    Streamers = {c1}
    Deltas <- MCDeltas
    MaxChunks = 2
    Threshold = 2
    MaxProbes = 2
    MaxRetries = 1
INVARIANTS
    TripsInTime
    SlotsHeld
    StreamExact
PROPERTIES
    Recovers
CHECK_DEADLOCK FALSE
