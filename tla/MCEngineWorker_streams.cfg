SPECIFICATION WorkerFairSpec
CONSTANTS
    Requests = {r1, r2, r3}
    Null = Null
INVARIANTS
    StreamsNeverMix
    CleanEndIsWhole
PROPERTIES
    InstanceComesBack
