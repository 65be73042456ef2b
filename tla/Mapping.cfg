SPECIFICATION FairSpec
CONSTANTS
    MaxSessions = 1
    MaxCalls = 2
    MaxFaults = 1
    Ops = {"start", "stop", "pause", "resume", "save", "finish", "discard", "recover", "load", "resync"}
INVARIANTS
    StacksNeverOverlap
    SlamFollowsState
PROPERTIES
    
    LastRequestIsAnswered
CHECK_DEADLOCK FALSE
