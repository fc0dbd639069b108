\* Two threads, a signal, a user's token and a stash with room for two failures.
SPECIFICATION Spec
CONSTANTS
    main = main  other = other  u = u
    Threads <- TwoThreads
    Main <- main
    UserTokens <- OneToken
    PruneFloor = 1
    MaxStashed = 2
    MaxCalls <- Calls
    MaxContexts = 2
    MaxSignals = 1
    MaxIds = 3
CHECK_DEADLOCK FALSE
INVARIANTS ContextIsLinked AttributionIsOwn
PROPERTY InterruptStopsRun
