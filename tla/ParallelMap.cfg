\* Up to six indices on up to three workers, any set of failing indices.
SPECIFICATION FairSpec
CONSTANTS
    MaxN = 6
    MaxThreads = 3
INVARIANTS TypeOK FailingChunkStops
PROPERTIES AnswersLikeSerial Returns
CHECK_DEADLOCK FALSE
