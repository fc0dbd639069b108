\* Every kind of combination over every kind of lineage and overlap, with sources
\* retired under the results.
SPECIFICATION Spec
CONSTANTS
    Unknown = Unknown
    Declarations <- Evidence
    MaxSources = 3
    MaxResults = 3
    MaxOperations = 5
    MaxObservations = 6
CHECK_DEADLOCK FALSE
INVARIANTS TypeOK ValidRestsOnUsable StandingIsCurrent CountedOnce
PROPERTY StandingsOnlyWorsen
