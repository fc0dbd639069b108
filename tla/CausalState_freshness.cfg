\* Every event kind, one query: the state reports freshness exactly.
SPECIFICATION Spec
CONSTANTS
    j1 = j1  b1 = b1  i1 = i1  x = x  a1 = a1  d1 = d1
    MaxQueries = 1
    MaxVersion = 4
    MaxBatch = 1
    Jobs <- Jobs1
    Batches <- B1
    ReplaceVersions <- V0
    Interventions <- I1
    EvidenceIds <- None
    ConstraintIds <- X
    Assumptions <- A1
    Forms <- AllForms
    UncheckedForms <- AllForms
    ResultBytes <- One
    SlotsUsed <- None
    DiagKeys <- None
    DiagBytes <- None
    Budgets <- One
    U64Max = 3
INVARIANTS TypeOK ClassMatchesHistory FreshIsCurrent
PROPERTIES RepublicationMovesLayers
CHECK_DEADLOCK FALSE
