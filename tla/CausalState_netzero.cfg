\* A constraint added and removed again between two publications.
SPECIFICATION Spec
CONSTANTS
    j1 = j1  b1 = b1  i1 = i1  x = x  a1 = a1  d1 = d1
    MaxQueries = 1
    MaxVersion = 4
    MaxBatch = 1
    Jobs <- Jobs1
    Batches <- None
    ReplaceVersions <- None
    Interventions <- None
    EvidenceIds <- None
    ConstraintIds <- X
    Assumptions <- None
    Forms <- FullOnly
    UncheckedForms <- FullOnly
    ResultBytes <- One
    SlotsUsed <- None
    DiagKeys <- None
    DiagBytes <- None
    Budgets <- One
    U64Max = 3
INVARIANTS HonestRecomputationAccepted
CHECK_DEADLOCK FALSE
