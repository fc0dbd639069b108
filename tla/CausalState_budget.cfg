\* Two queries published in batches, slots and results under one byte budget.
SPECIFICATION Spec
CONSTANTS
    j1 = j1  b1 = b1  i1 = i1  x = x  a1 = a1  d1 = d1
    MaxQueries = 2
    MaxVersion = 3
    MaxBatch = 2
    Jobs <- Jobs1
    Batches <- B1
    ReplaceVersions <- V0
    Interventions <- None
    EvidenceIds <- X
    ConstraintIds <- None
    Assumptions <- None
    Forms <- FullOnly
    UncheckedForms <- None
    ResultBytes <- OneTwo
    SlotsUsed <- Slots
    DiagKeys <- D1
    DiagBytes <- Two
    Budgets <- LimitedAndNot
    U64Max = 4
INVARIANTS StaleIffNotValid BudgetExact SlotsFollowData
CHECK_DEADLOCK FALSE
