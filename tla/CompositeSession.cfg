\* Branches with side effects and changing studies, native inputs and terminal
\* contracts, with refused and failing runs rolled back.
SPECIFICATION Spec
CONSTANTS
    NoKey = "no key"
    Requests <- MixedRequests
    Branches <- ThreeBranches
    Natives <- ThreeNatives
    CallContexts <- WithOrWithout
    Terminals = {1}
    Values = {10}
    AttemptLimit = 2
    EpochLimit = 100
    MaxCalls = 2
INVARIANTS PublishedHangsTogether AttemptsSurvive NoRunIsLostLate
PROPERTIES VolatileBranchesAreEntered SideEffectsKept
