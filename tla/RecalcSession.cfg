\* One session through requests, refusals, failures, license changes and restarts.
SPECIFICATION Spec
CONSTANTS
    Absent = 0
    MaxBranches = 0
    Digests <- TwoDigests
    Workflows <- Requests
    Capabilities <- AnyCapabilities
    Retargets <- AllRetargets
    Supports <- GridOrNot
    Resumes <- Handed
INVARIANTS HeldIsAfresh ExecutablePlanRuns
