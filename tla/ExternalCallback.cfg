\* One session through every policy, failing and succeeding providers, and restarts.
SPECIFICATION CallbackSpec
CONSTANTS
    NoKey = "no key"
    Requests <- AllPolicies
    Values = {10, 20}
    AttemptLimit = 2
    EpochLimit = 100
    MaxCalls = 3
INVARIANTS TypeOK ReuseIsOfPureRequest IssuesReproduced KeyedRetryIsAdmitted
PROPERTY SessionKeepsEffects
