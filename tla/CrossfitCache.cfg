\* Two queries share propensity and outcome fits under a tight bound.
SPECIFICATION Spec
CONSTANTS
    s1 = s1  s2 = s2  k1 = k1  k2 = k2  y1 = y1  y2 = y2  p1 = p1  p2 = p2
    Scopes <- TwoScopes
    Keys <- TwoKeys
    Outcomes <- TwoOutcomes
    Builds <- Grids
    Problems <- TwoProblems
    KeyCost = 2
    OutcomeCost = 1
    ProblemCost <- TwoCosts
    MaxRetained = 6
    MaxPreparations = 1
    MaxTasks = 2
INVARIANTS FitOnce ReuseIsExact RetainedIsExact SharingIsReal
PROPERTY EveryScopeEnds
