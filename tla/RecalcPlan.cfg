\* Plans in one process under every license, and across a process boundary with
\* every combination of what was supplied.
SPECIFICATION PlanSpec
CONSTANTS
    Absent = 0
    MaxBranches = 1
    Digests <- TwoDigests
    Workflows <- AllWorkflows
    Capabilities <- Every
INVARIANTS ReusedIffUnchanged ServedRestsOnServed OriginReallyChanged FreshReusesOnlyPortableScores
