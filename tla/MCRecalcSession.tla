-------------------------- MODULE MCRecalcSession --------------------------
(***************************************************************************)
(* Small instances of RecalcSession for TLC.                               *)
(***************************************************************************)
EXTENDS RecalcSession, TLC

TwoDigests == {1, 2}

\* The stages a RecalcRequest declares, and the inputs two requests may differ in.
RequestStages == {Identification, ScoreArtifact, Law, Decision}
                   \cup {Input(n) : n \in SingleInput \ {"Calibration", "Representation", "Coupling"}}
RequestInputs == {Input("Graph"), DataSnapshot, TargetPopulation, Input("Utility")}

Requests == {[s \in Stages |-> IF s \in RequestInputs THEN f[s]
                               ELSE IF s \in RequestStages THEN 1 ELSE Absent] :
                f \in [RequestInputs -> {1, 2}]}

AnyCapabilities == RecalcCapabilities
AllRetargets == Retarget
GridOrNot == {"OnGrid", "OffGrid"}
Handed == {c \in ResumeContext : ~c.portable_fit /\ ~c.supplied_provider}
=============================================================================
