---------------------------- MODULE MCRecalcPlan ----------------------------
(***************************************************************************)
(* Small instances of RecalcPlan for TLC.                                  *)
(***************************************************************************)
EXTENDS RecalcPlan, TLC

TwoDigests == {1, 2}

\* A native workflow declares every single input but the standing ones, and the
\* four derived stages.
NativeStages == {Identification, ScoreArtifact, Law, Decision}
                  \cup {Input(n) : n \in SingleInput \ {"Calibration", "Representation", "Coupling"}}

\* The workflows that differ from a native one in the given stages only.
Varying(choices) ==
    {[s \in Stages |-> IF s \in DOMAIN f THEN f[s] ELSE IF s \in NativeStages THEN 1 ELSE Absent] :
        f \in {g \in [DOMAIN choices -> {Absent, 1, 2}] : \A s \in DOMAIN choices : g[s] \in choices[s]}}

Either == {1, 2}
Maybe == {Absent, 1}

\* Inputs at each distance from the decision, one standing input that comes and
\* goes, and a score artifact declared with another estimator.
StandingWorkflows ==
    Varying(Input("Graph") :> Either @@ DataSnapshot :> Either @@ TargetPopulation :> Either
            @@ Input("Calibration") :> {Absent, 1, 2})

\* An external study with its provider, in or out of the workflow.
BranchWorkflows ==
    Varying(<<"ExternalStudy", 0>> :> {Absent, 1, 2}
            @@ <<"ProviderStanding", 0>> :> Maybe @@ <<"ProviderRequest", 0>> :> Maybe)

AllWorkflows == StandingWorkflows \cup BranchWorkflows

InProcess == {[retarget |-> r, request |-> q, boundary |-> {}] :
                 r \in Retarget, q \in {"OnGrid", "OffGrid", "Unsupported"}}
\* portable_fit only words the refusal of a score artifact; a score artifact that
\* rests on the target population is tried with its scores and the data at hand.
Fresh == {c \in [retarget : {"Licensed", "NotDeclared"}, request : {"OnGrid"},
                 boundary : {{r} : r \in {x \in ResumeContext : ~x.portable_fit}}] :
             c.retarget = "NotDeclared" =>
                 \A r \in c.boundary : r.portable_scores /\ r.supplied_data}
Every == InProcess \cup Fresh
=============================================================================
