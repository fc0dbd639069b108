----------------------------- MODULE RecalcPlan -----------------------------
(***************************************************************************)
(* The selective-recalculation planner of antecedent-core (recalc.rs).     *)
(*                                                                         *)
(* A workflow gives the declared own digest of each of its stages.  A plan *)
(* compares a requested workflow with the previous one and decides, stage  *)
(* by stage in dependency order, whether the stage's artifact is reused,   *)
(* recomputed or refused.  RecalcPlan::plan walks Stage::all(); here one   *)
(* step visits all stages of a rank, which read only lower ranks.          *)
(*                                                                         *)
(* A digest is modelled by what it is taken of.  The effective identity of *)
(* a stage covers its own digest and the effective identities of its       *)
(* dependencies, so two of them are equal exactly when the digests they    *)
(* cover are: variable same keeps that comparison for each visited stage.  *)
(***************************************************************************)
EXTENDS Integers, Sequences, FiniteSetsExt

CONSTANTS
    MaxBranches,   \* MAX_EXTERNAL_BRANCHES
    Digests,       \* own digests a stage may declare
    Absent,        \* StageIdentity::ABSENT: the stage is not declared
    Workflows,     \* workflows a caller may request
    Capabilities   \* capabilities a plan may be made under

Branch == 0..(MaxBranches - 1)

SingleInput == {"Graph", "Query", "Regime", "Evidence", "SourcePopulation", "TargetPopulation",
                "DataSnapshot", "RowDesign", "TreatmentGrid", "LearnerFoldsRng", "Utility",
                "Calibration", "Representation", "Coupling"}
BranchInput   == {"ExternalStudy", "ProviderStanding"}
BranchDerived == {"ProviderRequest", "Prior"}

\* The derived stages without a branch, one per rank from Identification on.
Identification == <<"Identification", 0>>
ScoreArtifact  == <<"ScoreArtifact", 0>>
Law            == <<"Law", 0>>
Decision       == <<"Decision", 0>>

Input(n) == <<n, 0>>
DataSnapshot     == Input("DataSnapshot")
TargetPopulation == Input("TargetPopulation")
TreatmentGrid    == Input("TreatmentGrid")

Stages == {Identification, ScoreArtifact, Law, Decision}
            \cup (SingleInput \X {0})
            \cup ((BranchInput \cup BranchDerived) \X Branch)

IsInput(s) == s[1] \in SingleInput \cup BranchInput

\* Stages of one rank do not depend on each other.
Rank(s) ==
    IF IsInput(s) THEN 0
    ELSE IF s = ScoreArtifact THEN 2 ELSE IF s = Law THEN 3 ELSE IF s = Decision THEN 4 ELSE 1
Planned == 5

Workflow == [Stages -> Digests \cup {Absent}]

Retarget == {"Licensed", "NotDeclared", "Incompatible"}
ResumeContext == [portable_fit : BOOLEAN, portable_scores : BOOLEAN,
                  scores_snapshot_bound : BOOLEAN, supplied_data : BOOLEAN,
                  supplied_provider : BOOLEAN]
\* boundary is {} in process, and {resume} in a fresh process holding resume.
RecalcCapabilities == [retarget : Retarget, request : {"OnGrid", "OffGrid", "Unsupported"},
                       boundary : {{}} \cup {{r} : r \in ResumeContext}]

ASSUME PlanAssumption ==
    /\ MaxBranches \in Nat
    /\ Absent \notin Digests
    /\ Workflows \subseteq Workflow
    /\ Capabilities \subseteq RecalcCapabilities

\* Every session that declares a score artifact declares the snapshot it is of.
ASSUME SnapshotAssumption ==
    \A w \in Workflows : w[ScoreArtifact] # Absent => w[DataSnapshot] # Absent

VARIABLES
    previous,   \* the workflow whose artifacts the caller holds
    requested,  \* the workflow being planned
    caps,       \* the capabilities it is planned under
    rank,       \* next rank to visit, Planned once the plan is complete
    statuses,   \* Planner::statuses
    same        \* visited stages whose effective identity is the previous one

planVars == <<previous, requested, caps, rank, statuses, same>>

\* What StageStatus says of a stage: the decision, why, and the stage it is due to.
NoStatus(s)             == [tag |-> "none", change |-> "none", origin |-> s]
Reused(s)               == [tag |-> "reused", change |-> "none", origin |-> s]
Recomputed(change, s)   == [tag |-> "recomputed", change |-> change, origin |-> s]
RefusedFor(reason, by)  == [tag |-> "refused", change |-> reason, origin |-> by]

EmptyWorkflow == [s \in Stages |-> Absent]
Contains(w, s) == w[s] # Absent

-----------------------------------------------------------------------------
(* Dependencies and identities.                                            *)

Inputs(names) == [i \in DOMAIN names |-> Input(names[i])]

IdentifyDeps == Inputs(<<"Graph", "Query", "Regime", "Evidence">>)

ScoreDeps(retarget) ==
    IF retarget = "NotDeclared"
    THEN <<Identification, DataSnapshot, Input("RowDesign"), TreatmentGrid, Input("LearnerFoldsRng"),
           Input("SourcePopulation"), TargetPopulation, Input("Representation")>>
    ELSE <<Identification, DataSnapshot, Input("RowDesign"), TreatmentGrid, Input("LearnerFoldsRng"),
           Input("SourcePopulation"), Input("Representation")>>

LawDeps == <<ScoreArtifact, TargetPopulation, Input("Calibration"), Input("Coupling")>>

RequestDeps(b) ==
    <<<<"ExternalStudy", b>>, Input("Graph"), Input("Query"), Input("Regime"), Input("Evidence"),
      Input("SourcePopulation"), TargetPopulation, TreatmentGrid, <<"ProviderStanding", b>>>>

PriorDeps(b) ==
    <<<<"ExternalStudy", b>>, Input("Evidence"), Input("Graph"), Input("Query"), Input("Regime"),
      Input("SourcePopulation"), TargetPopulation, TreatmentGrid, <<"ProviderStanding", b>>>>

DecisionDeps ==
    [i \in 1..(4 + 2 * MaxBranches) |->
        CASE i = 1 -> Law
          [] i = 2 -> Input("Utility")
          [] i = 3 -> Input("Calibration")
          [] i = 4 -> Input("Coupling")
          [] i > 4 /\ i % 2 = 1 -> <<"Prior", (i - 5) \div 2>>
          [] OTHER -> <<"ProviderRequest", (i - 6) \div 2>>]

\* Declared edges, primary dependency first.
Dependencies(s, retarget) ==
    IF s = Law THEN LawDeps
    ELSE IF s = Identification THEN IdentifyDeps
    ELSE IF s = ScoreArtifact THEN ScoreDeps(retarget)
    ELSE IF s = Decision THEN DecisionDeps
    ELSE IF s[1] = "ProviderRequest" THEN RequestDeps(s[2])
    ELSE IF s[1] = "Prior" THEN PriorDeps(s[2])
    ELSE <<>>

Deps(s) == Dependencies(s, caps.retarget)

\* StageIdentities::effective of the two workflows agree on s.
SameIdentity(s) ==
    /\ Contains(previous, s)
    /\ previous[s] = requested[s]
    /\ \A i \in DOMAIN Deps(s) :
          LET d == Deps(s)[i]
          IN  IF Contains(requested, d) THEN d \in same ELSE ~Contains(previous, d)

-----------------------------------------------------------------------------
(* Planner::decide.                                                        *)

OwnChange(s) ==
    IF ~Contains(requested, s) THEN "none"
    ELSE IF ~Contains(previous, s) THEN "Added"
    ELSE IF previous[s] # requested[s] THEN "Modified" ELSE "none"

\* Planner::changed holds the stages recomputed for a change, with its origin.
Changed(s) == statuses[s].tag = "recomputed" /\ statuses[s].change # "FreshProcess"
Removed(s) == Contains(previous, s) /\ ~Contains(requested, s)

\* Mutant: a dependency that is gone is not looked for.
EdgeMoved_ChangedOnly(d) == Changed(d)

EdgeMoved(d) == Changed(d) \/ Removed(d)

FirstEdge(deps, S) == deps[Min(S)]

\* Mutant: the direct dependency is named as the origin of the change.
ByChange_NamesEdge(s) ==
    LET moved == {i \in DOMAIN Deps(s) : EdgeMoved(Deps(s)[i])}
        via   == FirstEdge(Deps(s), moved)
    IN  IF OwnChange(s) # "none" THEN Recomputed(OwnChange(s), s)
        ELSE IF moved = {} THEN Reused(IF Deps(s) = <<>> THEN s ELSE Deps(s)[1])
        ELSE Recomputed(IF Changed(via) THEN statuses[via].change ELSE "Removed", via)

ByChange(s) ==
    LET moved == {i \in DOMAIN Deps(s) : EdgeMoved(Deps(s)[i])}
        via   == FirstEdge(Deps(s), moved)
    IN  IF OwnChange(s) # "none" THEN Recomputed(OwnChange(s), s)
        ELSE IF moved = {} THEN Reused(IF Deps(s) = <<>> THEN s ELSE Deps(s)[1])
        ELSE IF Changed(via) THEN Recomputed(statuses[via].change, statuses[via].origin)
        ELSE Recomputed("Removed", via)

RefusedEdges(s, skip) ==
    {i \in DOMAIN Deps(s) : Deps(s)[i] \notin skip /\ statuses[Deps(s)[i]].tag = "refused"}

\* Mutant: portable scores are taken whatever their identity.
FreshScores_AnyIdentity(resume) ==
    IF resume.portable_scores THEN Reused(Identification)
    ELSE IF resume.supplied_data THEN Recomputed("FreshProcess", ScoreArtifact)
    ELSE RefusedFor("Unavailable", ScoreArtifact)

\* The score artifact in a fresh process.
FreshScores(resume) ==
    LET blocked == RefusedEdges(ScoreArtifact, {DataSnapshot})
        status  == ByChange(ScoreArtifact)
        unchanged == status.tag = "reused"
    IN  IF blocked # {} THEN RefusedFor("Blocked", FirstEdge(Deps(ScoreArtifact), blocked))
        ELSE IF ~resume.supplied_data /\ OwnChange(DataSnapshot) = "Modified"
        THEN RefusedFor("Unavailable", ScoreArtifact)
        ELSE IF unchanged /\ resume.portable_scores THEN status
        ELSE IF resume.supplied_data
        THEN IF unchanged THEN Recomputed("FreshProcess", ScoreArtifact) ELSE status
        ELSE RefusedFor("Unavailable", ScoreArtifact)

\* Inputs a fresh process must have been given.
SnapshotUnavailable(resume) ==
    ~(\/ resume.supplied_data
      \/ /\ resume.portable_scores
         /\ resume.scores_snapshot_bound
         /\ Contains(previous, DataSnapshot)
         /\ OwnChange(DataSnapshot) = "none")

Unavailable(s, resume) ==
    \/ s = DataSnapshot /\ SnapshotUnavailable(resume)
    \/ s[1] = "ProviderRequest" /\ ~resume.supplied_provider

\* Mutant: a refused dependency does not block.
Continue_Unblocked(s) ==
    IF caps.boundary # {} /\ ~IsInput(s) /\ ByChange(s).tag = "reused"
    THEN Recomputed("FreshProcess", s)
    ELSE ByChange(s)

\* The part of decide after the request and the fresh process were looked at.
Continue(s) ==
    LET blocked == RefusedEdges(s, {})
    IN  IF blocked # {} THEN RefusedFor("Blocked", FirstEdge(Deps(s), blocked))
        ELSE IF s = Law /\ caps.retarget = "Incompatible" /\ Changed(TargetPopulation)
        THEN RefusedFor("RetargetIncompatible", Law)
        ELSE IF caps.boundary # {} /\ ~IsInput(s) /\ ByChange(s).tag = "reused"
        THEN Recomputed("FreshProcess", s)
        ELSE ByChange(s)

Decide(s) ==
    LET resume == CHOOSE r \in caps.boundary : TRUE
    IN  IF s = TreatmentGrid /\ caps.request # "OnGrid" THEN RefusedFor(caps.request, s)
        ELSE IF caps.boundary = {} THEN Continue(s)
        ELSE IF Unavailable(s, resume) THEN RefusedFor("Unavailable", s)
        ELSE IF s = ScoreArtifact THEN FreshScores(resume)
        ELSE Continue(s)

-----------------------------------------------------------------------------
(* The planning loop.                                                      *)

NoCapabilities == [retarget |-> "Licensed", request |-> "OnGrid", boundary |-> {}]

\* No plan is being made or held.
Idle == /\ rank = Planned
        /\ statuses = [s \in Stages |-> NoStatus(s)]

PlanInit ==
    /\ previous = EmptyWorkflow
    /\ requested = EmptyWorkflow
    /\ caps = NoCapabilities
    /\ rank = Planned
    /\ statuses = [s \in Stages |-> NoStatus(s)]
    /\ same = {}

Begin(w, c) ==
    /\ Idle
    /\ requested' = w
    /\ caps' = c
    /\ rank' = 0
    /\ UNCHANGED <<previous, statuses, same>>

Visiting == {s \in Stages : Rank(s) = rank /\ Contains(requested, s)}

Visit ==
    /\ rank < Planned
    /\ statuses' = [s \in Stages |-> IF s \in Visiting THEN Decide(s) ELSE statuses[s]]
    /\ same' = same \cup {s \in Visiting : SameIdentity(s)}
    /\ rank' = rank + 1
    /\ UNCHANGED <<previous, requested, caps>>

Executable == \A s \in Stages : statuses[s].tag # "refused"

\* The caller is done with a plan: it ran it and holds its artifacts, or not.
Close(held) ==
    /\ ~Idle /\ rank = Planned
    /\ previous' = held
    /\ statuses' = [s \in Stages |-> NoStatus(s)]
    /\ same' = {}
    /\ requested' = EmptyWorkflow
    /\ caps' = NoCapabilities
    /\ UNCHANGED rank

Retain == Executable /\ Close(requested)
Drop   == Close(previous)

PlanNext ==
    \/ \E w \in Workflows, c \in Capabilities : Begin(w, c)
    \/ Visit
    \/ Retain
    \/ Drop

PlanSpec == PlanInit /\ [][PlanNext]_planVars

-----------------------------------------------------------------------------
(* Properties.                                                             *)

\* In one process a stage that is not refused is reused exactly when its effective
\* identity is the previous one: decide looks at direct edges only, and still
\* neither reuses an artifact whose inputs moved anywhere upstream nor recomputes
\* one whose inputs did not.
ReusedIffUnchanged ==
    caps.boundary = {} =>
        \A s \in Stages :
            /\ statuses[s].tag = "reused" => s \in same
            /\ statuses[s].tag = "recomputed" => s \notin same

\* In a fresh process no derived stage is reused except a score artifact whose
\* portable scores were supplied and whose identity, through every edge, is the
\* previous one (RecalcPlan::plan, fresh_scores).
FreshReusesOnlyPortableScores ==
    \A resume \in caps.boundary : \A s \in Stages :
        statuses[s].tag = "reused" /\ ~IsInput(s) =>
            s = ScoreArtifact /\ resume.portable_scores /\ s \in same

\* A stage downstream of a refusal is never promised: every dependency of a stage
\* that is reused or recomputed is itself served, save a score artifact's
\* snapshot, whose refusal still leaves the plan not executable.
ServedRestsOnServed ==
    \A s \in Stages :
        statuses[s].tag \in {"reused", "recomputed"} =>
            \A i \in DOMAIN Deps(s) :
                LET d == Deps(s)[i]
                IN  statuses[d].tag = "refused" => s = ScoreArtifact /\ d = DataSnapshot

\* The origin a recomputation names is a stage whose own declaration really was
\* added, removed or modified in that way, however far upstream it lies.
OriginReallyChanged ==
    \A s \in Stages :
        LET o == statuses[s].origin
        IN  Changed(s) =>
              \/ statuses[s].change = "Added" /\ ~Contains(previous, o) /\ Contains(requested, o)
              \/ statuses[s].change = "Removed" /\ Contains(previous, o) /\ ~Contains(requested, o)
              \/ /\ statuses[s].change = "Modified"
                 /\ Contains(previous, o) /\ Contains(requested, o) /\ previous[o] # requested[o]
=============================================================================
