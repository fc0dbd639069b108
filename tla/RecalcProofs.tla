---------------------------- MODULE RecalcProofs ----------------------------
(***************************************************************************)
(* Proofs about RecalcPlan and RecalcSession, for any number of external   *)
(* branches, any workflows and any capabilities.                           *)
(***************************************************************************)
EXTENDS RecalcSession, FiniteSetTheorems, WellFoundedInduction, TLAPS

\* Every stage has a rank from 0 to 4.
LEMMA RankType == \A s \in Stages : Rank(s) \in 0..4
  BY DEF Rank

\* What any caller of the planner does with it: a plan of a requested workflow
\* under any capabilities, its visits, and its end.
PlannerStep ==
    \/ \E w \in Workflows, c \in RecalcCapabilities : Begin(w, c)
    \/ Visit
    \/ Retain
    \/ Drop

\* Each edge of the dependency table leads to a stage of a lower rank, so a stage
\* is decided after everything decide reads of it.
LEMMA EdgesDescend ==
  ASSUME NEW s \in Stages, NEW r, NEW i \in DOMAIN Dependencies(s, r)
  PROVE  /\ Dependencies(s, r)[i] \in Stages
         /\ Rank(Dependencies(s, r)[i]) < Rank(s)
<1> USE DEF Rank, IsInput, SingleInput, BranchInput, BranchDerived, Stages, Input,
            Identification, ScoreArtifact, Law, Decision, DataSnapshot, TargetPopulation,
            TreatmentGrid
<1>1. CASE s = Law
  BY <1>1 DEF Dependencies, LawDeps
<1>2. CASE s = Identification
  BY <1>2 DEF Dependencies, IdentifyDeps, Inputs
<1>3. CASE s = ScoreArtifact
  BY <1>3 DEF Dependencies, ScoreDeps
<1>4. CASE s = Decision
  <2>1. Dependencies(s, r) = DecisionDeps
    BY <1>4 DEF Dependencies
  <2>2. i \in 1..(4 + 2 * MaxBranches)
    BY <2>1 DEF DecisionDeps
  <2>3. MaxBranches \in Nat
    BY PlanAssumption
  <2>4. CASE i \in {1, 2, 3, 4}
    <3>1. DecisionDeps[i] \in {Law, Input("Utility"), Input("Calibration"), Input("Coupling")}
      BY <2>2, <2>4 DEF DecisionDeps
    <3> QED BY <1>4, <2>1, <3>1
  <2>5. CASE i > 4 /\ i % 2 = 1
    <3>1. PICK b \in Int : b = (i - 5) \div 2
      BY <2>2, <2>3
    <3>2. b \in 0..(MaxBranches - 1)
      BY <2>2, <2>3, <2>5, <3>1
    <3>3. DecisionDeps[i] = <<"Prior", b>>
      BY <2>2, <2>5, <3>1 DEF DecisionDeps
    <3> QED BY <1>4, <2>1, <3>2, <3>3 DEF Branch
  <2>6. CASE i > 4 /\ i % 2 # 1
    <3>1. PICK b \in Int : b = (i - 6) \div 2
      BY <2>2, <2>3
    <3>2. b \in 0..(MaxBranches - 1)
      BY <2>2, <2>3, <2>6, <3>1
    <3>3. DecisionDeps[i] = <<"ProviderRequest", b>>
      BY <2>2, <2>6, <3>1 DEF DecisionDeps
    <3> QED BY <1>4, <2>1, <3>2, <3>3 DEF Branch
  <2> QED BY <2>2, <2>3, <2>4, <2>5, <2>6
<1>5. CASE s[1] = "ProviderRequest"
  BY <1>5 DEF Dependencies, RequestDeps
<1>6. CASE s[1] = "Prior"
  BY <1>6 DEF Dependencies, PriorDeps
<1>7. CASE s # Law /\ s # Identification /\ s # ScoreArtifact /\ s # Decision
             /\ s[1] # "ProviderRequest" /\ s[1] # "Prior"
  BY <1>7 DEF Dependencies
<1> QED BY <1>1, <1>2, <1>3, <1>4, <1>5, <1>6, <1>7

-----------------------------------------------------------------------------
(* The shape of a plan under way.                                          *)

\* The stages decided so far are the requested ones below the current rank, and
\* only they are compared with the previous workflow.
PlanShape ==
    /\ rank \in 0..Planned
    /\ \A s \in Stages : statuses[s].tag # "none" <=> Contains(requested, s) /\ Rank(s) < rank
    /\ \A s \in Stages : statuses[s].tag \in {"none", "reused", "recomputed", "refused"}
    /\ \A s \in same : s \in Stages /\ Contains(requested, s) /\ Rank(s) < rank

\* What a decision can be: reused, recomputed or refused.
LEMMA DecideTag == \A s : Decide(s).tag \in {"reused", "recomputed", "refused"}
<1> SUFFICES ASSUME NEW s PROVE Decide(s).tag \in {"reused", "recomputed", "refused"}
  OBVIOUS
<1>1. ByChange(s).tag \in {"reused", "recomputed"}
  BY DEF ByChange, Reused, Recomputed
<1>2. Continue(s).tag \in {"reused", "recomputed", "refused"}
  BY <1>1 DEF Continue, RefusedFor, Recomputed
<1>3. \A r : FreshScores(r).tag \in {"reused", "recomputed", "refused"}
  <2>1. ByChange(ScoreArtifact).tag \in {"reused", "recomputed"}
    BY DEF ByChange, Reused, Recomputed
  <2> QED BY <2>1 DEF FreshScores, RefusedFor, Recomputed
<1> QED BY <1>2, <1>3 DEF Decide, RefusedFor

\* A plan starts and ends with no stage decided.
LEMMA ShapeInit == PlanInit => PlanShape
  BY RankType DEF PlanInit, PlanShape, NoStatus, Contains, EmptyWorkflow, Planned

\* When no plan is held nothing is compared.
LEMMA IdleSameEmpty == PlanShape /\ Idle => same = {}
  BY RankType DEF PlanShape, Idle, NoStatus, Planned

\* A visit decides exactly the requested stages of its rank.
LEMMA ShapeStep == PlanShape /\ [PlannerStep]_planVars => PlanShape'
<1> SUFFICES ASSUME PlanShape, [PlannerStep]_planVars PROVE PlanShape'
  OBVIOUS
<1>1. ASSUME NEW w \in Workflows, NEW c \in RecalcCapabilities, Begin(w, c) PROVE PlanShape'
  BY <1>1, IdleSameEmpty, RankType DEF PlanShape, Begin, Idle, NoStatus, Planned
<1>2. CASE Visit
  <2>1. rank \in 0..4 /\ rank' = rank + 1
    BY <1>2 DEF Visit, PlanShape, Planned
  <2>2. \A s \in Stages : statuses'[s].tag # "none"
                             <=> Contains(requested', s) /\ Rank(s) < rank'
    <3> SUFFICES ASSUME NEW s \in Stages
                 PROVE  statuses'[s].tag # "none" <=> Contains(requested', s) /\ Rank(s) < rank'
      OBVIOUS
    <3>1. statuses'[s] = IF s \in Visiting THEN Decide(s) ELSE statuses[s]
      BY <1>2 DEF Visit
    <3>2. Decide(s).tag # "none"
      BY DecideTag
    <3> QED BY <1>2, <2>1, <3>1, <3>2, RankType DEF Visit, Visiting, PlanShape, Contains
  <2>3. \A s \in same' : s \in Stages /\ Contains(requested', s) /\ Rank(s) < rank'
    BY <1>2, <2>1, RankType DEF Visit, Visiting, PlanShape, Contains
  <2>4. \A s \in Stages : statuses'[s].tag \in {"none", "reused", "recomputed", "refused"}
    BY <1>2, DecideTag DEF Visit, PlanShape
  <2> QED BY <2>1, <2>2, <2>3, <2>4 DEF PlanShape, Planned
<1>3. ASSUME NEW held, Close(held) PROVE PlanShape'
  BY <1>3 DEF Close, PlanShape, NoStatus, Contains, EmptyWorkflow
<1>4. CASE UNCHANGED planVars
  BY <1>4 DEF PlanShape, planVars, Contains
<1> QED BY <1>1, <1>2, <1>3, <1>4 DEF PlannerStep, Retain, Drop

-----------------------------------------------------------------------------
(* Reuse.                                                                  *)

\* The previous workflow is one a caller requested before, or none.
PreviousInv == previous \in Workflows \cup {EmptyWorkflow}

\* The inductive form of the two reuse properties.  A recomputation that names a
\* change is of a stage whose identity moved, one forced by a fresh process is
\* not; so the set by_change looks at is the set of decided, moved stages.
ReuseInv ==
    /\ \A s \in Stages :
          /\ statuses[s].tag = "reused" => s \in same
          /\ statuses[s].tag = "recomputed" => (s \in same <=> statuses[s].change = "FreshProcess")
          /\ statuses[s].tag = "recomputed" /\ caps.boundary = {} =>
                statuses[s].change # "FreshProcess"
          /\ statuses[s].tag = "reused" /\ ~IsInput(s) =>
                \A r \in caps.boundary : s = ScoreArtifact /\ r.portable_scores
    /\ \A s \in Stages :
          /\ IsInput(s) /\ Contains(requested, s) /\ Rank(s) < rank
          /\ Contains(previous, s) /\ previous[s] = requested[s]
          => s \in same

\* The caller only ever keeps a workflow it requested.
RequestedInv == requested \in Workflows \cup {EmptyWorkflow}

\* The two workflows of a plan come from the caller's set.
LEMMA WorkflowStep ==
  PreviousInv /\ RequestedInv /\ [PlannerStep]_planVars => PreviousInv' /\ RequestedInv'
  BY DEF PreviousInv, RequestedInv, PlannerStep, Begin, Visit, Retain, Drop, Close, planVars

\* One decision of by_change, from what was decided for its direct edges.
LEMMA ByChangeExact ==
  ASSUME PlanShape, ReuseInv,
         NEW s \in Stages, Rank(s) = rank, Contains(requested, s),
         \A i \in DOMAIN Deps(s) : statuses[Deps(s)[i]].tag = "refused" => Deps(s)[i] \in same
  PROVE  /\ ByChange(s).tag = "reused" => SameIdentity(s)
         /\ ByChange(s).tag = "recomputed" =>
                ~SameIdentity(s) /\ ByChange(s).change # "FreshProcess"
<1> DEFINE moved == {i \in DOMAIN Deps(s) : EdgeMoved(Deps(s)[i])}
<1>1. \A i \in DOMAIN Deps(s) : Deps(s)[i] \in Stages /\ Rank(Deps(s)[i]) < rank
  BY EdgesDescend DEF Deps
<1>3. CASE OwnChange(s) # "none"
  <2>1. ByChange(s) = Recomputed(OwnChange(s), s)
    BY <1>3 DEF ByChange
  <2>2. OwnChange(s) # "FreshProcess"
    BY DEF OwnChange
  <2>3. ~SameIdentity(s)
    BY <1>3 DEF OwnChange, SameIdentity
  <2> QED BY <2>1, <2>2, <2>3 DEF Recomputed
<1>4. CASE OwnChange(s) = "none" /\ moved = {}
  <2>1. ByChange(s).tag = "reused"
    BY <1>4 DEF ByChange, Reused
  <2>2. Contains(previous, s) /\ previous[s] = requested[s]
    BY <1>4 DEF OwnChange
  <2>3. ASSUME NEW i \in DOMAIN Deps(s)
        PROVE  IF Contains(requested, Deps(s)[i]) THEN Deps(s)[i] \in same
               ELSE ~Contains(previous, Deps(s)[i])
    <3> DEFINE d == Deps(s)[i]
    <3>1. ~Changed(d) /\ ~Removed(d)
      BY <1>4 DEF EdgeMoved
    <3>2. CASE Contains(requested, d)
      <4>1. statuses[d].tag \in {"reused", "recomputed", "refused"}
        BY <1>1, <3>2 DEF PlanShape
      <4>2. statuses[d].tag = "recomputed" => d \in same
        BY <1>1, <3>1 DEF Changed, ReuseInv
      <4>3. statuses[d].tag = "reused" => d \in same
        BY <1>1 DEF ReuseInv
      <4> QED BY <3>2, <4>1, <4>2, <4>3
    <3>3. CASE ~Contains(requested, d)
      BY <3>1, <3>3 DEF Removed
    <3> QED BY <3>2, <3>3
  <2> QED BY <2>1, <2>2, <2>3 DEF SameIdentity
<1>5. CASE OwnChange(s) = "none" /\ moved # {}
  <2>1. PICK i \in DOMAIN Deps(s) : EdgeMoved(Deps(s)[i])
    BY <1>5
  <2> DEFINE d == Deps(s)[i]
  <2>2. ~SameIdentity(s)
    <3>1. CASE Changed(d)
      <4>1. d \notin same /\ Contains(requested, d)
        BY <1>1, <3>1 DEF Changed, ReuseInv, PlanShape
      <4> QED BY <4>1 DEF SameIdentity
    <3>2. CASE Removed(d)
      BY <3>2 DEF Removed, SameIdentity
    <3> QED BY <2>1, <3>1, <3>2 DEF EdgeMoved
  <2> DEFINE via == FirstEdge(Deps(s), moved)
  <2>3. ByChange(s) = IF Changed(via) THEN Recomputed(statuses[via].change, statuses[via].origin)
                      ELSE Recomputed("Removed", via)
    BY <1>5 DEF ByChange
  <2>4. ByChange(s).change # "FreshProcess"
    BY <2>3 DEF Changed, Recomputed
  <2>5. ByChange(s).tag = "recomputed"
    BY <2>3 DEF Recomputed
  <2> QED BY <2>2, <2>4, <2>5
<1> QED BY <1>3, <1>4, <1>5

\* What decide's last part returns is right for the stage it is asked about.
LEMMA ContinueExact ==
  ASSUME PlanShape, ReuseInv, NEW s \in Stages, Rank(s) = rank, Contains(requested, s)
  PROVE  LET st == Continue(s)
         IN  /\ st.tag = "reused" => SameIdentity(s)
             /\ st.tag = "recomputed" => (SameIdentity(s) <=> st.change = "FreshProcess")
             /\ st.tag = "recomputed" /\ caps.boundary = {} => st.change # "FreshProcess"
             /\ st.tag = "reused" /\ ~IsInput(s) => caps.boundary = {}
<1>1. CASE RefusedEdges(s, {}) # {}
  BY <1>1 DEF Continue, RefusedFor
<1>2. CASE RefusedEdges(s, {}) = {}
  <2>1. \A i \in DOMAIN Deps(s) : statuses[Deps(s)[i]].tag # "refused"
    BY <1>2 DEF RefusedEdges
  <2>2. /\ ByChange(s).tag = "reused" => SameIdentity(s)
        /\ ByChange(s).tag = "recomputed" =>
              ~SameIdentity(s) /\ ByChange(s).change # "FreshProcess"
    BY <2>1, ByChangeExact
  <2>3. ByChange(s).tag \in {"reused", "recomputed"}
    BY DEF ByChange, Reused, Recomputed
  <2> QED BY <1>2, <2>2, <2>3 DEF Continue, RefusedFor, Recomputed
<1> QED BY <1>1, <1>2

\* A stage that is not declared derived has no dependencies.
LEMMA InputHasNoDeps == \A r : \A s \in Stages : IsInput(s) => Dependencies(s, r) = <<>>
  BY DEF IsInput, Dependencies, SingleInput, BranchInput, Law, Identification, ScoreArtifact,
         Decision

\* Portable scores are reused only when nothing they were frozen on moved, the
\* snapshot included although its own refusal is passed over.
LEMMA FreshScoresExact ==
  ASSUME PlanShape, ReuseInv, PreviousInv, NEW r \in caps.boundary,
         Rank(ScoreArtifact) = rank, Contains(requested, ScoreArtifact),
         r.supplied_data => statuses[DataSnapshot].tag # "refused"
  PROVE  LET st == FreshScores(r)
         IN  /\ st.tag = "reused" => SameIdentity(ScoreArtifact) /\ r.portable_scores
             /\ st.tag = "recomputed" =>
                    (SameIdentity(ScoreArtifact) <=> st.change = "FreshProcess")
<1> DEFINE S == ScoreArtifact
<1>0. S \in Stages /\ DataSnapshot \in Stages /\ IsInput(DataSnapshot)
  BY DEF Stages, DataSnapshot, Input, IsInput, SingleInput
<1>1. CASE RefusedEdges(S, {DataSnapshot}) # {}
  BY <1>1 DEF FreshScores, RefusedFor
<1>2. CASE ~r.supplied_data /\ OwnChange(DataSnapshot) = "Modified"
  BY <1>2 DEF FreshScores, RefusedFor
<1>3. CASE /\ RefusedEdges(S, {DataSnapshot}) = {}
           /\ ~(~r.supplied_data /\ OwnChange(DataSnapshot) = "Modified")
           /\ OwnChange(S) = "none"
  <2>1. Contains(previous, DataSnapshot)
    <3>1. Contains(previous, S)
      BY <1>3 DEF OwnChange
    <3> QED BY <1>0, <3>1, SnapshotAssumption DEF PreviousInv, Contains, EmptyWorkflow
  <2>2. \A i \in DOMAIN Deps(S) :
           statuses[Deps(S)[i]].tag = "refused" => Deps(S)[i] \in same
    <3> SUFFICES ASSUME NEW i \in DOMAIN Deps(S), statuses[Deps(S)[i]].tag = "refused"
                 PROVE  Deps(S)[i] \in same
      OBVIOUS
    <3>1. Deps(S)[i] = DataSnapshot
      BY <1>3 DEF RefusedEdges
    <3>2. ~r.supplied_data
      BY <3>1
    <3>3. Contains(requested, DataSnapshot) /\ Rank(DataSnapshot) < rank
      BY <1>0, <3>1 DEF PlanShape
    <3>4. previous[DataSnapshot] = requested[DataSnapshot]
      BY <1>3, <2>1, <3>2, <3>3 DEF OwnChange
    <3> QED BY <1>0, <2>1, <3>1, <3>3, <3>4 DEF ReuseInv
  <2>3. /\ ByChange(S).tag = "reused" => SameIdentity(S)
        /\ ByChange(S).tag = "recomputed" =>
              ~SameIdentity(S) /\ ByChange(S).change # "FreshProcess"
    BY <1>0, <2>2, ByChangeExact
  <2>4. ByChange(S).tag \in {"reused", "recomputed"}
    BY DEF ByChange, Reused, Recomputed
  <2> QED BY <1>3, <2>3, <2>4 DEF FreshScores, RefusedFor, Recomputed
<1>4. CASE /\ RefusedEdges(S, {DataSnapshot}) = {}
           /\ ~(~r.supplied_data /\ OwnChange(DataSnapshot) = "Modified")
           /\ OwnChange(S) # "none"
  <2>1. ByChange(S) = Recomputed(OwnChange(S), S)
    BY <1>4 DEF ByChange
  <2>2. ~SameIdentity(S) /\ OwnChange(S) # "FreshProcess"
    BY <1>4 DEF OwnChange, SameIdentity
  <2> QED BY <1>4, <2>1, <2>2 DEF FreshScores, RefusedFor, Recomputed
<1> QED BY <1>1, <1>2, <1>3, <1>4

\* Capabilities are well formed, and a fresh process that was given data has its
\* snapshot served.
BoundaryInv ==
    /\ caps \in RecalcCapabilities
    /\ \A r \in caps.boundary : r.supplied_data => statuses[DataSnapshot].tag # "refused"

\* A boundary names at most one resume context, the one decide works with.
LEMMA OneContext ==
  ASSUME caps \in RecalcCapabilities, NEW r \in caps.boundary
  PROVE  caps.boundary # {} /\ (CHOOSE x \in caps.boundary : TRUE) = r
<1>1. caps.boundary \in {{}} \cup {{x} : x \in ResumeContext}
  BY DEF RecalcCapabilities
<1>2. \A x, y \in caps.boundary : x = y
  BY <1>1
<1> QED BY <1>2

\* Both invariants hold of a planner that has planned nothing.
LEMMA ReuseInit == PlanInit => ReuseInv /\ PreviousInv /\ RequestedInv /\ BoundaryInv
<1> SUFFICES ASSUME PlanInit PROVE ReuseInv /\ PreviousInv /\ RequestedInv /\ BoundaryInv
  OBVIOUS
<1>1. PreviousInv /\ RequestedInv
  BY DEF PlanInit, PreviousInv, RequestedInv
<1>2. BoundaryInv
  BY DEF PlanInit, BoundaryInv, NoCapabilities, RecalcCapabilities, Retarget
<1>3. ReuseInv
  BY DEF PlanInit, ReuseInv, NoStatus, Contains, EmptyWorkflow
<1> QED BY <1>1, <1>2, <1>3

\* Supplied data is enough for the snapshot stage.
LEMMA BoundaryStep ==
  PlanShape /\ BoundaryInv /\ [PlannerStep]_planVars => BoundaryInv'
<1> SUFFICES ASSUME PlanShape, BoundaryInv, [PlannerStep]_planVars PROVE BoundaryInv'
  OBVIOUS
<1>0. DataSnapshot \in Stages /\ IsInput(DataSnapshot)
  BY DEF Stages, DataSnapshot, Input, IsInput, SingleInput
<1>1. ASSUME NEW w \in Workflows, NEW c \in RecalcCapabilities, Begin(w, c) PROVE BoundaryInv'
  <2>1. caps' \in RecalcCapabilities
    BY <1>1 DEF Begin
  <2>2. statuses'[DataSnapshot].tag = "none"
    BY <1>0, <1>1 DEF Begin, Idle, NoStatus
  <2> QED BY <2>1, <2>2 DEF BoundaryInv
<1>2. CASE Visit
  <2> SUFFICES ASSUME NEW r \in caps.boundary, r.supplied_data,
                      statuses'[DataSnapshot].tag = "refused"
               PROVE  FALSE
    BY <1>2 DEF Visit, BoundaryInv
  <2>1. DataSnapshot \in Visiting /\ statuses'[DataSnapshot] = Decide(DataSnapshot)
    BY <1>0, <1>2 DEF Visit, BoundaryInv
  <2>2. Deps(DataSnapshot) = <<>>
    BY <1>0, InputHasNoDeps DEF Deps
  <2>3. RefusedEdges(DataSnapshot, {}) = {}
    BY <2>2 DEF RefusedEdges
  <2>4. Continue(DataSnapshot).tag # "refused"
    BY <1>0, <2>3 DEF Continue, ByChange, Reused, Recomputed, Law, DataSnapshot, Input
  <2>5. ~Unavailable(DataSnapshot, r)
    BY DEF Unavailable, SnapshotUnavailable, DataSnapshot, Input
  <2>6. Decide(DataSnapshot) = Continue(DataSnapshot)
    BY <2>5, OneContext DEF BoundaryInv, Decide, TreatmentGrid, ScoreArtifact, DataSnapshot, Input
  <2> QED BY <2>1, <2>4, <2>6
<1>3. ASSUME NEW held, Close(held) PROVE BoundaryInv'
  BY <1>3 DEF Close, BoundaryInv, NoCapabilities, RecalcCapabilities, Retarget
<1>4. CASE UNCHANGED planVars
  BY <1>4 DEF BoundaryInv, planVars
<1> QED BY <1>1, <1>2, <1>3, <1>4 DEF PlannerStep, Retain, Drop

\* decide itself, whatever the boundary.
LEMMA DecideExact ==
  ASSUME PlanShape, ReuseInv, PreviousInv, BoundaryInv,
         NEW s \in Stages, Rank(s) = rank, Contains(requested, s)
  PROVE  LET st == Decide(s)
         IN  /\ st.tag = "reused" => SameIdentity(s)
             /\ st.tag = "recomputed" => (SameIdentity(s) <=> st.change = "FreshProcess")
             /\ st.tag = "recomputed" /\ caps.boundary = {} => st.change # "FreshProcess"
             /\ st.tag = "reused" /\ ~IsInput(s) =>
                    \A r \in caps.boundary : s = ScoreArtifact /\ r.portable_scores
<1>1. CASE s = TreatmentGrid /\ caps.request # "OnGrid"
  BY <1>1 DEF Decide, RefusedFor
<1>2. CASE ~(s = TreatmentGrid /\ caps.request # "OnGrid") /\ caps.boundary = {}
  <2>1. Decide(s) = Continue(s)
    BY <1>2 DEF Decide
  <2> QED BY <1>2, <2>1, ContinueExact
<1>3. CASE ~(s = TreatmentGrid /\ caps.request # "OnGrid") /\ caps.boundary # {}
  <2>1. PICK r \in caps.boundary : TRUE
    BY <1>3
  <2>2. (CHOOSE x \in caps.boundary : TRUE) = r /\ \A x \in caps.boundary : x = r
    BY <2>1, OneContext DEF BoundaryInv
  <2>3. CASE Unavailable(s, r)
    BY <1>3, <2>2, <2>3 DEF Decide, RefusedFor
  <2>4. CASE ~Unavailable(s, r) /\ s = ScoreArtifact
    <3>1. Decide(s) = FreshScores(r)
      BY <1>3, <2>2, <2>4 DEF Decide
    <3>2. r.supplied_data => statuses[DataSnapshot].tag # "refused"
      BY DEF BoundaryInv
    <3>3. /\ FreshScores(r).tag = "reused" => SameIdentity(ScoreArtifact) /\ r.portable_scores
          /\ FreshScores(r).tag = "recomputed" =>
                (SameIdentity(ScoreArtifact) <=> FreshScores(r).change = "FreshProcess")
      BY <2>4, <3>2, FreshScoresExact
    <3> QED BY <1>3, <2>2, <2>4, <3>1, <3>3
  <2>5. CASE ~Unavailable(s, r) /\ s # ScoreArtifact
    <3>1. Decide(s) = Continue(s)
      BY <1>3, <2>2, <2>5 DEF Decide
    <3> QED BY <1>3, <3>1, ContinueExact
  <2> QED BY <2>3, <2>4, <2>5
<1> QED BY <1>1, <1>2, <1>3

\* Every action keeps the reuse invariant.
LEMMA ReuseStep ==
  PlanShape /\ ReuseInv /\ PreviousInv /\ BoundaryInv /\ [PlannerStep]_planVars => ReuseInv'
<1> SUFFICES ASSUME PlanShape, ReuseInv, PreviousInv, BoundaryInv, [PlannerStep]_planVars
             PROVE  ReuseInv'
  OBVIOUS
<1>1. ASSUME NEW w \in Workflows, NEW c \in RecalcCapabilities, Begin(w, c) PROVE ReuseInv'
  <2>1. \A s \in Stages : statuses'[s].tag = "none" /\ ~(Rank(s) < rank')
    BY <1>1, RankType DEF Begin, Idle, NoStatus
  <2> QED BY <2>1 DEF ReuseInv
<1>2. CASE Visit
  <2>0. UNCHANGED <<previous, requested, caps>>
    BY <1>2 DEF Visit
  <2>1. ASSUME NEW s \in Stages, s \in Visiting
        PROVE  /\ statuses'[s] = Decide(s)
               /\ s \in same' <=> SameIdentity(s)
               /\ Rank(s) = rank /\ Contains(requested, s)
    BY <1>2, <2>1 DEF Visit, Visiting, PlanShape
  <2>2. ASSUME NEW s \in Stages, s \notin Visiting
        PROVE  statuses'[s] = statuses[s] /\ (s \in same' <=> s \in same)
    BY <1>2, <2>2 DEF Visit
  <2>3. ASSUME NEW s \in Stages
        PROVE  /\ statuses'[s].tag = "reused" => s \in same'
               /\ statuses'[s].tag = "recomputed" =>
                     (s \in same' <=> statuses'[s].change = "FreshProcess")
               /\ statuses'[s].tag = "recomputed" /\ caps.boundary = {} =>
                     statuses'[s].change # "FreshProcess"
               /\ statuses'[s].tag = "reused" /\ ~IsInput(s) =>
                     \A r \in caps.boundary : s = ScoreArtifact /\ r.portable_scores
    <3>1. CASE s \in Visiting
      BY <2>1, <3>1, DecideExact
    <3>2. CASE s \notin Visiting
      BY <2>2, <3>2 DEF ReuseInv
    <3> QED BY <3>1, <3>2
  <2>4. ASSUME NEW s \in Stages, IsInput(s), Contains(requested, s), Rank(s) < rank',
               Contains(previous, s), previous[s] = requested[s]
        PROVE  s \in same'
    <3>1. CASE s \in Visiting
      <4>1. Deps(s) = <<>>
        BY <2>4, InputHasNoDeps DEF Deps
      <4>2. SameIdentity(s)
        BY <2>4, <4>1 DEF SameIdentity
      <4> QED BY <2>1, <3>1, <4>2
    <3>2. CASE s \notin Visiting
      <4>1. Rank(s) < rank
        BY <1>2, <2>4, <3>2, RankType DEF Visit, Visiting, PlanShape, Planned
      <4> QED BY <2>2, <2>4, <3>2, <4>1 DEF ReuseInv
    <3> QED BY <3>1, <3>2
  <2> QED BY <2>0, <2>3, <2>4 DEF ReuseInv, Contains
<1>3. ASSUME NEW held, Close(held) PROVE ReuseInv'
  BY <1>3 DEF Close, ReuseInv, NoStatus, Contains, EmptyWorkflow
<1>4. CASE UNCHANGED planVars
  BY <1>4 DEF ReuseInv, planVars, Contains
<1> QED BY <1>1, <1>2, <1>3, <1>4 DEF PlannerStep, Retain, Drop

\* What the reuse properties rest on holds in every reachable state.
THEOREM ReuseInvariant ==
  PlanSpec => [](PlanShape /\ ReuseInv /\ PreviousInv /\ RequestedInv /\ BoundaryInv)
<1>1. [PlanNext]_planVars => [PlannerStep]_planVars
  BY PlanAssumption DEF PlanNext, PlannerStep
<1> QED
  BY <1>1, ShapeInit, ReuseInit, ShapeStep, ReuseStep, WorkflowStep, BoundaryStep, PTL DEF PlanSpec

\* In one process RecalcPlan::plan reuses a stage it serves exactly when the stage's
\* effective identity did not move.
THEOREM ReuseExact == PlanSpec => []ReusedIffUnchanged
<1>1. ReuseInv => ReusedIffUnchanged
  BY DEF ReuseInv, ReusedIffUnchanged
<1> QED BY <1>1, ReuseInvariant, PTL

\* In a fresh process the only derived stage RecalcPlan::plan reuses is a score
\* artifact with supplied portable scores and an unmoved identity.
THEOREM FreshReuse == PlanSpec => []FreshReusesOnlyPortableScores
<1>1. ReuseInv => FreshReusesOnlyPortableScores
  BY DEF ReuseInv, FreshReusesOnlyPortableScores
<1> QED BY <1>1, ReuseInvariant, PTL

-----------------------------------------------------------------------------
(* Refusals and origins.                                                   *)

\* What decide serves has no refused dependency, save a score artifact's snapshot.
LEMMA DecideServed ==
  ASSUME NEW s \in Stages, Decide(s).tag \in {"reused", "recomputed"}
  PROVE  \A i \in DOMAIN Deps(s) :
            statuses[Deps(s)[i]].tag = "refused" => s = ScoreArtifact /\ Deps(s)[i] = DataSnapshot
<1> DEFINE r == CHOOSE x \in caps.boundary : TRUE
<1>1. CASE Decide(s) = Continue(s)
  <2>1. RefusedEdges(s, {}) = {}
    BY <1>1 DEF Continue, RefusedFor
  <2> QED BY <2>1 DEF RefusedEdges
<1>2. CASE s = ScoreArtifact /\ Decide(s) = FreshScores(r)
  <2>1. RefusedEdges(ScoreArtifact, {DataSnapshot}) = {}
    BY <1>2 DEF FreshScores, RefusedFor
  <2> QED BY <1>2, <2>1 DEF RefusedEdges
<1>3. Decide(s) = Continue(s) \/ (s = ScoreArtifact /\ Decide(s) = FreshScores(r))
  BY DEF Decide, RefusedFor
<1> QED BY <1>1, <1>2, <1>3

\* The dependencies of a stage under visit were all decided before it, so a later
\* visit never refuses what a served stage rests on.
LEMMA ServedStep ==
  PlanShape /\ ServedRestsOnServed /\ [PlannerStep]_planVars => ServedRestsOnServed'
<1> SUFFICES ASSUME PlanShape, ServedRestsOnServed, [PlannerStep]_planVars
             PROVE  ServedRestsOnServed'
  OBVIOUS
<1>1. ASSUME NEW w \in Workflows, NEW c \in RecalcCapabilities, Begin(w, c)
      PROVE  ServedRestsOnServed'
  <2>1. \A s \in Stages : statuses'[s].tag = "none"
    BY <1>1 DEF Begin, Idle, NoStatus
  <2> QED BY <2>1 DEF ServedRestsOnServed
<1>2. CASE Visit
  <2> SUFFICES ASSUME NEW s \in Stages, statuses'[s].tag \in {"reused", "recomputed"},
                      NEW i \in DOMAIN Deps(s), statuses'[Deps(s)[i]].tag = "refused"
               PROVE  s = ScoreArtifact /\ Deps(s)[i] = DataSnapshot
    BY <1>2 DEF ServedRestsOnServed, Visit, Deps
  <2> DEFINE d == Deps(s)[i]
  <2>1. d \in Stages /\ Rank(d) < Rank(s)
    BY EdgesDescend DEF Deps
  <2>2. Rank(s) \in 0..4 /\ Rank(d) \in 0..4 /\ rank \in 0..Planned
    BY <2>1, RankType DEF PlanShape
  <2>3. Rank(s) =< rank
    BY <1>2, <2>2 DEF Visit, Visiting, PlanShape, Planned
  <2>4. statuses'[d] = statuses[d]
    BY <1>2, <2>1, <2>2, <2>3 DEF Visit, Visiting, Planned
  <2>5. CASE s \in Visiting
    <3>1. statuses'[s] = Decide(s)
      BY <1>2, <2>5 DEF Visit
    <3> QED BY <2>4, <3>1, DecideServed
  <2>6. CASE s \notin Visiting
    <3>1. statuses'[s] = statuses[s]
      BY <1>2, <2>6 DEF Visit
    <3> QED BY <2>4, <3>1 DEF ServedRestsOnServed
  <2> QED BY <2>5, <2>6
<1>3. ASSUME NEW held, Close(held) PROVE ServedRestsOnServed'
  BY <1>3 DEF Close, ServedRestsOnServed, NoStatus
<1>4. CASE UNCHANGED planVars
  BY <1>4 DEF ServedRestsOnServed, planVars, Deps
<1> QED BY <1>1, <1>2, <1>3, <1>4 DEF PlannerStep, Retain, Drop

\* A plan never promises a stage downstream of a refused one: the walk in
\* dependency order carries every refusal to everything that rests on it.
THEOREM ServedSound == PlanSpec => []ServedRestsOnServed
<1>1. PlanInit => ServedRestsOnServed
  BY DEF PlanInit, ServedRestsOnServed, NoStatus
<1>2. [PlanNext]_planVars => [PlannerStep]_planVars
  BY PlanAssumption DEF PlanNext, PlannerStep
<1> QED BY <1>1, <1>2, ServedStep, ReuseInvariant, PTL DEF PlanSpec

\* The first of a set of positions exists: intervals 0..x are well-founded under
\* inclusion.
LEMMA LeastPosition ==
  ASSUME NEW S, S \subseteq Nat, S # {}
  PROVE  Min(S) \in S
<1> DEFINE T == {0..x : x \in S}
<1>1. T \subseteq FiniteSubsetsOf(Nat) /\ T # {}
  <2>1. \A x \in S : 0..x \in SUBSET Nat /\ IsFiniteSet(0..x)
    BY FS_Interval
  <2> QED BY <2>1 DEF FiniteSubsetsOf
<1>2. PICK t \in T : \A u \in T : <<u, t>> \notin StrictSubsetOrdering(Nat)
  <2> HIDE DEF T
  <2> QED BY <1>1, WFMin, FS_StrictSubsetOrderingWellFounded
<1>3. PICK x \in S : t = 0..x
  OBVIOUS
<1>4. ASSUME NEW y \in S PROVE x =< y
  <2>1. 0..y \in T
    OBVIOUS
  <2>2. <<0..y, 0..x>> \notin StrictSubsetOrdering(Nat)
    BY <1>2, <1>3, <2>1
  <2>3. ~(0..y \subseteq 0..x /\ 0..y # 0..x)
    BY <2>2 DEF StrictSubsetOrdering
  <2>4. CASE y < x
    <3>1. 0..y \subseteq 0..x
      BY <2>4
    <3>2. x \in 0..x /\ x \notin 0..y
      BY <2>4
    <3> QED BY <2>3, <3>1, <3>2
  <2> QED BY <2>4
<1> QED BY <1>4 DEF Min

\* Edges are listed by position.
LEMMA EdgePositions == \A s \in Stages : \A r : DOMAIN Dependencies(s, r) \subseteq Nat
<1> SUFFICES ASSUME NEW s \in Stages, NEW r PROVE DOMAIN Dependencies(s, r) \subseteq Nat
  OBVIOUS
<1>1. DOMAIN DecisionDeps \subseteq Nat
  BY DEF DecisionDeps
<1>2. DOMAIN LawDeps \subseteq Nat /\ DOMAIN IdentifyDeps \subseteq Nat
  BY DEF LawDeps, IdentifyDeps, Inputs
<1>3. DOMAIN ScoreDeps(r) \subseteq Nat
  BY DEF ScoreDeps
<1>4. \A b : DOMAIN RequestDeps(b) \subseteq Nat /\ DOMAIN PriorDeps(b) \subseteq Nat
  BY DEF RequestDeps, PriorDeps
<1> QED BY <1>1, <1>2, <1>3, <1>4 DEF Dependencies

\* What OriginReallyChanged says of one status.
TrueOrigin(st) ==
    \/ st.change = "Added" /\ ~Contains(previous, st.origin) /\ Contains(requested, st.origin)
    \/ st.change = "Removed" /\ Contains(previous, st.origin) /\ ~Contains(requested, st.origin)
    \/ /\ st.change = "Modified"
       /\ Contains(previous, st.origin) /\ Contains(requested, st.origin)
       /\ previous[st.origin] # requested[st.origin]

\* by_change names the stage's own change, the origin its first moved edge names,
\* or that edge when it is gone.
LEMMA ByChangeOrigin ==
  ASSUME OriginReallyChanged, NEW s \in Stages, ByChange(s).tag = "recomputed"
  PROVE  TrueOrigin(ByChange(s))
<1> DEFINE moved == {i \in DOMAIN Deps(s) : EdgeMoved(Deps(s)[i])}
           via == FirstEdge(Deps(s), moved)
<1>1. CASE OwnChange(s) # "none"
  <2>1. ByChange(s) = Recomputed(OwnChange(s), s)
    BY <1>1 DEF ByChange
  <2> QED BY <1>1, <2>1 DEF OwnChange, TrueOrigin, Recomputed
<1>2. CASE OwnChange(s) = "none" /\ moved # {}
  <2>1. moved \subseteq Nat
    BY EdgePositions DEF Deps
  <2>2. Min(moved) \in moved
    <3> HIDE DEF moved
    <3> QED BY <1>2, <2>1, LeastPosition
  <2>3. via \in Stages /\ EdgeMoved(via)
    BY <2>2, EdgesDescend DEF FirstEdge, Deps
  <2>4. ByChange(s) = IF Changed(via) THEN Recomputed(statuses[via].change, statuses[via].origin)
                      ELSE Recomputed("Removed", via)
    BY <1>2 DEF ByChange
  <2> HIDE DEF via
  <2>5. CASE Changed(via)
    BY <2>3, <2>4, <2>5 DEF OriginReallyChanged, TrueOrigin, Recomputed
  <2>6. CASE ~Changed(via)
    BY <2>3, <2>4, <2>6 DEF EdgeMoved, Removed, TrueOrigin, Recomputed
  <2> QED BY <2>5, <2>6
<1>3. CASE OwnChange(s) = "none" /\ moved = {}
  BY <1>3 DEF ByChange, Reused
<1> QED BY <1>1, <1>2, <1>3

\* A decision to recompute either is forced by a fresh process or names its change.
LEMMA DecideOrigin ==
  ASSUME OriginReallyChanged, NEW s \in Stages,
         Decide(s).tag = "recomputed", Decide(s).change # "FreshProcess"
  PROVE  TrueOrigin(Decide(s))
<1> DEFINE r == CHOOSE x \in caps.boundary : TRUE
<1>1. Decide(s) = Continue(s) \/ (s = ScoreArtifact /\ Decide(s) = FreshScores(r))
  BY DEF Decide, RefusedFor
<1>2. Continue(s).tag = "recomputed" /\ Continue(s).change # "FreshProcess"
        => Continue(s) = ByChange(s)
  BY DEF Continue, RefusedFor, Recomputed
<1>3. /\ FreshScores(r).tag = "recomputed" /\ FreshScores(r).change # "FreshProcess"
      => FreshScores(r) = ByChange(ScoreArtifact)
  BY DEF FreshScores, RefusedFor, Recomputed
<1> QED BY <1>1, <1>2, <1>3, ByChangeOrigin

\* Every action keeps the origins true: the two workflows stay while a plan is made.
LEMMA OriginStep == OriginReallyChanged /\ [PlannerStep]_planVars => OriginReallyChanged'
<1> SUFFICES ASSUME OriginReallyChanged, [PlannerStep]_planVars PROVE OriginReallyChanged'
  OBVIOUS
<1>1. ASSUME NEW w \in Workflows, NEW c \in RecalcCapabilities, Begin(w, c)
      PROVE  OriginReallyChanged'
  BY <1>1 DEF Begin, Idle, NoStatus, OriginReallyChanged, Changed
<1>2. CASE Visit
  <2> SUFFICES ASSUME NEW s \in Stages, Changed(s)' PROVE TrueOrigin(statuses[s])'
    BY DEF OriginReallyChanged, TrueOrigin
  <2>0. UNCHANGED <<previous, requested>>
    BY <1>2 DEF Visit
  <2>1. CASE s \in Visiting
    <3>1. statuses'[s] = Decide(s)
      BY <1>2, <2>1 DEF Visit
    <3>2. TrueOrigin(Decide(s))
      BY <3>1, DecideOrigin DEF Changed
    <3> QED BY <2>0, <3>1, <3>2 DEF TrueOrigin, Contains
  <2>2. CASE s \notin Visiting
    <3>1. statuses'[s] = statuses[s]
      BY <1>2, <2>2 DEF Visit
    <3> QED BY <2>0, <3>1 DEF OriginReallyChanged, TrueOrigin, Contains, Changed
  <2> QED BY <2>1, <2>2
<1>3. ASSUME NEW held, Close(held) PROVE OriginReallyChanged'
  BY <1>3 DEF Close, OriginReallyChanged, NoStatus, Changed
<1>4. CASE UNCHANGED planVars
  BY <1>4 DEF OriginReallyChanged, planVars, Changed, Contains
<1> QED BY <1>1, <1>2, <1>3, <1>4 DEF PlannerStep, Retain, Drop

\* The origin a plan reports for a recomputation did change in the way it says,
\* through any number of edges.
THEOREM OriginSound == PlanSpec => []OriginReallyChanged
<1>1. PlanInit => OriginReallyChanged
  BY DEF PlanInit, OriginReallyChanged, NoStatus, Changed
<1>2. [PlanNext]_planVars => [PlannerStep]_planVars
  BY PlanAssumption DEF PlanNext, PlannerStep
<1> QED BY <1>1, <1>2, OriginStep, PTL DEF PlanSpec

-----------------------------------------------------------------------------
(* The session.                                                            *)

\* A stage compared equal still compares equal: same only grows during a plan.
SameInv == \A s \in same : SameIdentity(s)

\* Every action keeps the comparisons that were made.
LEMMA SameStep == PlanShape /\ SameInv /\ [PlannerStep]_planVars => SameInv'
<1> SUFFICES ASSUME PlanShape, SameInv, [PlannerStep]_planVars PROVE SameInv'
  OBVIOUS
<1>1. ASSUME NEW w \in Workflows, NEW c \in RecalcCapabilities, Begin(w, c) PROVE SameInv'
  BY <1>1, IdleSameEmpty DEF Begin, SameInv
<1>2. CASE Visit
  <2> SUFFICES ASSUME NEW s \in same' PROVE SameIdentity(s)'
    BY DEF SameInv
  <2>1. UNCHANGED <<previous, requested, caps>> /\ same \subseteq same'
    BY <1>2 DEF Visit
  <2>2. SameIdentity(s)
    BY <1>2 DEF Visit, SameInv
  <2> QED BY <2>1, <2>2 DEF SameIdentity, Deps, Contains
<1>3. ASSUME NEW held, Close(held) PROVE SameInv'
  BY <1>3 DEF Close, SameInv
<1>4. CASE UNCHANGED planVars
  BY <1>4 DEF SameInv, planVars, SameIdentity, Deps, Contains
<1> QED BY <1>1, <1>2, <1>3, <1>4 DEF PlannerStep, Retain, Drop

\* What the session keeps between its own variables and the planner's: a held
\* study is planned against in process, and a plan under way is of a request.
SessionInv ==
    /\ live # {} => caps.boundary = {}
    /\ Idle \/ requested \in Workflows
    /\ retarget \in Retarget
    /\ support \in {"OnGrid", "OffGrid", "Unsupported"}
    /\ resume = {} \/ \E r \in ResumeContext : resume = {r}

\* A session uses the planner as any caller does.
LEMMA SessionPlans == SessionInv /\ [Next]_vars => [PlannerStep]_planVars
<1> SUFFICES ASSUME SessionInv, [Next]_vars PROVE [PlannerStep]_planVars
  OBVIOUS
<1>1. ASSUME NEW w \in Workflows, Plan(w) PROVE PlannerStep
  <2>1. [retarget |-> retarget, request |-> support, boundary |-> Boundary] \in RecalcCapabilities
    BY DEF SessionInv, RecalcCapabilities, Boundary
  <2> QED BY <1>1, <2>1 DEF Plan, PlannerStep
<1>2. CASE Run
  BY <1>2 DEF Run, Runs, Commit, PlannerStep, Retain
<1>3. CASE ~Run /\ ~(\E w \in Workflows : Plan(w))
  BY <1>3 DEF Next, vars, planVars, Resume, SetRetargetSupport, SetRequestSupport, VisitStages,
              Abandon, PlannerStep
<1> QED BY <1>1, <1>2, <1>3

\* Every action of the session keeps it.
LEMMA SessionStep == SessionInv /\ [Next]_vars => SessionInv'
<1> SUFFICES ASSUME SessionInv, [Next]_vars PROVE SessionInv'
  OBVIOUS
<1>1. ASSUME NEW r \in Resumes, Resume(r) PROVE SessionInv'
  BY <1>1, SessionAssumption DEF Resume, SessionInv, planVars, Retarget, Idle
<1>2. ASSUME NEW r \in Retargets, SetRetargetSupport(r) PROVE SessionInv'
  BY <1>2, SessionAssumption DEF SetRetargetSupport, SessionInv, planVars, Idle
<1>3. ASSUME NEW q \in Supports, SetRequestSupport(q) PROVE SessionInv'
  BY <1>3, SessionAssumption DEF SetRequestSupport, SessionInv, planVars, Idle
<1>4. ASSUME NEW w \in Workflows, Plan(w) PROVE SessionInv'
  BY <1>4 DEF Plan, Begin, SessionInv, sessionVars, Boundary
<1>5. CASE VisitStages
  <2>1. ~Idle
    BY <1>5 DEF VisitStages, Visit, Idle, Planned
  <2> QED BY <1>5, <2>1 DEF VisitStages, Visit, SessionInv, sessionVars
<1>6. CASE Abandon
  BY <1>6 DEF Abandon, Drop, Close, SessionInv, sessionVars, Idle, NoCapabilities
<1>7. CASE Run
  BY <1>7 DEF Run, Commit, Close, SessionInv, Idle, NoCapabilities
<1>8. CASE UNCHANGED vars
  BY <1>8 DEF vars, planVars, sessionVars, SessionInv, Idle
<1> QED BY <1>1, <1>2, <1>3, <1>4, <1>5, <1>6, <1>7, <1>8 DEF Next

\* What the planner and the session keep together.
HeldInv ==
    /\ PlanShape /\ ReuseInv /\ PreviousInv /\ RequestedInv /\ BoundaryInv
    /\ SameInv /\ SessionInv

\* A complete plan that is executable and backed.
Ready == ~Idle /\ rank = Planned /\ Executable /\ ~Unbacked

\* Such a plan reuses or recomputes each of the four computations, and no other
\* derived stage; without a held study it recomputes all four.
LEMMA ReadyDecided ==
  ASSUME HeldInv, Ready
  PROVE  /\ requested \in Workflows
         /\ \A s \in {Identification, ScoreArtifact, Law, Decision} :
               /\ s \in Stages /\ ~IsInput(s)
               /\ ~IsRecomputed(s) => s \in same /\ live # {}
               /\ IsRecomputed(s) /\ live # {} => s \notin same
         /\ \A s \in Stages : ~IsInput(s) /\ IsRecomputed(s) =>
               s \in {Identification, ScoreArtifact, Law, Decision}
<1>1. requested \in Workflows
  BY DEF HeldInv, SessionInv, Ready
<1>2. ASSUME NEW s \in {Identification, ScoreArtifact, Law, Decision}
      PROVE  /\ s \in Stages /\ ~IsInput(s)
             /\ ~IsRecomputed(s) => s \in same /\ live # {}
             /\ IsRecomputed(s) /\ live # {} => s \notin same
  <2>1. s \in Stages /\ ~IsInput(s)
    BY DEF Stages, IsInput, SingleInput, BranchInput, Identification, ScoreArtifact, Law, Decision
  <2>2. Contains(requested, s)
    BY <1>1, <2>1, RequestAssumption
  <2>3. statuses[s].tag \in {"reused", "recomputed"}
    BY <2>1, <2>2, RankType DEF HeldInv, PlanShape, Ready, Executable, Planned
  <2>4. live # {} => caps.boundary = {}
    BY DEF HeldInv, SessionInv
  <2> QED BY <2>1, <2>3, <2>4 DEF HeldInv, ReuseInv, Ready, Unbacked, IsRecomputed
<1>3. ASSUME NEW s \in Stages, ~IsInput(s), IsRecomputed(s)
      PROVE  s \in {Identification, ScoreArtifact, Law, Decision}
  <2>1. Contains(requested, s)
    BY <1>3 DEF HeldInv, PlanShape, IsRecomputed
  <2> QED BY <1>1, <1>3, <2>1, RequestAssumption
<1> QED BY <1>1, <1>2, <1>3

\* An unmoved edge carries an unmoved digest.
LEMMA SameEdge ==
  ASSUME HeldInv, NEW s \in same, NEW i \in DOMAIN Deps(s)
  PROVE  /\ previous[Deps(s)[i]] = requested[Deps(s)[i]]
         /\ Contains(requested, Deps(s)[i]) => Deps(s)[i] \in same
<1>1. SameIdentity(s)
  BY DEF HeldInv, SameInv
<1>2. IF Contains(requested, Deps(s)[i]) THEN Deps(s)[i] \in same
      ELSE ~Contains(previous, Deps(s)[i])
  BY <1>1 DEF SameIdentity
<1>3. Deps(s)[i] \in same => SameIdentity(Deps(s)[i])
  BY DEF HeldInv, SameInv
<1> QED BY <1>2, <1>3 DEF SameIdentity, Contains

\* The edges run_stages rests on, from each computation to the one before it and
\* to the digests it reads.
LEMMA SameReads ==
  ASSUME HeldInv, Ready
  PROVE  /\ Identification \in same => /\ previous[Input("Graph")] = requested[Input("Graph")]
                                        /\ previous[Input("Query")] = requested[Input("Query")]
         /\ ScoreArtifact \in same =>
               /\ Identification \in same
               /\ previous[DataSnapshot] = requested[DataSnapshot]
               /\ previous[Input("LearnerFoldsRng")] = requested[Input("LearnerFoldsRng")]
         /\ Law \in same => /\ ScoreArtifact \in same
                             /\ previous[TargetPopulation] = requested[TargetPopulation]
         /\ Decision \in same => /\ Law \in same
                                  /\ previous[Input("Utility")] = requested[Input("Utility")]
<1>0. \A s \in {Identification, ScoreArtifact, Law} : Contains(requested, s)
  BY ReadyDecided, RequestAssumption
<1> USE DEF Deps, Dependencies
<1>1. ASSUME Identification \in same
      PROVE  /\ previous[Input("Graph")] = requested[Input("Graph")]
             /\ previous[Input("Query")] = requested[Input("Query")]
  <2>1. 1 \in DOMAIN Deps(Identification) /\ Deps(Identification)[1] = Input("Graph")
    BY DEF Identification, Law, IdentifyDeps, Inputs
  <2>2. 2 \in DOMAIN Deps(Identification) /\ Deps(Identification)[2] = Input("Query")
    BY DEF Identification, Law, IdentifyDeps, Inputs
  <2> HIDE DEF Deps
  <2> QED BY <1>1, <2>1, <2>2, SameEdge
<1>2. ASSUME ScoreArtifact \in same
      PROVE  /\ Identification \in same
             /\ previous[DataSnapshot] = requested[DataSnapshot]
             /\ previous[Input("LearnerFoldsRng")] = requested[Input("LearnerFoldsRng")]
  <2>0. Deps(ScoreArtifact) = ScoreDeps(caps.retarget)
    BY DEF ScoreArtifact, Identification, Law
  <2>1. 1 \in DOMAIN Deps(ScoreArtifact) /\ Deps(ScoreArtifact)[1] = Identification
    BY <2>0 DEF ScoreDeps
  <2>2. 2 \in DOMAIN Deps(ScoreArtifact) /\ Deps(ScoreArtifact)[2] = DataSnapshot
    BY <2>0 DEF ScoreDeps
  <2>3. 5 \in DOMAIN Deps(ScoreArtifact) /\ Deps(ScoreArtifact)[5] = Input("LearnerFoldsRng")
    BY <2>0 DEF ScoreDeps
  <2> HIDE DEF Deps
  <2> QED BY <1>0, <1>2, <2>1, <2>2, <2>3, SameEdge
<1>3. ASSUME Law \in same
      PROVE  ScoreArtifact \in same /\ previous[TargetPopulation] = requested[TargetPopulation]
  <2>1. 1 \in DOMAIN Deps(Law) /\ Deps(Law)[1] = ScoreArtifact
    BY DEF LawDeps
  <2>2. 2 \in DOMAIN Deps(Law) /\ Deps(Law)[2] = TargetPopulation
    BY DEF LawDeps
  <2> HIDE DEF Deps
  <2> QED BY <1>0, <1>3, <2>1, <2>2, SameEdge
<1>4. ASSUME Decision \in same
      PROVE  Law \in same /\ previous[Input("Utility")] = requested[Input("Utility")]
  <2>0. Deps(Decision) = DecisionDeps
    BY DEF Decision, ScoreArtifact, Identification, Law
  <2>1. 1 \in DOMAIN DecisionDeps /\ 2 \in DOMAIN DecisionDeps
    BY PlanAssumption DEF DecisionDeps
  <2>2. DecisionDeps[1] = Law /\ DecisionDeps[2] = Input("Utility")
    BY <2>1 DEF DecisionDeps
  <2> HIDE DEF Deps
  <2> QED BY <1>0, <1>4, <2>0, <2>1, <2>2, SameEdge
<1> QED BY <1>1, <1>2, <1>3, <1>4

\* What is recomputed is closed downstream in a plan that is ready.
LEMMA ReadyMonotone ==
  ASSUME HeldInv, Ready
  PROVE  /\ IsRecomputed(Identification) => IsRecomputed(ScoreArtifact)
         /\ IsRecomputed(ScoreArtifact) => IsRecomputed(Law)
         /\ IsRecomputed(Law) => IsRecomputed(Decision)
  BY ReadyDecided, SameReads

\* An executable, backed plan runs to its end and its receipt verifies.
LEMMA ReadyRuns == HeldInv => ExecutablePlanRuns
<1> SUFFICES ASSUME HeldInv, Ready PROVE DecisionStage # {} /\ ReceiptVerifies
  BY DEF ExecutablePlanRuns, Ready
<1>1. ReceiptVerifies
  BY ReadyDecided, ReadyMonotone DEF ReceiptVerifies, Work
<1>2. ScoreStages # {}
  BY ReadyDecided DEF ScoreStages
<1>3. LawStage # {}
  BY <1>2, ReadyDecided, ReadyMonotone DEF LawStage, Held
<1>4. DecisionStage # {}
  BY <1>3, ReadyDecided, ReadyMonotone DEF DecisionStage, Held
<1> QED BY <1>1, <1>4

\* The stages a ready plan runs produce what computing all of them afresh would.
LEMMA ReadyAfresh ==
  ASSUME HeldInv, HeldIsAfresh, Ready
  PROVE  /\ \A p \in ScoreStages : /\ p.identified = Afresh(requested).identified
                                   /\ p.scored = Afresh(requested).scored
         /\ \A l \in LawStage : l = Afresh(requested).law
         /\ \A d \in DecisionStage : d = Afresh(requested).decided
<1> DEFINE i == IdentifiedFrom(requested)
           s == ScoredFrom(i, requested)
           l == LawFrom(s, requested)
           d == DecidedFrom(l, requested)
<1>0. /\ Afresh(requested).identified = i
      /\ Afresh(requested).scored = s
      /\ Afresh(requested).law = l
      /\ Afresh(requested).decided = d
  BY DEF Afresh
<1>1. ASSUME NEW h \in live, ~IsRecomputed(Identification) PROVE h.identified = i
  <2>1. Identification \in same
    BY <1>1, ReadyDecided
  <2> QED BY <2>1, SameReads DEF HeldIsAfresh, Afresh, IdentifiedFrom
<1>2. ASSUME NEW h \in live, ~IsRecomputed(ScoreArtifact) PROVE h.scored = s
  <2>1. ScoreArtifact \in same
    BY <1>2, ReadyDecided
  <2> QED BY <2>1, SameReads DEF HeldIsAfresh, Afresh, IdentifiedFrom, ScoredFrom
<1>3. ASSUME NEW h \in live, ~IsRecomputed(Law) PROVE h.law = l
  <2>1. Law \in same
    BY <1>3, ReadyDecided
  <2> QED BY <2>1, SameReads DEF HeldIsAfresh, Afresh, IdentifiedFrom, ScoredFrom, LawFrom
<1>4. ASSUME NEW h \in live, ~IsRecomputed(Decision) PROVE h.decided = d
  <2>1. Decision \in same
    BY <1>4, ReadyDecided
  <2> QED BY <2>1, SameReads
          DEF HeldIsAfresh, Afresh, IdentifiedFrom, ScoredFrom, LawFrom, DecidedFrom
<1>5. ASSUME NEW p \in ScoreStages PROVE p.identified = i /\ p.scored = s
  BY <1>1, <1>2 DEF ScoreStages
<1>6. ASSUME NEW x \in LawStage PROVE x = l
  BY <1>3, <1>5 DEF LawStage, Held
<1>7. ASSUME NEW x \in DecisionStage PROVE x = d
  BY <1>4, <1>6 DEF DecisionStage, Held
<1> QED BY <1>0, <1>5, <1>6, <1>7

\* Every action of the session keeps what it holds equal to a fresh computation.
LEMMA AfreshStep == HeldInv /\ HeldIsAfresh /\ [Next]_vars => HeldIsAfresh'
<1> SUFFICES ASSUME HeldInv, HeldIsAfresh, [Next]_vars PROVE HeldIsAfresh'
  OBVIOUS
<1>1. CASE Run
  <2>1. Ready
    BY <1>1 DEF Run, Runs, Commit, Close, Ready
  <2>2. previous' = requested
    BY <1>1 DEF Run, Commit, Close
  <2> SUFFICES ASSUME NEW h \in live' PROVE h = Afresh(requested)
    BY <2>2 DEF HeldIsAfresh, Afresh, IdentifiedFrom, ScoredFrom, LawFrom, DecidedFrom
  <2>3. PICK p \in ScoreStages, l \in LawStage, d \in DecisionStage :
           h = [identified |-> p.identified, scored |-> p.scored, law |-> l, decided |-> d]
    BY <1>1 DEF Run, Commit
  <2>4. h = [identified |-> Afresh(requested).identified, scored |-> Afresh(requested).scored,
             law |-> Afresh(requested).law, decided |-> Afresh(requested).decided]
    BY <2>1, <2>3, ReadyAfresh
  <2> QED BY <2>4 DEF Afresh
<1>2. CASE \E w \in Workflows : Plan(w)
  BY <1>2 DEF Plan, Begin, sessionVars, HeldIsAfresh, Afresh, IdentifiedFrom, ScoredFrom, LawFrom,
              DecidedFrom
<1>3. CASE VisitStages \/ Abandon \/ UNCHANGED vars
  BY <1>3 DEF VisitStages, Visit, Abandon, Drop, Close, vars, planVars, sessionVars, HeldIsAfresh,
              Afresh, IdentifiedFrom, ScoredFrom, LawFrom, DecidedFrom
<1>4. CASE (\E r \in Retargets : SetRetargetSupport(r)) \/ \E q \in Supports : SetRequestSupport(q)
  BY <1>4 DEF SetRetargetSupport, SetRequestSupport, planVars, HeldIsAfresh, Afresh,
              IdentifiedFrom, ScoredFrom, LawFrom, DecidedFrom
<1>5. CASE \E r \in Resumes : Resume(r)
  BY <1>5 DEF Resume, HeldIsAfresh
<1> QED BY <1>1, <1>2, <1>3, <1>4, <1>5 DEF Next

\* The planner's and the session's invariants hold together of every session.
LEMMA SessionInvariant == Spec => []HeldInv
<1>1. Init => HeldInv
  <2> SUFFICES ASSUME Init PROVE HeldInv
    OBVIOUS
  <2>1. SameInv
    BY DEF Init, PlanInit, SameInv
  <2>2. SessionInv
    BY DEF Init, PlanInit, SessionInv, Idle, Retarget
  <2> QED BY <2>1, <2>2, ShapeInit, ReuseInit DEF Init, HeldInv
<1>2. HeldInv /\ [Next]_vars => HeldInv'
  BY SessionPlans, SessionStep, ShapeStep, ReuseStep, WorkflowStep, BoundaryStep, SameStep
     DEF HeldInv
<1> QED BY <1>1, <1>2, PTL DEF Spec

\* Whatever requests, refusals, failures, license changes and restarts a session
\* went through, the study, law and decision it holds are those of the identities
\* it reports.
THEOREM HeldSound == Spec => []HeldIsAfresh
<1>1. Init => HeldIsAfresh
  BY DEF Init, HeldIsAfresh
<1> QED BY <1>1, AfreshStep, SessionInvariant, PTL DEF Spec

\* execute_with_receipt never plans more than it can run: an executable plan that
\* is backed finds every artifact it reuses, and its receipt verifies.
THEOREM ExecutableRuns == Spec => []ExecutablePlanRuns
  BY ReadyRuns, SessionInvariant, PTL
=============================================================================
