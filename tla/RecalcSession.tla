---------------------------- MODULE RecalcSession ----------------------------
(***************************************************************************)
(* A recalculation session (crates/antecedent/src/analysis, recalc_receipt *)
(* .rs): the caller's retained prepared study and last identities, and     *)
(* execute_with_receipt, which plans a request against them, runs only the *)
(* stages the plan recomputes, and commits all of it or nothing.           *)
(*                                                                         *)
(* The planner's loop is RecalcPlan; a session holds one plan at a time.   *)
(* An artifact is modelled by what its computation read.                   *)
(***************************************************************************)
EXTENDS RecalcPlan

CONSTANTS
    Retargets,   \* licenses set_retarget_support may declare
    Supports,    \* request supports set_request_support may declare
    Resumes      \* what a fresh process may be handed

ASSUME SessionAssumption ==
    /\ Retargets \subseteq Retarget
    /\ Supports \subseteq {"OnGrid", "OffGrid", "Unsupported"}
    /\ Resumes \subseteq ResumeContext

\* RecalcRequest::identities declares the four unbranched derived stages, and no
\* other derived stage.
ASSUME RequestAssumption ==
    \A w \in Workflows : \A s \in Stages :
        ~IsInput(s) => (Contains(w, s) <=> s \in {Identification, ScoreArtifact, Law, Decision})

VARIABLES
    live,      \* RecalcSession::live: {} or the artifacts of the last run
    resume,    \* RecalcSession::resume: {} or what the fresh process was handed
    retarget,  \* RecalcSession::retarget
    support    \* RecalcSession::request

sessionVars == <<live, resume, retarget, support>>
vars == <<planVars, sessionVars>>

-----------------------------------------------------------------------------
(* What each computation reads.                                            *)

\* Study::prepare identifies from the graph and the query.
IdentifiedFrom(w) == [g |-> w[Input("Graph")], q |-> w[Input("Query")]]
\* The score table is fitted on the data under the estimator and the seed, for the
\* identified adjustment set.
ScoredFrom(identified, w) == [identified |-> identified, data |-> w[DataSnapshot],
                              learner |-> w[Input("LearnerFoldsRng")]]
\* PreparedStudy::retarget reweights the held scores.
LawFrom(scored, w) == [scored |-> scored, target |-> w[TargetPopulation]]
DecidedFrom(law, w) == [law |-> law, utility |-> w[Input("Utility")]]

\* All four computed afresh for workflow w.
Afresh(w) ==
    LET i == IdentifiedFrom(w)
        s == ScoredFrom(i, w)
        l == LawFrom(s, w)
    IN  [identified |-> i, scored |-> s, law |-> l, decided |-> DecidedFrom(l, w)]

IsRecomputed(s) == statuses[s].tag = "recomputed"

-----------------------------------------------------------------------------
Init ==
    /\ PlanInit
    /\ live = {}
    /\ resume = {}
    /\ retarget = "Licensed"
    /\ support = "OnGrid"

\* A fresh process is handed the identities of the last run, and no artifact.
Resume(r) ==
    /\ Idle
    /\ live' = {}
    /\ resume' = {r}
    /\ retarget' = "Licensed"
    /\ support' = "OnGrid"
    /\ UNCHANGED planVars

SetRetargetSupport(r) ==
    /\ Idle
    /\ retarget' = r
    /\ UNCHANGED <<planVars, live, resume, support>>

SetRequestSupport(q) ==
    /\ Idle
    /\ support' = q
    /\ UNCHANGED <<planVars, live, resume, retarget>>

Boundary == IF live = {} THEN resume ELSE {}

\* execute_with_receipt: the plan is made before any work.
Plan(w) ==
    /\ Begin(w, [retarget |-> retarget, request |-> support, boundary |-> Boundary])
    /\ UNCHANGED sessionVars

VisitStages == Visit /\ UNCHANGED sessionVars

\* A plan that reuses a derived stage no live artifact backs.
Unbacked == live = {} /\ \E s \in Stages : ~IsInput(s) /\ statuses[s].tag = "reused"

\* A cancelled, refused, unbacked or failed run, wherever it fails, and a receipt
\* that contradicts the plan: the session keeps its study and its identities.
Abandon ==
    /\ Drop
    /\ UNCHANGED sessionVars

\* score_stages: prepare when identification is redone, refresh when only the
\* scores are, the held study otherwise.
ScoreStages ==
    IF IsRecomputed(Identification)
    THEN {[identified |-> IdentifiedFrom(requested),
           scored |-> ScoredFrom(IdentifiedFrom(requested), requested)]}
    ELSE {[identified |-> h.identified,
           scored |-> IF IsRecomputed(ScoreArtifact)
                      THEN ScoredFrom(h.identified, requested) ELSE h.scored] : h \in live}

\* The held law and decision, when neither stage below them was redone.
Held == IF IsRecomputed(Identification) \/ IsRecomputed(ScoreArtifact) THEN {} ELSE live

LawStage == IF IsRecomputed(Law)
            THEN {LawFrom(p.scored, requested) : p \in ScoreStages}
            ELSE {h.law : h \in Held}

DecisionStage == IF IsRecomputed(Decision)
                 THEN {DecidedFrom(l, requested) : l \in LawStage}
                 ELSE {h.decided : h \in Held}

\* Mutant: prepare's own scores go uncounted.
Work_PrepareUncounted ==
    (IF IsRecomputed(Identification) THEN {Identification}
     ELSE {s \in {ScoreArtifact} : IsRecomputed(s)})
        \cup {s \in {Law, Decision} : IsRecomputed(s)}

\* The stages run_stages counts work against.
Work ==
    (IF IsRecomputed(Identification) THEN {Identification, ScoreArtifact} ELSE {})
        \cup {s \in {ScoreArtifact, Law, Decision} : IsRecomputed(s)}

\* ReceiptRecorder::finish: work was counted for exactly the recomputed computations.
ReceiptVerifies == \A s \in Stages : ~IsInput(s) => (s \in Work <=> IsRecomputed(s))

\* Mutant: the identities are those of the request, the artifacts stay.
Commit_IdentitiesOnly ==
    /\ Close(requested)
    /\ live' = IF live # {} THEN live
               ELSE {[identified |-> p.identified, scored |-> p.scored, law |-> l, decided |-> d] :
                        p \in ScoreStages, l \in LawStage, d \in DecisionStage}

Commit ==
    /\ Close(requested)
    /\ live' = {[identified |-> p.identified, scored |-> p.scored, law |-> l, decided |-> d] :
                   p \in ScoreStages, l \in LawStage, d \in DecisionStage}

Runs == Executable /\ ~Unbacked /\ DecisionStage # {} /\ ReceiptVerifies

Run ==
    /\ Runs
    /\ Commit
    /\ UNCHANGED <<resume, retarget, support>>

Next ==
    \/ \E r \in Resumes : Resume(r)
    \/ \E r \in Retargets : SetRetargetSupport(r)
    \/ \E q \in Supports : SetRequestSupport(q)
    \/ \E w \in Workflows : Plan(w)
    \/ VisitStages
    \/ Abandon
    \/ Run

Spec == Init /\ [][Next]_vars

-----------------------------------------------------------------------------
(* Properties.                                                             *)

\* The study, law and decision a session holds are what computing all of them
\* afresh for the identities it reports would give, after any sequence of
\* requests, refusals, failures, license changes and restarts: no selective run
\* leaves a stale artifact behind a current identity.
HeldIsAfresh == \A h \in live : h = Afresh(previous)

\* A plan that is executable and backed runs to its end: every artifact it counts
\* on is held, and the work done is the work the receipt expects.
ExecutablePlanRuns ==
    ~Idle /\ rank = Planned /\ Executable /\ ~Unbacked => DecisionStage # {} /\ ReceiptVerifies
=============================================================================
