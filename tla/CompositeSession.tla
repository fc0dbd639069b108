-------------------------- MODULE CompositeSession --------------------------
(***************************************************************************)
(* CompositeSession of crates/antecedent (recalc_composite.rs): one shared *)
(* plan over a native response and two callback branches.  A run works on  *)
(* clones of the native session and of the callback sessions, and commits  *)
(* all of them or, when any part fails, only the attempts that were made.  *)
(*                                                                         *)
(* The native session, a StaticResponseSession (recalc_static.rs), is the  *)
(* request it answered.  A request is the inputs a ProviderRequest depends *)
(* on (graph, query, populations: shared) and the ones it does not (data). *)
(* The terminal contract, policy and input order are one value.            *)
(***************************************************************************)
EXTENDS ExternalSession

CONSTANTS
    Branches,      \* callback branches
    Natives,       \* native requests, records [shared, data]
    Terminals,     \* terminal contracts
    CallContexts   \* what a branch may find when it is called

ASSUME CompositeAssumption ==
    /\ \A r \in Requests : r.branch \in Branches
    /\ \A n \in Natives : {"shared", "data"} \subseteq DOMAIN n
    /\ CallContexts \subseteq Contexts

VARIABLES
    native,       \* the native request whose result the session holds
    previous,     \* the identities of the last successful run
    callbacks,    \* one callback session per branch, NewCallbacks where there is none
    decision,     \* {} or the inputs the published decision was evaluated on
    publication,  \* {} or the request whose run published it
    outcome,      \* how the last execute ended
    sent          \* provider entries for each side-effecting request

vars == <<native, previous, callbacks, decision, publication, outcome, sent>>

\* Two branches, each with a request.
CompositeRequest ==
    [native : Natives, externals : {e \in Requests \X Requests : e[1].branch # e[2].branch},
     terminal : Terminals]

BranchesOf(q) == {q.externals[1].branch, q.externals[2].branch}
External(q, b) == IF q.externals[1].branch = b THEN q.externals[1] ELSE q.externals[2]

-----------------------------------------------------------------------------
(* inputs and plan.                                                        *)

\* The identities the run is planned for.  Those of a branch are the ones its own
\* session would plan with.
Inputs(q) ==
    [native |-> q.native, terminal |-> {q.terminal},
     branch |-> [b \in Branches |->
                    IF b \in BranchesOf(q) THEN {Identities(callbacks[b], External(q, b))} ELSE {}]]

\* The shared plan's status of the stages that are not native.
ProviderRecomputed(ids, b) ==
    \/ previous.branch[b] # ids.branch[b]
    \/ previous.native.shared # ids.native.shared

\* Mutant: the decision is reopened by native and terminal changes only.
DecisionRecomputed_NotByBranch(q, ids) ==
    previous.native # ids.native \/ previous.terminal # ids.terminal

DecisionRecomputed(q, ids) ==
    \/ previous.native # ids.native
    \/ previous.terminal # ids.terminal
    \/ \E b \in Branches : previous.branch[b] # ids.branch[b]

-----------------------------------------------------------------------------
(* execute.                                                                *)

\* A run in progress: the cloned callback sessions, the requests whose providers
\* were entered, the branches whose work is on the receipt, and how it stands.
Started == [callbacks |-> callbacks, entered |-> {}, worked |-> {}, status |-> "running"]

\* Mutant: the branch decides by itself what it has to recompute.
BranchSession_Unforced(run, ids, b) == run.callbacks[b]

\* A branch the shared plan recomputes is told so.
BranchSession(run, ids, b) ==
    IF ProviderRecomputed(ids, b) THEN ForceRecompute(run.callbacks[b]) ELSE run.callbacks[b]

\* One branch of a run that is still going.
RunBranch(run, ids, r, ctx) ==
    IF run.status # "running" THEN {run}
    ELSE {[callbacks |-> [run.callbacks EXCEPT ![r.branch] = a.session],
           entered |-> run.entered \cup (IF a.entered THEN {r} ELSE {}),
           worked |-> run.worked \cup (IF a.status = "computed" THEN {r.branch} ELSE {}),
           status |-> IF a.claim = {} THEN "failed" ELSE "running"] :
             a \in Execute(BranchSession(run, ids, r.branch), r, ctx)}

BranchRuns(q, ids, ctx) ==
    UNION {RunBranch(run, ids, q.externals[2], ctx[2]) :
              run \in RunBranch(Started, ids, q.externals[1], ctx[1])}

\* ReceiptRecorder::finish: branch work was counted exactly where the plan says.
ReceiptVerifies(run, q, ids) ==
    \A b \in BranchesOf(q) : b \in run.worked <=> ProviderRecomputed(ids, b)

\* decision_inputs: the claims each branch has issued.
DecisionInputs(run, q) ==
    [native |-> q.native, terminal |-> q.terminal,
     claims |-> [b \in BranchesOf(q) |-> run.callbacks[b].live]]

\* The decision of a finished run: evaluated, or the published one.
Decided(run, q, ids) ==
    IF DecisionRecomputed(q, ids) THEN {DecisionInputs(run, q)} ELSE decision

Finishes(run, q, ids) ==
    run.status = "running" /\ Decided(run, q, ids) # {} /\ ReceiptVerifies(run, q, ids)

\* Mutant: what the branches published is kept although the run failed.
KeepAttempts_Outputs(run) == callbacks' = run.callbacks

\* Only the ledger of attempts survives a failed run.
KeepAttempts(run) ==
    callbacks' = [b \in Branches |-> AbsorbAttempts(callbacks[b], run.callbacks[b])]

Account(run) ==
    /\ \A r \in run.entered : callbacks[r.branch].epoch < MaxCalls
    /\ sent' = [r \in SideEffects |-> IF r \in run.entered THEN sent[r] + 1 ELSE sent[r]]

\* Why a run may end without publishing: a branch refused or failed, evaluating the
\* decision refused, no decision is held, or the receipt contradicts the plan.
FailReasons(run, q, ids) ==
    IF run.status # "running" THEN {"branch"}
    ELSE (IF DecisionRecomputed(q, ids) THEN {"decision"} ELSE {})
            \cup (IF Finishes(run, q, ids) THEN {} ELSE {"late"})

Fail(q, run) ==
    /\ outcome' \in FailReasons(run, q, Inputs(q))
    /\ Account(run)
    /\ KeepAttempts(run)
    /\ UNCHANGED <<native, previous, decision, publication>>

Publish(q, run) ==
    /\ Finishes(run, q, Inputs(q))
    /\ Account(run)
    /\ native' = q.native
    /\ callbacks' = run.callbacks
    /\ previous' = Inputs(q)
    /\ decision' = Decided(run, q, Inputs(q))
    /\ publication' = {q}
    /\ outcome' = "published"

\* inputs refuses a request whose externals do not validate.
Accepts(q) == \A i \in 1..2 : Validates(q.externals[i])

\* The native session refuses or fails: no branch has run.
FailNative(q) ==
    /\ Accepts(q)
    /\ outcome' = "native"
    /\ UNCHANGED <<native, previous, callbacks, decision, publication, sent>>

ExecuteComposite(q, ctx) ==
    /\ Accepts(q)
    /\ \E run \in BranchRuns(q, Inputs(q), ctx) : Fail(q, run) \/ Publish(q, run)

NoBranches == [b \in Branches |-> {}]

\* CompositeSession::from_native, on the native session the caller executed.
Init ==
    /\ native \in Natives
    /\ previous = [native |-> native, terminal |-> {}, branch |-> NoBranches]
    /\ callbacks = [b \in Branches |-> NewCallbacks]
    /\ decision = {}
    /\ publication = {}
    /\ outcome = "none"
    /\ sent = [r \in SideEffects |-> 0]

Next ==
    \E q \in CompositeRequest :
        \/ FailNative(q)
        \/ \E first, second \in CallContexts : ExecuteComposite(q, <<first, second>>)

Spec == Init /\ [][Next]_vars

-----------------------------------------------------------------------------
(* Properties.                                                             *)

\* What is published hangs together after any mix of published and failed runs:
\* the decision was evaluated on the native result held now and on the claims
\* the branches hold now, and each of those answers the published request.
PublishedHangsTogether ==
    \A q \in publication :
        /\ native = q.native
        /\ decision = {[native |-> native, terminal |-> q.terminal,
                        claims |-> [b \in BranchesOf(q) |-> callbacks[b].live]]}
        /\ \A b \in BranchesOf(q) :
              callbacks[b].live # {} /\ \A c \in callbacks[b].live : c.request = External(q, b)

\* The shared plan and each branch's own plan agree on what to recompute: a run
\* whose branches all answered is never lost to a missing decision or to a receipt
\* that contradicts the plan, after their providers were entered.
NoRunIsLostLate == outcome # "late"

\* Whatever was sent is remembered by the branch it was sent for, although the run
\* it was sent in was rolled back.
AttemptsSurvive ==
    \A r \in SideEffects :
        sent[r] > 0 =>
            /\ r \in callbacks[r.branch].attempts
            /\ r.key # NoKey => \E b \in callbacks[r.branch].bindings :
                                  b.op = KeyOf(r) /\ b.request = r

\* A run that publishes entered the provider of each of its branches that is
\* stateful or side-effecting, however often the same request was published before.
VolatileBranchesAreEntered ==
    [][outcome' = "published" =>
          \A q \in publication' : \A b \in BranchesOf(q) :
              Volatile(External(q, b)) => callbacks'[b].epoch > callbacks[b].epoch]_vars

\* The abstract ledger, which each branch keeps for itself.
Ledger == INSTANCE EffectLedger WITH Effects <- SideEffects,
                                     Scope <- [r \in SideEffects |-> r.branch]

\* Through failures of either branch and rolled back runs, no unkeyed side effect is
\* sent twice and no branch sends a key for two requests.
SideEffectsKept == Ledger!LedgerSpec
=============================================================================
