-------------------------- MODULE ExternalSession --------------------------
(***************************************************************************)
(* ExternalCallbackSession of crates/antecedent (recalc_external.rs) as a  *)
(* value: what it plans, admits and publishes for one request.  The        *)
(* standalone session (ExternalCallback) and the composite session, which  *)
(* owns one per branch (CompositeSession), run it.                         *)
(*                                                                         *)
(* A digest is modelled by what it is taken of, so a request stands for    *)
(* its own digest.  The planner is RecalcPlan; for the stages a callback   *)
(* request declares it comes to comparing the held pair of ExternalStudy   *)
(* and ProviderRequest identities with the requested one.  Optional fields *)
(* are sets of at most one element.                                        *)
(***************************************************************************)
EXTENDS Integers, FiniteSets

CONSTANTS
    Requests,      \* requests a caller may make
    NoKey,         \* the key of a request that carries none
    Values,        \* means a provider may return
    AttemptLimit,  \* side-effecting requests a session remembers
    EpochLimit,    \* largest epoch, where saturating_add stops
    MaxCalls       \* bound on the provider entries of a session

Policies == {"deterministic", "seeded", "stateful", "side_effecting", "unknown"}

ASSUME RequestAssumption ==
    /\ \A r \in Requests : /\ {"branch", "study", "descriptor", "key"} \subseteq DOMAIN r
                           /\ r.descriptor.policy \in Policies
                           /\ r.descriptor.idempotency_supported \in BOOLEAN
    /\ AttemptLimit \in Nat
    /\ EpochLimit \in Nat

\* 2^64 provider entries are out of reach.
ASSUME CallsAssumption == MaxCalls \in Nat /\ MaxCalls <= EpochLimit

SideEffecting(r) == r.descriptor.policy = "side_effecting"
SideEffects == {r \in Requests : SideEffecting(r)}

\* Policies whose every execution enters the provider.
Volatile(r) == r.descriptor.policy \in {"stateful", "side_effecting"}
Replayable(r) == r.descriptor.policy \in {"deterministic", "seeded"}

\* ExternalCallbackRequest::validate: the refusals about policy and key.
Validates(r) ==
    /\ r.descriptor.policy # "unknown"
    /\ r.key # NoKey => r.descriptor.idempotency_supported

-----------------------------------------------------------------------------
(* Identities and planning.                                                *)

NewCallbacks == [previous |-> {}, live |-> {}, portable |-> {}, attempts |-> {},
                 bindings |-> {}, epoch |-> 0]

\* Mutant: the epoch is not part of a stateful request's identity.
Operation_NoEpoch(s, r) == [policy |-> r.descriptor.policy, epoch |-> 0]

\* The ProviderRequest identity: the policy and, where the callback may answer
\* differently each time, the session's epoch.
Operation(s, r) == [policy |-> r.descriptor.policy,
                    epoch |-> IF Volatile(r) THEN s.epoch ELSE 0]

Identities(s, r) == [study |-> r, operation |-> {Operation(s, r)}]

\* The plan recomputes the ProviderRequest stage.
ProviderChanged(s, r) == s.portable # {} \/ s.previous # {Identities(s, r)}

\* force_recompute drops the ProviderRequest identity, keeping the study's.
ForceRecompute(s) ==
    [s EXCEPT !.previous = {[p EXCEPT !.operation = {}] : p \in s.previous}]

\* Mutant: the clone's attempts are dropped with its outputs.
AbsorbAttempts_EpochOnly(s, other) ==
    [s EXCEPT !.epoch = IF other.epoch > s.epoch THEN other.epoch ELSE s.epoch]

AbsorbAttempts(s, other) ==
    [s EXCEPT !.attempts = @ \cup other.attempts,
              !.bindings = {b \in @ : \A o \in other.bindings : o.op # b.op} \cup other.bindings,
              !.epoch = IF other.epoch > @ THEN other.epoch ELSE @]

-----------------------------------------------------------------------------
(* admit_attempt.                                                          *)

\* An idempotency key as the provider knows it.
KeyOf(r) == [descriptor |-> r.descriptor, key |-> r.key]

\* Mutant: a bound key is not compared with the request.
KeyConflict_Never(s, r) == FALSE

KeyConflict(s, r) ==
    r.key # NoKey /\ \E b \in s.bindings : b.op = KeyOf(r) /\ b.request # r

RetryUnsafe(s, r) == r.key = NoKey /\ r \in s.attempts

\* Mutant: a recorded request counts against the limit as a new one does.
AtAttemptLimit_Recorded(s, r) == Cardinality(s.attempts) >= AttemptLimit

AtAttemptLimit(s, r) == Cardinality(s.attempts) >= AttemptLimit /\ r \notin s.attempts

\* The refusals of the side-effect ledger; the memory budget is the context's.
Admits(s, r) ==
    SideEffecting(r) => ~(KeyConflict(s, r) \/ RetryUnsafe(s, r) \/ AtAttemptLimit(s, r))

\* Mutant: attempts of every policy are recorded.
Record_EveryPolicy(s, r) == [s EXCEPT !.attempts = @ \cup {r}]

\* The attempt is recorded before the provider is entered.
Record(s, r) ==
    IF SideEffecting(r)
    THEN [s EXCEPT !.attempts = @ \cup {r},
                   !.bindings = IF r.key = NoKey THEN @
                                ELSE {b \in @ : b.op # KeyOf(r)} \cup {[op |-> KeyOf(r), request |-> r]}]
    ELSE s

Admit(s, r) ==
    [Record(s, r) EXCEPT !.epoch = IF @ < EpochLimit THEN @ + 1 ELSE @]

-----------------------------------------------------------------------------
(* execute.                                                                *)

\* What the call finds: the provider handed over (none, the declared one, another),
\* the cancellation flag and whether the payload fits the memory budget.
Contexts == [provider : {"none", "declared", "other"}, cancelled : BOOLEAN, fits : BOOLEAN]

Claim(r, v) == [request |-> r, value |-> v]

\* Mutant: a portable output is not compared with what the provider answers.
Replays_Always(s, r, v) == TRUE

\* bind_attested_output: the replay of a portable output must reproduce it.
Replays(s, r, v) ==
    \A p \in s.portable : p.request.descriptor = r.descriptor /\ p.value = v

Answer(s, status, claim, entered) ==
    [session |-> s, status |-> status, claim |-> claim, entered |-> entered]
Refusal(s) == Answer(s, "refused", {}, FALSE)

\* Validation, cancellation, provider identity and plan, in any order: none changes state.
RefusedAtEntry(s, r, ctx) ==
    \/ ~Validates(r)
    \/ ctx.cancelled
    \/ ctx.provider = "other"
    \/ s.portable # {} /\ ctx.provider = "none"

\* Mutant: the attempt is recorded once the provider has answered.
Invoke_RecordAnswered(s, r) ==
    {Answer([s EXCEPT !.epoch = IF @ < EpochLimit THEN @ + 1 ELSE @], "failed", {}, TRUE)}
        \cup {Answer([Admit(s, r) EXCEPT !.previous = {Identities(s, r)},
                                         !.live = {Claim(r, v)}, !.portable = {}],
                     "computed", {Claim(r, v)}, TRUE) : v \in {w \in Values : Replays(s, r, w)}}

\* Mutant: the identities are committed before the provider answers.
Invoke_IdentitiesFirst(s, r) ==
    {Answer([Admit(s, r) EXCEPT !.previous = {Identities(s, r)}], "failed", {}, TRUE)}
        \cup {Answer([Admit(s, r) EXCEPT !.previous = {Identities(s, r)},
                                         !.live = {Claim(r, v)}, !.portable = {}],
                     "computed", {Claim(r, v)}, TRUE) : v \in {w \in Values : Replays(s, r, w)}}

\* The provider is entered once.  It fails, notices cancellation, answers out of
\* bounds, answers what does not bind or does not replay; or its means are published.
Invoke(s, r) ==
    {Answer(Admit(s, r), "failed", {}, TRUE)}
        \cup {Answer([Admit(s, r) EXCEPT !.previous = {Identities(s, r)},
                                         !.live = {Claim(r, v)}, !.portable = {}],
                     "computed", {Claim(r, v)}, TRUE) : v \in {w \in Values : Replays(s, r, w)}}

\* The answers execute may give, each with the session it leaves.
Execute(s, r, ctx) ==
    IF RefusedAtEntry(s, r, ctx) THEN {Refusal(s)}
    ELSE IF ~ProviderChanged(s, r)
    THEN {IF s.live = {} THEN Refusal(s) ELSE Answer(s, "reused", s.live, FALSE)}
    ELSE IF ctx.provider = "none" \/ ~ctx.fits \/ ~Admits(s, r) THEN {Refusal(s)}
    ELSE Invoke(s, r)

-----------------------------------------------------------------------------
(* export_output and resume.                                               *)

CanResume(artifact, r) ==
    Validates(r) /\ Replayable(r) /\ artifact.request = r

\* Mutant: the portable output is held as if issued here.
Resumed_Issued(artifact, r) ==
    [NewCallbacks EXCEPT !.previous = {Identities(NewCallbacks, r)}, !.live = {artifact}]

Resumed(artifact, r) ==
    [NewCallbacks EXCEPT !.previous = {Identities(NewCallbacks, r)}, !.portable = {artifact}]
=============================================================================
