---------------------------- MODULE CrossfitCache ----------------------------
(***************************************************************************)
(* CrossfitNuisanceCache of antecedent-estimate: the queries of a batch,   *)
(* each in a scope of its own on a thread of its own, share cross-fitted   *)
(* nuisance fits.  A score-table build leases the slot of its propensity   *)
(* fit, then the slots of its outcome fits, and holds them while it fits.  *)
(*                                                                         *)
(* A propensity key and a transformed outcome column are names: two are    *)
(* equal exactly when the arrays the code compares are.  The entries mutex *)
(* and the learned_preparations mutex are taken for short sections that    *)
(* wait for no slot, so a section is one step; the slot mutexes are        *)
(* modelled.  Counters of reuses and of fold fits are left out.            *)
(***************************************************************************)
EXTENDS Integers, Sequences, FiniteSets

CONSTANTS
    Scopes,           \* one per query of the batch
    Keys,             \* propensity keys
    Outcomes,         \* transformed outcome columns
    Builds,           \* the score tables a query may build
    Problems,         \* learner preparations
    KeyCost, OutcomeCost,  \* values an entry of each kind retains
    ProblemCost,      \* values each preparation retains
    MaxRetained,      \* MAX_RETAINED_VALUES
    MaxPreparations,  \* preparations kept (8 in the code)
    MaxTasks          \* bound: builds and preparations in one scope

ASSUME CostAssumption ==
    /\ KeyCost \in Nat /\ OutcomeCost \in Nat /\ \A p \in Problems : ProblemCost[p] \in Nat
    /\ MaxRetained \in Nat /\ MaxPreparations \in Nat \ {0} /\ MaxTasks \in Nat
ASSUME BuildAssumption == Builds \subseteq [key : Keys, outcomes : Seq(Outcomes)]

VARIABLES
    entries,       \* the slots that have a PropensityEntry or OutcomeEntry
    retained,      \* Entries::retained
    preparations,  \* learned_preparations, oldest first
    slots,         \* the slot of each entry: its mutex and its value
    scopes,        \* the scopes counter of each entry
    fits,          \* propensity_fits and outcome_fits
    used,          \* NuisanceScopeUse of each scope
    scope          \* where each scope is in its work
vars == <<entries, retained, preparations, slots, scopes, fits, used, scope>>

-----------------------------------------------------------------------------
(* Entries.                                                                *)

\* A fit is determined by its inputs: the key, and for an outcome its column.
Inputs(b, i) == IF i = 1 THEN <<b.key>> ELSE <<b.key, b.outcomes[i - 1]>>

\* Mutant: outcome entries are matched by their column only.
OutcomeEntry_AnyPropensity(b, i) == <<CHOOSE k \in Keys : TRUE, b.outcomes[i - 1]>>

\* The outcome entry of the build's column on the build's propensity entry.
OutcomeEntry(b, i) == <<b.key, b.outcomes[i - 1]>>

\* The slot of the i-th fit of a build: first the propensity, then the outcomes.
SlotOf(b, i) == IF i = 1 THEN <<b.key>> ELSE OutcomeEntry(b, i)

Slots == {<<k>> : k \in Keys} \cup {<<k, y>> : k \in Keys, y \in Outcomes}
IsPropensity(x) == Len(x) = 1
Kind(x) == IF IsPropensity(x) THEN "propensity" ELSE "outcome"
Cost(x) == IF IsPropensity(x) THEN KeyCost ELSE OutcomeCost

\* A lease on an entry found or made, and none when the cache has no room for it.
Lease(x) == IF x \in entries \/ retained + Cost(x) <= MaxRetained THEN {x} ELSE {}

Retain(x) ==
    /\ entries' = entries \cup Lease(x)
    /\ retained' = IF x \in entries THEN retained
                   ELSE IF Lease(x) = {} THEN retained ELSE retained + Cost(x)

-----------------------------------------------------------------------------
(* One score-table build.                                                  *)

Idle(tasks) == [pc |-> "idle", build |-> {}, leases |-> <<>>, at |-> 1, fresh |-> {},
                tasks |-> tasks]

Begin(s, b) ==
    LET me == scope[s]
        lease == Lease(<<b.key>>)
    IN  /\ me.pc = "idle" /\ me.tasks < MaxTasks
        /\ Retain(<<b.key>>)
        /\ scope' = [scope EXCEPT ![s] =
               IF lease = {} THEN Idle(me.tasks + 1)   \* the fit runs unshared
               ELSE [me EXCEPT !.pc = "lock", !.build = {b}, !.leases = <<lease>>]]
        /\ UNCHANGED <<preparations, slots, scopes, fits, used>>

\* After the first lock come the outcome leases, after the last one the fit.
AfterLock(me, b) ==
    IF me.at > Len(b.outcomes) THEN [me EXCEPT !.pc = "fit"]
    ELSE IF me.at = 1 THEN [me EXCEPT !.pc = "lease"]
    ELSE [me EXCEPT !.at = @ + 1]

\* Mutant: the lock is let go once the slot was looked at.
Acquire_NotKept(s, xs) == UNCHANGED slots

Acquire(s, xs) ==
    slots' = [x \in Slots |-> IF x \in xs THEN [slots[x] EXCEPT !.holder = {s}] ELSE slots[x]]

\* Waits for the slot's mutex; a poisoned one ends the build with an error.
LockSlot(s) ==
    LET me == scope[s]
    IN  /\ me.pc = "lock"
        /\ \A x \in me.leases[me.at] : slots[x].holder = {}
        /\ IF \E x \in me.leases[me.at] : slots[x].poisoned
           THEN scope' = [scope EXCEPT ![s].pc = "drop"] /\ UNCHANGED slots
           ELSE /\ Acquire(s, me.leases[me.at])
                /\ \E b \in me.build : scope' = [scope EXCEPT ![s] = AfterLock(me, b)]
        /\ UNCHANGED <<entries, retained, preparations, scopes, fits, used>>

LeaseOutcome(s) ==
    \E b \in scope[s].build :
        LET me == scope[s]
            i == Len(me.leases) + 1
        IN  /\ me.pc = "lease"
            /\ Retain(SlotOf(b, i))
            /\ scope' = [scope EXCEPT ![s] =
                   [me EXCEPT !.leases = Append(@, Lease(SlotOf(b, i))),
                              !.pc = IF i > Len(b.outcomes) THEN "lock" ELSE "lease",
                              !.at = IF i > Len(b.outcomes) THEN 2 ELSE 1]]
            /\ UNCHANGED <<preparations, slots, scopes, fits, used>>

Leased(me) == UNION {me.leases[i] : i \in DOMAIN me.leases}

\* Every fold is fit, where the slots hold no fit yet.  Any fold may fail, or find the
\* context cancelled.
Fit(s) ==
    /\ scope[s].pc = "fit"
    /\ \E pc \in {"publish", "drop"} :
          scope' = [scope EXCEPT ![s].pc = pc, ![s].at = 1,
                                 ![s].fresh = {x \in Leased(scope[s]) : slots[x].value = {}}]
    /\ UNCHANGED <<entries, retained, preparations, slots, scopes, fits, used>>

\* A fit panics: the guards of the unwinding thread poison their mutexes.
Panic(s) ==
    /\ scope[s].pc = "fit"
    /\ slots' = [x \in Slots |-> IF slots[x].holder = {s}
                                 THEN [slots[x] EXCEPT !.holder = {}, !.poisoned = TRUE]
                                 ELSE slots[x]]
    /\ scope' = [scope EXCEPT ![s] = [Idle(0) EXCEPT !.pc = "over"]]
    /\ UNCHANGED <<entries, retained, preparations, scopes, fits, used>>

\* Mutant: a scope is counted each time it reads an entry.
NoteUse_EveryTime(s, xs) ==
    /\ used' = [used EXCEPT ![s] = @ \cup xs]
    /\ scopes' = [x \in Slots |-> IF x \in xs THEN scopes[x] + 1 ELSE scopes[x]]

\* The scope read the entry: counted once per scope.
NoteUse(s, xs) ==
    /\ used' = [used EXCEPT ![s] = @ \cup xs]
    /\ scopes' = [x \in Slots |-> IF x \in xs \ used[s] THEN scopes[x] + 1 ELSE scopes[x]]

\* Every fold succeeded: each lease is recorded, and the fit stored if it is fresh.
Publish(s) ==
    \E b \in scope[s].build :
        LET me == scope[s]
            xs == me.leases[me.at]
            stored == xs \cap me.fresh
        IN  /\ me.pc = "publish"
            /\ NoteUse(s, xs)
            /\ fits' = [k \in {"propensity", "outcome"} |->
                           fits[k] + Cardinality({x \in stored : Kind(x) = k})]
            /\ slots' = [x \in Slots |-> IF x \in stored
                                         THEN [slots[x] EXCEPT !.value = {Inputs(b, me.at)}]
                                         ELSE slots[x]]
            /\ scope' = [scope EXCEPT ![s] = IF me.at = Len(me.leases)
                                             THEN [me EXCEPT !.pc = "drop"]
                                             ELSE [me EXCEPT !.at = @ + 1]]
            /\ UNCHANGED <<entries, retained, preparations>>

\* Mutant: the propensity guard outlives its build.
Release_OutcomesOnly(s, x) == slots[x].holder = {s} /\ ~IsPropensity(x)

\* The guards of the outcome slots go before the one of the propensity slot.
Release(s, x) ==
    /\ slots[x].holder = {s}
    /\ IsPropensity(x) => \A z \in Slots : slots[z].holder = {s} => z = x

Drop(s) ==
    LET me == scope[s]
    IN  /\ me.pc = "drop"
        /\ slots' = [x \in Slots |-> IF Release(s, x) THEN [slots[x] EXCEPT !.holder = {}]
                                     ELSE slots[x]]
        /\ scope' = [scope EXCEPT ![s] =
               IF \E x \in Slots : slots[x].holder = {s} /\ ~IsPropensity(x) THEN me
               ELSE Idle(me.tasks + 1)]
        /\ UNCHANGED <<entries, retained, preparations, scopes, fits, used>>

-----------------------------------------------------------------------------
(* Learner preparations and the scope itself.                              *)

\* Mutant: a preparation that makes room keeps its cost.
AfterEviction_Charged(p) == retained

\* Mutant: the cost of the newcomer is given back, not the one of the evicted.
AfterEviction_OwnCost(p) ==
    IF Len(preparations) = MaxPreparations THEN retained - ProblemCost[p] ELSE retained

\* What is retained once the oldest preparation made room for p.
AfterEviction(p) ==
    IF Len(preparations) = MaxPreparations THEN retained - ProblemCost[Head(preparations)]
    ELSE retained

\* share_learner_preparation.  The eviction stays even where the new one has no room.
SharePreparation(s, p) ==
    LET kept == IF Len(preparations) = MaxPreparations THEN Tail(preparations) ELSE preparations
        known == \E i \in DOMAIN preparations : preparations[i] = p
        fits_in == AfterEviction(p) + ProblemCost[p] <= MaxRetained
    IN  /\ scope[s].pc = "idle" /\ scope[s].tasks < MaxTasks
        /\ preparations' = IF known THEN preparations
                           ELSE IF fits_in THEN Append(kept, p) ELSE kept
        /\ retained' = IF known THEN retained
                       ELSE IF fits_in THEN AfterEviction(p) + ProblemCost[p] ELSE AfterEviction(p)
        /\ scope' = [scope EXCEPT ![s].tasks = @ + 1]
        /\ UNCHANGED <<entries, slots, scopes, fits, used>>

End(s) ==
    /\ scope[s].pc = "idle"
    /\ scope' = [scope EXCEPT ![s].pc = "over"]
    /\ UNCHANGED <<entries, retained, preparations, slots, scopes, fits, used>>

\* What the batch reports of a finished scope, for propensity and outcome fits.
SharedWithAnotherScope(s, kind) == \E x \in used[s] : Kind(x) = kind /\ scopes[x] > 1

Init ==
    /\ entries = {} /\ retained = 0 /\ preparations = <<>>
    /\ slots = [x \in Slots |-> [holder |-> {}, value |-> {}, poisoned |-> FALSE]]
    /\ scopes = [x \in Slots |-> 0]
    /\ fits = [k \in {"propensity", "outcome"} |-> 0]
    /\ used = [s \in Scopes |-> {}]
    /\ scope = [s \in Scopes |-> Idle(0)]

Step(s) ==
    \/ \E b \in Builds : Begin(s, b)
    \/ \E p \in Problems : SharePreparation(s, p)
    \/ LockSlot(s) \/ LeaseOutcome(s) \/ Fit(s) \/ Panic(s) \/ Publish(s) \/ Drop(s)
    \/ End(s)

AllOver == \A s \in Scopes : scope[s].pc = "over"

Next == (\E s \in Scopes : Step(s)) \/ (AllOver /\ UNCHANGED vars)

\* Threads are scheduled and a free mutex is handed to one that waits for it.
Fairness == \A s \in Scopes : WF_vars(Step(s))

Spec == Init /\ [][Next]_vars /\ Fairness

-----------------------------------------------------------------------------
(* Properties.                                                             *)

\* A fit is made and counted once, whoever asks for it at the same time and whichever
\* builds failed, were cancelled or panicked before: the counters are the slots that
\* hold a fit.
FitOnce ==
    \A k \in {"propensity", "outcome"} :
        fits[k] = Cardinality({x \in Slots : Kind(x) = k /\ slots[x].value # {}})

\* "Reuse is exact": a build that reuses a fit reads the one of its own inputs.
ReuseIsExact ==
    \A s \in Scopes : scope[s].pc = "publish" =>
        \A b \in scope[s].build : \A i \in DOMAIN scope[s].leases :
            \A x \in scope[s].leases[i] \ scope[s].fresh : slots[x].value = {Inputs(b, i)}

\* What the entries cost.
Charged ==
    KeyCost * Cardinality({x \in entries : IsPropensity(x)})
        + OutcomeCost * Cardinality({x \in entries : ~IsPropensity(x)})

\* The values the preparations P retain.
PreparedValues(P) == UNION {{p} \X (1..ProblemCost[p]) : p \in P}
Prepared == {preparations[i] : i \in DOMAIN preparations}

\* What is charged is what is retained, entries and preparations together, and never
\* more than the bound: also after a preparation was evicted for a larger one that then
\* found no room.
RetainedIsExact ==
    /\ retained = Charged + Cardinality(PreparedValues(Prepared))
    /\ retained <= MaxRetained

\* A finished scope is reported as sharing exactly when another scope read one of the
\* fits it read.
SharingIsReal ==
    \A s \in Scopes : scope[s].pc = "over" =>
        \A k \in {"propensity", "outcome"} :
            SharedWithAnotherScope(s, k)
                <=> \E t \in Scopes \ {s} : \E x \in used[s] \cap used[t] : Kind(x) = k

\* Every query of the batch ends, after failed, cancelled and panicked builds of the
\* others too.
EveryScopeEnds == <>AllOver

WaitsFor(s) ==
    IF scope[s].pc = "lock" THEN UNION {slots[x].holder : x \in scope[s].leases[scope[s].at]}
    ELSE {}

\* "outcome slots are only ever locked under their propensity slot, so leases cannot
\* deadlock": no scopes wait for each other in a circle, or one for itself.
LeasesCannotDeadlock ==
    \A T \in SUBSET Scopes : T # {} => \E s \in T : WaitsFor(s) \cap T = {}
=============================================================================
