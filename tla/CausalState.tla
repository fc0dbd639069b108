---------------------------- MODULE CausalState ----------------------------
(***************************************************************************)
(* The incremental analysis state of crates/antecedent-state: a versioned  *)
(* set of inputs changed by events, cached query results under one byte    *)
(* budget, an invalidation log, and the freshness protocol by which a      *)
(* caller publishes a result it recomputed outside the state.              *)
(*                                                                         *)
(* The state never runs an analysis.  A job stands for a caller's          *)
(* recomputation: it reads the version and the inputs, works for any       *)
(* number of other steps, and then publishes what it computed - once,      *)
(* late, or again.  A digest is modelled by the content it is taken of, so *)
(* two contents share a digest only when they are equal.                   *)
(*                                                                         *)
(* An Option<T> is a set with at most one element, except result_valid_at  *)
(* where None is Never.                                                    *)
(***************************************************************************)
EXTENDS Integers, Sequences, FiniteSetsExt

CONSTANTS
    MaxQueries,      \* bound on RegisterQuery events
    MaxVersion,      \* bound on the number of applied events
    MaxBatch,        \* bound on the updates of one publication
    Jobs,            \* recomputations a caller has under way
    Batches,         \* ids of appended data batches
    ReplaceVersions, \* data versions a ReplaceData event may carry
    Interventions,   \* ids of recorded interventions
    EvidenceIds,     \* ids of graph evidence
    ConstraintIds,   \* ids of graph constraints
    Assumptions,     \* assumption records
    Forms,           \* which optional fields a ResultPublication fills in
    UncheckedForms,  \* the forms also published without naming a version
    ResultBytes,     \* sizes a published result may declare
    SlotsUsed,       \* kinds of sufficient-statistics slots the caller keeps
    DiagKeys,        \* names of mechanism-diagnostics slots
    DiagBytes,       \* worst-case sizes of such a slot
    Budgets,         \* values of CacheBudget::max_bytes; U64Max is CacheBudget::unlimited()
    U64Max           \* largest u64

ASSUME BoundsAssumption ==
    /\ MaxQueries \in Nat
    /\ MaxVersion \in Nat
    /\ MaxBatch \in Nat
    /\ U64Max \in Nat
    /\ Budgets \subseteq 0..U64Max

\* The events a slot of sufficient statistics can be left behind by.
DataEvent == {"AppendData", "ReplaceData"}

\* Maps of the sufficient-statistics store that hold no budgeted bytes.
SlotKind == {"ols", "cov", "lag_indexes", "graph_scores", "particle_filters"}

ASSUME DomainAssumption ==
    /\ ReplaceVersions \subseteq Nat
    /\ ResultBytes \subseteq 0..U64Max
    /\ DiagBytes \subseteq 0..U64Max
    /\ IsFiniteSet(DiagKeys)
    /\ SlotsUsed \subseteq SlotKind
    /\ Forms \subseteq [lineage : BOOLEAN, snapshot : BOOLEAN, identities : BOOLEAN]
    /\ UncheckedForms \subseteq Forms

VARIABLES
    version,        \* CausalState::version
    data,           \* data catalog (version, batches) and recorded interventions
    graph,          \* graph evidence, constraints and assumptions
    nextId,         \* QueryStore::next_id: queries 0 .. nextId-1 are registered
    validAt,        \* QueryRecord::result_valid_at
    lastPublished,  \* QueryRecord::last_published
    pending,        \* QueryRecord::pending_inputs, as (stage, change) pairs
    results,        \* ResultStore: bytes of each cached result
    diags,          \* SuffStatStore::mechanism_diags: bytes charged to each slot
    slots,          \* the other SuffStatStore maps: the data events each slot has missed
    maxBytes,       \* CacheBudget::max_bytes
    used,           \* CacheBudget::used_bytes
    log,            \* InvalidationLog::entries
    jobs,           \* what each job has read and computed
    \* History the claims are judged against; no step reads it.
    since,          \* version of a query's last publication, or its registration
    basis,          \* what a query's last published result was computed from
    moved,          \* version at which each stage input last changed
    appended,       \* version of the last AppendData
    overflowed      \* whether retained sizes ever summed to more than a u64 holds

state  == <<version, data, graph, nextId, validAt, lastPublished, pending,
            results, diags, slots, maxBytes, used, log>>
published == <<since, basis>>
account == <<maxBytes, overflowed>>
hist   == <<since, basis, moved, appended, overflowed>>
vars   == <<state, jobs, hist>>

-----------------------------------------------------------------------------
Never   == -1
QueryId == 0..(MaxQueries - 1)
Stage   == {"DataSnapshot", "Graph"}
Change  == {"Added", "Modified", "Removed"}

\* What an analysis reads, and what its identity layers are digests of.
Inputs == [data |-> data, graph |-> graph]

DataInput  == [version : Nat, batches : Seq(Batches), interventions : Seq(Interventions)]
\* Evidence and constraint records are counted by id: what a list of them is
\* compared for is its content, and a removal takes every record of an id.
GraphInput == [evidence : [EvidenceIds -> Nat], constraints : [ConstraintIds -> Nat],
               assumptions : Seq(Assumptions)]
Layers     == [data : DataInput, graph : GraphInput]

PublishedLineage == [layers : Layers, dataVersion : Nat, identities : BOOLEAN]
ChangedInput     == [stage : Stage, change : Change]
Target           == {"QueryResult", "AllResults", "SuffStat", "LagIndexes", "GraphScores",
                     "ParticleFilters", "MechanismDiagnostics"}
\* change is "unnamed" for an entry pushed without an input.
LogEntry         == [at : Nat, target : Target, query : QueryId \cup {Never},
                     change : Change \cup {"unnamed"}]
Option(S)        == {{}} \cup {{x} : x \in S}
Job              == [at : Nat, layers : Layers]
Basis            == [layers : Layers, versioned : BOOLEAN, identities : BOOLEAN]
ResultUpdate     == [query : QueryId, bytes : ResultBytes]

Registered == 0..(nextId - 1)

Init ==
    /\ version = 0
    /\ data = [version |-> 0, batches |-> <<>>, interventions |-> <<>>]
    /\ graph = [evidence    |-> [e \in EvidenceIds |-> 0],
                constraints |-> [c \in ConstraintIds |-> 0],
                assumptions |-> <<>>]
    /\ nextId = 0
    /\ validAt = [q \in QueryId |-> Never]
    /\ lastPublished = [q \in QueryId |-> {}]
    /\ pending = [q \in QueryId |-> {}]
    /\ results = [q \in QueryId |-> {}]
    /\ diags = [k \in DiagKeys |-> {}]
    /\ slots = [k \in SlotKind |-> {}]
    /\ maxBytes \in Budgets
    /\ used = 0
    /\ log = {}
    /\ jobs = [j \in Jobs |-> {}]
    /\ since = [q \in QueryId |-> Never]
    /\ basis = [q \in QueryId |-> {}]
    /\ moved = [s \in Stage |-> 0]
    /\ appended = 0
    /\ overflowed = FALSE

-----------------------------------------------------------------------------
(* Saturating u64 arithmetic and the cache budget.                         *)

\* Mutant: a sum wraps instead of saturating.
SatAdd_Wraps(a, b) == (a + b) % (U64Max + 1)

SatAdd(a, b) == IF a + b > U64Max THEN U64Max ELSE a + b
SatSub(a, b) == IF a < b THEN 0 ELSE a - b

CanAdmit(u, additional) == SatAdd(u, additional) <= maxBytes

BytesOf(opt) == IF opt = {} THEN 0 ELSE CHOOSE b \in opt : TRUE

\* Mutant: admission looks at what is used, not at what would be.
Admits_Unweighted(u, oldBytes, newBytes) == u <= maxBytes

\* Replace an entry of oldBytes by one of newBytes: what ResultStore::insert and
\* insert_mechanism_diag both do with the budget.
Admits(u, oldBytes, newBytes) == CanAdmit(u, SatSub(newBytes, oldBytes))
\* Mutant: the replaced entry's bytes stay charged.
Recharge_KeepsOld(u, oldBytes, newBytes) == SatAdd(u, newBytes)

Recharge(u, oldBytes, newBytes) == SatAdd(SatSub(u, oldBytes), newBytes)

-----------------------------------------------------------------------------
(* Reading freshness.                                                      *)

\* The most severe of a set of changes: a removal withdraws, any other asks
\* for recomputation.
WorstOf(changes) ==
    IF "Removed" \in changes THEN "Withdrawn"
    ELSE IF changes # {} THEN "Recompute" ELSE "StillValid"

EntriesSince(q, v) ==
    {e \in log : /\ e.at > v
                 /\ \/ e.target = "QueryResult" /\ e.query = q
                    \/ e.target = "AllResults"}

RevalidationSince(q, v) == WorstOf({e.change : e \in EntriesSince(q, v)})

Revalidation(q) ==
    WorstOf({p.change : p \in pending[q]} \cup
            IF validAt[q] = Never THEN {"unnamed"}
            ELSE {e.change : e \in EntriesSince(q, validAt[q])})

IsStale(q) == validAt[q] = Never \/ RevalidationSince(q, validAt[q]) # "StillValid"

-----------------------------------------------------------------------------
(* Events.                                                                 *)

Entry(v, target, q, change) == [at |-> v, target |-> target, query |-> q, change |-> change]

Cached == {q \in QueryId : results[q] # {}}

\* Bytes held by all entries of a map: what removing each in turn returns.
TotalBytes(map) == MapThenSumSet(LAMBDA k : BytesOf(map[k]), DOMAIN map)

\* Mutant: only results still cached are logged.
InvalidationEntries_CachedOnly(v, input) ==
    {Entry(v, "QueryResult", q, input.change) : q \in Cached}

\* Version v drops every cached result and records the input that changed.
InvalidationEntries(v, input) ==
    {Entry(v, "QueryResult", q, input.change) : q \in Cached}
        \cup {Entry(v, "AllResults", Never, input.change)}

\* Mutant: a pending input is superseded by any later one of its stage.
InvalidateAllResults_LatestPerStage(input) ==
    /\ results' = [q \in QueryId |-> {}]
    /\ validAt' = [q \in QueryId |-> IF q \in Cached THEN Never ELSE validAt[q]]
    /\ pending' = [q \in QueryId |->
                     IF q \in Registered
                     THEN {p \in pending[q] : p.stage # input.stage} \cup {input} ELSE pending[q]]

InvalidateAllResults(input) ==
    /\ results' = [q \in QueryId |-> {}]
    /\ validAt' = [q \in QueryId |-> IF q \in Cached THEN Never ELSE validAt[q]]
    /\ pending' = [q \in QueryId |-> IF q \in Registered THEN pending[q] \cup {input} ELSE pending[q]]

\* Every applied event advances the state clock.
Tick ==
    /\ version < MaxVersion
    /\ version' = version + 1

DataEntries(v) ==
    {Entry(v, t, Never, "unnamed") : t \in {"LagIndexes", "GraphScores", "ParticleFilters",
                                            "MechanismDiagnostics"}}
        \cup (IF slots["ols"] # {} THEN {Entry(v, "SuffStat", Never, "unnamed")} ELSE {})

\* Mutant: an append keeps the graph scores.
DroppedOnAppend_KeepsScores == {"lag_indexes", "particle_filters"}

\* Slots a data change drops because they cannot be appended to.
DroppedOnAppend == {"lag_indexes", "graph_scores", "particle_filters"}

\* Mutant: a replacement keeps the covariances, as an append does.
DroppedOnReplace_KeepsCov == SlotKind \ {"cov"}

\* Slots of replaced data: all of them.
DroppedOnReplace == SlotKind

\* What a data event leaves of the slots: some are dropped, the others miss it.
SlotsAfter(event, dropped) ==
    [k \in SlotKind |-> IF k \in dropped THEN {} ELSE {missed \cup {event} : missed \in slots[k]}]

InputOf(stage, change) == [stage |-> stage, change |-> change]

AppendData(b) ==
    LET input == InputOf("DataSnapshot", "Modified")
    IN  /\ Tick
        /\ data' = [version |-> data.version + 1, batches |-> Append(data.batches, b),
                   interventions |-> data.interventions]
        /\ InvalidateAllResults(input)
        /\ used' = SatSub(used, TotalBytes(results))
        /\ log' = log \cup InvalidationEntries(version', input) \cup DataEntries(version')
        /\ slots' = SlotsAfter("AppendData", DroppedOnAppend)
        /\ moved' = [moved EXCEPT !["DataSnapshot"] = version']
        /\ appended' = version'
        /\ UNCHANGED <<graph, nextId, lastPublished, diags, jobs, published, account>>

\* The catalog takes the version the event carries, which need not be newer.
ReplaceData(v) ==
    LET input == InputOf("DataSnapshot", "Modified")
    IN  /\ Tick
        /\ data' = [version |-> v, batches |-> <<>>, interventions |-> data.interventions]
        /\ InvalidateAllResults(input)
        /\ log' = log \cup InvalidationEntries(version', input) \cup DataEntries(version')
        /\ slots' = SlotsAfter("ReplaceData", DroppedOnReplace)
        /\ diags' = [k \in DiagKeys |-> {}]
        /\ used' = SatSub(SatSub(used, TotalBytes(results)), TotalBytes(diags))
        /\ moved' = [moved EXCEPT !["DataSnapshot"] = version']
        /\ UNCHANGED <<graph, nextId, lastPublished, jobs, published, appended, account>>

\* The events that reach invalidate_all_results and nothing else.
PremiseEvent(input) ==
    /\ Tick
    /\ InvalidateAllResults(input)
    /\ used' = SatSub(used, TotalBytes(results))
    /\ log' = log \cup InvalidationEntries(version', input)
    /\ moved' = [moved EXCEPT ![input.stage] = version']
    /\ UNCHANGED <<nextId, lastPublished, diags, slots, jobs, published, appended, account>>

AddGraphEvidence(e) ==
    /\ PremiseEvent(InputOf("Graph", "Added"))
    /\ graph' = [evidence |-> [graph.evidence EXCEPT ![e] = @ + 1], constraints |-> graph.constraints,
                 assumptions |-> graph.assumptions]
    /\ UNCHANGED data

AddConstraint(c) ==
    /\ PremiseEvent(InputOf("Graph", "Added"))
    /\ graph' = [evidence |-> graph.evidence, constraints |-> [graph.constraints EXCEPT ![c] = @ + 1],
                 assumptions |-> graph.assumptions]
    /\ UNCHANGED data

\* An unknown id is refused before the version moves; a known one drops every
\* constraint that carries it.
RemoveConstraint(c) ==
    /\ graph.constraints[c] > 0
    /\ PremiseEvent(InputOf("Graph", "Removed"))
    /\ graph' = [evidence |-> graph.evidence, constraints |-> [graph.constraints EXCEPT ![c] = 0],
                 assumptions |-> graph.assumptions]
    /\ UNCHANGED data

UpdateAssumption(a) ==
    /\ PremiseEvent(InputOf("Graph", "Modified"))
    /\ graph' = [evidence |-> graph.evidence, constraints |-> graph.constraints,
                 assumptions |-> Append(graph.assumptions, a)]
    /\ UNCHANGED data

RecordIntervention(i) ==
    /\ PremiseEvent(InputOf("DataSnapshot", "Added"))
    /\ data' = [version |-> data.version, batches |-> data.batches,
                interventions |-> Append(data.interventions, i)]
    /\ UNCHANGED graph

\* Registration bumps the version and invalidates nothing.
RegisterQuery ==
    /\ nextId < MaxQueries
    /\ Tick
    /\ nextId' = nextId + 1
    /\ since' = [since EXCEPT ![nextId] = version']
    /\ UNCHANGED <<data, graph, validAt, lastPublished, pending, results, diags,
                   slots, used, log, jobs, basis, moved, appended, account>>

-----------------------------------------------------------------------------
(* Recomputation and publication.                                          *)

\* A caller reads the version and the inputs and recomputes on them.
Recompute(j) ==
    /\ jobs' = [jobs EXCEPT ![j] = {[at |-> version, layers |-> Inputs]}]
    /\ UNCHANGED <<state, hist>>

\* Mutant: each stage is compared on the other's layer.
LayerUnchanged_Crossed(stage, was, now) ==
    IF stage = "DataSnapshot" THEN was.graph = now.graph ELSE was.data = now.data

\* The identity layer that reads a stage input.
LayerUnchanged(stage, was, now) ==
    IF stage = "DataSnapshot" THEN was.data = now.data ELSE was.graph = now.graph

\* A republication that cannot be a recomputation under the current inputs.
Refused(q, layers, form) ==
    \E previous \in lastPublished[q] :
        \/ ~form.lineage
        \/ /\ form.snapshot
           /\ previous.dataVersion # data.version
           /\ layers.data = previous.layers.data
        \/ \E input \in pending[q] :
              IF previous.identities /\ form.identities
              THEN LayerUnchanged(input.stage, previous.layers, layers)
              ELSE layers = previous.layers

\* What the staged store holds for a query after the first n updates: the last
\* of them that names it, or else what was cached before.
Staged(us, n, q) ==
    LET hits == {i \in 1..n : us[i].query = q}
    IN  IF hits = {} THEN results[q]
        ELSE {us[i].bytes : i \in {h \in hits : \A k \in hits : k <= h}}

\* used_bytes after staging the first n updates, or Never once one is refused.
StagedUsed(us) ==
    LET f[n \in 0..Len(us)] ==
          IF n = 0 THEN used
          ELSE LET old == BytesOf(Staged(us, n - 1, us[n].query))
               IN  IF f[n - 1] # Never /\ Admits(f[n - 1], old, us[n].bytes)
                   THEN Recharge(f[n - 1], old, us[n].bytes) ELSE Never
    IN  f[Len(us)]

\* The retained sizes, whatever used_bytes says.
Retained(map, slotMap) == TotalBytes(map) + TotalBytes(slotMap)

\* The store and the budget after the first n updates.
StagedMap(us, n) == [q \in QueryId |-> Staged(us, n, q)]

\* Mutant: a result is stamped with the version after the current one.
Stamp_Next == version + 1

\* The version a published result is valid at.
Stamp == version

\* All updates are published together or none is.
CommitResults(us, layers, form, versioned) ==
    LET touched == {us[i].query : i \in DOMAIN us}
        lineage == [layers |-> layers, dataVersion |-> data.version,
                    identities |-> form.identities]
    IN  /\ StagedUsed(us) # Never
        /\ used' = StagedUsed(us)
        /\ results' = StagedMap(us, Len(us))
        /\ overflowed' = (overflowed \/ \E n \in DOMAIN us : Retained(StagedMap(us, n), diags) > U64Max)
        /\ validAt' = [q \in QueryId |-> IF q \in touched THEN Stamp ELSE validAt[q]]
        /\ pending' = [q \in QueryId |-> IF q \in touched THEN {} ELSE pending[q]]
        /\ lastPublished' = [q \in QueryId |-> IF q \in touched /\ form.lineage /\ form.snapshot
                                               THEN {lineage} ELSE lastPublished[q]]
        /\ since' = [q \in QueryId |-> IF q \in touched THEN version ELSE since[q]]
        /\ basis' = [q \in QueryId |-> IF q \in touched
                                       THEN {[layers |-> layers, versioned |-> versioned,
                                              identities |-> form.identities]}
                                       ELSE basis[q]]

Publish(j, us, form, versioned) ==
    \E job \in jobs[j] :
        /\ \A i \in DOMAIN us : /\ us[i].query \in Registered
                                 /\ ~Refused(us[i].query, job.layers, form)
        /\ CommitResults(us, job.layers, form, versioned)
        /\ UNCHANGED <<version, data, graph, nextId, diags, slots, maxBytes, log, jobs, moved,
                       appended>>

\* Mutant: a version the state has already passed is good enough.
RequireVersion_AtMost(j) == \A job \in jobs[j] : job.at <= version

\* The version-checked entry points, the facade's publish_recomputed_results
\* among them (its form fills in every field).
RequireVersion(j) == \A job \in jobs[j] : job.at = version
PublishResultsAt(j, us, form) == RequireVersion(j) /\ Publish(j, us, form, TRUE)

PublishResults(j, us, form) == Publish(j, us, form, FALSE)

ClearResults ==
    /\ Cached # {}
    /\ used' = SatSub(used, TotalBytes(results))
    /\ results' = [q \in QueryId |-> {}]
    /\ UNCHANGED <<version, data, graph, nextId, validAt, lastPublished, pending, diags,
                   slots, maxBytes, log, jobs, hist>>

\* Eviction of one cached result: freshness stamps are left alone.
RemoveResult(q) ==
    /\ results[q] # {}
    /\ used' = SatSub(used, BytesOf(results[q]))
    /\ results' = [results EXCEPT ![q] = {}]
    /\ UNCHANGED <<version, data, graph, nextId, validAt, lastPublished, pending, diags,
                   slots, maxBytes, log, jobs, hist>>

-----------------------------------------------------------------------------
(* Sufficient-statistics slots.                                            *)

InsertMechanismDiag(k, charge) ==
    /\ Admits(used, BytesOf(diags[k]), charge)
    /\ used' = Recharge(used, BytesOf(diags[k]), charge)
    /\ diags' = [diags EXCEPT ![k] = {charge}]
    /\ overflowed' = (overflowed \/ Retained(results, diags') > U64Max)
    /\ UNCHANGED <<version, data, graph, nextId, validAt, lastPublished, pending, results,
                   slots, maxBytes, log, jobs, published, moved, appended>>

EvictMechanismDiag(k) ==
    /\ diags[k] # {}
    /\ used' = SatSub(used, BytesOf(diags[k]))
    /\ diags' = [diags EXCEPT ![k] = {}]
    /\ UNCHANGED <<version, data, graph, nextId, validAt, lastPublished, pending, results,
                   slots, maxBytes, log, jobs, hist>>

\* A caller that works on a slot by name creates it only when there is none.  What it
\* then feeds to the slot does not replace what the slot already holds.
EnsureSlot(k) ==
    /\ k \in {"ols", "cov"}
    /\ slots[k] = {}
    /\ slots' = [slots EXCEPT ![k] = {{}}]
    /\ UNCHANGED <<version, data, graph, nextId, validAt, lastPublished, pending, results,
                   diags, maxBytes, used, log, jobs, hist>>

\* A caller puts a new slot in the place of whatever was there.
InsertSlot(k) ==
    /\ slots' = [slots EXCEPT ![k] = {{}}]
    /\ UNCHANGED <<version, data, graph, nextId, validAt, lastPublished, pending, results,
                   diags, maxBytes, used, log, jobs, hist>>

-----------------------------------------------------------------------------
Apply ==
    \/ \E b \in Batches : AppendData(b)
    \/ \E v \in ReplaceVersions : ReplaceData(v)
    \/ \E e \in EvidenceIds : AddGraphEvidence(e)
    \/ \E c \in ConstraintIds : AddConstraint(c)
    \/ \E c \in ConstraintIds : RemoveConstraint(c)
    \/ \E a \in Assumptions : UpdateAssumption(a)
    \/ \E i \in Interventions : RecordIntervention(i)
    \/ RegisterQuery

Updates == UNION {[1..n -> ResultUpdate] : n \in 1..MaxBatch}

Next ==
    \/ Apply
    \/ \E j \in Jobs : Recompute(j)
    \/ \E j \in Jobs, us \in Updates, form \in Forms : PublishResultsAt(j, us, form)
    \/ \E j \in Jobs, us \in Updates, form \in UncheckedForms : PublishResults(j, us, form)
    \/ \E q \in QueryId : RemoveResult(q)
    \/ ClearResults
    \/ \E k \in DiagKeys, charge \in DiagBytes : InsertMechanismDiag(k, charge)
    \/ \E k \in DiagKeys : EvictMechanismDiag(k)
    \/ \E k \in SlotsUsed : EnsureSlot(k)
    \/ \E k \in SlotsUsed : InsertSlot(k)

Spec == Init /\ [][Next]_vars

-----------------------------------------------------------------------------
(* Properties.                                                             *)

\* Every variable keeps its type: the stores and log entries CausalState holds are the
\* ones its field types allow, and result_valid_at is never ahead of the state clock, from
\* where it would hide the next event.  used_bytes is left to BudgetExact.
TypeOK ==
    /\ version \in 0..MaxVersion
    /\ data \in DataInput
    /\ graph \in GraphInput
    /\ nextId \in 0..MaxQueries
    /\ validAt \in [QueryId -> 0..version \cup {Never}]
    /\ lastPublished \in [QueryId -> SUBSET PublishedLineage]
    /\ pending \in [QueryId -> SUBSET ChangedInput]
    /\ results \in [QueryId -> SUBSET ResultBytes]
    /\ diags \in [DiagKeys -> SUBSET DiagBytes]
    /\ slots \in [SlotKind -> SUBSET SUBSET DataEvent]
    /\ maxBytes \in Budgets
    /\ log \subseteq LogEntry
    /\ jobs \in [Jobs -> SUBSET Job]
    /\ since \in [QueryId -> Nat \cup {Never}]
    /\ basis \in [QueryId -> SUBSET Basis]
    /\ moved \in [Stage -> Nat]
    /\ appended \in Nat
    /\ overflowed \in BOOLEAN

\* The class CausalState::revalidation reports is the one the event history
\* gives: withdrawn exactly when a constraint was removed since the query was
\* last published (or registered), recompute when any other input event
\* happened since then or nothing was ever published, still valid otherwise.
\* pending_inputs, result_valid_at and the log never drift apart, whatever
\* order events, evictions and publications come in.
ClassMatchesHistory ==
    \A q \in Registered :
        Revalidation(q) =
            WorstOf({e.change : e \in {x \in log : x.target = "AllResults" /\ x.at > since[q]}}
                    \cup (IF basis[q] # {} THEN {} ELSE {"unnamed"}))

\* The two freshness questions a caller can ask, is_stale and revalidation,
\* never disagree about a registered query.
StaleIffNotValid ==
    \A q \in Registered : IsStale(q) <=> Revalidation(q) # "StillValid"

\* A result published through a version-checked entry point and still reported
\* fresh was computed from exactly the inputs the state holds now: no event
\* slipped in between the read, the recomputation and the publication.
FreshIsCurrent ==
    \A q \in Registered : \A b \in basis[q] :
        b.versioned /\ ~IsStale(q) => b.layers = Inputs

\* used_bytes never exceeds max_bytes nor what is retained, and is exactly what the
\* retained results and diagnostics slots were charged: under a limit always, without one
\* (CacheBudget::unlimited) until their sizes sum to more than a u64 holds.  No insert,
\* replacement, refused batch, eviction or ReplaceData strands or double-frees bytes, and
\* saturation never makes a limited budget admit what does not fit.
BudgetExact ==
    /\ used <= maxBytes
    /\ used <= Retained(results, diags)
    /\ maxBytes < U64Max \/ ~overflowed => used = Retained(results, diags)

\* Which slots may hold rows of older data: no slot outlives a ReplaceData; lag indexes,
\* graph scores and particle filters do not outlive an AppendData either; an OLS slot does,
\* and the log announces it at the version of the append.  A covariance slot also does:
\* invalidate_data_dependents neither drops nor announces it, and nothing is claimed of it.
SlotsFollowData ==
    \A k \in SlotKind : \A missed \in slots[k] :
        /\ "ReplaceData" \notin missed
        /\ "AppendData" \in missed => k \in {"ols", "cov"}
        /\ "AppendData" \in missed /\ k = "ols" =>
               \E e \in log : e.target = "SuffStat" /\ e.at = appended

\* The result now published moves the layer of a stage whose input changed since
\* query q was last published, or at least its lineage when one of the two
\* publications carries no layers.
Moves(q, stage, previous, now) ==
    moved[stage] > since[q] =>
        IF previous.identities /\ now.identities
        THEN IF stage = "Graph" THEN now.layers.graph # previous.layers.graph
             ELSE now.layers.data # previous.layers.data
        ELSE now.layers # previous.layers

\* A republication moves the identity layer of every stage input that changed
\* since the last one, whichever fields the two fill in: an old result is not
\* relabelled as fresh.
RepublicationMovesLayers ==
    [][\A q \in Registered : \A previous \in lastPublished[q], now \in basis'[q] :
         since'[q] # since[q] => \A stage \in Stage : Moves(q, stage, previous, now)]_vars

-----------------------------------------------------------------------------
(* What the code's own refusal promises and the code does not keep.        *)

\* A refusal asks the caller to "recompute under the current inputs before
\* publishing": a job that has just done so, with all identities, is accepted.
HonestRecomputationAccepted ==
    \A j \in Jobs : \A job \in jobs[j] : \A q \in Registered :
        job.at = version =>
            ~Refused(q, job.layers, [lineage |-> TRUE, snapshot |-> TRUE, identities |-> TRUE])
=============================================================================
