------------------------- MODULE CausalStateProofs -------------------------
(***************************************************************************)
(* Theorems about CausalState, for every value of its constants: the type  *)
(* invariant; that the freshness class a caller reads is the one the event *)
(* history gives; what a republication and a retained slot rest on.        *)
(***************************************************************************)
EXTENDS CausalState, FiniteSetTheorems, WellFoundedInduction, TLAPS

\* Query ids are numbers, and Never, the stamp of an unpublished result, is none.
LEMMA QueryIdType == QueryId \subseteq Nat /\ Never \notin Nat /\ Never \in Int
  BY BoundsAssumption DEF QueryId, Never

\* The input an event names is a ChangedInput.
LEMMA InputOfType ==
  ASSUME NEW s \in Stage, NEW c \in Change
  PROVE  /\ InputOf(s, c) \in ChangedInput
         /\ InputOf(s, c).stage = s
         /\ InputOf(s, c).change = c
  BY DEF InputOf, ChangedInput

\* The log entries of an event are entries of the log's type.
LEMMA EntriesType ==
  ASSUME NEW v \in Nat, NEW input \in ChangedInput
  PROVE  /\ InvalidationEntries(v, input) \subseteq LogEntry
         /\ DataEntries(v) \subseteq LogEntry
  <1>1. InvalidationEntries(v, input) \subseteq LogEntry
    BY QueryIdType DEF InvalidationEntries, Entry, LogEntry, Target, Change, ChangedInput, Cached
  <1>2. DataEntries(v) \subseteq LogEntry
    BY QueryIdType DEF DataEntries, Entry, LogEntry, Target
  <1>. QED BY <1>1, <1>2

\* What dropping all cached results does to the per-query stores.
LEMMA InvalidateType ==
  ASSUME TypeOK, NEW input \in ChangedInput, InvalidateAllResults(input), Tick
  PROVE  /\ results' \in [QueryId -> SUBSET ResultBytes]
         /\ validAt' \in [QueryId -> 0..version' \cup {Never}]
         /\ pending' \in [QueryId -> SUBSET ChangedInput]
  <1>1. version' = version + 1 /\ version \in Nat
    BY BoundsAssumption DEF Tick, TypeOK
  <1>2. \A q \in QueryId : validAt[q] \in 0..version' \cup {Never}
    BY <1>1 DEF TypeOK
  <1>. QED BY <1>2 DEF TypeOK, InvalidateAllResults

\* The clock of apply moves by one and stays within its bound.
LEMMA TickType ==
  ASSUME TypeOK, Tick
  PROVE  version' \in 0..MaxVersion /\ version' \in Nat /\ version' = version + 1
  BY BoundsAssumption DEF TypeOK, Tick

\* The parts of the type invariant that a premise event can disturb.
LEMMA PremiseEventType ==
  ASSUME TypeOK, NEW s \in Stage, NEW c \in Change, PremiseEvent(InputOf(s, c)),
         data' \in DataInput, graph' \in GraphInput
  PROVE  TypeOK'
  <1>. DEFINE input == InputOf(s, c)
  <1>1. input \in ChangedInput /\ input.stage = s
    BY InputOfType
  <1>2. version' \in 0..MaxVersion /\ version' \in Nat
    BY TickType DEF PremiseEvent
  <1>3. /\ results' \in [QueryId -> SUBSET ResultBytes]
        /\ validAt' \in [QueryId -> 0..version' \cup {Never}]
        /\ pending' \in [QueryId -> SUBSET ChangedInput]
    BY <1>1, InvalidateType DEF PremiseEvent
  <1>4. log' \subseteq LogEntry
    BY <1>1, <1>2, EntriesType DEF PremiseEvent, TypeOK
  <1>5. moved' \in [Stage -> Nat]
    BY <1>1, <1>2 DEF PremiseEvent, TypeOK
  <1>. QED BY <1>2, <1>3, <1>4, <1>5 DEF PremiseEvent, TypeOK, published, account

\* A data event, which also reaches the sufficient-statistics slots.
LEMMA DataEventType ==
  ASSUME TypeOK, NEW b, NEW v,
         (b \in Batches /\ AppendData(b)) \/ (v \in ReplaceVersions /\ ReplaceData(v))
  PROVE  TypeOK'
  <1>. DEFINE input == InputOf("DataSnapshot", "Modified")
  <1>1. input \in ChangedInput
    BY InputOfType DEF Stage, Change
  <1>2. version' \in 0..MaxVersion /\ version' \in Nat
    BY TickType DEF AppendData, ReplaceData
  <1>3. /\ results' \in [QueryId -> SUBSET ResultBytes]
        /\ validAt' \in [QueryId -> 0..version' \cup {Never}]
        /\ pending' \in [QueryId -> SUBSET ChangedInput]
    BY <1>1, InvalidateType DEF AppendData, ReplaceData
  <1>4. log' \subseteq LogEntry
    BY <1>1, <1>2, EntriesType DEF AppendData, ReplaceData, TypeOK
  <1>5. moved' \in [Stage -> Nat] /\ appended' \in Nat
    BY <1>2 DEF AppendData, ReplaceData, TypeOK, Stage
  <1>6. data' \in DataInput
    <2>1. /\ data.version \in Nat
          /\ data.batches \in Seq(Batches)
          /\ data.interventions \in Seq(Interventions)
      BY DEF TypeOK, DataInput
    <2>2. CASE b \in Batches /\ AppendData(b)
      <3>1. Append(data.batches, b) \in Seq(Batches)
        BY <2>1, <2>2
      <3>. QED BY <2>1, <2>2, <3>1 DEF AppendData, DataInput
    <2>3. CASE v \in ReplaceVersions /\ ReplaceData(v)
      <3>1. v \in Nat /\ <<>> \in Seq(Batches)
        BY <2>3, DomainAssumption
      <3>. QED BY <2>1, <2>3, <3>1 DEF ReplaceData, DataInput
    <2>. QED BY <2>2, <2>3
  <1>7. slots' \in [SlotKind -> SUBSET SUBSET DataEvent] /\ diags' \in [DiagKeys -> SUBSET DiagBytes]
    <2>1. \A event \in DataEvent : \A dropped : SlotsAfter(event, dropped) \in [SlotKind -> SUBSET SUBSET DataEvent]
      BY DEF SlotsAfter, TypeOK
    <2>. QED BY <2>1 DEF AppendData, ReplaceData, DataEvent, TypeOK
  <1>. QED
    BY <1>2, <1>3, <1>4, <1>5, <1>6, <1>7 DEF AppendData, ReplaceData, TypeOK, published, account

\* What a caller publishes is what its job read.
LEMMA CommitType ==
  ASSUME TypeOK, NEW layers \in Layers, NEW form \in Forms, NEW us \in Updates,
         NEW versioned \in BOOLEAN, CommitResults(us, layers, form, versioned), version' = version
  PROVE  /\ results' \in [QueryId -> SUBSET ResultBytes]
         /\ validAt' \in [QueryId -> 0..version' \cup {Never}]
         /\ pending' \in [QueryId -> SUBSET ChangedInput]
         /\ lastPublished' \in [QueryId -> SUBSET PublishedLineage]
         /\ since' \in [QueryId -> Nat \cup {Never}]
         /\ basis' \in [QueryId -> SUBSET Basis]
         /\ overflowed' \in BOOLEAN
  <1>. DEFINE touched == {us[i].query : i \in DOMAIN us}
              lineage == [layers |-> layers, dataVersion |-> data.version,
                          identities |-> form.identities]
  <1>1. PICK n \in 1..MaxBatch : us \in [1..n -> ResultUpdate]
    BY DEF Updates
  <1>2. Len(us) = n
    BY <1>1
  <1>3. \A q \in QueryId : Staged(us, Len(us), q) \in SUBSET ResultBytes
    <2>. SUFFICES ASSUME NEW q \in QueryId PROVE Staged(us, n, q) \in SUBSET ResultBytes
      BY <1>2
    <2>1. \A i \in 1..n : us[i].bytes \in ResultBytes
      BY <1>1 DEF ResultUpdate
    <2>2. results[q] \in SUBSET ResultBytes
      BY DEF TypeOK
    <2>. QED BY <2>1, <2>2 DEF Staged
  <1>4. version \in Nat
    BY BoundsAssumption DEF TypeOK
  <1>5. lineage \in PublishedLineage
    BY DomainAssumption DEF TypeOK, DataInput, PublishedLineage
  <1>6. [layers |-> layers, versioned |-> versioned, identities |-> form.identities] \in Basis
    BY DomainAssumption DEF Basis
  <1>7. lastPublished' \in [QueryId -> SUBSET PublishedLineage]
    BY <1>5 DEF CommitResults, TypeOK
  <1>9. basis' \in [QueryId -> SUBSET Basis]
    BY <1>6 DEF CommitResults, TypeOK
  <1>10. results' \in [QueryId -> SUBSET ResultBytes]
    BY <1>3 DEF CommitResults, StagedMap
  <1>11. validAt' \in [QueryId -> 0..version' \cup {Never}]
    BY <1>4 DEF CommitResults, Stamp, TypeOK
  <1>12. pending' \in [QueryId -> SUBSET ChangedInput] /\ since' \in [QueryId -> Nat \cup {Never}]
    BY <1>4 DEF CommitResults, TypeOK
  <1>13. overflowed' \in BOOLEAN
    BY DEF CommitResults, TypeOK
  <1>. QED BY <1>7, <1>9, <1>10, <1>11, <1>12, <1>13

\* A publication, version-checked or not, preserves the type invariant.
LEMMA PublishType ==
  ASSUME TypeOK, NEW j \in Jobs, NEW us \in Updates, NEW form \in Forms,
         NEW versioned \in BOOLEAN, Publish(j, us, form, versioned)
  PROVE  TypeOK'
  <1>1. PICK job \in jobs[j] :
           CommitResults(us, job.layers, form, versioned) /\ version' = version
    BY DEF Publish
  <1>2. job.layers \in Layers
    BY <1>1 DEF TypeOK, Job
  <1>. QED BY <1>1, <1>2, CommitType DEF Publish, TypeOK

\* A new state is type correct.
LEMMA TypeInit == Init => TypeOK
  <1>. SUFFICES ASSUME Init PROVE TypeOK
    OBVIOUS
  <1>1. version \in 0..MaxVersion /\ nextId \in 0..MaxQueries
    BY BoundsAssumption DEF Init
  <1>2. data \in DataInput /\ graph \in GraphInput
    BY DEF Init, DataInput, GraphInput
  <1>3. /\ validAt \in [QueryId -> 0..version \cup {Never}]
        /\ since \in [QueryId -> Nat \cup {Never}]
        /\ moved \in [Stage -> Nat] /\ appended \in Nat
    BY DEF Init
  <1>4. /\ lastPublished \in [QueryId -> SUBSET PublishedLineage]
        /\ pending \in [QueryId -> SUBSET ChangedInput]
        /\ results \in [QueryId -> SUBSET ResultBytes]
        /\ diags \in [DiagKeys -> SUBSET DiagBytes]
        /\ slots \in [SlotKind -> SUBSET SUBSET DataEvent]
        /\ log \subseteq LogEntry
        /\ jobs \in [Jobs -> SUBSET Job]
        /\ basis \in [QueryId -> SUBSET Basis]
    BY DEF Init
  <1>5. maxBytes \in Budgets /\ overflowed \in BOOLEAN
    BY DEF Init
  <1>6. validAt \in [QueryId -> 0..version \cup {Never}]
    BY DEF Init
  <1>. QED BY <1>1, <1>2, <1>3, <1>4, <1>5, <1>6 DEF TypeOK

\* Every event of apply preserves the type invariant.
LEMMA ApplyType == TypeOK /\ Apply => TypeOK'
  <1>. SUFFICES ASSUME TypeOK, Apply PROVE TypeOK'
    OBVIOUS
  <1>0. /\ data \in DataInput
        /\ graph \in GraphInput
        /\ graph.evidence \in [EvidenceIds -> Nat]
        /\ graph.constraints \in [ConstraintIds -> Nat]
        /\ graph.assumptions \in Seq(Assumptions)
        /\ data.interventions \in Seq(Interventions)
        /\ data.batches \in Seq(Batches)
        /\ data.version \in Nat
    BY DEF TypeOK, GraphInput, DataInput
  <1>1. ASSUME NEW b \in Batches, AppendData(b) PROVE TypeOK'
    BY <1>1, DataEventType
  <1>2. ASSUME NEW v \in ReplaceVersions, ReplaceData(v) PROVE TypeOK'
    BY <1>2, DataEventType
  <1>3. ASSUME NEW e \in EvidenceIds, AddGraphEvidence(e) PROVE TypeOK'
    <2>1. graph' \in GraphInput /\ data' \in DataInput
      BY <1>0, <1>3 DEF AddGraphEvidence, GraphInput
    <2>. QED BY <1>3, <2>1, PremiseEventType DEF AddGraphEvidence, Stage, Change
  <1>4. ASSUME NEW c \in ConstraintIds, AddConstraint(c) PROVE TypeOK'
    <2>1. graph' \in GraphInput /\ data' \in DataInput
      BY <1>0, <1>4 DEF AddConstraint, GraphInput
    <2>. QED BY <1>4, <2>1, PremiseEventType DEF AddConstraint, Stage, Change
  <1>5. ASSUME NEW c \in ConstraintIds, RemoveConstraint(c) PROVE TypeOK'
    <2>1. graph' \in GraphInput /\ data' \in DataInput
      BY <1>0, <1>5 DEF RemoveConstraint, GraphInput
    <2>. QED BY <1>5, <2>1, PremiseEventType DEF RemoveConstraint, Stage, Change
  <1>6. ASSUME NEW a \in Assumptions, UpdateAssumption(a) PROVE TypeOK'
    <2>0. Append(graph.assumptions, a) \in Seq(Assumptions)
      BY <1>0
    <2>1. graph' \in GraphInput /\ data' \in DataInput
      BY <1>0, <1>6, <2>0 DEF UpdateAssumption, GraphInput
    <2>. QED BY <1>6, <2>1, PremiseEventType DEF UpdateAssumption, Stage, Change
  <1>7. ASSUME NEW i \in Interventions, RecordIntervention(i) PROVE TypeOK'
    <2>0. Append(data.interventions, i) \in Seq(Interventions)
      BY <1>0
    <2>1. graph' \in GraphInput /\ data' \in DataInput
      BY <1>0, <1>7, <2>0 DEF RecordIntervention, DataInput, PremiseEvent
    <2>. QED BY <1>7, <2>1, PremiseEventType DEF RecordIntervention, Stage, Change
  <1>8. CASE RegisterQuery
    <2>1. version' \in 0..MaxVersion /\ version' \in Nat
      BY <1>8, TickType DEF RegisterQuery
    <2>2. nextId' \in 0..MaxQueries /\ since' \in [QueryId -> Nat \cup {Never}]
      BY <1>8, <2>1, BoundsAssumption DEF RegisterQuery, TypeOK, QueryId
    <2>3. validAt' \in [QueryId -> 0..version' \cup {Never}]
      BY <1>8, BoundsAssumption DEF RegisterQuery, Tick, TypeOK
    <2>. QED BY <1>8, <2>1, <2>2, <2>3 DEF RegisterQuery, TypeOK, account
  <1>. QED BY <1>1, <1>2, <1>3, <1>4, <1>5, <1>6, <1>7, <1>8 DEF Apply

\* So does every step: events, registrations, jobs, publications and evictions.
LEMMA TypeStep == TypeOK /\ [Next]_vars => TypeOK'
  <1>. SUFFICES ASSUME TypeOK, [Next]_vars PROVE TypeOK'
    OBVIOUS
  <1>1. CASE Apply
    BY <1>1, ApplyType
  <1>2. ASSUME NEW j \in Jobs, Recompute(j) PROVE TypeOK'
    <2>1. version \in Nat
      BY BoundsAssumption DEF TypeOK
    <2>2. [at |-> version, layers |-> Inputs] \in Job
      BY <2>1 DEF TypeOK, Job, Layers, Inputs
    <2>. QED BY <1>2, <2>2 DEF Recompute, TypeOK, state, hist
  <1>3. ASSUME NEW j \in Jobs, NEW us \in Updates, NEW form \in Forms,
               PublishResultsAt(j, us, form) \/ PublishResults(j, us, form)
        PROVE  TypeOK'
    BY <1>3, PublishType DEF PublishResultsAt, PublishResults
  <1>4. ASSUME NEW q \in QueryId, RemoveResult(q) PROVE TypeOK'
    BY <1>4 DEF RemoveResult, TypeOK, hist
  <1>5. CASE ClearResults
    BY <1>5 DEF ClearResults, TypeOK, hist
  <1>6. ASSUME NEW k \in DiagKeys, NEW charge \in DiagBytes, InsertMechanismDiag(k, charge)
        PROVE  TypeOK'
    BY <1>6 DEF InsertMechanismDiag, TypeOK, published
  <1>7. ASSUME NEW k \in DiagKeys, EvictMechanismDiag(k) PROVE TypeOK'
    BY <1>7 DEF EvictMechanismDiag, TypeOK, hist
  <1>8. ASSUME NEW k \in SlotsUsed, EnsureSlot(k) \/ InsertSlot(k) PROVE TypeOK'
    BY <1>8, BoundsAssumption, DomainAssumption DEF EnsureSlot, InsertSlot, TypeOK, hist
  <1>9. CASE UNCHANGED vars
    BY <1>9 DEF vars, state, hist, TypeOK
  <1>. QED
    BY <1>1, <1>2, <1>3, <1>4, <1>5, <1>6, <1>7, <1>8, <1>9, DomainAssumption DEF Next

\* Every reachable state of CausalState is type correct, for any number of
\* queries, jobs, events and input records.
THEOREM TypeCorrect == Spec => []TypeOK
  <1>. QED BY TypeInit, TypeStep, PTL DEF Spec

-----------------------------------------------------------------------------
(* Freshness.  ClassMatchesHistory is not inductive: it says nothing about *)
(* where the log, pending_inputs and result_valid_at come from.  The parts *)
(* below do.                                                               *)

\* Log entries carry versions already reached, and a query's own entry never
\* stands without the entry for all results that the same event pushed.
LogInv ==
    /\ \A e \in log : e.at <= version
    /\ \A e \in log : e.target = "QueryResult" =>
           \E a \in log : a.target = "AllResults" /\ a.at = e.at /\ a.change = e.change

\* The input events since the query's last publication or its registration.
EventsSince(q) == {e \in log : e.target = "AllResults" /\ e.at > since[q]}

\* pending_inputs holds exactly the kinds of change of those events, and a stamp
\* is the version of the last publication.
QueryInv(q) ==
    /\ since[q] \in Nat /\ since[q] <= version
    /\ \A p \in pending[q] : \E e \in EventsSince(q) : e.change = p.change
    /\ \A e \in EventsSince(q) : \E p \in pending[q] : e.change = p.change
    /\ validAt[q] # Never => validAt[q] = since[q] /\ basis[q] # {}
    /\ validAt[q] = Never => basis[q] = {} \/ pending[q] # {}

UnregisteredInv(q) == pending[q] = {} /\ validAt[q] = Never /\ basis[q] = {}

FreshnessInv ==
    /\ LogInv
    /\ \A q \in Registered : QueryInv(q)
    /\ \A q \in QueryId \ Registered : UnregisteredInv(q)

\* Registered queries are query ids.
LEMMA RegisteredType == TypeOK => Registered \subseteq QueryId
  BY BoundsAssumption DEF TypeOK, Registered, QueryId

\* A new state, with no query and an empty log, satisfies the invariant.
LEMMA FreshnessInit == Init => FreshnessInv
  BY DEF Init, FreshnessInv, LogInv, Registered, UnregisteredInv

\* Every input event: the new entry for all results is matched by the new pending
\* input of every registered query.
LEMMA FreshnessEvent ==
  ASSUME TypeOK, TypeOK', FreshnessInv, NEW input \in ChangedInput, NEW D,
         version' = version + 1, InvalidateAllResults(input),
         log' = log \cup InvalidationEntries(version', input) \cup D,
         \A e \in D : e.at = version' /\ e.target \notin {"QueryResult", "AllResults"},
         UNCHANGED <<nextId, since, basis>>
  PROVE  FreshnessInv'
  <1>. DEFINE new == Entry(version', "AllResults", Never, input.change)
  <1>1. version \in Nat
    BY BoundsAssumption DEF TypeOK
  <1>2. /\ new \in log'
        /\ new.at = version' /\ new.target = "AllResults" /\ new.change = input.change
    BY DEF InvalidationEntries, Entry
  <1>3. ASSUME NEW e \in log'
        PROVE  \/ e \in log
               \/ e.at = version' /\ e.change = input.change /\ e.target = "QueryResult"
               \/ e = new
               \/ e.at = version' /\ e.target \notin {"QueryResult", "AllResults"}
    BY DEF InvalidationEntries, Entry
  <1>4. LogInv'
    <2>1. \A e \in log' : e.at <= version'
      BY <1>1, <1>2, <1>3 DEF FreshnessInv, LogInv, TypeOK, LogEntry
    <2>2. ASSUME NEW e \in log', e.target = "QueryResult"
          PROVE  \E a \in log' : a.target = "AllResults" /\ a.at = e.at /\ a.change = e.change
      BY <1>2, <1>3, <2>2 DEF FreshnessInv, LogInv
    <2>. QED BY <2>1, <2>2 DEF LogInv
  <1>5. ASSUME NEW q \in Registered PROVE QueryInv(q)'
    <2>1. QueryInv(q) /\ q \in QueryId
      BY RegisteredType DEF FreshnessInv
    <2>2. pending'[q] = pending[q] \cup {input} /\ since'[q] = since[q] /\ basis'[q] = basis[q]
      BY <2>1 DEF InvalidateAllResults
    <2>3. validAt'[q] = validAt[q] \/ validAt'[q] = Never
      BY <2>1 DEF InvalidateAllResults
    <2>4. new \in EventsSince(q)' /\ EventsSince(q) \subseteq EventsSince(q)'
      BY <1>1, <1>2, <2>1, <2>2 DEF EventsSince, QueryInv
    <2>5. ASSUME NEW e \in EventsSince(q)' PROVE e \in EventsSince(q) \/ e = new
      BY <1>2, <1>3, <2>2 DEF EventsSince
    <2>6. ASSUME NEW p \in pending'[q] PROVE \E e \in EventsSince(q)' : e.change = p.change
      BY <1>2, <2>1, <2>2, <2>4 DEF QueryInv
    <2>7. ASSUME NEW e \in EventsSince(q)' PROVE \E p \in pending'[q] : e.change = p.change
      BY <1>2, <2>1, <2>2, <2>5 DEF QueryInv
    <2>. QED BY <1>1, <2>1, <2>2, <2>3, <2>6, <2>7 DEF QueryInv
  <1>6. ASSUME NEW q \in QueryId \ Registered PROVE UnregisteredInv(q)'
    BY DEF FreshnessInv, UnregisteredInv, InvalidateAllResults
  <1>7. Registered' = Registered
    BY DEF Registered
  <1>. QED BY <1>4, <1>5, <1>6, <1>7 DEF FreshnessInv

\* A publication: no event is later than the version it is stamped with.
LEMMA FreshnessPublish ==
  ASSUME TypeOK, FreshnessInv, NEW j \in Jobs, NEW us \in Updates, NEW form \in Forms,
         NEW versioned \in BOOLEAN, Publish(j, us, form, versioned)
  PROVE  FreshnessInv'
  <1>. DEFINE touched == {us[i].query : i \in DOMAIN us}
  <1>1. PICK job \in jobs[j] :
          /\ \A i \in DOMAIN us : us[i].query \in Registered
          /\ CommitResults(us, job.layers, form, versioned)
    BY DEF Publish
  <1>2. /\ version \in Nat /\ version' = version /\ log' = log
        /\ Registered' = Registered /\ touched \subseteq Registered
    BY <1>1, BoundsAssumption DEF Publish, Registered, TypeOK
  <1>3. LogInv'
    BY <1>2 DEF FreshnessInv, LogInv
  <1>4. ASSUME NEW q \in Registered PROVE QueryInv(q)'
    <2>1. QueryInv(q) /\ q \in QueryId
      BY RegisteredType DEF FreshnessInv
    <2>2. CASE q \in touched
      <3>1. /\ since'[q] = version /\ validAt'[q] = version /\ pending'[q] = {}
            /\ basis'[q] # {}
        BY <1>1, <2>1, <2>2 DEF CommitResults, Stamp
      <3>2. EventsSince(q)' = {}
        BY <1>2, <3>1 DEF FreshnessInv, LogInv, EventsSince, TypeOK, LogEntry
      <3>. QED BY <1>2, <3>1, <3>2, QueryIdType DEF QueryInv
    <2>3. CASE q \notin touched
      <3>1. /\ since'[q] = since[q] /\ validAt'[q] = validAt[q] /\ pending'[q] = pending[q]
            /\ basis'[q] = basis[q]
        BY <1>1, <2>1, <2>3 DEF CommitResults
      <3>. QED BY <1>2, <2>1, <3>1 DEF QueryInv, EventsSince
    <2>. QED BY <2>2, <2>3
  <1>5. ASSUME NEW q \in QueryId \ Registered PROVE UnregisteredInv(q)'
    <2>1. q \notin touched
      BY <1>2
    <2>. QED BY <1>1, <2>1 DEF CommitResults, FreshnessInv, UnregisteredInv
  <1>. QED BY <1>2, <1>3, <1>4, <1>5 DEF FreshnessInv

\* A registered query starts without a publication and without pending inputs.
LEMMA FreshnessRegister ==
  ASSUME TypeOK, FreshnessInv, RegisterQuery
  PROVE  FreshnessInv'
  <1>1. /\ version \in Nat /\ version' = version + 1 /\ log' = log
        /\ nextId \in Nat /\ nextId' = nextId + 1 /\ nextId \in QueryId /\ nextId \notin Registered
    BY BoundsAssumption DEF RegisterQuery, Tick, TypeOK, QueryId, Registered
  <1>2. Registered' = Registered \cup {nextId}
    BY <1>1 DEF Registered
  <1>3. LogInv'
    BY <1>1 DEF FreshnessInv, LogInv, TypeOK, LogEntry
  <1>4. ASSUME NEW q \in Registered PROVE QueryInv(q)'
    <2>1. q \in QueryId /\ q # nextId /\ QueryInv(q)
      BY <1>1, RegisteredType DEF FreshnessInv
    <2>2. since'[q] = since[q]
      BY <2>1 DEF RegisterQuery, TypeOK
    <2>. QED BY <1>1, <2>1, <2>2 DEF QueryInv, EventsSince, RegisterQuery
  <1>5. ASSUME NEW q \in QueryId, q = nextId PROVE QueryInv(q)'
    <2>1. UnregisteredInv(q)
      BY <1>1, <1>5 DEF FreshnessInv
    <2>2. since'[q] = version'
      BY <1>1, <1>5 DEF RegisterQuery, TypeOK
    <2>3. EventsSince(q)' = {}
      BY <1>1, <2>2 DEF EventsSince, FreshnessInv, LogInv, TypeOK, LogEntry
    <2>4. pending'[q] = {} /\ validAt'[q] = Never /\ basis'[q] = {}
      BY <2>1 DEF UnregisteredInv, RegisterQuery
    <2>. QED BY <1>1, <2>2, <2>3, <2>4 DEF QueryInv
  <1>6. ASSUME NEW q \in QueryId \ Registered, q # nextId PROVE UnregisteredInv(q)'
    BY DEF FreshnessInv, UnregisteredInv, RegisterQuery
  <1>7. \A q \in Registered' : QueryInv(q)'
    BY <1>1, <1>2, <1>4, <1>5
  <1>8. \A q \in QueryId \ Registered' : UnregisteredInv(q)'
    BY <1>2, <1>6
  <1>. QED BY <1>3, <1>7, <1>8 DEF FreshnessInv

\* Every step preserves the link between pending inputs, stamps, log and history.
LEMMA FreshnessStep ==
  TypeOK /\ TypeOK' /\ FreshnessInv /\ [Next]_vars => FreshnessInv'
  <1>. SUFFICES ASSUME TypeOK, TypeOK', FreshnessInv, [Next]_vars PROVE FreshnessInv'
    OBVIOUS
  <1>0. version \in Nat
    BY BoundsAssumption DEF TypeOK
  <1>1. ASSUME NEW b, AppendData(b) \/ ReplaceData(b) PROVE FreshnessInv'
    <2>. DEFINE input == InputOf("DataSnapshot", "Modified")
    <2>1. input \in ChangedInput
      BY InputOfType DEF Stage, Change
    <2>2. \A e \in DataEntries(version') :
            e.at = version' /\ e.target \notin {"QueryResult", "AllResults"}
      BY DEF DataEntries, Entry
    <2>3. /\ version' = version + 1 /\ InvalidateAllResults(input)
          /\ log' = log \cup InvalidationEntries(version', input) \cup DataEntries(version')
          /\ UNCHANGED <<nextId, since, basis>>
      BY <1>1 DEF AppendData, ReplaceData, Tick, published
    <2>. QED BY <2>1, <2>2, <2>3, FreshnessEvent
  <1>2. ASSUME NEW s \in Stage, NEW c \in Change, PremiseEvent(InputOf(s, c))
        PROVE  FreshnessInv'
    <2>. DEFINE input == InputOf(s, c)
    <2>1. input \in ChangedInput
      BY InputOfType
    <2>2. PICK D : D = {}
      OBVIOUS
    <2>3. /\ version' = version + 1 /\ InvalidateAllResults(input)
          /\ log' = log \cup InvalidationEntries(version', input) \cup D
          /\ \A e \in D : e.at = version' /\ e.target \notin {"QueryResult", "AllResults"}
          /\ UNCHANGED <<nextId, since, basis>>
      BY <1>2, <2>2 DEF PremiseEvent, Tick, published
    <2>. QED BY <2>1, <2>3, FreshnessEvent
  <1>3. CASE RegisterQuery
    BY <1>3, FreshnessRegister
  <1>4. ASSUME NEW j \in Jobs, NEW us \in Updates, NEW form \in Forms,
               PublishResultsAt(j, us, form) \/ PublishResults(j, us, form)
        PROVE  FreshnessInv'
    BY <1>4, FreshnessPublish DEF PublishResultsAt, PublishResults
  <1>5. CASE UNCHANGED <<version, nextId, validAt, pending, log, since, basis>>
    BY <1>5 DEF FreshnessInv, LogInv, QueryInv, UnregisteredInv, EventsSince, Registered
  <1>6. CASE Apply
    BY <1>1, <1>2, <1>3, <1>6 DEF Apply, AddGraphEvidence, AddConstraint, RemoveConstraint,
       UpdateAssumption, RecordIntervention, Stage, Change
  <1>7. CASE \/ \E j \in Jobs : Recompute(j)
             \/ \E q \in QueryId : RemoveResult(q)
             \/ ClearResults
             \/ \E k \in DiagKeys, charge \in DiagBytes : InsertMechanismDiag(k, charge)
             \/ \E k \in DiagKeys : EvictMechanismDiag(k)
             \/ \E k \in SlotsUsed : EnsureSlot(k) \/ InsertSlot(k)
             \/ UNCHANGED vars
    BY <1>5, <1>7 DEF Recompute, RemoveResult, ClearResults, InsertMechanismDiag,
       EvictMechanismDiag, EnsureSlot, InsertSlot, vars, state, hist, published
  <1>. QED BY <1>4, <1>6, <1>7, DomainAssumption DEF Next

\* Pending inputs, stamps and log agree with the event history in every
\* reachable state: the inductive invariant behind the class theorems.
THEOREM FreshnessInvariant == Spec => []FreshnessInv
  <1>. QED BY TypeCorrect, FreshnessInit, FreshnessStep, PTL DEF Spec

\* The changes a fresh-stamped query reads from the log are those of the events
\* since its last publication.
LEMMA ReadChanges ==
  ASSUME TypeOK, FreshnessInv, NEW q \in Registered
  PROVE  /\ {p.change : p \in pending[q]} = {e.change : e \in EventsSince(q)}
         /\ validAt[q] # Never =>
              {e.change : e \in EntriesSince(q, validAt[q])} = {e.change : e \in EventsSince(q)}
  <1>1. QueryInv(q) /\ LogInv
    BY DEF FreshnessInv
  <1>2. {p.change : p \in pending[q]} = {e.change : e \in EventsSince(q)}
    BY <1>1 DEF QueryInv
  <1>3. ASSUME validAt[q] # Never
        PROVE  {e.change : e \in EntriesSince(q, validAt[q])} = {e.change : e \in EventsSince(q)}
    <2>1. validAt[q] = since[q]
      BY <1>1, <1>3 DEF QueryInv
    <2>2. EventsSince(q) \subseteq EntriesSince(q, since[q])
      BY DEF EventsSince, EntriesSince
    <2>3. ASSUME NEW e \in EntriesSince(q, since[q])
          PROVE  \E a \in EventsSince(q) : a.change = e.change
      BY <1>1 DEF EventsSince, EntriesSince, LogInv
    <2>. QED BY <2>1, <2>2, <2>3
  <1>. QED BY <1>2, <1>3

\* With the invariant, both freshness questions have the answer of the history.
LEMMA ClassFollows == TypeOK /\ FreshnessInv => ClassMatchesHistory /\ StaleIffNotValid
  <1>. SUFFICES ASSUME TypeOK, FreshnessInv, NEW q \in Registered
                PROVE  /\ Revalidation(q) =
                            WorstOf({e.change : e \in EventsSince(q)}
                                    \cup (IF basis[q] # {} THEN {} ELSE {"unnamed"}))
                       /\ IsStale(q) <=> Revalidation(q) # "StillValid"
    BY DEF ClassMatchesHistory, StaleIffNotValid, EventsSince
  <1>. DEFINE changes == {e.change : e \in EventsSince(q)}
  <1>1. /\ {p.change : p \in pending[q]} = changes
        /\ validAt[q] # Never => {e.change : e \in EntriesSince(q, validAt[q])} = changes
    BY ReadChanges
  <1>2. QueryInv(q)
    BY DEF FreshnessInv
  <1>. HIDE DEF changes
  <1>3. CASE validAt[q] # Never
    <2>1. basis[q] # {}
      BY <1>2, <1>3 DEF QueryInv
    <2>2. Revalidation(q) = WorstOf(changes)
      BY <1>1, <1>3 DEF Revalidation
    <2>3. IsStale(q) <=> WorstOf(changes) # "StillValid"
      BY <1>1, <1>3 DEF IsStale, RevalidationSince
    <2>. QED BY <2>1, <2>2, <2>3 DEF changes
  <1>4. CASE validAt[q] = Never
    <2>1. Revalidation(q) = WorstOf(changes \cup {"unnamed"})
      BY <1>1, <1>4 DEF Revalidation
    <2>2. basis[q] = {} \/ changes # {}
      <3>1. pending[q] # {} => {p.change : p \in pending[q]} # {}
        OBVIOUS
      <3>. QED BY <1>1, <1>2, <1>4, <3>1 DEF QueryInv
    <2>3. WorstOf(changes \cup {"unnamed"}) =
            WorstOf(changes \cup (IF basis[q] # {} THEN {} ELSE {"unnamed"}))
      BY <2>2 DEF WorstOf
    <2>4. IsStale(q) /\ WorstOf(changes \cup {"unnamed"}) # "StillValid"
      BY <1>4 DEF IsStale, WorstOf
    <2>. QED BY <2>1, <2>3, <2>4 DEF changes
  <1>. QED BY <1>3, <1>4

\* The class CausalState::revalidation reports always is the one the events since
\* the last publication give: no interleaving of events, evictions and
\* publications makes pending_inputs, result_valid_at and the log disagree.
THEOREM ClassCorrect == Spec => []ClassMatchesHistory
  <1>. QED BY TypeCorrect, FreshnessInvariant, ClassFollows, PTL

\* is_stale and revalidation never disagree.
THEOREM StalenessAgrees == Spec => []StaleIffNotValid
  <1>. QED BY TypeCorrect, FreshnessInvariant, ClassFollows, PTL

-----------------------------------------------------------------------------
(* A fresh result rests on the current inputs.                             *)

\* A job that read the current version read the current inputs; a published
\* result that no event has followed was computed from them.
BasisInv ==
    /\ \A j \in Jobs : \A job \in jobs[j] :
          job.at <= version /\ (job.at = version => job.layers = Inputs)
    /\ \A q \in Registered : \A b \in basis[q] :
          b.versioned /\ EventsSince(q) = {} => b.layers = Inputs

\* A new state has published nothing.
LEMMA BasisInit == Init => BasisInv
  BY DEF Init, BasisInv, Registered

\* An input event advances the version past every job and leaves an entry after
\* every publication.
LEMMA BasisEvent ==
  ASSUME TypeOK, FreshnessInv, BasisInv, NEW change,
         version' = version + 1, UNCHANGED <<jobs, nextId, since, basis>>,
         log \subseteq log', Entry(version', "AllResults", Never, change) \in log'
  PROVE  BasisInv'
  <1>1. version \in Nat
    BY BoundsAssumption DEF TypeOK
  <1>2. ASSUME NEW j \in Jobs, NEW job \in jobs[j]
        PROVE  job.at <= version' /\ job.at # version'
    BY <1>1 DEF BasisInv, TypeOK, Job
  <1>3. ASSUME NEW q \in Registered PROVE EventsSince(q)' # {}
    <2>1. since[q] \in Nat /\ since[q] <= version
      BY DEF FreshnessInv, QueryInv
    <2>2. Entry(version', "AllResults", Never, change) \in EventsSince(q)'
      BY <1>1, <2>1 DEF EventsSince, Entry
    <2>. QED BY <2>2
  <1>4. Registered' = Registered
    BY DEF Registered
  <1>. QED BY <1>2, <1>3, <1>4 DEF BasisInv

\* A publication of a version-checked job.
LEMMA BasisPublish ==
  ASSUME TypeOK, FreshnessInv, BasisInv, NEW j \in Jobs, NEW us \in Updates,
         NEW form \in Forms, NEW versioned \in BOOLEAN, versioned => RequireVersion(j),
         Publish(j, us, form, versioned)
  PROVE  BasisInv'
  <1>. DEFINE touched == {us[i].query : i \in DOMAIN us}
  <1>1. PICK job \in jobs[j] : CommitResults(us, job.layers, form, versioned)
    BY DEF Publish
  <1>2. UNCHANGED <<version, data, graph, nextId, log, jobs>>
    BY DEF Publish
  <1>3. Inputs' = Inputs /\ Registered' = Registered
    BY <1>2 DEF Inputs, Registered
  <1>4. versioned => job.layers = Inputs
    BY DEF BasisInv, RequireVersion
  <1>5. ASSUME NEW q \in Registered, NEW b \in basis'[q], b.versioned, EventsSince(q)' = {}
        PROVE  b.layers = Inputs
    <2>1. q \in QueryId
      BY RegisteredType
    <2>2. CASE q \in touched
      <3>1. b = [layers |-> job.layers, versioned |-> versioned, identities |-> form.identities]
        BY <1>1, <1>5, <2>1, <2>2 DEF CommitResults
      <3>. QED BY <1>4, <1>5, <3>1
    <2>3. CASE q \notin touched
      <3>1. basis'[q] = basis[q] /\ since'[q] = since[q]
        BY <1>1, <2>1, <2>3 DEF CommitResults
      <3>2. EventsSince(q) = {}
        BY <1>2, <1>5, <3>1 DEF EventsSince
      <3>. QED BY <1>5, <3>1, <3>2 DEF BasisInv
    <2>. QED BY <2>2, <2>3
  <1>6. \A k \in Jobs : \A w \in jobs'[k] :
          w.at <= version' /\ (w.at = version' => w.layers = Inputs')
    BY <1>2, <1>3 DEF BasisInv
  <1>. QED BY <1>3, <1>5, <1>6 DEF BasisInv

\* Every step keeps what a version-checked publication rests on.
LEMMA BasisStep ==
  TypeOK /\ TypeOK' /\ FreshnessInv /\ BasisInv /\ [Next]_vars => BasisInv'
  <1>. SUFFICES ASSUME TypeOK, TypeOK', FreshnessInv, BasisInv, [Next]_vars PROVE BasisInv'
    OBVIOUS
  <1>0. version \in Nat
    BY BoundsAssumption DEF TypeOK
  <1>1. ASSUME NEW b, AppendData(b) \/ ReplaceData(b) PROVE BasisInv'
    <2>1. /\ version' = version + 1 /\ UNCHANGED <<jobs, nextId, since, basis>>
          /\ log \subseteq log'
          /\ Entry(version', "AllResults", Never, "Modified") \in log'
      BY <1>1 DEF AppendData, ReplaceData, Tick, published, InvalidationEntries, InputOf
    <2>. QED BY <2>1, BasisEvent
  <1>2. ASSUME NEW s, NEW c, PremiseEvent(InputOf(s, c)) PROVE BasisInv'
    <2>1. /\ version' = version + 1 /\ UNCHANGED <<jobs, nextId, since, basis>>
          /\ log \subseteq log'
          /\ Entry(version', "AllResults", Never, c) \in log'
      BY <1>2 DEF PremiseEvent, Tick, published, InvalidationEntries, InputOf
    <2>. QED BY <2>1, BasisEvent
  <1>3. CASE RegisterQuery
    <2>1. /\ version' = version + 1 /\ UNCHANGED <<jobs, basis, log, data, graph>>
          /\ nextId \in Nat /\ nextId' = nextId + 1 /\ nextId \in QueryId /\ nextId \notin Registered
      BY <1>3, BoundsAssumption DEF RegisterQuery, Tick, TypeOK, QueryId, Registered
    <2>2. Registered' = Registered \cup {nextId} /\ Inputs' = Inputs
      BY <2>1 DEF Registered, Inputs
    <2>3. ASSUME NEW q \in Registered PROVE EventsSince(q)' = EventsSince(q)
      <3>1. q \in QueryId /\ q # nextId
        BY <2>1, RegisteredType
      <3>2. since'[q] = since[q]
        BY <1>3, <3>1 DEF RegisterQuery, TypeOK
      <3>. QED BY <2>1, <3>2 DEF EventsSince
    <2>4. basis'[nextId] = {}
      BY <2>1 DEF FreshnessInv, UnregisteredInv
    <2>5. \A j \in Jobs : \A job \in jobs'[j] : job.at <= version' /\ job.at # version'
      BY <1>0, <2>1 DEF BasisInv, TypeOK, Job
    <2>6. \A q \in Registered' : \A b \in basis'[q] :
            b.versioned /\ EventsSince(q)' = {} => b.layers = Inputs'
      BY <2>1, <2>2, <2>3, <2>4 DEF BasisInv
    <2>. QED BY <2>5, <2>6 DEF BasisInv
  <1>4. ASSUME NEW j \in Jobs, Recompute(j) PROVE BasisInv'
    <2>1. /\ UNCHANGED <<version, data, graph, nextId, log, since, basis>>
          /\ jobs' = [jobs EXCEPT ![j] = {[at |-> version, layers |-> Inputs]}]
      BY <1>4 DEF Recompute, state, hist
    <2>2. Inputs' = Inputs /\ Registered' = Registered
      BY <2>1 DEF Inputs, Registered
    <2>3. \A k \in Jobs : \A w \in jobs'[k] :
            w.at <= version' /\ (w.at = version' => w.layers = Inputs')
      BY <1>0, <2>1, <2>2 DEF BasisInv, TypeOK
    <2>4. \A q \in Registered : \A b \in basis'[q] :
            b.versioned /\ EventsSince(q)' = {} => b.layers = Inputs'
      BY <2>1, <2>2 DEF BasisInv, EventsSince
    <2>. QED BY <2>2, <2>3, <2>4 DEF BasisInv
  <1>5. ASSUME NEW j \in Jobs, NEW us \in Updates, NEW form \in Forms,
               PublishResultsAt(j, us, form)
        PROVE  BasisInv'
    BY <1>5, BasisPublish DEF PublishResultsAt
  <1>6. ASSUME NEW j \in Jobs, NEW us \in Updates, NEW form \in Forms,
               PublishResults(j, us, form)
        PROVE  BasisInv'
    BY <1>6, BasisPublish DEF PublishResults
  <1>7. CASE UNCHANGED <<version, data, graph, nextId, log, jobs, since, basis>>
    BY <1>7 DEF BasisInv, EventsSince, Registered, Inputs
  <1>8. CASE Apply
    BY <1>1, <1>2, <1>3, <1>8 DEF Apply, AddGraphEvidence, AddConstraint, RemoveConstraint,
       UpdateAssumption, RecordIntervention
  <1>9. CASE \/ \E q \in QueryId : RemoveResult(q)
             \/ ClearResults
             \/ \E k \in DiagKeys, charge \in DiagBytes : InsertMechanismDiag(k, charge)
             \/ \E k \in DiagKeys : EvictMechanismDiag(k)
             \/ \E k \in SlotsUsed : EnsureSlot(k) \/ InsertSlot(k)
             \/ UNCHANGED vars
    BY <1>7, <1>9 DEF RemoveResult, ClearResults, InsertMechanismDiag, EvictMechanismDiag,
       EnsureSlot, InsertSlot, vars, state, hist, published
  <1>. QED BY <1>4, <1>5, <1>6, <1>8, <1>9, DomainAssumption DEF Next

\* With the invariant, a version-checked fresh result rests on current inputs.
LEMMA BasisFollows == TypeOK /\ FreshnessInv /\ BasisInv => FreshIsCurrent
  <1>. SUFFICES ASSUME TypeOK, FreshnessInv, BasisInv, NEW q \in Registered,
                       NEW b \in basis[q], b.versioned, ~IsStale(q)
                PROVE  b.layers = Inputs
    BY DEF FreshIsCurrent
  <1>1. validAt[q] # Never /\ RevalidationSince(q, validAt[q]) = "StillValid"
    BY DEF IsStale
  <1>2. {e.change : e \in EntriesSince(q, validAt[q])} = {}
    BY <1>1 DEF RevalidationSince, WorstOf
  <1>3. EventsSince(q) = {}
    <2>1. {e.change : e \in EventsSince(q)} = {}
      BY <1>1, <1>2, ReadChanges
    <2>. QED BY <2>1
  <1>. QED BY <1>3 DEF BasisInv

\* A result published against an expected version and still reported fresh was
\* computed from the inputs the state holds now, however many jobs and events
\* interleave.
THEOREM FreshnessSound == Spec => []FreshIsCurrent
  <1>1. Spec => []BasisInv
    BY TypeCorrect, FreshnessInvariant, BasisInit, BasisStep, PTL DEF Spec
  <1>. QED BY <1>1, TypeCorrect, FreshnessInvariant, BasisFollows, PTL

-----------------------------------------------------------------------------
(* Republication.                                                          *)

\* A stage that moved since a query's last publication is among the inputs that
\* publish_results compares layers for.
MovedInv ==
    /\ \A stage \in Stage : moved[stage] <= version
    /\ \A q \in Registered : \A stage \in Stage :
          moved[stage] > since[q] => \E p \in pending[q] : p.stage = stage

\* An input event moves one stage and makes it pending for every query.
LEMMA MovedEvent ==
  ASSUME TypeOK, MovedInv, NEW input \in ChangedInput, version' = version + 1,
         InvalidateAllResults(input), moved' = [moved EXCEPT ![input.stage] = version'],
         UNCHANGED <<nextId, since>>
  PROVE  MovedInv'
  <1>1. version \in Nat /\ \A stage \in Stage : moved[stage] \in Nat
    BY BoundsAssumption DEF TypeOK
  <1>2. \A stage \in Stage : moved'[stage] = IF stage = input.stage THEN version' ELSE moved[stage]
    BY DEF TypeOK
  <1>3. \A stage \in Stage : moved'[stage] <= version'
    BY <1>1, <1>2 DEF MovedInv
  <1>4. Registered' = Registered
    BY DEF Registered
  <1>5. ASSUME NEW q \in Registered, NEW stage \in Stage, moved'[stage] > since[q]
        PROVE  \E p \in pending'[q] : p.stage = stage
    <2>1. pending'[q] = pending[q] \cup {input}
      BY RegisteredType DEF InvalidateAllResults
    <2>. QED BY <1>2, <1>5, <2>1 DEF MovedInv
  <1>. QED BY <1>3, <1>4, <1>5 DEF MovedInv

\* Every step keeps it: a publication and a registration are at the version every
\* earlier move was below.
LEMMA MovedStep == TypeOK /\ MovedInv /\ [Next]_vars => MovedInv'
  <1>. SUFFICES ASSUME TypeOK, MovedInv, [Next]_vars PROVE MovedInv'
    OBVIOUS
  <1>0. version \in Nat /\ \A stage \in Stage : moved[stage] \in Nat
    BY BoundsAssumption DEF TypeOK
  <1>1. ASSUME NEW b, AppendData(b) \/ ReplaceData(b) PROVE MovedInv'
    <2>. DEFINE input == InputOf("DataSnapshot", "Modified")
    <2>1. input \in ChangedInput /\ input.stage = "DataSnapshot"
      BY InputOfType DEF Stage, Change
    <2>2. /\ version' = version + 1 /\ InvalidateAllResults(input)
          /\ moved' = [moved EXCEPT ![input.stage] = version'] /\ UNCHANGED <<nextId, since>>
      BY <1>1, <2>1 DEF AppendData, ReplaceData, Tick, published
    <2>. HIDE DEF input
    <2>. QED BY <2>1, <2>2, MovedEvent
  <1>2. ASSUME NEW s \in Stage, NEW c \in Change, PremiseEvent(InputOf(s, c)) PROVE MovedInv'
    <2>1. InputOf(s, c) \in ChangedInput
      BY InputOfType
    <2>. QED BY <1>2, <2>1, MovedEvent DEF PremiseEvent, Tick, published
  <1>3. CASE RegisterQuery
    <2>1. /\ version' = version + 1 /\ UNCHANGED <<pending, moved>>
          /\ nextId \in Nat /\ nextId' = nextId + 1 /\ nextId \in QueryId
          /\ since' = [since EXCEPT ![nextId] = version']
      BY <1>3, BoundsAssumption DEF RegisterQuery, Tick, TypeOK, QueryId
    <2>2. Registered' = Registered \cup {nextId} /\ nextId \notin Registered
      BY <2>1 DEF Registered
    <2>3. ASSUME NEW q \in Registered', NEW stage \in Stage, moved'[stage] > since'[q]
          PROVE  \E p \in pending'[q] : p.stage = stage
      <3>1. q # nextId
        BY <1>0, <2>1, <2>3 DEF MovedInv, TypeOK
      <3>2. q \in Registered /\ since'[q] = since[q]
        BY <2>1, <2>2, <3>1, RegisteredType DEF TypeOK
      <3>. QED BY <2>1, <2>3, <3>2 DEF MovedInv
    <2>. QED BY <1>0, <2>1, <2>3 DEF MovedInv
  <1>4. ASSUME NEW j \in Jobs, NEW us \in Updates, NEW form \in Forms, NEW versioned,
               Publish(j, us, form, versioned)
        PROVE  MovedInv'
    <2>. DEFINE touched == {us[i].query : i \in DOMAIN us}
    <2>1. PICK job \in jobs[j] : CommitResults(us, job.layers, form, versioned)
      BY <1>4 DEF Publish
    <2>2. UNCHANGED <<version, nextId, moved>> /\ Registered' = Registered
      BY <1>4 DEF Publish, Registered
    <2>3. ASSUME NEW q \in Registered, NEW stage \in Stage, moved[stage] > since'[q]
          PROVE  \E p \in pending'[q] : p.stage = stage
      <3>1. q \in QueryId
        BY RegisteredType
      <3>2. q \notin touched
        BY <1>0, <2>1, <2>3, <3>1 DEF CommitResults, MovedInv
      <3>3. since'[q] = since[q] /\ pending'[q] = pending[q]
        BY <2>1, <3>1, <3>2 DEF CommitResults
      <3>. QED BY <2>3, <3>3 DEF MovedInv
    <2>. QED BY <2>2, <2>3 DEF MovedInv
  <1>5. CASE UNCHANGED <<version, nextId, pending, since, moved>>
    BY <1>5 DEF MovedInv, Registered
  <1>6. CASE Apply
    BY <1>1, <1>2, <1>3, <1>6 DEF Apply, AddGraphEvidence, AddConstraint, RemoveConstraint,
       UpdateAssumption, RecordIntervention, Stage, Change
  <1>7. CASE \/ \E j \in Jobs : Recompute(j)
             \/ \E q \in QueryId : RemoveResult(q)
             \/ ClearResults
             \/ \E k \in DiagKeys, charge \in DiagBytes : InsertMechanismDiag(k, charge)
             \/ \E k \in DiagKeys : EvictMechanismDiag(k)
             \/ \E k \in SlotsUsed : EnsureSlot(k) \/ InsertSlot(k)
             \/ UNCHANGED vars
    BY <1>5, <1>7 DEF Recompute, RemoveResult, ClearResults, InsertMechanismDiag,
       EvictMechanismDiag, EnsureSlot, InsertSlot, vars, state, hist, published
  <1>. QED BY <1>4, <1>6, <1>7, DomainAssumption DEF Next, PublishResultsAt, PublishResults

\* A publication that publish_results accepts moves the layer of every stage that
\* moved since the last one.
LEMMA PublishMoves ==
  ASSUME TypeOK, MovedInv, NEW j \in Jobs, NEW us \in Updates, NEW form \in Forms,
         NEW versioned, Publish(j, us, form, versioned),
         NEW q \in Registered, NEW previous \in lastPublished[q], NEW now \in basis'[q],
         since'[q] # since[q], NEW stage \in Stage
  PROVE  Moves(q, stage, previous, now)
  <1>. DEFINE touched == {us[i].query : i \in DOMAIN us}
  <1>1. PICK job \in jobs[j] :
           /\ \A i \in DOMAIN us : ~Refused(us[i].query, job.layers, form)
           /\ CommitResults(us, job.layers, form, versioned)
    BY DEF Publish
  <1>2. q \in QueryId
    BY RegisteredType
  <1>3. q \in touched
    BY <1>1, <1>2 DEF CommitResults
  <1>4. now = [layers |-> job.layers, versioned |-> versioned, identities |-> form.identities]
    BY <1>1, <1>2, <1>3 DEF CommitResults
  <1>5. ~Refused(q, job.layers, form)
    BY <1>1, <1>3
  <1>6. ASSUME moved[stage] > since[q]
        PROVE  IF previous.identities /\ form.identities
               THEN ~LayerUnchanged(stage, previous.layers, job.layers)
               ELSE job.layers # previous.layers
    <2>1. PICK input \in pending[q] : input.stage = stage
      BY <1>6 DEF MovedInv
    <2>. QED BY <1>5, <2>1 DEF Refused
  <1>. QED BY <1>4, <1>6 DEF Moves, LayerUnchanged, Stage

\* No republication relabels an old result as fresh: publish_results compares
\* layers for every input event since the last publication, however the two were
\* filled in and whatever happened in between.
THEOREM RepublicationSound == Spec => RepublicationMovesLayers
  <1>. DEFINE Republication ==
                \A q \in Registered : \A previous \in lastPublished[q], now \in basis'[q] :
                   since'[q] # since[q] => \A stage \in Stage : Moves(q, stage, previous, now)
  <1>1. Init => MovedInv
    BY DEF Init, MovedInv, Registered
  <1>2. TypeOK /\ MovedInv /\ [Next]_vars => [Republication]_vars
    <2>. SUFFICES ASSUME TypeOK, MovedInv, Next,
                         NEW q \in Registered, NEW previous \in lastPublished[q],
                         NEW now \in basis'[q], since'[q] # since[q], NEW stage \in Stage
                  PROVE  Moves(q, stage, previous, now)
      OBVIOUS
    <2>1. q \in QueryId /\ q # nextId /\ since \in [QueryId -> Nat \cup {Never}]
      BY RegisteredType DEF Registered, TypeOK
    <2>2. since' # since
      OBVIOUS
    <2>3. ~RegisterQuery
      BY <2>1 DEF RegisterQuery
    <2>4. ~Apply
      BY <2>2, <2>3 DEF Apply, AppendData, ReplaceData, AddGraphEvidence, AddConstraint,
         RemoveConstraint, UpdateAssumption, RecordIntervention, PremiseEvent, published
    <2>5. ~(\/ \E j \in Jobs : Recompute(j)
            \/ \E r \in QueryId : RemoveResult(r)
            \/ ClearResults
            \/ \E k \in DiagKeys, charge \in DiagBytes : InsertMechanismDiag(k, charge)
            \/ \E k \in DiagKeys : EvictMechanismDiag(k)
            \/ \E k \in SlotsUsed : EnsureSlot(k) \/ InsertSlot(k))
      BY <2>2 DEF Recompute, RemoveResult, ClearResults, InsertMechanismDiag,
         EvictMechanismDiag, EnsureSlot, InsertSlot, hist, published
    <2>6. PICK j \in Jobs, us \in Updates, form \in Forms :
             Publish(j, us, form, TRUE) \/ Publish(j, us, form, FALSE)
      BY <2>4, <2>5, DomainAssumption DEF Next, PublishResultsAt, PublishResults
    <2>. QED BY <2>6, PublishMoves
  <1>. QED BY <1>1, <1>2, TypeCorrect, MovedStep, PTL DEF Spec, RepublicationMovesLayers

-----------------------------------------------------------------------------
(* Slots.                                                                  *)

\* Every step keeps it: an append drops a slot or announces it at its own version, a
\* replacement drops every slot, and a new slot has missed nothing.
LEMMA SlotStep == TypeOK /\ SlotsFollowData /\ [Next]_vars => SlotsFollowData'
  <1>. SUFFICES ASSUME TypeOK, SlotsFollowData, [Next]_vars PROVE SlotsFollowData'
    OBVIOUS
  <1>1. ASSUME NEW b, AppendData(b) PROVE SlotsFollowData'
    <2>1. /\ appended' = version' /\ slots' = SlotsAfter("AppendData", DroppedOnAppend)
          /\ DataEntries(version') \subseteq log'
      BY <1>1 DEF AppendData
    <2>2. ASSUME NEW k \in SlotKind, NEW missed \in slots'[k]
          PROVE  /\ k \in {"ols", "cov"} /\ slots[k] # {}
                 /\ "ReplaceData" \notin missed
      BY <2>1, <2>2 DEF SlotsAfter, SlotKind, DroppedOnAppend, SlotsFollowData
    <2>3. ASSUME slots["ols"] # {}
          PROVE  \E e \in log' : e.target = "SuffStat" /\ e.at = appended'
      <3>1. Entry(version', "SuffStat", Never, "unnamed") \in log'
        BY <2>1, <2>3 DEF DataEntries
      <3>. QED BY <2>1, <3>1 DEF Entry
    <2>. QED BY <2>2, <2>3 DEF SlotsFollowData
  <1>2. ASSUME NEW v, ReplaceData(v) PROVE SlotsFollowData'
    <2>1. slots' = [k \in SlotKind |-> {}]
      BY <1>2 DEF ReplaceData, SlotsAfter, DroppedOnReplace
    <2>. QED BY <2>1 DEF SlotsFollowData
  <1>3. ASSUME NEW k \in SlotsUsed, EnsureSlot(k) \/ InsertSlot(k) PROVE SlotsFollowData'
    <2>1. \A m \in SlotKind : slots'[m] = IF m = k THEN {{}} ELSE slots[m]
      BY <1>3, DomainAssumption DEF EnsureSlot, InsertSlot, TypeOK
    <2>2. UNCHANGED <<log, appended>>
      BY <1>3 DEF EnsureSlot, InsertSlot, hist
    <2>. QED BY <2>1, <2>2 DEF SlotsFollowData
  <1>4. ASSUME UNCHANGED <<slots, appended>>, log \subseteq log'
        PROVE  SlotsFollowData'
    BY <1>4 DEF SlotsFollowData
  <1>5. ASSUME NEW input, PremiseEvent(input) PROVE SlotsFollowData'
    BY <1>4, <1>5 DEF PremiseEvent
  <1>6. CASE RegisterQuery
    BY <1>4, <1>6 DEF RegisterQuery
  <1>7. CASE Apply
    BY <1>1, <1>2, <1>5, <1>6, <1>7 DEF Apply, AddGraphEvidence, AddConstraint, RemoveConstraint,
       UpdateAssumption, RecordIntervention
  <1>8. CASE UNCHANGED <<slots, appended, log>>
    BY <1>4, <1>8
  <1>9. CASE \/ \E j \in Jobs : Recompute(j)
             \/ \E j \in Jobs, us \in Updates, form \in Forms : PublishResultsAt(j, us, form)
             \/ \E j \in Jobs, us \in Updates, form \in UncheckedForms : PublishResults(j, us, form)
             \/ \E q \in QueryId : RemoveResult(q)
             \/ ClearResults
             \/ \E k \in DiagKeys, charge \in DiagBytes : InsertMechanismDiag(k, charge)
             \/ \E k \in DiagKeys : EvictMechanismDiag(k)
             \/ UNCHANGED vars
    BY <1>8, <1>9 DEF Recompute, PublishResultsAt, PublishResults, Publish, RemoveResult,
       ClearResults, InsertMechanismDiag, EvictMechanismDiag, vars, state, hist
  <1>. QED BY <1>3, <1>7, <1>9 DEF Next

\* No slot outlives a ReplaceData; lag indexes, graph scores and particle filters do not
\* outlive an AppendData; an OLS slot left behind by one is announced in the log at its
\* version.  Covariance slots are left behind unannounced, and nothing is said of them.
THEOREM SlotsSound == Spec => []SlotsFollowData
  <1>1. Init => SlotsFollowData
    BY DEF Init, SlotsFollowData
  <1>. QED BY <1>1, TypeCorrect, SlotStep, PTL DEF Spec

-----------------------------------------------------------------------------
(* Sums.  TotalBytes folds over the keys of a map.  The library's          *)
(* induction theorems take an operator, which the provers cannot           *)
(* instantiate; induction here takes the set of subsets that have the      *)
(* property, and rests on the strict subset order being well-founded.      *)

\* Induction over the subsets of a finite set, for a property given as the set of
\* subsets that have it.
LEMMA SubsetInduction ==
  ASSUME NEW D, IsFiniteSet(D), NEW G,
         \A T \in SUBSET D : (\A U \in SUBSET T : U # T => U \in G) => T \in G
  PROVE  \A T \in SUBSET D : T \in G
  <1>. DEFINE bad == {T \in SUBSET D : T \notin G}
  <1>1. bad \subseteq FiniteSubsetsOf(D)
    BY FS_Subset DEF FiniteSubsetsOf
  <1>2. SUFFICES ASSUME bad # {} PROVE FALSE
    OBVIOUS
  <1>3. PICK T \in bad : \A U \in bad : <<U, T>> \notin StrictSubsetOrdering(D)
    <2>. HIDE DEF bad
    <2>. QED BY <1>1, <1>2, WFMin, FS_StrictSubsetOrderingWellFounded
  <1>4. \A U \in SUBSET T : U # T => U \in G
    BY <1>3 DEF StrictSubsetOrdering
  <1>. QED BY <1>3, <1>4

\* The key the fold takes out first.
Pick(s) == CHOOSE x \in s : TRUE

\* g is the fold that sums the bytes of the entries of map under the keys in T.
Sums(g, map, T) ==
    g = [s \in SUBSET T |-> IF s = {} THEN 0 ELSE BytesOf(map[Pick(s)]) + g[s \ {Pick(s)}]]
Fold(map, T) == CHOOSE g : Sums(g, map, T)
BytesUnder(map, T) == Fold(map, T)[T]

\* TotalBytes is the fold over all keys.
LEMMA TotalIsBytesUnder ==
  ASSUME NEW map PROVE TotalBytes(map) = BytesUnder(map, DOMAIN map)
  BY DEF TotalBytes, MapThenSumSet, MapThenFoldSet, BytesUnder, Fold, Sums, Pick

\* The first key is a key.
LEMMA PickIn == ASSUME NEW s, s # {} PROVE Pick(s) \in s
  BY DEF Pick

\* One unfolding.
LEMMA FoldStep ==
  ASSUME NEW g, NEW map, NEW T, Sums(g, map, T), NEW s \in SUBSET T
  PROVE  /\ s = {} => g[s] = 0
         /\ s # {} => g[s] = BytesOf(map[Pick(s)]) + g[s \ {Pick(s)}]
  BY DEF Sums

\* Two such folds agree wherever both are defined.
LEMMA FoldUnique ==
  ASSUME NEW map, NEW D, IsFiniteSet(D), NEW T \in SUBSET D, NEW U \in SUBSET D,
         NEW g, Sums(g, map, T), NEW h, Sums(h, map, U)
  PROVE  \A s \in SUBSET (T \cap U) : g[s] = h[s]
  <1>. DEFINE G == {s \in SUBSET D : s \subseteq T \cap U => g[s] = h[s]}
  <1>1. ASSUME NEW s \in SUBSET D, \A r \in SUBSET s : r # s => r \in G
        PROVE  s \in G
    <2>1. CASE ~(s \subseteq T \cap U)
      BY <2>1
    <2>2. CASE s \subseteq T \cap U /\ s = {}
      BY <2>2, FoldStep
    <2>3. CASE s \subseteq T \cap U /\ s # {}
      <3>. DEFINE r == s \ {Pick(s)}
      <3>1. r \in SUBSET s /\ r # s
        BY <2>3, PickIn
      <3>2. g[r] = h[r]
        BY <1>1, <2>3, <3>1
      <3>3. g[s] = BytesOf(map[Pick(s)]) + g[r] /\ h[s] = BytesOf(map[Pick(s)]) + h[r]
        BY <2>3, FoldStep
      <3>. QED BY <3>2, <3>3
    <2>. QED BY <2>1, <2>2, <2>3
  <1>2. \A s \in SUBSET D : s \in G
    <2>. HIDE DEF G
    <2>. QED BY <1>1, SubsetInduction
  <1>. QED BY <1>2

\* The fold exists.
LEMMA FoldExists ==
  ASSUME NEW map, NEW D, IsFiniteSet(D)
  PROVE  \A T \in SUBSET D : Sums(Fold(map, T), map, T)
  <1>. DEFINE G == {T \in SUBSET D : Sums(Fold(map, T), map, T)}
  <1>1. ASSUME NEW T \in SUBSET D, \A U \in SUBSET T : U # T => U \in G
        PROVE  T \in G
    <2>. DEFINE low == T \ {Pick(T)}
                g == [s \in SUBSET T |-> IF s # T THEN BytesUnder(map, s)
                                         ELSE IF T = {} THEN 0
                                         ELSE BytesOf(map[Pick(T)]) + BytesUnder(map, low)]
    <2>1. ASSUME NEW s \in SUBSET T, s # {}, s # T
          PROVE  BytesUnder(map, s) = BytesOf(map[Pick(s)]) + BytesUnder(map, s \ {Pick(s)})
      <3>. DEFINE r == s \ {Pick(s)}
      <3>1. r \in SUBSET s /\ r # T /\ r \in SUBSET T
        BY <2>1, PickIn
      <3>2. Sums(Fold(map, s), map, s) /\ Sums(Fold(map, r), map, r)
        BY <1>1, <2>1, <3>1
      <3>3. Fold(map, s)[r] = Fold(map, r)[r]
        <4>1. r \in SUBSET (s \cap r) /\ s \in SUBSET D /\ r \in SUBSET D
          BY <3>1
        <4>. HIDE DEF r
        <4>. QED BY <3>2, <4>1, FoldUnique
      <3>4. Fold(map, s)[s] = BytesOf(map[Pick(s)]) + Fold(map, s)[r]
        BY <2>1, <3>2, FoldStep
      <3>. QED BY <3>3, <3>4 DEF BytesUnder
    <2>2. {} # T => BytesUnder(map, {}) = 0
      <3>1. {} # T => Sums(Fold(map, {}), map, {})
        BY <1>1
      <3>. QED BY <3>1, FoldStep DEF BytesUnder
    <2>3. ASSUME NEW s \in SUBSET T
          PROVE  g[s] = IF s = {} THEN 0 ELSE BytesOf(map[Pick(s)]) + g[s \ {Pick(s)}]
      <3>1. CASE s = {}
        BY <2>2, <3>1
      <3>2. CASE s # {}
        <4>1. s \ {Pick(s)} \in SUBSET T /\ s \ {Pick(s)} # T
          BY <3>2, PickIn
        <4>2. g[s \ {Pick(s)}] = BytesUnder(map, s \ {Pick(s)})
          BY <4>1
        <4>3. CASE s # T
          BY <2>1, <3>2, <4>2, <4>3
        <4>4. CASE s = T
          BY <3>2, <4>2, <4>4
        <4>. QED BY <4>3, <4>4
      <3>. QED BY <3>1, <3>2
    <2>4. Sums(g, map, T)
      <3>1. g = [s \in SUBSET T |-> g[s]]
        OBVIOUS
      <3>. HIDE DEF g
      <3>. QED BY <2>3, <3>1 DEF Sums
    <2>5. Sums(Fold(map, T), map, T)
      <3>. HIDE DEF g
      <3>. QED BY <2>4 DEF Fold
    <2>. QED BY <2>5
  <1>2. \A T \in SUBSET D : T \in G
    <2>. HIDE DEF G
    <2>. QED BY <1>1, SubsetInduction
  <1>. QED BY <1>2

\* The sum over no key, and over a key more.
LEMMA BytesUnderStep ==
  ASSUME NEW map, NEW D, IsFiniteSet(D), NEW T \in SUBSET D
  PROVE  /\ T = {} => BytesUnder(map, T) = 0
         /\ T # {} => BytesUnder(map, T) = BytesOf(map[Pick(T)]) + BytesUnder(map, T \ {Pick(T)})
  <1>. DEFINE r == T \ {Pick(T)}
  <1>1. Sums(Fold(map, T), map, T) /\ Sums(Fold(map, r), map, r)
    BY FoldExists
  <1>2. Fold(map, T)[r] = Fold(map, r)[r]
    <2>1. r \in SUBSET (T \cap r) /\ r \in SUBSET D
      OBVIOUS
    <2>. HIDE DEF r
    <2>. QED BY <1>1, <2>1, FoldUnique
  <1>3. T # {} => Fold(map, T)[T] = BytesOf(map[Pick(T)]) + Fold(map, T)[r]
    BY <1>1, FoldStep
  <1>4. T = {} => Fold(map, T)[T] = 0
    BY <1>1, FoldStep
  <1>. QED BY <1>2, <1>3, <1>4 DEF BytesUnder

\* Sums of entries that hold natural numbers are natural.
LEMMA BytesUnderNat ==
  ASSUME NEW map, NEW D, IsFiniteSet(D), \A k \in D : BytesOf(map[k]) \in Nat
  PROVE  \A T \in SUBSET D : BytesUnder(map, T) \in Nat
  <1>. DEFINE G == {T \in SUBSET D : BytesUnder(map, T) \in Nat}
  <1>1. ASSUME NEW T \in SUBSET D, \A U \in SUBSET T : U # T => U \in G
        PROVE  T \in G
    <2>1. CASE T = {}
      <3>1. BytesUnder(map, T) = 0
        BY <2>1, BytesUnderStep
      <3>. QED BY <3>1
    <2>2. CASE T # {}
      <3>1. T \ {Pick(T)} \in SUBSET T /\ T \ {Pick(T)} # T /\ Pick(T) \in D
        BY <2>2, PickIn
      <3>2. BytesUnder(map, T \ {Pick(T)}) \in Nat /\ BytesOf(map[Pick(T)]) \in Nat
        BY <1>1, <3>1
      <3>3. BytesUnder(map, T) = BytesOf(map[Pick(T)]) + BytesUnder(map, T \ {Pick(T)})
        BY <2>2, BytesUnderStep
      <3>. QED BY <3>2, <3>3
    <2>. QED BY <2>1, <2>2
  <1>2. \A T \in SUBSET D : T \in G
    <2>. HIDE DEF G
    <2>. QED BY <1>1, SubsetInduction
  <1>. QED BY <1>2

\* Maps that agree on the keys have the same sum.
LEMMA BytesUnderSame ==
  ASSUME NEW map, NEW other, NEW D, IsFiniteSet(D), \A k \in D : map[k] = other[k]
  PROVE  BytesUnder(map, D) = BytesUnder(other, D)
  <1>. DEFINE G == {T \in SUBSET D : BytesUnder(map, T) = BytesUnder(other, T)}
  <1>1. ASSUME NEW T \in SUBSET D, \A U \in SUBSET T : U # T => U \in G
        PROVE  T \in G
    <2>1. CASE T = {}
      BY <2>1, BytesUnderStep
    <2>2. CASE T # {}
      <3>1. T \ {Pick(T)} \in SUBSET T /\ T \ {Pick(T)} # T /\ Pick(T) \in D
        BY <2>2, PickIn
      <3>2. /\ BytesUnder(map, T \ {Pick(T)}) = BytesUnder(other, T \ {Pick(T)})
            /\ map[Pick(T)] = other[Pick(T)]
        BY <1>1, <3>1
      <3>3. /\ BytesUnder(map, T) = BytesOf(map[Pick(T)]) + BytesUnder(map, T \ {Pick(T)})
            /\ BytesUnder(other, T) = BytesOf(other[Pick(T)]) + BytesUnder(other, T \ {Pick(T)})
        BY <2>2, BytesUnderStep
      <3>. QED BY <3>2, <3>3
    <2>. QED BY <2>1, <2>2
  <1>2. \A T \in SUBSET D : T \in G
    <2>. HIDE DEF G
    <2>. QED BY <1>1, SubsetInduction
  <1>. QED BY <1>2

\* Any key may be taken out first.
LEMMA BytesUnderRemove ==
  ASSUME NEW map, NEW D, IsFiniteSet(D), \A k \in D : BytesOf(map[k]) \in Nat
  PROVE  \A T \in SUBSET D : \A x \in T :
            BytesUnder(map, T) = BytesOf(map[x]) + BytesUnder(map, T \ {x})
  <1>. DEFINE G == {T \in SUBSET D : \A x \in T :
                       BytesUnder(map, T) = BytesOf(map[x]) + BytesUnder(map, T \ {x})}
  <1>1. ASSUME NEW T \in SUBSET D, \A U \in SUBSET T : U # T => U \in G
        PROVE  T \in G
    <2>. SUFFICES ASSUME NEW x \in T
                  PROVE  BytesUnder(map, T) = BytesOf(map[x]) + BytesUnder(map, T \ {x})
      OBVIOUS
    <2>. DEFINE p == Pick(T)
                rest == (T \ {p}) \ {x}
    <2>1. p \in T /\ BytesUnder(map, T) = BytesOf(map[p]) + BytesUnder(map, T \ {p})
      BY PickIn, BytesUnderStep
    <2>2. CASE x = p
      BY <2>1, <2>2
    <2>3. CASE x # p
      <3>1. BytesUnder(map, T \ {p}) = BytesOf(map[x]) + BytesUnder(map, rest)
        <4>1. T \ {p} \in SUBSET T /\ T \ {p} # T /\ x \in T \ {p}
          BY <2>1, <2>3
        <4>. QED BY <1>1, <4>1
      <3>2. BytesUnder(map, T \ {x}) = BytesOf(map[p]) + BytesUnder(map, rest)
        <4>1. T \ {x} \in SUBSET T /\ T \ {x} # T /\ p \in T \ {x}
          BY <2>1, <2>3
        <4>2. (T \ {x}) \ {p} = rest
          OBVIOUS
        <4>. QED BY <1>1, <4>1, <4>2
      <3>3. BytesUnder(map, rest) \in Nat /\ BytesOf(map[x]) \in Nat /\ BytesOf(map[p]) \in Nat
        BY <2>1, BytesUnderNat
      <3>. QED BY <2>1, <3>1, <3>2, <3>3
    <2>. QED BY <2>2, <2>3
  <1>2. \A T \in SUBSET D : T \in G
    <2>. HIDE DEF G
    <2>. QED BY <1>1, SubsetInduction
  <1>. QED BY <1>2

\* The bytes of one entry of a map of optional sizes.
LEMMA EntryBytes ==
  ASSUME NEW opt \in SUBSET Nat
  PROVE  BytesOf(opt) \in Nat
  BY DEF BytesOf

\* A map of empty entries holds nothing.
LEMMA TotalZero ==
  ASSUME NEW K, IsFiniteSet(K)
  PROVE  TotalBytes([k \in K |-> {}]) = 0
  <1>. DEFINE map == [k \in K |-> {}]
              G == {T \in SUBSET K : BytesUnder(map, T) = 0}
  <1>1. \A k \in K : BytesOf(map[k]) = 0
    BY DEF BytesOf
  <1>2. ASSUME NEW T \in SUBSET K, \A U \in SUBSET T : U # T => U \in G
        PROVE  T \in G
    <2>. HIDE DEF map
    <2>1. CASE T = {}
      BY <2>1, BytesUnderStep
    <2>2. CASE T # {}
      <3>1. T \ {Pick(T)} \in SUBSET T /\ T \ {Pick(T)} # T /\ Pick(T) \in K
        BY <2>2, PickIn
      <3>2. BytesUnder(map, T) = BytesOf(map[Pick(T)]) + BytesUnder(map, T \ {Pick(T)})
        BY <2>2, BytesUnderStep
      <3>. QED BY <1>1, <1>2, <3>1, <3>2
    <2>. QED BY <2>1, <2>2
  <1>3. \A T \in SUBSET K : T \in G
    <2>. HIDE DEF G
    <2>. QED BY <1>2, SubsetInduction
  <1>4. BytesUnder(map, K) = 0
    BY <1>3
  <1>. QED BY <1>4, TotalIsBytesUnder

\* Replacing one entry changes the total by that entry.
LEMMA TotalReplace ==
  ASSUME NEW K, IsFiniteSet(K), NEW map \in [K -> SUBSET Nat], NEW k \in K, NEW opt \in SUBSET Nat
  PROVE  /\ TotalBytes(map) \in Nat
         /\ BytesOf(map[k]) \in Nat /\ BytesOf(map[k]) <= TotalBytes(map)
         /\ TotalBytes([map EXCEPT ![k] = opt]) = (TotalBytes(map) - BytesOf(map[k])) + BytesOf(opt)
  <1>. DEFINE new == [map EXCEPT ![k] = opt]
              rest == K \ {k}
  <1>1. /\ \A x \in K : BytesOf(map[x]) \in Nat
        /\ \A x \in K : BytesOf(new[x]) \in Nat
        /\ DOMAIN map = K /\ DOMAIN new = K /\ new[k] = opt
        /\ \A x \in rest : map[x] = new[x]
    BY EntryBytes
  <1>2. IsFiniteSet(rest)
    BY FS_Subset
  <1>. HIDE DEF new
  <1>3. /\ BytesUnder(map, K) = BytesOf(map[k]) + BytesUnder(map, rest)
        /\ BytesUnder(new, K) = BytesOf(new[k]) + BytesUnder(new, rest)
    BY <1>1, BytesUnderRemove
  <1>4. BytesUnder(map, rest) = BytesUnder(new, rest)
    <2>. HIDE DEF rest
    <2>. QED BY <1>1, <1>2, BytesUnderSame
  <1>5. BytesUnder(map, rest) \in Nat
    BY <1>1, BytesUnderNat
  <1>6. TotalBytes(map) = BytesUnder(map, K) /\ TotalBytes(new) = BytesUnder(new, K)
    BY <1>1, TotalIsBytesUnder
  <1>7. TotalBytes(new) = (TotalBytes(map) - BytesOf(map[k])) + BytesOf(opt)
    BY <1>1, <1>3, <1>4, <1>5, <1>6, EntryBytes
  <1>. QED BY <1>1, <1>3, <1>5, <1>6, <1>7 DEF new

\* A total is a natural number, for a map without keys too.
LEMMA TotalNat ==
  ASSUME NEW K, IsFiniteSet(K), NEW map \in [K -> SUBSET Nat]
  PROVE  TotalBytes(map) \in Nat
  <1>1. \A x \in K : BytesOf(map[x]) \in Nat
    BY EntryBytes
  <1>2. BytesUnder(map, K) \in Nat
    BY <1>1, BytesUnderNat
  <1>. QED BY <1>2, TotalIsBytesUnder

-----------------------------------------------------------------------------
(* The byte budget.                                                        *)

\* Induction over the natural numbers, for a property given as a set.
LEMMA NatSetInduction ==
  ASSUME NEW G, 0 \in G, \A n \in Nat : n \in G => n + 1 \in G
  PROVE  \A n \in Nat : n \in G
  <1>. SUFFICES ASSUME NEW n \in Nat PROVE n \in G
    OBVIOUS
  <1>. DEFINE D == 0..n
              H == {T \in SUBSET D : \A m \in Nat : T = 0..m => m \in G}
  <1>1. IsFiniteSet(D)
    BY FS_Interval
  <1>2. ASSUME NEW T \in SUBSET D, \A U \in SUBSET T : U # T => U \in H
        PROVE  T \in H
    <2>. SUFFICES ASSUME NEW m \in Nat, T = 0..m PROVE m \in G
      OBVIOUS
    <2>1. CASE m = 0
      BY <2>1
    <2>2. CASE m # 0
      <3>1. m - 1 \in Nat /\ 0..(m - 1) \in SUBSET T /\ 0..(m - 1) # T
        <4>1. m \in 0..m /\ m \notin 0..(m - 1)
          OBVIOUS
        <4>. QED BY <2>2, <4>1
      <3>2. m - 1 \in G
        BY <1>2, <3>1
      <3>. QED BY <3>1, <3>2
    <2>. QED BY <2>1, <2>2
  <1>3. \A T \in SUBSET D : T \in H
    <2>. HIDE DEF D, H
    <2>. QED BY <1>1, <1>2, SubsetInduction
  <1>. QED BY <1>3

\* One update staged after used bytes u, as in StagedUsed.
StageStep(us, n, u) ==
    IF n = 0 THEN used
    ELSE LET old == BytesOf(Staged(us, n - 1, us[n].query))
         IN  IF u # Never /\ Admits(u, old, us[n].bytes)
             THEN Recharge(u, old, us[n].bytes) ELSE Never

Staging(f, us, m) == f = [n \in 0..m |-> StageStep(us, n, f[n - 1])]
StagingOf(us) == CHOOSE f : Staging(f, us, Len(us))

\* StagedUsed is defined by its recursion.
LEMMA StagingExists ==
  ASSUME NEW us \in Updates
  PROVE  /\ Len(us) \in Nat
         /\ Staging(StagingOf(us), us, Len(us))
         /\ StagedUsed(us) = StagingOf(us)[Len(us)]
  <1>. DEFINE G == {m \in Nat : \E f : Staging(f, us, m)}
  <1>0. Len(us) \in Nat
    <2>1. PICK n \in 1..MaxBatch : us \in [1..n -> ResultUpdate]
      BY DEF Updates
    <2>2. Len(us) = n
      BY <2>1
    <2>. QED BY <2>2, BoundsAssumption
  <1>1. 0 \in G
    <2>. DEFINE f == [n \in 0..0 |-> used]
    <2>1. \A n \in 0..0 : f[n] = StageStep(us, n, f[n - 1])
      BY DEF StageStep
    <2>2. Staging(f, us, 0)
      <3>1. f = [n \in 0..0 |-> f[n]]
        OBVIOUS
      <3>. HIDE DEF f
      <3>. QED BY <2>1, <3>1 DEF Staging
    <2>. HIDE DEF f
    <2>. QED BY <2>2
  <1>2. ASSUME NEW m \in Nat, m \in G PROVE m + 1 \in G
    <2>1. PICK f : Staging(f, us, m)
      BY <1>2
    <2>. DEFINE h == [n \in 0..(m + 1) |-> IF n = m + 1 THEN StageStep(us, n, f[m]) ELSE f[n]]
    <2>2. ASSUME NEW n \in 0..(m + 1) PROVE h[n] = StageStep(us, n, h[n - 1])
      <3>1. CASE n = m + 1
        <4>1. h[n - 1] = f[m]
          BY <3>1
        <4>. QED BY <3>1, <4>1
      <3>2. CASE n # m + 1 /\ n # 0
        <4>1. n \in 0..m /\ n - 1 \in 0..(m + 1) /\ n - 1 # m + 1
          BY <3>2
        <4>2. h[n] = f[n] /\ h[n - 1] = f[n - 1]
          BY <4>1
        <4>3. f[n] = StageStep(us, n, f[n - 1])
          BY <2>1, <4>1 DEF Staging
        <4>. QED BY <4>2, <4>3
      <3>3. CASE n = 0
        <4>1. h[n] = f[n] /\ f[n] = StageStep(us, n, f[n - 1])
          BY <2>1, <3>3 DEF Staging
        <4>. QED BY <3>3, <4>1 DEF StageStep
      <3>. QED BY <3>1, <3>2, <3>3
    <2>3. Staging(h, us, m + 1)
      <3>1. h = [n \in 0..(m + 1) |-> h[n]]
        OBVIOUS
      <3>. HIDE DEF h
      <3>. QED BY <2>2, <3>1 DEF Staging
    <2>. HIDE DEF h
    <2>. QED BY <2>3
  <1>3. \A m \in Nat : m \in G
    <2>. HIDE DEF G
    <2>. QED BY <1>1, <1>2, NatSetInduction
  <1>4. Staging(StagingOf(us), us, Len(us))
    BY <1>0, <1>3 DEF StagingOf
  <1>5. StagedUsed(us) = StagingOf(us)[Len(us)]
    BY DEF StagedUsed, StagingOf, Staging, StageStep
  <1>. QED BY <1>0, <1>4, <1>5

BudgetInv == BudgetExact /\ used \in Nat

\* Retained bytes are numbers and there are finitely many entries.
LEMMA RetainedType ==
  ASSUME TypeOK
  PROVE  /\ IsFiniteSet(QueryId) /\ IsFiniteSet(DiagKeys)
         /\ results \in [QueryId -> SUBSET Nat] /\ diags \in [DiagKeys -> SUBSET Nat]
         /\ ResultBytes \subseteq Nat /\ DiagBytes \subseteq Nat
  <1>1. IsFiniteSet(QueryId)
    BY FS_Interval, BoundsAssumption DEF QueryId
  <1>2. ResultBytes \subseteq Nat /\ DiagBytes \subseteq Nat
    BY DomainAssumption, BoundsAssumption
  <1>. QED BY <1>1, <1>2, DomainAssumption DEF TypeOK

\* Refunding an entry's charge never goes below what is left, and is exact on an exact count.
LEMMA Refund ==
  ASSUME NEW u \in Nat, NEW total \in Nat, NEW b \in Nat, u <= total, b <= total
  PROVE  /\ SatSub(u, b) \in Nat /\ SatSub(u, b) <= u /\ SatSub(u, b) <= total - b
         /\ u = total => SatSub(u, b) = total - b
  BY DEF SatSub

\* An admitted replacement stays within the budget and below what is retained.  It moves an
\* exact count by the difference, under a limit always: neither saturation is reached.
\* Without a limit the sum may saturate, once what is retained exceeds a u64.
LEMMA AdmittedRecharge ==
  ASSUME maxBytes \in 0..U64Max, NEW u \in Nat, NEW total \in Nat, u <= maxBytes, u <= total,
         maxBytes < U64Max => u = total,
         NEW old \in Nat, old <= total, NEW new \in 0..U64Max, Admits(u, old, new)
  PROVE  /\ Recharge(u, old, new) \in Nat
         /\ Recharge(u, old, new) <= maxBytes
         /\ Recharge(u, old, new) <= (total - old) + new
         /\ u = total /\ (maxBytes < U64Max \/ (total - old) + new <= U64Max)
               => Recharge(u, old, new) = (total - old) + new
  <1>1. maxBytes \in Nat /\ U64Max \in Nat /\ maxBytes <= U64Max /\ new \in Nat /\ new <= U64Max
    BY BoundsAssumption
  <1>2. CASE new < old
    BY <1>1, <1>2 DEF Admits, CanAdmit, Recharge, SatAdd, SatSub
  <1>3. CASE new >= old
    <2>1. SatSub(new, old) = new - old
      BY <1>3 DEF SatSub
    <2>2. SatAdd(u, new - old) <= maxBytes
      BY <2>1 DEF Admits, CanAdmit
    <2>3. CASE u < old
      <3>1. maxBytes = U64Max /\ Recharge(u, old, new) = new
        BY <1>1, <2>3 DEF Recharge, SatAdd, SatSub
      <3>. QED BY <1>1, <2>3, <3>1
    <2>4. CASE u >= old
      <3>1. Recharge(u, old, new) = SatAdd(u - old, new)
        BY <2>4 DEF Recharge, SatSub
      <3>. QED BY <1>1, <1>3, <2>2, <2>4, <3>1 DEF SatAdd
    <2>. QED BY <2>3, <2>4
  <1>. QED BY <1>2, <1>3

\* Staging one more update replaces the entry it names.
LEMMA StagedMapStep ==
  ASSUME TypeOK, NEW us \in Updates
  PROVE  /\ StagedMap(us, 0) = results
         /\ \A n \in 1..Len(us) :
               /\ us[n].query \in QueryId /\ us[n].bytes \in ResultBytes
               /\ StagedMap(us, n) = [StagedMap(us, n - 1) EXCEPT ![us[n].query] = {us[n].bytes}]
  <1>1. PICK m \in 1..MaxBatch : us \in [1..m -> ResultUpdate]
    BY DEF Updates
  <1>2. Len(us) = m /\ m \in Nat
    BY <1>1, BoundsAssumption
  <1>3. StagedMap(us, 0) = results
    BY DEF StagedMap, Staged, TypeOK
  <1>4. ASSUME NEW n \in 1..Len(us)
        PROVE  /\ us[n].query \in QueryId /\ us[n].bytes \in ResultBytes
               /\ StagedMap(us, n) = [StagedMap(us, n - 1) EXCEPT ![us[n].query] = {us[n].bytes}]
    <2>1. us[n].query \in QueryId /\ us[n].bytes \in ResultBytes
      BY <1>1, <1>2 DEF ResultUpdate
    <2>2. ASSUME NEW q \in QueryId
          PROVE  Staged(us, n, q) = IF q = us[n].query THEN {us[n].bytes} ELSE Staged(us, n - 1, q)
      <3>. DEFINE hits == {i \in 1..n : us[i].query = q}
                  last == {h \in hits : \A k \in hits : k <= h}
      <3>1. CASE q = us[n].query
        <4>1. n \in hits /\ \A k \in hits : k <= n
          BY <1>2, <3>1
        <4>2. last = {n}
          BY <1>2, <4>1
        <4>3. Staged(us, n, q) = {us[i].bytes : i \in last}
          BY <4>1 DEF Staged
        <4>. HIDE DEF last
        <4>. QED BY <3>1, <4>2, <4>3
      <3>2. CASE q # us[n].query
        <4>1. hits = {i \in 1..(n - 1) : us[i].query = q}
          BY <1>2, <3>2
        <4>. QED BY <3>2, <4>1 DEF Staged
      <3>. QED BY <3>1, <3>2
    <2>. QED BY <2>1, <2>2 DEF StagedMap
  <1>. QED BY <1>3, <1>4

\* Where an exact count can be told from what is retained: under a limit, or as long as
\* nothing retained exceeded a u64, the first n updates of a batch included.
Clean(us, n) ==
    \/ maxBytes < U64Max
    \/ ~overflowed /\ \A k \in 1..n : Retained(StagedMap(us, k), diags) <= U64Max

\* What a batch leaves of the budget is what its staged store holds.
LEMMA StagedBudget ==
  ASSUME TypeOK, BudgetInv, NEW us \in Updates, StagedUsed(us) # Never
  PROVE  /\ StagedUsed(us) \in Nat /\ StagedUsed(us) <= maxBytes
         /\ StagedUsed(us) <= Retained(StagedMap(us, Len(us)), diags)
         /\ Clean(us, Len(us)) => StagedUsed(us) = Retained(StagedMap(us, Len(us)), diags)
         /\ \A n \in 1..Len(us) : Retained(StagedMap(us, n), diags) \in Nat
  <1>. DEFINE f == StagingOf(us)
              R(n) == Retained(StagedMap(us, n), diags)
              Counts(n) == /\ f[n] \in Nat /\ f[n] <= maxBytes /\ f[n] <= R(n)
                           /\ Clean(us, n) => f[n] = R(n)
              Good(n) == /\ StagedMap(us, n) \in [QueryId -> SUBSET Nat] /\ R(n) \in Nat
                         /\ f[n] # Never => Counts(n)
              G == {n \in Nat : n <= Len(us) => Good(n)}
  <1>0. maxBytes \in 0..U64Max /\ TotalBytes(diags) \in Nat /\ ResultBytes \subseteq 0..U64Max
    BY RetainedType, TotalNat, BoundsAssumption, DomainAssumption DEF TypeOK
  <1>1. /\ Len(us) \in Nat /\ StagedUsed(us) = f[Len(us)]
        /\ \A n \in 0..Len(us) : f[n] = StageStep(us, n, f[n - 1])
    <2>1. Staging(f, us, Len(us))
      BY StagingExists
    <2>. QED BY <2>1, StagingExists DEF Staging
  <1>. HIDE DEF f
  <1>2. 0 \in G
    <2>1. f[0] = used
      BY <1>1 DEF StageStep
    <2>2. StagedMap(us, 0) = results
      BY StagedMapStep
    <2>3. results \in [QueryId -> SUBSET Nat] /\ TotalBytes(results) \in Nat
      BY RetainedType, TotalNat
    <2>4. Clean(us, 0) => maxBytes < U64Max \/ ~overflowed
      BY DEF Clean
    <2>. QED BY <1>0, <2>1, <2>2, <2>3, <2>4 DEF BudgetInv, BudgetExact, Retained
  <1>3. ASSUME NEW m \in Nat, m \in G PROVE m + 1 \in G
    <2>. SUFFICES ASSUME m + 1 <= Len(us) PROVE Good(m + 1)
      OBVIOUS
    <2>. DEFINE n == m + 1
                q == us[n].query
                new == us[n].bytes
                map == StagedMap(us, m)
                old == BytesOf(map[q])
    <2>1. /\ n \in 1..Len(us) /\ n - 1 = m
          /\ q \in QueryId /\ new \in 0..U64Max /\ new \in Nat
          /\ StagedMap(us, n) = [map EXCEPT ![q] = {new}]
      <3>1. n \in 1..Len(us) /\ n - 1 = m
        BY <1>1
      <3>2. /\ us[n].query \in QueryId /\ us[n].bytes \in ResultBytes
            /\ StagedMap(us, n) = [StagedMap(us, n - 1) EXCEPT ![us[n].query] = {us[n].bytes}]
        <4>. HIDE DEF n
        <4>. QED BY <3>1, StagedMapStep
      <3>3. ResultBytes \subseteq Nat
        BY RetainedType
      <3>. QED BY <1>0, <3>1, <3>2, <3>3
    <2>2. map[q] = Staged(us, n - 1, q)
      BY <2>1 DEF StagedMap
    <2>3. f[n] # Never => f[m] # Never /\ Admits(f[m], old, new) /\ f[n] = Recharge(f[m], old, new)
      BY <1>1, <2>1, <2>2 DEF StageStep
    <2>4. map \in [QueryId -> SUBSET Nat] /\ R(m) \in Nat /\ (f[m] # Never => Counts(m))
      BY <1>1, <1>3
    <2>5. BytesOf({new}) = new /\ {new} \in SUBSET Nat
      BY <2>1 DEF BytesOf
    <2>6. R(m) = TotalBytes(map) + TotalBytes(diags) /\ R(n) = TotalBytes(StagedMap(us, n)) + TotalBytes(diags)
      BY DEF Retained
    <2>. HIDE DEF n, q, new, map, old
    <2>7. /\ TotalBytes(map) \in Nat /\ BytesOf(map[q]) \in Nat
          /\ BytesOf(map[q]) <= TotalBytes(map)
          /\ TotalBytes([map EXCEPT ![q] = {new}]) = (TotalBytes(map) - BytesOf(map[q])) + BytesOf({new})
      <3>1. IsFiniteSet(QueryId) /\ q \in QueryId /\ {new} \in SUBSET Nat
        BY <2>1, <2>5, RetainedType
      <3>2. map \in [QueryId -> SUBSET Nat]
        BY <2>4
      <3>. QED BY <3>1, <3>2, TotalReplace
    <2>8. /\ old \in Nat /\ old <= R(m)
          /\ R(n) = (R(m) - old) + new /\ R(n) \in Nat
      <3>. HIDE DEF R
      <3>. QED BY <1>0, <2>1, <2>5, <2>6, <2>7 DEF old
    <2>9. StagedMap(us, n) \in [QueryId -> SUBSET Nat]
      BY <2>1, <2>4, <2>5
    <2>10. /\ Clean(us, n) => Clean(us, m) /\ (maxBytes < U64Max \/ R(n) <= U64Max)
           /\ maxBytes < U64Max => Clean(us, m)
      <3>1. n \in 1..n /\ 1..m \subseteq 1..n
        BY <2>1 DEF n
      <3>. QED BY <3>1 DEF Clean
    <2>11. ASSUME f[n] # Never PROVE Counts(n)
      <3>. HIDE DEF R
      <3>1. /\ f[m] \in Nat /\ f[m] <= maxBytes /\ f[m] <= R(m)
            /\ Clean(us, m) => f[m] = R(m)
            /\ Admits(f[m], old, new) /\ f[n] = Recharge(f[m], old, new)
        BY <2>3, <2>4, <2>11
      <3>2. /\ f[n] \in Nat /\ f[n] <= maxBytes /\ f[n] <= (R(m) - old) + new
            /\ f[m] = R(m) /\ (maxBytes < U64Max \/ (R(m) - old) + new <= U64Max)
                  => f[n] = (R(m) - old) + new
        <4>1. f[m] \in Nat /\ R(m) \in Nat /\ new \in 0..U64Max /\ old \in Nat /\ old <= R(m)
          BY <2>1, <2>4, <2>8, <3>1
        <4>2. maxBytes < U64Max => f[m] = R(m)
          BY <2>10, <3>1
        <4>. DEFINE u == f[m]
                    total == R(m)
        <4>3. u <= maxBytes /\ u <= total /\ Admits(u, old, new) /\ f[n] = Recharge(u, old, new)
          BY <3>1
        <4>4. u \in Nat /\ total \in Nat /\ old <= total /\ (maxBytes < U64Max => u = total)
          BY <4>1, <4>2
        <4>. HIDE DEF u, total
        <4>5. /\ Recharge(u, old, new) \in Nat /\ Recharge(u, old, new) <= maxBytes
              /\ Recharge(u, old, new) <= (total - old) + new
              /\ u = total /\ (maxBytes < U64Max \/ (total - old) + new <= U64Max)
                    => Recharge(u, old, new) = (total - old) + new
          BY <1>0, <4>1, <4>3, <4>4, AdmittedRecharge
        <4>. QED BY <4>3, <4>5 DEF u, total
      <3>. QED BY <2>8, <2>10, <3>1, <3>2
    <2>. QED BY <2>8, <2>9, <2>11 DEF n
  <1>4. \A n \in Nat : n \in G
    <2>. HIDE DEF G
    <2>. QED BY <1>2, <1>3, NatSetInduction
  <1>5. Good(Len(us)) /\ \A n \in 1..Len(us) : R(n) \in Nat
    BY <1>1, <1>4
  <1>. QED BY <1>1, <1>5

\* Dropping every result frees exactly what they were charged.
LEMMA BudgetDrop ==
  ASSUME TypeOK, BudgetInv, results' = [q \in QueryId |-> {}], UNCHANGED <<maxBytes, overflowed>>
  PROVE  /\ diags' = diags /\ used' = SatSub(used, TotalBytes(results)) => BudgetInv'
         /\ /\ diags' = [k \in DiagKeys |-> {}]
            /\ used' = SatSub(SatSub(used, TotalBytes(results)), TotalBytes(diags))
            => BudgetInv'
  <1>1. TotalBytes(results) \in Nat /\ TotalBytes(diags) \in Nat
    BY RetainedType, TotalNat
  <1>2. TotalBytes(results') = 0 /\ TotalBytes([k \in DiagKeys |-> {}]) = 0
    BY RetainedType, TotalZero
  <1>. DEFINE u == SatSub(used, TotalBytes(results))
  <1>3. /\ u \in Nat /\ u <= used /\ u <= TotalBytes(diags)
        /\ used = Retained(results, diags) => u = TotalBytes(diags)
    BY <1>1, Refund DEF BudgetInv, BudgetExact, Retained
  <1>4. SatSub(u, TotalBytes(diags)) = 0
    BY <1>1, <1>3 DEF SatSub
  <1>5. maxBytes \in Nat
    BY BoundsAssumption DEF TypeOK
  <1>6. CASE diags' = diags /\ used' = u
    BY <1>1, <1>2, <1>3, <1>5, <1>6 DEF BudgetInv, BudgetExact, Retained
  <1>7. CASE /\ diags' = [k \in DiagKeys |-> {}]
             /\ used' = SatSub(u, TotalBytes(diags))
    BY <1>2, <1>4, <1>5, <1>7 DEF BudgetInv, BudgetExact, Retained
  <1>. QED BY <1>6, <1>7

\* Evicting one entry of either store refunds its charge.
LEMMA BudgetEvict ==
  ASSUME TypeOK, BudgetInv, NEW b \in Nat, b <= Retained(results, diags),
         Retained(results', diags') = Retained(results, diags) - b,
         used' = SatSub(used, b), UNCHANGED <<maxBytes, overflowed>>
  PROVE  BudgetInv'
  <1>1. Retained(results, diags) \in Nat /\ maxBytes \in Nat
    BY RetainedType, TotalNat, BoundsAssumption DEF TypeOK, Retained
  <1>2. /\ SatSub(used, b) \in Nat /\ SatSub(used, b) <= used
        /\ SatSub(used, b) <= Retained(results, diags) - b
        /\ used = Retained(results, diags) => SatSub(used, b) = Retained(results, diags) - b
    BY <1>1, Refund DEF BudgetInv, BudgetExact
  <1>. QED BY <1>1, <1>2 DEF BudgetInv, BudgetExact

\* Every step keeps the budget exact.
LEMMA BudgetStep == TypeOK /\ BudgetInv /\ [Next]_vars => BudgetInv'
  <1>. SUFFICES ASSUME TypeOK, BudgetInv, [Next]_vars PROVE BudgetInv'
    OBVIOUS
  <1>0. /\ TotalBytes(results) \in Nat /\ TotalBytes(diags) \in Nat
        /\ Retained(results, diags) = TotalBytes(results) + TotalBytes(diags)
        /\ maxBytes \in 0..U64Max /\ maxBytes \in Nat /\ U64Max \in Nat
    BY RetainedType, TotalNat, BoundsAssumption DEF TypeOK, Retained
  <1>1. CASE Apply
    <2>1. CASE RegisterQuery
      BY <2>1 DEF RegisterQuery, BudgetInv, BudgetExact, account
    <2>2. CASE ~RegisterQuery
      BY <1>1, <2>2, BudgetDrop DEF Apply, AppendData, ReplaceData, AddGraphEvidence,
         AddConstraint, RemoveConstraint, UpdateAssumption, RecordIntervention, PremiseEvent,
         InvalidateAllResults, account
    <2>. QED BY <2>1, <2>2
  <1>2. ASSUME NEW j \in Jobs, NEW us \in Updates, NEW form \in Forms, NEW versioned,
               Publish(j, us, form, versioned)
        PROVE  BudgetInv'
    <2>1. /\ StagedUsed(us) # Never /\ used' = StagedUsed(us)
          /\ results' = StagedMap(us, Len(us)) /\ diags' = diags /\ maxBytes' = maxBytes
          /\ overflowed' = (overflowed \/
                \E n \in DOMAIN us : Retained(StagedMap(us, n), diags) > U64Max)
      BY <1>2 DEF Publish, CommitResults
    <2>2. DOMAIN us = 1..Len(us)
      BY DEF Updates
    <2>3. /\ used' \in Nat /\ used' <= maxBytes
          /\ used' <= Retained(results', diags)
          /\ Clean(us, Len(us)) => used' = Retained(results', diags)
          /\ \A n \in 1..Len(us) : Retained(StagedMap(us, n), diags) \in Nat
      BY <2>1, StagedBudget
    <2>4. maxBytes < U64Max \/ ~overflowed' => Clean(us, Len(us))
      <3>1. ASSUME ~overflowed' PROVE ~overflowed /\ \A n \in 1..Len(us) : Retained(StagedMap(us, n), diags) <= U64Max
        <4>1. ~overflowed /\ \A n \in DOMAIN us : ~(Retained(StagedMap(us, n), diags) > U64Max)
          BY <2>1, <3>1, Zenon
        <4>2. \A n \in 1..Len(us) : Retained(StagedMap(us, n), diags) \in Nat
          BY <2>3
        <4>. QED BY <1>0, <2>2, <4>1, <4>2
      <3>. QED BY <3>1 DEF Clean
    <2>. QED BY <2>1, <2>3, <2>4 DEF BudgetInv, BudgetExact
  <1>3. ASSUME NEW q \in QueryId, RemoveResult(q) PROVE BudgetInv'
    <2>1. /\ BytesOf(results[q]) \in Nat /\ BytesOf(results[q]) <= TotalBytes(results)
          /\ TotalBytes([results EXCEPT ![q] = {}])
                = (TotalBytes(results) - BytesOf(results[q])) + BytesOf({})
      BY RetainedType, TotalReplace
    <2>2. BytesOf({}) = 0
      BY DEF BytesOf
    <2>3. /\ results' = [results EXCEPT ![q] = {}] /\ diags' = diags
          /\ used' = SatSub(used, BytesOf(results[q])) /\ UNCHANGED <<maxBytes, overflowed>>
      BY <1>3 DEF RemoveResult, hist
    <2>4. Retained(results', diags') = Retained(results, diags) - BytesOf(results[q])
      BY <1>0, <2>1, <2>2, <2>3 DEF Retained
    <2>5. /\ BytesOf(results[q]) \in Nat
          /\ BytesOf(results[q]) <= Retained(results, diags)
      BY <1>0, <2>1
    <2>. QED BY <2>3, <2>4, <2>5, BudgetEvict
  <1>4. CASE ClearResults
    BY <1>4, BudgetDrop DEF ClearResults, hist
  <1>5. ASSUME NEW k \in DiagKeys, NEW charge \in DiagBytes, InsertMechanismDiag(k, charge)
        PROVE  BudgetInv'
    <2>. DEFINE old == BytesOf(diags[k])
                total == Retained(results, diags)
    <2>0. /\ charge \in Nat /\ charge \in 0..U64Max /\ {charge} \in SUBSET Nat
          /\ BytesOf({charge}) = charge
      BY RetainedType, DomainAssumption DEF BytesOf
    <2>1. /\ old \in Nat /\ old <= TotalBytes(diags)
          /\ TotalBytes([diags EXCEPT ![k] = {charge}])
                = (TotalBytes(diags) - old) + BytesOf({charge})
      BY <2>0, RetainedType, TotalReplace
    <2>2. /\ diags' = [diags EXCEPT ![k] = {charge}] /\ results' = results
          /\ maxBytes' = maxBytes /\ Admits(used, old, charge)
          /\ used' = Recharge(used, old, charge)
          /\ overflowed' = (overflowed \/ Retained(results, diags') > U64Max)
      BY <1>5 DEF InsertMechanismDiag
    <2>. HIDE DEF old
    <2>3. Retained(results', diags') = (total - old) + charge
      BY <1>0, <2>0, <2>1, <2>2 DEF Retained
    <2>4. total \in Nat /\ old <= total
      BY <1>0, <2>1
    <2>. HIDE DEF total
    <2>5. /\ used \in Nat /\ used <= maxBytes /\ used <= total
          /\ maxBytes < U64Max \/ ~overflowed => used = total
      BY DEF BudgetInv, BudgetExact, total
    <2>6. /\ used' \in Nat /\ used' <= maxBytes /\ used' <= (total - old) + charge
          /\ used = total /\ (maxBytes < U64Max \/ (total - old) + charge <= U64Max)
                => used' = (total - old) + charge
      BY <1>0, <2>0, <2>1, <2>2, <2>4, <2>5, AdmittedRecharge
    <2>7. ~overflowed' => ~overflowed /\ (total - old) + charge <= U64Max
      <3>1. (total - old) + charge \in Nat
        BY <2>0, <2>1, <2>4
      <3>2. ~overflowed' => ~overflowed /\ ~((total - old) + charge > U64Max)
        BY <2>2, <2>3, Zenon
      <3>. QED BY <1>0, <3>1, <3>2
    <2>. QED BY <2>2, <2>3, <2>5, <2>6, <2>7 DEF BudgetInv, BudgetExact
  <1>6. ASSUME NEW k \in DiagKeys, EvictMechanismDiag(k) PROVE BudgetInv'
    <2>1. /\ BytesOf(diags[k]) \in Nat /\ BytesOf(diags[k]) <= TotalBytes(diags)
          /\ TotalBytes([diags EXCEPT ![k] = {}])
                = (TotalBytes(diags) - BytesOf(diags[k])) + BytesOf({})
      BY RetainedType, TotalReplace
    <2>2. BytesOf({}) = 0
      BY DEF BytesOf
    <2>3. /\ diags' = [diags EXCEPT ![k] = {}] /\ results' = results
          /\ used' = SatSub(used, BytesOf(diags[k])) /\ UNCHANGED <<maxBytes, overflowed>>
      BY <1>6 DEF EvictMechanismDiag, hist
    <2>4. Retained(results', diags') = Retained(results, diags) - BytesOf(diags[k])
      BY <1>0, <2>1, <2>2, <2>3 DEF Retained
    <2>5. /\ BytesOf(diags[k]) \in Nat
          /\ BytesOf(diags[k]) <= Retained(results, diags)
      BY <1>0, <2>1
    <2>. QED BY <2>3, <2>4, <2>5, BudgetEvict
  <1>7. CASE UNCHANGED <<used, results, diags, maxBytes, overflowed>>
    BY <1>7 DEF BudgetInv, BudgetExact
  <1>8. CASE \/ \E j \in Jobs : Recompute(j)
             \/ \E k \in SlotsUsed : EnsureSlot(k) \/ InsertSlot(k)
             \/ UNCHANGED vars
    BY <1>7, <1>8 DEF Recompute, EnsureSlot, InsertSlot, vars, state, hist
  <1>. QED BY <1>1, <1>2, <1>3, <1>4, <1>5, <1>6, <1>8, DomainAssumption
       DEF Next, PublishResultsAt, PublishResults

\* used_bytes is within max_bytes and never more than what is retained; it is exactly what
\* the retained results and diagnostics slots were charged under any limit below u64::MAX,
\* and under CacheBudget::unlimited until their sizes sum to more than a u64 holds.  For any
\* batch sizes, replacements, refusals and evictions.
THEOREM BudgetSound == Spec => []BudgetExact
  <1>1. Init => BudgetInv
    <2>. SUFFICES ASSUME Init PROVE BudgetInv
      OBVIOUS
    <2>1. TotalBytes(results) = 0 /\ TotalBytes(diags) = 0
      BY TypeInit, RetainedType, TotalZero DEF Init
    <2>. QED BY <2>1, BoundsAssumption DEF Init, BudgetInv, BudgetExact, Retained
  <1>2. BudgetInv => BudgetExact
    BY DEF BudgetInv
  <1>. QED BY <1>1, <1>2, TypeCorrect, BudgetStep, PTL DEF Spec
=============================================================================
