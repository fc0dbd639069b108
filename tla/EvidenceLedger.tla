--------------------------- MODULE EvidenceLedger ---------------------------
(***************************************************************************)
(* The evidence ledger of antecedent-contract (evidence_ledger/): which    *)
(* observations stand behind which sources, which sources behind which     *)
(* results, and what the standing of each is after sources were updated,   *)
(* replaced, superseded or withdrawn.                                      *)
(*                                                                         *)
(* A source or result is known by its position, in the order they were     *)
(* added.  Rows are sets of observations.  Texts, digests and the details  *)
(* of refusals are left out; a refused operation changes nothing.  The     *)
(* identities that refuse a source or a result already added include its   *)
(* label, so equal declarations and operations here are ones under other   *)
(* labels, and are admitted.                                               *)
(***************************************************************************)
EXTENDS Integers, Sequences, FiniteSets

CONSTANTS
    Declarations,     \* declarations a caller may make
    Unknown,          \* rows that were not declared, or cannot be resolved
    MaxSources,       \* MAX_SOURCES
    MaxResults,       \* MAX_RESULTS
    MaxOperations,    \* MAX_OPERATIONS
    MaxObservations   \* MAX_TOTAL_OBSERVATIONS

Kinds == {"observation_set", "experiment", "prior", "fitted_model", "external_claim"}
ModelOrClaim == {"fitted_model", "external_claim"}
Lineages == {"original", "duplicate", "transform", "subset", "prior_plus_likelihood", "derived"}

ASSUME LedgerAssumption ==
    /\ \A d \in Declarations :
          /\ d.kind \in Kinds
          /\ d.lineage \in Lineages
          /\ d.parents \subseteq Nat \ {0}
          /\ d.transported \in BOOLEAN
          /\ d.rows # Unknown => IsFiniteSet(d.rows)
    /\ {MaxSources, MaxResults, MaxOperations, MaxObservations} \subseteq Nat

VARIABLES
    sources,   \* declaration, effective rows and standing of each source
    results,   \* operation, account and standing of each result
    log        \* number of applied operations

vars == <<sources, results, log>>

Ids == DOMAIN sources
Rows(i) == sources[i].rows
Known(i) == Rows(i) # Unknown

-----------------------------------------------------------------------------
(* Lineage, usability and overlap.                                         *)

\* lineage_closure: the source and everything it was derived from.
Closed(ss, S) == \A i \in S : ss[i].declaration.parents \subseteq S
LineageClosure(ss, i) ==
    {j \in DOMAIN ss : \A S \in SUBSET DOMAIN ss : i \in S /\ Closed(ss, S) => j \in S}

\* loss_of: some member of the lineage was lost.
Lost(ss, i, tags) == \E j \in LineageClosure(ss, i) : ss[j].status \in tags

Permanent   == {"withdrawn"}
Retired     == {"withdrawn", "superseded", "replaced", "updated"}
Usable(i)   == ~Lost(sources, i, Retired)

\* overlap_of: an empty set overlaps nothing, an unknown one may overlap anything.
Independent(i, j) ==
    \/ Rows(i) = {}
    \/ Rows(j) = {}
    \/ Known(i) /\ Known(j) /\ Rows(i) \cap Rows(j) = {}

DisjointGroups(S, T) == \A i \in S, j \in T : Independent(i, j)
PairwiseIndependent(S) == \A i, j \in S : i # j => Independent(i, j)

Size(rows) == IF rows = Unknown THEN 0 ELSE Cardinality(rows)

\* One slot for each known row of each of the sources: what they list, repeats included.
Slots(S) == UNION {{i} \X Rows(i) : i \in {j \in S : Known(j)}}
TotalObservations == Cardinality(Slots(Ids))

-----------------------------------------------------------------------------
(* New sources.                                                            *)

\* What the lineage says the rows are.
LineageRows(d) ==
    IF \E p \in d.parents : ~Known(p) THEN Unknown ELSE UNION {Rows(p) : p \in d.parents}

\* resolve_effective, where it refuses: declared rows contradict the lineage.
Contradicts(d) ==
    /\ d.rows # Unknown /\ d.lineage # "original" /\ LineageRows(d) # Unknown
    /\ IF d.lineage \in {"duplicate", "transform"} THEN d.rows # LineageRows(d)
       ELSE ~(d.rows \subseteq LineageRows(d))

Effective(d) ==
    IF d.rows # Unknown THEN d.rows
    ELSE IF d.lineage \in {"original", "subset"} THEN Unknown ELSE LineageRows(d)

\* canonical_source: the parents are in the ledger and usable.
Canonical(d) ==
    /\ d.parents \subseteq Ids
    /\ \A p \in d.parents : Usable(p)
    /\ d.lineage = "derived" => d.parents # {}
    /\ d.lineage = "prior_plus_likelihood" =>
          /\ Cardinality(d.parents) = 2
          /\ \E p \in d.parents : sources[p].declaration.kind = "prior"
    /\ d.transported => d.kind # "observation_set"
    /\ ~Contradicts(d)

\* check_new_source: within the bounds.
IsNew(d) ==
    /\ TotalObservations + Size(Effective(d)) <= MaxObservations
    /\ Len(sources) < MaxSources

Source(d) == [declaration |-> d, rows |-> Effective(d), status |-> "active", by |-> 0]

-----------------------------------------------------------------------------
(* Classification.                                                         *)

\* The sources a result cannot all do without are in needed, the others in
\* helping: pooled, likelihood-bearing, transported or repeated sources against
\* priors and native data.
LossClass(ss, op) ==
    LET remaining == {i \in op.needed : ~Lost(ss, i, Permanent)}
    IN  IF \A i \in op.needed \cup op.helping : ~Lost(ss, i, Retired) THEN "valid"
        ELSE IF Cardinality(remaining) < (IF op.kind = "pooling" THEN 2 ELSE 1)
        THEN "withdrawn" ELSE "recompute"

Terminal == {"withdrawn", "replaced"}

\* Mutant: a reuse is judged by its own sources, of which it has none.
Class_ReuseByLoss(ss, op, parent) == IF op.kind = "reuse" THEN "valid" ELSE LossClass(ss, op)

\* The class of a result whose cited result, if it cites one, stands as parent.
Class(ss, op, parent) ==
    IF op.kind # "reuse" THEN LossClass(ss, op)
    ELSE IF parent = "replaced" THEN "recompute" ELSE parent

\* Mutant: replaced results are classified again.
Restated_NotTerminal(ss, r, parent) ==
    IF r.status = "recompute" /\ Class(ss, r.op, parent) = "valid" THEN "recompute"
    ELSE Class(ss, r.op, parent)

\* Mutant: a result that is already stale is not looked at again.
Restated_ValidOnly(ss, r, parent) ==
    IF r.status = "valid" THEN Class(ss, r.op, parent) ELSE r.status

\* One result's standing after reclassification.
Restated(ss, r, parent) ==
    IF r.status \in Terminal THEN r.status
    ELSE IF Class(ss, r.op, parent) = "withdrawn" THEN "withdrawn"
    ELSE IF Class(ss, r.op, parent) = "recompute" /\ r.status = "valid" THEN "recompute" ELSE r.status

\* reclassify: every result in order, a reuse after the result it cites,
\* against the standings of the sources ss.
Reclassify(ss) ==
    LET standing[i \in DOMAIN results] ==
            Restated(ss, results[i],
                     IF results[i].op.kind = "reuse" THEN standing[results[i].op.of] ELSE "valid")
    IN  [i \in DOMAIN results |-> [results[i] EXCEPT !.status = standing[i]]]

-----------------------------------------------------------------------------
(* Operations.                                                             *)

Logs == log < MaxOperations /\ log' = log + 1

Add(d) ==
    /\ Logs
    /\ Canonical(d) /\ IsNew(d)
    /\ sources' = Append(sources, Source(d))
    /\ UNCHANGED results

\* What update, replace and supersede ask of the source that takes over.
MayReplace(how, t, d) ==
    /\ sources[t].status = "active"
    /\ how = "superseded" => sources[t].declaration.kind \in ModelOrClaim
    /\ d.kind = sources[t].declaration.kind
    /\ Canonical(d) /\ IsNew(d)
    /\ \A p \in d.parents : t \notin LineageClosure(sources, p)
    /\ how = "updated" => /\ Known(t) /\ Effective(d) # Unknown
                          /\ Rows(t) \subseteq Effective(d)

\* Mutant: the source that takes over is not named.
Retire_Unnamed(t, how, added) ==
    LET ss == [sources EXCEPT ![t].status = how] \o added
    IN  /\ Logs
        /\ sources' = ss
        /\ results' = Reclassify(ss)

\* A source retires, its successor, if any, is added, and every result is restated.
Retire(t, how, added) ==
    LET ss == [sources EXCEPT ![t].status = how,
                              ![t].by = IF added = <<>> THEN 0 ELSE Len(sources) + 1] \o added
    IN  /\ Logs
        /\ sources' = ss
        /\ results' = Reclassify(ss)

Replace(how, t, d) ==
    /\ MayReplace(how, t, d)
    /\ Retire(t, how, <<Source(d)>>)

\* Any source but a withdrawn one, retired ones included.
Withdraw(t) ==
    /\ sources[t].status # "withdrawn"
    /\ Retire(t, "withdrawn", <<>>)

RevalidateDownstream ==
    /\ Logs
    /\ results' = Reclassify(sources)
    /\ UNCHANGED sources

\* The operations check_combination is asked about.  A covariance with cross terms
\* and a range of correlations ask the same of the sources: both are joint.
Dependences == {"independent", "diagonal", "joint"}
Operation(kind, needed, helping, dependence, of) ==
    [kind |-> kind, needed |-> needed, helping |-> helping, dependence |-> dependence, of |-> of]

SourceOperations ==
    {Operation("pooling", S, {}, d, 0) : S \in SUBSET Ids, d \in Dependences}
        \cup {Operation("repeated", S, {}, "none", 0) : S \in SUBSET Ids}
        \cup (UNION {{Operation(k, S, T, "none", 0) : T \in SUBSET (Ids \ S)} :
                          k \in {"borrowing", "transport"}, S \in SUBSET Ids})
ReuseOperations == {Operation("reuse", {}, {}, "none", r) : r \in DOMAIN results}

Carried(S) == {i \in S : sources[i].declaration.transported}

\* Mutant: a covariance without cross terms is taken as one with them.
Pools_AnyCovariance(op) ==
    /\ Cardinality(op.needed) >= 2
    /\ DisjointGroups(op.needed \ Carried(op.needed), Carried(op.needed))
    /\ op.dependence = "independent" => PairwiseIndependent(op.needed)

\* Transported claims are never counted as native data; independence, and a
\* covariance without cross terms, need known and disjoint observations.
Pools(op) ==
    /\ Cardinality(op.needed) >= 2
    /\ DisjointGroups(op.needed \ Carried(op.needed), Carried(op.needed))
    /\ op.dependence \in {"independent", "diagonal"} => PairwiseIndependent(op.needed)

Borrows(op) ==
    /\ op.needed # {}
    /\ \A i \in op.helping : sources[i].declaration.kind = "prior"
    /\ PairwiseIndependent(op.needed) /\ PairwiseIndependent(op.helping)
    /\ DisjointGroups(op.helping, op.needed)

Transports(op) ==
    /\ op.needed # {}
    /\ op.needed = Carried(op.needed) /\ Carried(op.helping) = {}
    /\ DisjointGroups(op.helping, op.needed)

Repeats(op) == op.needed # {} /\ \A i \in op.needed : Known(i)

\* check_combination for an operation over sources: each is listed once and usable.
Licensed(op) ==
    /\ op.needed \cap op.helping = {}
    /\ \A i \in op.needed \cup op.helping : Usable(i)
    /\ CASE op.kind = "pooling"   -> Pools(op)
         [] op.kind = "borrowing" -> Borrows(op)
         [] op.kind = "transport" -> Transports(op)
         [] op.kind = "repeated"  -> Repeats(op)

\* account: each observation of the sources counted once, against their slots.
Account(op) ==
    LET used == op.needed \cup op.helping
    IN  [slots |-> Cardinality(Slots(used)),
         distinct |-> UNION {Rows(i) : i \in {j \in used : Known(j)}}]

\* The result is registered, and the one it recomputes, if any, is replaced.
Register(op, mass, replaces) ==
    LET record == [op |-> op, mass |-> mass, replaces |-> replaces, status |-> "valid"]
    IN  /\ Logs
        /\ replaces # 0 => results[replaces].status # "replaced"
        /\ results' = Append(IF replaces = 0 THEN results
                             ELSE [results EXCEPT ![replaces].status = "replaced"], record)
        /\ UNCHANGED sources

\* plan and check_combination: the log and the results are within their limits.
HasRoom == log < MaxOperations /\ Len(results) < MaxResults

Combine ==
    /\ HasRoom
    /\ \E op \in SourceOperations :
          /\ Licensed(op)
          /\ \E p \in {0} \cup DOMAIN results : Register(op, Account(op), p)

\* An existing valid result is cited again, with its account.
Reuse ==
    /\ HasRoom
    /\ \E op \in ReuseOperations :
          /\ results[op.of].status = "valid"
          /\ \E p \in {0} \cup DOMAIN results : Register(op, results[op.of].mass, p)

Init == sources = <<>> /\ results = <<>> /\ log = 0

Next ==
    \/ \E d \in Declarations : Add(d)
    \/ \E how \in {"updated", "replaced", "superseded"}, t \in Ids, d \in Declarations :
          Replace(how, t, d)
    \/ \E t \in Ids : Withdraw(t)
    \/ RevalidateDownstream
    \/ Combine
    \/ Reuse

Spec == Init /\ [][Next]_vars

-----------------------------------------------------------------------------
(* Properties.                                                             *)

\* result_sources: the sources a result rests on, resolved through reuse.
Cites(S) == \A i \in S : results[i].op.kind = "reuse" => results[i].op.of \in S
Citations(r) ==
    {j \in DOMAIN results : \A S \in SUBSET DOMAIN results : r \in S /\ Cites(S) => j \in S}
ResultSources(r) ==
    UNION {results[j].op.needed \cup results[j].op.helping : j \in Citations(r)}

\* Sources and results are well formed: lineages and citations point backwards,
\* a retired source that was not withdrawn names its successor, and the ledger is
\* within its bounds.
TypeOK ==
    /\ Len(sources) <= MaxSources /\ Len(results) <= MaxResults /\ log \in 0..MaxOperations
    /\ TotalObservations <= MaxObservations
    /\ \A i \in Ids :
          /\ sources[i].declaration \in Declarations
          /\ \A p \in sources[i].declaration.parents : p < i
          /\ sources[i].status \in Retired \cup {"active"}
          /\ sources[i].status \notin Permanent \cup {"active"} => sources[i].by \in Ids
    /\ \A r \in DOMAIN results :
          /\ results[r].status \in {"valid", "recompute", "withdrawn", "replaced"}
          /\ results[r].op.of < r /\ results[r].replaces < r

\* No result stands valid on evidence that is gone: every source it rests on,
\* through citations of citations, is active and so is all that source was
\* derived from, whatever was retired or withdrawn since it was registered.
ValidRestsOnUsable ==
    \A r \in DOMAIN results :
        results[r].status = "valid" => \A i \in ResultSources(r) : Usable(i)

\* The standing of a combination is never out of date nor harsher than its losses:
\* unless it was replaced, it is what classifying it against the sources as they
\* are now would give.
StandingIsCurrent ==
    \A r \in DOMAIN results :
        results[r].op.kind # "reuse" /\ results[r].status # "replaced" =>
            results[r].status = LossClass(sources, results[r].op)

\* The operations that count their sources as independent evidence.
CountsAsIndependent(op) ==
    \/ op.kind = "borrowing"
    \/ op.kind = "pooling" /\ op.dependence \in {"independent", "diagonal"}

\* A result that counts its sources as independent evidence, or cites one that
\* does, counts no observation twice.
CountedOnce ==
    \A r \in DOMAIN results : \A j \in Citations(r) :
        CountsAsIndependent(results[j].op) =>
            results[r].mass.slots = Cardinality(results[r].mass.distinct)

Standing == [valid |-> 0, recompute |-> 1, withdrawn |-> 2, replaced |-> 3]

\* A result never regains a standing it lost, and no result or source is dropped.
StandingsOnlyWorsen ==
    [][/\ \A r \in DOMAIN results :
            r \in DOMAIN results' /\ Standing[results'[r].status] >= Standing[results[r].status]
       /\ \A i \in Ids :
            i \in DOMAIN sources' /\ (sources[i].status # "active" => sources'[i].status # "active")]_vars
=============================================================================
