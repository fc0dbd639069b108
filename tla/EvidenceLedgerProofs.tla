------------------------ MODULE EvidenceLedgerProofs ------------------------
(***************************************************************************)
(* Proofs about EvidenceLedger: the ledger stays well formed, no result    *)
(* stands valid on evidence that is gone, the standing of a combination is *)
(* current, no observation is counted twice where sources are counted as   *)
(* independent, and standings only worsen.                                 *)
(***************************************************************************)
EXTENDS EvidenceLedger, FiniteSetTheorems, SequenceTheorems, TLAPS

(***************************************************************************)
(* The inductive invariant.                                                *)
(***************************************************************************)

Statuses == {"valid", "recompute", "withdrawn", "replaced"}
OperationKinds == {"pooling", "borrowing", "transport", "repeated", "reuse"}

\* Every observation some declaration lists.
Observations == UNION {d.rows : d \in {e \in Declarations : e.rows # Unknown}}

SourceRecord == [declaration : Declarations, rows : {Unknown} \cup SUBSET Observations,
                 status : Retired \cup {"active"}, by : Nat]
OperationRecord == [kind : OperationKinds, needed : SUBSET Nat, helping : SUBSET Nat,
                    dependence : Dependences \cup {"none"}, of : Nat]
ResultRecord == [op : OperationRecord, mass : [slots : Nat, distinct : SUBSET Observations],
                 replaces : Nat, status : Statuses]

\* Lineages point backwards, and retired sources to a successor in the ledger.
Lineaged(ss) ==
    /\ \A i \in DOMAIN ss : \A p \in ss[i].declaration.parents : p < i
    /\ \A i \in DOMAIN ss : ss[i].status \notin Permanent \cup {"active"} => ss[i].by \in DOMAIN ss

SourcesInv ==
    /\ sources \in Seq(SourceRecord)
    /\ Lineaged(sources)
    /\ IsFiniteSet(Slots(Ids)) /\ TotalObservations <= MaxObservations
    /\ Len(sources) <= MaxSources
    /\ log \in 0..MaxOperations

\* A reuse lists no sources and cites an earlier result, whose account it has.
WellCited(rs, r) ==
    /\ rs[r].replaces < r /\ rs[r].op.of < r
    /\ rs[r].op.kind = "reuse" =>
          /\ rs[r].op.of \in DOMAIN rs
          /\ rs[r].op.needed = {} /\ rs[r].op.helping = {}
          /\ rs[r].mass = rs[rs[r].op.of].mass

\* The sources a result lists are in the ledger.
Listed(op) == op.needed \subseteq Ids /\ op.helping \subseteq Ids

\* The account of a combination that counts its sources as independent.
CountedRight(rec) ==
    CountsAsIndependent(rec.op) => rec.mass.slots = Cardinality(rec.mass.distinct)

ResultsInv ==
    /\ results \in Seq(ResultRecord)
    /\ Len(results) <= MaxResults
    /\ \A r \in DOMAIN results :
          WellCited(results, r) /\ Listed(results[r].op) /\ CountedRight(results[r])

\* A set of results closed under citation that holds every valid one and rests on
\* usable sources only.
Rests(S) ==
    /\ S \subseteq DOMAIN results
    /\ Cites(S)
    /\ \A i \in S : \A j \in results[i].op.needed \cup results[i].op.helping : Usable(j)
    /\ \A r \in DOMAIN results : results[r].status = "valid" => r \in S

LedgerInv == SourcesInv /\ ResultsInv /\ StandingIsCurrent /\ \E S : Rests(S)

-----------------------------------------------------------------------------
(* Sources.                                                                *)

\* ss is the ledger's sources, perhaps with more behind them and with some retired
\* further: what every operation does to them.
Succeeds(ss) ==
    /\ ss \in Seq(SourceRecord) /\ Len(sources) <= Len(ss)
    /\ \A i \in Ids : /\ ss[i].declaration = sources[i].declaration
                      /\ ss[i].rows = sources[i].rows
                      /\ \A tags \in {Permanent, Retired} :
                            sources[i].status \in tags => ss[i].status \in tags

\* The parents of a source are sources of the ledger.
LEMMA ParentsListed ==
  ASSUME SourcesInv, NEW i \in Ids, NEW p \in sources[i].declaration.parents
  PROVE  p \in Ids /\ p < i
  <1>1. sources[i].declaration \in Declarations /\ i \in 1..Len(sources)
    <2>1. sources \in Seq(SourceRecord) /\ i \in 1..Len(sources)
      BY DEF SourcesInv, Ids
    <2>2. sources[i] \in SourceRecord
      BY <2>1, ElementOfSeq
    <2>. QED BY <2>1, <2>2 DEF SourceRecord
  <1>2. p \in Nat \ {0} /\ p < i
    BY <1>1, LedgerAssumption DEF SourcesInv, Lineaged, Ids
  <1>. QED BY <1>1, <1>2 DEF SourcesInv, Ids

\* The lineage of a source in the ledger does not change.
LEMMA ClosureKept ==
  ASSUME SourcesInv, NEW ss, Succeeds(ss), NEW i \in Ids
  PROVE  LineageClosure(ss, i) = LineageClosure(sources, i)
  <1>. DEFINE D == DOMAIN ss
  <1>1. Ids \subseteq D
    BY DEF Succeeds, SourcesInv, Ids
  <1>2. \A j \in Ids : ss[j].declaration.parents = sources[j].declaration.parents
    BY DEF Succeeds
  <1>3. \A j \in Ids : sources[j].declaration.parents \subseteq Ids
    BY ParentsListed
  <1>4. ASSUME NEW j \in LineageClosure(ss, i) PROVE j \in LineageClosure(sources, i)
    <2>1. Closed(ss, Ids)
      BY <1>2, <1>3 DEF Closed
    <2>2. j \in Ids
      BY <1>1, <1>4, <2>1 DEF LineageClosure
    <2>3. ASSUME NEW S \in SUBSET Ids, i \in S, Closed(sources, S) PROVE j \in S
      <3>1. Closed(ss, S) /\ S \in SUBSET D
        BY <1>1, <1>2, <2>3 DEF Closed
      <3>. QED BY <1>4, <2>3, <3>1 DEF LineageClosure
    <2>. QED BY <2>2, <2>3 DEF LineageClosure, Ids
  <1>5. ASSUME NEW j \in LineageClosure(sources, i) PROVE j \in LineageClosure(ss, i)
    <2>1. j \in Ids
      BY <1>5 DEF LineageClosure, Ids
    <2>2. ASSUME NEW S \in SUBSET D, i \in S, Closed(ss, S) PROVE j \in S
      <3>1. S \cap Ids \in SUBSET DOMAIN sources /\ i \in S \cap Ids
        BY <2>2 DEF Ids
      <3>2. Closed(sources, S \cap Ids)
        BY <1>2, <1>3, <2>2 DEF Closed
      <3>3. j \in S \cap Ids
        BY <1>5, <3>1, <3>2 DEF LineageClosure
      <3>. QED BY <3>3
    <2>. QED BY <1>1, <2>1, <2>2 DEF LineageClosure
  <1>. QED BY <1>4, <1>5

\* What was lost stays lost.
LEMMA LossKept ==
  ASSUME SourcesInv, NEW ss, Succeeds(ss), NEW i \in Ids, NEW tags \in {Permanent, Retired},
         Lost(sources, i, tags)
  PROVE  Lost(ss, i, tags)
  <1>1. PICK j \in LineageClosure(sources, i) : sources[j].status \in tags
    BY DEF Lost
  <1>2. j \in Ids /\ j \in LineageClosure(ss, i)
    BY <1>1, ClosureKept DEF LineageClosure, Ids
  <1>3. ss[j].status \in tags
    BY <1>1, <1>2 DEF Succeeds
  <1>. QED BY <1>2, <1>3 DEF Lost

\* The sources an operation still has.
Remaining(ss, op) == {i \in op.needed : ~Lost(ss, i, Permanent)}

\* A combination's class is valid, withdrawn or recompute.
LEMMA LossClasses ==
  ASSUME NEW ss, NEW op
  PROVE  /\ LossClass(ss, op) \in {"valid", "withdrawn", "recompute"}
         /\ LossClass(ss, op) = "valid"
              <=> \A i \in op.needed \cup op.helping : ~Lost(ss, i, Retired)
         /\ LossClass(ss, op) = "withdrawn"
              <=> /\ ~\A i \in op.needed \cup op.helping : ~Lost(ss, i, Retired)
                  /\ Cardinality(Remaining(ss, op)) < (IF op.kind = "pooling" THEN 2 ELSE 1)
  BY DEF LossClass, Remaining

\* A combination never regains what it lost.
LEMMA ClassWorsens ==
  ASSUME SourcesInv, NEW ss, Succeeds(ss), NEW op \in OperationRecord, Listed(op)
  PROVE  /\ LossClass(ss, op) = "valid" => LossClass(sources, op) = "valid"
         /\ LossClass(sources, op) = "withdrawn" => LossClass(ss, op) = "withdrawn"
  <1>1. \A i \in op.needed \cup op.helping : i \in Ids
    BY DEF Listed
  <1>2. \A i \in op.needed \cup op.helping : Lost(sources, i, Retired) => Lost(ss, i, Retired)
    BY <1>1, LossKept
  <1>3. Remaining(ss, op) \subseteq Remaining(sources, op)
    BY <1>1, LossKept DEF Remaining
  <1>4. /\ Cardinality(Remaining(ss, op)) <= Cardinality(Remaining(sources, op))
        /\ Cardinality(Remaining(ss, op)) \in Nat /\ Cardinality(Remaining(sources, op)) \in Nat
    <2>1. IsFiniteSet(1..Len(sources))
      BY FS_Interval DEF SourcesInv
    <2>2. Remaining(sources, op) \in SUBSET (1..Len(sources))
      BY <1>1 DEF Remaining, SourcesInv, Ids
    <2>3. IsFiniteSet(Remaining(sources, op))
      BY <2>1, <2>2, FS_Subset
    <2>4. IsFiniteSet(Remaining(ss, op))
      BY <1>3, <2>3, FS_Subset
    <2>. QED BY <1>3, <2>3, <2>4, FS_Subset, FS_CardinalityType
  <1>5. LossClass(ss, op) = "valid" => LossClass(sources, op) = "valid"
    BY <1>2, LossClasses
  <1>6. ASSUME LossClass(sources, op) = "withdrawn" PROVE LossClass(ss, op) = "withdrawn"
    <2>. DEFINE least == IF op.kind = "pooling" THEN 2 ELSE 1
    <2>1. ~\A i \in op.needed \cup op.helping : ~Lost(ss, i, Retired)
      BY <1>2, <1>6, LossClasses
    <2>2. Cardinality(Remaining(sources, op)) < least
      BY <1>6, LossClasses
    <2>3. Cardinality(Remaining(ss, op)) < least
      BY <1>4, <2>2
    <2>. QED BY <2>1, <2>3, LossClasses
  <1>. QED BY <1>5, <1>6

\* Where no standing changed, no class does.
LEMMA ClassSame ==
  ASSUME SourcesInv, NEW ss, Succeeds(ss), \A i \in Ids : ss[i].status = sources[i].status,
         NEW op \in OperationRecord, Listed(op)
  PROVE  /\ LossClass(ss, op) = LossClass(sources, op)
         /\ \A i \in Ids : Lost(ss, i, Retired) <=> Lost(sources, i, Retired)
  <1>1. ASSUME NEW i \in Ids, NEW tags PROVE Lost(ss, i, tags) <=> Lost(sources, i, tags)
    <2>1. \A j \in LineageClosure(sources, i) : ss[j].status = sources[j].status
      BY DEF LineageClosure, Ids
    <2>. QED BY <2>1, ClosureKept DEF Lost
  <1>2. Remaining(ss, op) = Remaining(sources, op)
    BY <1>1 DEF Remaining, Listed
  <1>3. \A i \in op.needed \cup op.helping : Lost(ss, i, Retired) <=> Lost(sources, i, Retired)
    BY <1>1 DEF Listed
  <1>4. LossClass(ss, op) = LossClass(sources, op)
    BY <1>2, <1>3 DEF LossClass, Remaining
  <1>. QED BY <1>1, <1>4
-----------------------------------------------------------------------------
(* Observations and their slots.                                           *)

\* The observations known of some sources.
Observed(S) == UNION {Rows(i) : i \in {j \in S : Known(j)}}

\* Every observation has a slot, and only one where the sources are independent.
LEMMA ObservedSlots ==
  ASSUME SourcesInv, NEW S \in SUBSET Ids
  PROVE  /\ IsFiniteSet(Slots(S)) /\ IsFiniteSet(Observed(S))
         /\ PairwiseIndependent(S) => Cardinality(Slots(S)) = Cardinality(Observed(S))
  <1>. DEFINE X == Slots(S)
              Y == Observed(S)
              f == [x \in X |-> x[2]]
  <1>1. IsFiniteSet(X)
    <2>1. X \in SUBSET Slots(Ids)
      BY DEF Slots
    <2>. QED BY <2>1, FS_Subset DEF SourcesInv
  <1>2. \A x \in X : x[1] \in S /\ Known(x[1]) /\ x[2] \in Rows(x[1]) /\ x = <<x[1], x[2]>>
    BY DEF Slots
  <1>3. f \in Surjection(X, Y)
    <2>1. f \in [X -> Y]
      BY <1>2 DEF Observed
    <2>2. ASSUME NEW y \in Y PROVE \E x \in X : f[x] = y
      <3>1. PICK i \in S : Known(i) /\ y \in Rows(i)
        BY DEF Observed
      <3>2. <<i, y>> \in X
        BY <3>1 DEF Slots
      <3>. QED BY <3>2
    <2>. HIDE DEF X, Y, f
    <2>. QED BY <2>1, <2>2 DEF Surjection
  <1>4. ASSUME PairwiseIndependent(S) PROVE f \in Injection(X, Y)
    <2>1. ASSUME NEW x \in X, NEW z \in X, x[2] = z[2] PROVE x = z
      <3>1. CASE x[1] = z[1]
        BY <1>2, <2>1, <3>1
      <3>2. CASE x[1] # z[1]
        <4>1. Independent(x[1], z[1])
          BY <1>2, <1>4, <3>2 DEF PairwiseIndependent
        <4>2. x[2] \in Rows(x[1]) /\ x[2] \in Rows(z[1])
          BY <1>2, <2>1
        <4>. QED BY <4>1, <4>2 DEF Independent
      <3>. QED BY <3>1, <3>2
    <2>2. f \in [X -> Y]
      BY <1>3 DEF Surjection
    <2>3. \A x, z \in X : f[x] = f[z] => x = z
      BY <2>1
    <2>. HIDE DEF X, Y, f
    <2>. QED BY <2>2, <2>3 DEF Injection, IsInjective
  <1>. HIDE DEF f, X, Y
  <1>5. IsFiniteSet(Y) /\ (Cardinality(Y) = Cardinality(X) <=> f \in Injection(X, Y))
    BY <1>1, <1>3, FS_Surjection
  <1>. QED BY <1>1, <1>4, <1>5 DEF X, Y

\* The rows of a record of the ledger are observations.
LEMMA RowsObserved ==
  ASSUME SourcesInv, NEW i \in Ids, Known(i)
  PROVE  Rows(i) \subseteq Observations
  <1>1. sources \in Seq(SourceRecord) /\ i \in 1..Len(sources)
    BY DEF SourcesInv, Ids
  <1>2. sources[i] \in SourceRecord
    BY <1>1, ElementOfSeq
  <1>. QED BY <1>2 DEF SourceRecord, Rows, Known

\* What a declaration resolves to is unknown or finitely many observations.
LEMMA EffectiveType ==
  ASSUME SourcesInv, NEW d \in Declarations, Canonical(d)
  PROVE  /\ Effective(d) \in {Unknown} \cup SUBSET Observations
         /\ Effective(d) # Unknown => IsFiniteSet(Effective(d))
  <1>1. d.rows # Unknown => d.rows \subseteq Observations /\ IsFiniteSet(d.rows)
    BY LedgerAssumption DEF Observations
  <1>2. LineageRows(d) \in {Unknown} \cup SUBSET Observations
    BY RowsObserved DEF LineageRows, Canonical
  <1>3. LineageRows(d) # Unknown => IsFiniteSet(LineageRows(d))
    <2>1. LineageRows(d) # Unknown => LineageRows(d) = Observed(d.parents)
      BY DEF LineageRows, Observed
    <2>2. IsFiniteSet(Observed(d.parents))
      <3>1. d.parents \in SUBSET Ids
        BY DEF Canonical
      <3>. QED BY <3>1, ObservedSlots
    <2>. QED BY <2>1, <2>2
  <1>. QED BY <1>1, <1>2, <1>3 DEF Effective

\* The record of a new source.
LEMMA SourceType ==
  ASSUME SourcesInv, NEW d \in Declarations, Canonical(d)
  PROVE  /\ Source(d) \in SourceRecord
         /\ Source(d).declaration = d /\ Source(d).rows = Effective(d)
         /\ Source(d).status = "active"
         /\ \A p \in d.parents : p \in Ids /\ p < Len(sources) + 1
  <1>1. \A p \in d.parents : p \in Ids /\ p < Len(sources) + 1
    BY DEF Canonical, SourcesInv, Ids
  <1>. QED BY <1>1, EffectiveType DEF Source, SourceRecord

\* Sources that keep their rows, with at most one admitted behind them, are within
\* the bound on observations.
LEMMA SlotsStep ==
  ASSUME SourcesInv, sources' \in Seq(SourceRecord), MaxObservations \in Nat,
         \A i \in Ids : sources'[i].rows = sources[i].rows,
         \/ Len(sources') = Len(sources)
         \/ /\ Len(sources') = Len(sources) + 1
            /\ LET rows == sources'[Len(sources) + 1].rows
               IN  /\ rows # Unknown => IsFiniteSet(rows)
                   /\ TotalObservations + Size(rows) <= MaxObservations
  PROVE  IsFiniteSet(Slots(Ids)') /\ TotalObservations' <= MaxObservations
  <1>. DEFINE old == Slots(Ids)
              new == Slots(Ids)'
              n == Len(sources) + 1
              R == sources'[n].rows
  <1>1. Ids = 1..Len(sources) /\ Ids' = 1..Len(sources') /\ Len(sources) \in Nat
    BY DEF SourcesInv, Ids
  <1>2. IsFiniteSet(old) /\ Cardinality(old) <= MaxObservations /\ Cardinality(old) \in Nat
    BY FS_CardinalityType DEF SourcesInv, TotalObservations
  <1>3. CASE Len(sources') = Len(sources)
    <2>1. Ids' = Ids
      BY <1>1, <1>3
    <2>2. new = old
      BY <2>1 DEF Slots, Known, Rows
    <2>. QED BY <1>2, <2>2 DEF TotalObservations
  <1>4. CASE Len(sources') = n /\ R = Unknown
    <2>1. Ids' = Ids \cup {n} /\ n \notin Ids
      BY <1>1, <1>4
    <2>2. new = old
      BY <1>4, <2>1 DEF Slots, Known, Rows
    <2>. QED BY <1>2, <2>2 DEF TotalObservations
  <1>5. CASE /\ Len(sources') = n /\ R # Unknown /\ IsFiniteSet(R)
             /\ TotalObservations + Size(R) <= MaxObservations
    <2>1. Ids' = Ids \cup {n} /\ n \notin Ids
      BY <1>1, <1>5
    <2>2. new = old \cup ({n} \X R)
      BY <1>5, <2>1 DEF Slots, Known, Rows
    <2>3. old \cap ({n} \X R) = {}
      BY <2>1 DEF Slots
    <2>4. IsFiniteSet({n} \X R) /\ Cardinality({n} \X R) = Cardinality(R) /\ Cardinality(R) \in Nat
      <3>1. IsFiniteSet({n}) /\ Cardinality({n}) = 1
        BY FS_Singleton
      <3>2. /\ IsFiniteSet({n} \X R)
            /\ Cardinality({n} \X R) = Cardinality({n}) * Cardinality(R)
        <4>. DEFINE one == {n}
        <4>1. IsFiniteSet(one) /\ IsFiniteSet(R)
          BY <1>5, <3>1
        <4>. HIDE DEF one, R
        <4>2. IsFiniteSet(one \X R) /\ Cardinality(one \X R) = Cardinality(one) * Cardinality(R)
          BY <4>1, FS_Product
        <4>. QED BY <4>2 DEF one
      <3>3. Cardinality(R) \in Nat
        BY <1>5, FS_CardinalityType
      <3>. QED BY <3>1, <3>2, <3>3
    <2>5. IsFiniteSet(new) /\ Cardinality(new) = Cardinality(old) + Cardinality(R)
      <3>. DEFINE extra == {n} \X R
      <3>1. IsFiniteSet(extra) /\ old \cap extra = {} /\ Cardinality(extra) = Cardinality(R)
        BY <2>3, <2>4
      <3>. HIDE DEF extra, old, new, R
      <3>2. /\ IsFiniteSet(old \cup extra)
            /\ Cardinality(old \cup extra) = Cardinality(old) + Cardinality(extra) - Cardinality({})
        BY <1>2, <3>1, FS_Union
      <3>3. new = old \cup extra
        BY <2>2 DEF extra
      <3>. QED BY <1>2, <2>4, <3>1, <3>2, <3>3, FS_EmptySet
    <2>6. Size(R) = Cardinality(R)
      BY <1>5 DEF Size
    <2>. HIDE DEF old, new, R
    <2>. QED BY <1>5, <2>5, <2>6 DEF TotalObservations, old, new
  <1>. QED BY <1>3, <1>4, <1>5
-----------------------------------------------------------------------------
(* Reclassification.                                                       *)

\* Induction over the natural numbers, for a property given as a set.
LEMMA NatSetInduction ==
  ASSUME NEW G, 0 \in G, \A n \in Nat : n \in G => n + 1 \in G
  PROVE  \A n \in Nat : n \in G
  <1>. DEFINE bad == {n \in Nat : n \notin G}
              less == OpToRel(<, Nat)
  <1>1. SUFFICES ASSUME bad # {} PROVE FALSE
    OBVIOUS
  <1>2. PICK n \in bad : \A m \in bad : <<m, n>> \notin less
    <2>1. bad \subseteq Nat /\ IsWellFoundedOn(less, Nat)
      BY NatLessThanWellFounded
    <2>. HIDE DEF bad, less
    <2>. QED BY <1>1, <2>1, WFMin
  <1>3. n \in Nat /\ n \notin G
    OBVIOUS
  <1>4. n - 1 \in Nat /\ n - 1 < n /\ (n - 1) + 1 = n
    <2>1. n # 0
      BY <1>3
    <2>. QED BY <1>3, <2>1
  <1>5. <<n - 1, n>> \in less
    BY <1>3, <1>4 DEF OpToRel
  <1>6. n - 1 \in G
    <2>. HIDE DEF less
    <2>. QED BY <1>2, <1>4, <1>5
  <1>. QED BY <1>3, <1>4, <1>6

\* One result's new standing, given the new standing of what it cites.
Restatement(ss, i, f) ==
    Restated(ss, results[i],
             IF results[i].op.kind = "reuse" THEN f[results[i].op.of] ELSE "valid")
Standings(f, ss, m) == f = [i \in 1..m |-> Restatement(ss, i, f)]
StandingOf(ss) == CHOOSE f : Standings(f, ss, Len(results))

\* Citations point backwards, so the new standings are defined.
LEMMA StandingsExist ==
  ASSUME ResultsInv, NEW ss
  PROVE  Standings(StandingOf(ss), ss, Len(results))
  <1>. DEFINE G == {m \in Nat : m <= Len(results) => \E f : Standings(f, ss, m)}
  <1>0. DOMAIN results = 1..Len(results) /\ Len(results) \in Nat
    BY DEF ResultsInv
  <1>1. 0 \in G
    <2>. DEFINE f == [i \in 1..0 |-> "valid"]
    <2>1. f = [i \in 1..0 |-> Restatement(ss, i, f)]
      OBVIOUS
    <2>. HIDE DEF f
    <2>2. Standings(f, ss, 0)
      BY <2>1 DEF Standings
    <2>. QED BY <2>2
  <1>2. ASSUME NEW m \in Nat, m \in G PROVE m + 1 \in G
    <2>0. SUFFICES ASSUME m + 1 <= Len(results) PROVE \E f : Standings(f, ss, m + 1)
      OBVIOUS
    <2>1. PICK f : Standings(f, ss, m)
      BY <1>0, <1>2, <2>0
    <2>. DEFINE h == [i \in 1..(m + 1) |-> IF i = m + 1 THEN Restatement(ss, i, f) ELSE f[i]]
    <2>2. ASSUME NEW i \in 1..(m + 1)
          PROVE  Restatement(ss, i, h) = Restatement(ss, i, f)
      <3>1. results[i].op.kind = "reuse" => results[i].op.of \in 1..m
        <4>1. i \in DOMAIN results
          BY <1>0, <2>0
        <4>2. WellCited(results, i)
          BY <4>1 DEF ResultsInv
        <4>. QED BY <1>0, <2>0, <4>2 DEF WellCited
      <3>2. results[i].op.kind = "reuse" => h[results[i].op.of] = f[results[i].op.of]
        BY <3>1
      <3>. HIDE DEF h
      <3>. QED BY <3>2 DEF Restatement
    <2>3. ASSUME NEW i \in 1..(m + 1) PROVE h[i] = Restatement(ss, i, f)
      BY <2>1 DEF Standings
    <2>4. h = [i \in 1..(m + 1) |-> Restatement(ss, i, h)]
      <3>1. h = [i \in 1..(m + 1) |-> h[i]]
        OBVIOUS
      <3>. HIDE DEF h
      <3>. QED BY <2>2, <2>3, <3>1
    <2>. HIDE DEF h
    <2>5. Standings(h, ss, m + 1)
      BY <2>4 DEF Standings
    <2>. QED BY <2>5
  <1>3. \A m \in Nat : m \in G
    <2>. HIDE DEF G
    <2>. QED BY <1>1, <1>2, NatSetInduction
  <1>4. \E f : Standings(f, ss, Len(results))
    BY <1>0, <1>3
  <1>. QED BY <1>4 DEF StandingOf

\* The results after reclassification: each is restated against the new standing of
\* what it cites, and nothing else of it changes.
LEMMA Reclassified ==
  ASSUME ResultsInv, NEW ss
  PROVE  LET rs == Reclassify(ss)
         IN  /\ rs \in Seq(ResultRecord) /\ Len(rs) = Len(results)
             /\ \A i \in DOMAIN results :
                   /\ rs[i].op = results[i].op /\ rs[i].mass = results[i].mass
                   /\ rs[i].replaces = results[i].replaces
                   /\ rs[i].status = Restated(ss, results[i],
                         IF results[i].op.kind = "reuse" THEN rs[results[i].op.of].status
                         ELSE "valid")
  <1>. DEFINE D == DOMAIN results
              f == StandingOf(ss)
              rs == [i \in D |-> [results[i] EXCEPT !.status = f[i]]]
  <1>0. results \in Seq(ResultRecord) /\ D = 1..Len(results) /\ Len(results) \in Nat
    BY DEF ResultsInv
  <1>1. Reclassify(ss) = rs
    BY <1>0 DEF Reclassify, StandingOf, Standings, Restatement
  <1>2. f = [i \in D |-> Restatement(ss, i, f)]
    BY <1>0, StandingsExist DEF Standings
  <1>3. \A i \in D : f[i] = Restatement(ss, i, f)
    <2>. HIDE DEF f
    <2>. QED BY <1>2
  <1>. HIDE DEF f
  <1>4. \A i \in D : results[i] \in ResultRecord
    BY <1>0, ElementOfSeq
  <1>5. ASSUME NEW i \in D
        PROVE  /\ rs[i] \in ResultRecord
               /\ rs[i].op = results[i].op /\ rs[i].mass = results[i].mass
               /\ rs[i].replaces = results[i].replaces /\ rs[i].status = f[i]
    <2>1. f[i] \in Statuses
      <3>1. results[i].status \in Statuses
        BY <1>4 DEF ResultRecord
      <3>. QED BY <1>3, <3>1 DEF Restatement, Restated, Statuses
    <2>2. rs[i] = [results[i] EXCEPT !.status = f[i]]
      OBVIOUS
    <2>. QED BY <1>4, <2>1, <2>2 DEF ResultRecord
  <1>6. rs \in Seq(ResultRecord) /\ Len(rs) = Len(results)
    <2>1. DOMAIN rs = 1..Len(results) /\ \A i \in 1..Len(results) : rs[i] \in ResultRecord
      BY <1>0, <1>5
    <2>2. rs = [i \in 1..Len(results) |-> rs[i]]
      BY <1>0
    <2>. HIDE DEF rs, D
    <2>. QED BY <1>0, <2>1, <2>2
  <1>7. ASSUME NEW i \in D
        PROVE  f[i] = Restated(ss, results[i],
                   IF results[i].op.kind = "reuse" THEN rs[results[i].op.of].status ELSE "valid")
    <2>1. results[i].op.kind = "reuse" => results[i].op.of \in D
      BY DEF ResultsInv, WellCited
    <2>2. results[i].op.kind = "reuse" => rs[results[i].op.of].status = f[results[i].op.of]
      BY <1>5, <2>1
    <2>. HIDE DEF rs
    <2>. QED BY <1>3, <2>2 DEF Restatement
  <1>. HIDE DEF rs
  <1>. QED BY <1>1, <1>5, <1>6, <1>7
\* Reclassification against sources that succeed the ledger's keeps everything said of
\* the results, and makes no standing better.
LEMMA ReclassifyKeeps ==
  ASSUME LedgerInv, NEW ss, Succeeds(ss), sources' = ss, results' = Reclassify(ss)
  PROVE  /\ ResultsInv' /\ StandingIsCurrent' /\ (\E S : Rests(S))'
         /\ \A r \in DOMAIN results :
               r \in DOMAIN results' /\ Standing[results'[r].status] >= Standing[results[r].status]
  <1>1. /\ results' \in Seq(ResultRecord) /\ Len(results') = Len(results)
        /\ results \in Seq(ResultRecord)
    BY Reclassified DEF LedgerInv, ResultsInv
  <1>2. DOMAIN results' = DOMAIN results /\ DOMAIN results = 1..Len(results)
    BY <1>1
  <1>3. ASSUME NEW i \in DOMAIN results
        PROVE  /\ results'[i].op = results[i].op /\ results'[i].mass = results[i].mass
               /\ results'[i].replaces = results[i].replaces
               /\ results'[i].status = Restated(ss, results[i],
                      IF results[i].op.kind = "reuse" THEN results'[results[i].op.of].status
                      ELSE "valid")
    BY Reclassified DEF LedgerInv
  <1>4. Ids \subseteq Ids'
    BY DEF Succeeds, LedgerInv, SourcesInv, Ids
  <1>5. ASSUME NEW i \in DOMAIN results
        PROVE  /\ results[i].status \in Statuses /\ results[i].op \in OperationRecord
               /\ Listed(results[i].op)
    <2>1. results[i] \in ResultRecord
      BY <1>1, <1>2, ElementOfSeq
    <2>. QED BY <2>1 DEF ResultRecord, LedgerInv, ResultsInv
  <1>6. ResultsInv'
    <2>1. ASSUME NEW r \in DOMAIN results
          PROVE  WellCited(results', r) /\ Listed(results[r].op)' /\ CountedRight(results'[r])
      <3>1. WellCited(results, r) /\ CountedRight(results[r])
        BY DEF LedgerInv, ResultsInv
      <3>2. WellCited(results', r)
        BY <1>2, <1>3, <3>1 DEF WellCited
      <3>3. Listed(results[r].op)'
        BY <1>3, <1>4, <1>5 DEF Listed
      <3>4. CountedRight(results'[r])
        BY <1>3, <3>1 DEF CountedRight
      <3>. QED BY <3>2, <3>3, <3>4
    <2>. QED BY <1>1, <1>2, <2>1 DEF LedgerInv, ResultsInv
  <1>7. StandingIsCurrent'
    <2>1. ASSUME NEW r \in DOMAIN results, results'[r].op.kind # "reuse",
                 results'[r].status # "replaced"
          PROVE  results'[r].status = LossClass(ss, results[r].op)
      <3>. DEFINE op == results[r].op
                  now == LossClass(ss, op)
                  before == LossClass(sources, op)
      <3>1. op.kind # "reuse" /\ results'[r].status = Restated(ss, results[r], "valid")
        BY <1>3, <2>1
      <3>2. /\ now = "valid" => before = "valid"
            /\ before = "withdrawn" => now = "withdrawn"
            /\ now \in {"valid", "withdrawn", "recompute"}
        BY <1>5, ClassWorsens, LossClasses DEF LedgerInv
      <3>3. results[r].status # "replaced" => results[r].status = before
        BY <3>1 DEF LedgerInv, StandingIsCurrent
      <3>4. Class(ss, op, "valid") = now
        BY <3>1 DEF Class
      <3>. HIDE DEF now, before
      <3>5. results'[r].status = now
        BY <1>5, <2>1, <3>1, <3>2, <3>3, <3>4 DEF Restated, Terminal, Statuses
      <3>. QED BY <3>5 DEF now
    <2>. QED BY <1>2, <1>3, <2>1 DEF StandingIsCurrent
  <1>8. (\E S : Rests(S))'
    <2>. DEFINE S == {i \in DOMAIN results : results'[i].status = "valid"}
    <2>1. ASSUME NEW i \in S
          PROVE  Class(ss, results[i].op,
                       IF results[i].op.kind = "reuse" THEN results'[results[i].op.of].status
                       ELSE "valid") = "valid"
      <3>. DEFINE c == Class(ss, results[i].op,
                       IF results[i].op.kind = "reuse" THEN results'[results[i].op.of].status
                       ELSE "valid")
      <3>1. c \in {"valid", "withdrawn", "recompute"}
        <4>1. CASE results[i].op.kind # "reuse"
          BY <4>1, LossClasses DEF Class
        <4>2. CASE results[i].op.kind = "reuse"
          <5>1. results[i].op.of \in DOMAIN results
            BY <4>2 DEF LedgerInv, ResultsInv, WellCited
          <5>2. results'[results[i].op.of].status \in Statuses
            <6>1. results'[results[i].op.of] \in ResultRecord
              BY <1>1, <1>2, <5>1, ElementOfSeq
            <6>. QED BY <6>1 DEF ResultRecord
          <5>. QED BY <4>2, <5>2 DEF Class, Statuses
        <4>. QED BY <4>1, <4>2
      <3>2. results'[i].status = "valid"
        OBVIOUS
      <3>3. /\ results[i].status \notin Terminal => c # "withdrawn"
            /\ results[i].status = "valid" => c # "recompute"
            /\ results[i].status = "valid"
        BY <1>3, <1>5, <3>2 DEF Restated, Terminal, Statuses
      <3>. HIDE DEF c
      <3>4. c = "valid"
        BY <3>1, <3>3 DEF Terminal
      <3>. QED BY <3>4 DEF c
    <2>2. ASSUME NEW i \in S, results[i].op.kind = "reuse" PROVE results[i].op.of \in S
      <3>1. results[i].op.of \in DOMAIN results
        BY <2>2 DEF LedgerInv, ResultsInv, WellCited
      <3>2. results'[results[i].op.of].status = "valid"
        BY <2>1, <2>2 DEF Class
      <3>. QED BY <3>1, <3>2
    <2>3. ASSUME NEW i \in S, NEW j \in results[i].op.needed \cup results[i].op.helping
          PROVE  ~Lost(ss, j, Retired)
      <3>1. CASE results[i].op.kind = "reuse"
        BY <3>1 DEF LedgerInv, ResultsInv, WellCited
      <3>2. CASE results[i].op.kind # "reuse"
        <4>1. LossClass(ss, results[i].op) = "valid"
          BY <2>1, <3>2 DEF Class
        <4>. QED BY <4>1, LossClasses
      <3>. QED BY <3>1, <3>2
    <2>4. \A i \in S : i \in DOMAIN results /\ results'[i].op = results[i].op
      BY <1>3
    <2>5. \A r \in DOMAIN results' : results'[r].status = "valid" => r \in S
      BY <1>2
    <2>6. PICK T : T = S
      OBVIOUS
    <2>. HIDE DEF S
    <2>7. Rests(T)'
      BY <1>2, <2>2, <2>3, <2>4, <2>5, <2>6 DEF Rests, Cites, Usable
    <2>. QED BY <2>7
  <1>9. ASSUME NEW r \in DOMAIN results
        PROVE  Standing[results'[r].status] >= Standing[results[r].status]
    BY <1>3, <1>5 DEF Standing, Statuses, Restated, Terminal
  <1>. QED BY <1>2, <1>6, <1>7, <1>8, <1>9
-----------------------------------------------------------------------------
(* The steps.                                                              *)

\* The bounds are natural numbers.
LEMMA Bounds == MaxSources \in Nat /\ MaxResults \in Nat /\ MaxOperations \in Nat /\ MaxObservations \in Nat
  BY LedgerAssumption

\* A source admitted behind the others.
Admitted(s) == \E d \in Declarations : Canonical(d) /\ IsNew(d) /\ s = Source(d)

\* Sources that succeed the ledger's, with at most one admitted behind them.
Grown(ss) ==
    /\ Succeeds(ss)
    /\ \/ Len(ss) = Len(sources)
       \/ Len(ss) = Len(sources) + 1 /\ Admitted(ss[Len(sources) + 1])
    /\ \A i \in Ids : ss[i].status \in Permanent \cup {"active"} \/ ss[i].by \in 1..Len(ss)

\* They are within the ledger's bounds and their lineages point backwards.
LEMMA GrownKeeps ==
  ASSUME SourcesInv, Grown(sources'), log' \in 0..MaxOperations
  PROVE  SourcesInv'
  <1>. DEFINE n == Len(sources) + 1
  <1>1. /\ Ids = 1..Len(sources) /\ Len(sources) \in Nat
        /\ sources' \in Seq(SourceRecord) /\ Ids' = 1..Len(sources')
        /\ DOMAIN sources' = 1..Len(sources')
    BY DEF SourcesInv, Grown, Succeeds, Ids
  <1>2. \A i \in Ids : /\ sources'[i].rows = sources[i].rows
                       /\ sources'[i].declaration = sources[i].declaration
    BY DEF Grown, Succeeds
  <1>3. ASSUME Len(sources') # Len(sources)
        PROVE  /\ Len(sources') = n /\ sources'[n].status = "active"
               /\ \A p \in sources'[n].declaration.parents : p < n
               /\ sources'[n].rows # Unknown => IsFiniteSet(sources'[n].rows)
               /\ TotalObservations + Size(sources'[n].rows) <= MaxObservations
               /\ Len(sources) < MaxSources
    <2>1. PICK d \in Declarations : Canonical(d) /\ IsNew(d) /\ sources'[n] = Source(d)
      BY <1>3 DEF Grown, Admitted
    <2>2. /\ Source(d).declaration = d /\ Source(d).rows = Effective(d)
          /\ Source(d).status = "active"
          /\ \A p \in d.parents : p \in Ids /\ p < Len(sources) + 1
      BY <2>1, SourceType
    <2>3. Effective(d) # Unknown => IsFiniteSet(Effective(d))
      BY <2>1, EffectiveType
    <2>. QED BY <1>3, <2>1, <2>2, <2>3 DEF Grown, IsNew
  <1>4. IsFiniteSet(Slots(Ids)') /\ TotalObservations' <= MaxObservations
    BY <1>1, <1>2, <1>3, Bounds, SlotsStep
  <1>5. Lineaged(sources')
    <2>1. ASSUME NEW i \in 1..Len(sources')
          PROVE  /\ \A p \in sources'[i].declaration.parents : p < i
                 /\ sources'[i].status \notin Permanent \cup {"active"} =>
                       sources'[i].by \in 1..Len(sources')
      <3>1. CASE i \in Ids
        BY <1>1, <1>2, <3>1, ParentsListed DEF Grown
      <3>2. CASE i \notin Ids
        <4>1. Len(sources') # Len(sources)
          BY <1>1, <3>2
        <4>2. i = n
          BY <1>1, <1>3, <3>2, <4>1
        <4>. QED BY <1>3, <4>1, <4>2
      <3>. QED BY <3>1, <3>2
    <2>. QED BY <1>1, <2>1 DEF Lineaged
  <1>6. Len(sources') <= MaxSources
    <2>1. CASE Len(sources') = Len(sources)
      BY <2>1 DEF SourcesInv
    <2>2. CASE Len(sources') # Len(sources)
      <3>1. Len(sources') = Len(sources) + 1 /\ Len(sources) < MaxSources
        BY <1>3, <2>2
      <3>. QED BY <1>1, <3>1, Bounds
    <2>. QED BY <2>1, <2>2
  <1>. QED BY <1>1, <1>4, <1>5, <1>6 DEF SourcesInv

\* A new source behind the others changes none of them.
LEMMA AddGrows ==
  ASSUME SourcesInv, NEW d \in Declarations, Canonical(d), IsNew(d),
         sources' = Append(sources, Source(d))
  PROVE  Grown(sources') /\ \A i \in Ids : sources'[i] = sources[i]
  <1>1. Source(d) \in SourceRecord /\ sources \in Seq(SourceRecord)
    BY SourceType DEF SourcesInv
  <1>2. /\ sources' \in Seq(SourceRecord) /\ Len(sources') = Len(sources) + 1
        /\ \A i \in 1..Len(sources) : sources'[i] = sources[i]
        /\ sources'[Len(sources) + 1] = Source(d)
    BY <1>1
  <1>3. Ids = 1..Len(sources) /\ Len(sources) \in Nat
    BY <1>1 DEF Ids
  <1>4. Succeeds(sources')
    BY <1>2, <1>3 DEF Succeeds
  <1>5. \A i \in Ids : sources[i].status \in Permanent \cup {"active"}
                          \/ sources[i].by \in 1..Len(sources)
    BY <1>3 DEF SourcesInv, Lineaged, Ids
  <1>6. Admitted(sources'[Len(sources) + 1])
    BY <1>2 DEF Admitted
  <1>. QED BY <1>2, <1>3, <1>4, <1>5, <1>6 DEF Grown

\* A source is retired, no other changes, and its successor comes behind them.
LEMMA RetireGrows ==
  ASSUME SourcesInv, NEW t \in Ids, NEW how \in Retired, NEW added,
         \/ added = <<>> /\ how = "withdrawn"
         \/ /\ sources[t].status = "active"
            /\ \E d \in Declarations : Canonical(d) /\ IsNew(d) /\ added = <<Source(d)>>,
         sources' = [sources EXCEPT ![t].status = how,
                        ![t].by = IF added = <<>> THEN 0 ELSE Len(sources) + 1] \o added
  PROVE  /\ Grown(sources')
         /\ \A i \in Ids : sources[i].status # "active" => sources'[i].status # "active"
  <1>. DEFINE by == IF added = <<>> THEN 0 ELSE Len(sources) + 1
              gone == [sources[t] EXCEPT !.status = how, !.by = by]
              old == [sources EXCEPT ![t] = gone]
  <1>1. sources \in Seq(SourceRecord) /\ Ids = 1..Len(sources) /\ Len(sources) \in Nat
    BY DEF SourcesInv, Ids
  <1>2. sources[t] \in SourceRecord
    BY <1>1, ElementOfSeq
  <1>3. gone \in SourceRecord /\ gone.declaration = sources[t].declaration
        /\ gone.rows = sources[t].rows /\ gone.status = how /\ gone.by = by
    <2>1. by \in Nat
      BY <1>1
    <2>. HIDE DEF by
    <2>. QED BY <1>2, <2>1 DEF SourceRecord
  <1>4. sources' = old \o added
    OBVIOUS
  <1>. HIDE DEF gone
  <1>5. /\ old \in Seq(SourceRecord) /\ Len(old) = Len(sources)
        /\ \A i \in 1..Len(sources) : old[i] = IF i = t THEN gone ELSE sources[i]
    BY <1>1, <1>3, ExceptSeq
  <1>. HIDE DEF old
  <1>6. /\ added \in Seq(SourceRecord)
        /\ added # <<>> => Len(added) = 1 /\ Admitted(added[1])
    <2>1. \A d \in Declarations : Canonical(d) => Source(d) \in SourceRecord
      BY SourceType
    <2>2. CASE added = <<>>
      BY <2>2
    <2>3. CASE added # <<>>
      <3>1. PICK d \in Declarations : Canonical(d) /\ IsNew(d) /\ added = <<Source(d)>>
        BY <2>3
      <3>. QED BY <2>1, <3>1 DEF Admitted
    <2>. QED BY <2>2, <2>3
  <1>7. /\ sources' \in Seq(SourceRecord) /\ Len(sources') = Len(sources) + Len(added)
        /\ \A i \in 1..Len(sources) : sources'[i] = old[i]
        /\ added # <<>> => sources'[Len(sources) + 1] = added[1]
    <2>1. /\ old \o added \in Seq(SourceRecord) /\ Len(old \o added) = Len(old) + Len(added)
          /\ \A i \in 1..(Len(old) + Len(added)) :
                (old \o added)[i] = IF i <= Len(old) THEN old[i] ELSE added[i - Len(old)]
      BY <1>5, <1>6, ConcatProperties
    <2>2. Len(added) \in Nat
      BY <1>6
    <2>3. ASSUME NEW i \in 1..Len(sources) PROVE sources'[i] = old[i]
      <3>1. i \in 1..(Len(old) + Len(added)) /\ i <= Len(old)
        BY <1>1, <1>5, <2>2
      <3>2. (old \o added)[i] = old[i]
        BY <2>1, <3>1
      <3>. QED BY <1>4, <3>2, Zenon
    <2>4. added # <<>> => sources'[Len(sources) + 1] = added[1]
      <3>1. added # <<>> => Len(added) = 1
        BY <1>6
      <3>. QED BY <1>1, <1>4, <1>5, <2>1, <3>1
    <2>. QED BY <1>4, <1>5, <2>1, <2>3, <2>4
  <1>8. \A i \in Ids : sources'[i] = IF i = t THEN gone ELSE sources[i]
    BY <1>1, <1>5, <1>7
  <1>9. Succeeds(sources')
    <2>1. \A tags \in {Permanent, Retired} : sources[t].status \in tags => how \in tags
      BY DEF Permanent, Retired
    <2>2. Len(sources) <= Len(sources')
      BY <1>1, <1>6, <1>7
    <2>. QED BY <1>3, <1>7, <1>8, <2>1, <2>2 DEF Succeeds
  <1>10. \/ Len(sources') = Len(sources)
         \/ Len(sources') = Len(sources) + 1 /\ Admitted(sources'[Len(sources) + 1])
    <2>1. CASE added = <<>>
      <3>1. Len(added) = 0
        BY <2>1
      <3>2. Len(sources') = Len(sources) + Len(added)
        BY <1>7, Zenon
      <3>3. Len(sources) + Len(added) = Len(sources)
        BY <1>1, <3>1
      <3>. QED BY <3>2, <3>3, Zenon
    <2>2. CASE added # <<>>
      BY <1>6, <1>7, <2>2
    <2>. QED BY <2>1, <2>2
  <1>11. ASSUME NEW i \in Ids
         PROVE  sources'[i].status \in Permanent \cup {"active"} \/ sources'[i].by \in 1..Len(sources')
    <2>1. CASE i # t
      <3>1. sources[i].status \in Permanent \cup {"active"} \/ sources[i].by \in 1..Len(sources)
        BY <1>1 DEF SourcesInv, Lineaged, Ids
      <3>. QED BY <1>1, <1>8, <1>9, <2>1, <3>1 DEF Succeeds
    <2>2. CASE i = t /\ added = <<>>
      BY <1>3, <1>8, <2>2 DEF Permanent
    <2>3. CASE i = t /\ added # <<>>
      BY <1>1, <1>3, <1>6, <1>7, <1>8, <2>3
    <2>. QED BY <2>1, <2>2, <2>3
  <1>12. \A i \in Ids : sources[i].status # "active" => sources'[i].status # "active"
    BY <1>3, <1>8 DEF Retired
  <1>. QED BY <1>9, <1>10, <1>11, <1>12 DEF Grown
\* The account of a licensed combination.
LEMMA AccountRight ==
  ASSUME SourcesInv, NEW op \in SourceOperations, Licensed(op)
  PROVE  /\ op \in OperationRecord /\ op.kind # "reuse" /\ op.of = 0 /\ Listed(op)
         /\ LossClass(sources, op) = "valid"
         /\ Account(op) \in [slots : Nat, distinct : SUBSET Observations]
         /\ CountsAsIndependent(op) => Account(op).slots = Cardinality(Account(op).distinct)
  <1>. DEFINE all == op.needed \cup op.helping
  <1>0. Ids \subseteq Nat
    BY DEF SourcesInv, Ids
  <1>1. /\ op \in OperationRecord /\ op.kind # "reuse" /\ op.of = 0 /\ Listed(op)
        /\ op.kind = "pooling" => op.helping = {}
    <2>1. PICK k \in OperationKinds \ {"reuse"}, S \in SUBSET Ids, T \in SUBSET Ids,
               e \in Dependences \cup {"none"} :
             op = Operation(k, S, T, e, 0) /\ (k = "pooling" => T = {})
      <3>1. CASE \E S \in SUBSET Ids, e \in Dependences : op = Operation("pooling", S, {}, e, 0)
        BY <3>1 DEF OperationKinds
      <3>2. CASE \E k \in {"borrowing", "transport"}, S \in SUBSET Ids :
                    \E T \in SUBSET (Ids \ S) : op = Operation(k, S, T, "none", 0)
        <4>1. \A S : SUBSET (Ids \ S) \subseteq SUBSET Ids
          OBVIOUS
        <4>. QED BY <3>2, <4>1 DEF OperationKinds
      <3>3. CASE \E S \in SUBSET Ids : op = Operation("repeated", S, {}, "none", 0)
        BY <3>3 DEF OperationKinds
      <3>4. ASSUME op \in UNION {{Operation(k, S, T, "none", 0) : T \in SUBSET (Ids \ S)} :
                                   k \in {"borrowing", "transport"}, S \in SUBSET Ids}
            PROVE  \E k \in {"borrowing", "transport"}, S \in SUBSET Ids :
                      \E T \in SUBSET (Ids \ S) : op = Operation(k, S, T, "none", 0)
        <4>1. PICK k \in {"borrowing", "transport"}, S \in SUBSET Ids :
                 op \in {Operation(k, S, T, "none", 0) : T \in SUBSET (Ids \ S)}
          <5>1. PICK A \in {{Operation(k, S, T, "none", 0) : T \in SUBSET (Ids \ S)} :
                               k \in {"borrowing", "transport"}, S \in SUBSET Ids} : op \in A
            BY <3>4
          <5>. QED BY <5>1
        <4>. QED BY <4>1
      <3>5. \/ op \in {Operation("pooling", S, {}, d, 0) : S \in SUBSET Ids, d \in Dependences}
            \/ op \in UNION {{Operation(k, S, T, "none", 0) : T \in SUBSET (Ids \ S)} :
                                k \in {"borrowing", "transport"}, S \in SUBSET Ids}
            \/ op \in {Operation("repeated", S, {}, "none", 0) : S \in SUBSET Ids}
        <4>. DEFINE X == {Operation("pooling", S, {}, d, 0) : S \in SUBSET Ids, d \in Dependences}
                    Y == UNION {{Operation(k, S, T, "none", 0) : T \in SUBSET (Ids \ S)} :
                                   k \in {"borrowing", "transport"}, S \in SUBSET Ids}
                    Z == {Operation("repeated", S, {}, "none", 0) : S \in SUBSET Ids}
        <4>1. SourceOperations = (X \cup Z) \cup Y
          BY SMT DEF SourceOperations
        <4>. HIDE DEF X, Y, Z
        <4>2. op \in X \/ op \in Y \/ op \in Z
          BY <4>1
        <4>. QED BY <4>2 DEF X, Y, Z
      <3>. QED BY <3>1, <3>2, <3>3, <3>4, <3>5
    <2>2. /\ op.kind = k /\ op.needed = S /\ op.helping = T /\ op.of = 0
          /\ op = [kind |-> k, needed |-> S, helping |-> T, dependence |-> e, of |-> 0]
      BY <2>1 DEF Operation
    <2>3. S \in SUBSET Nat /\ T \in SUBSET Nat
      BY <1>0
    <2>4. op \in OperationRecord
      BY <2>2, <2>3 DEF OperationRecord
    <2>. QED BY <2>1, <2>2, <2>4 DEF Listed
  <1>2. all \in SUBSET Ids
    BY <1>1 DEF Listed
  <1>3. LossClass(sources, op) = "valid"
    BY LossClasses DEF Licensed, Usable
  <1>4. Account(op) = [slots |-> Cardinality(Slots(all)), distinct |-> Observed(all)]
    BY DEF Account, Observed
  <1>5. IsFiniteSet(Slots(all)) /\ Cardinality(Slots(all)) \in Nat
    <2>1. IsFiniteSet(Slots(all))
      <3>. HIDE DEF all
      <3>. QED BY <1>2, ObservedSlots
    <2>. QED BY <2>1, FS_CardinalityType
  <1>6. Observed(all) \subseteq Observations
    BY <1>2, RowsObserved DEF Observed
  <1>7. ASSUME CountsAsIndependent(op) PROVE PairwiseIndependent(all)
    <2>1. CASE op.kind = "pooling"
      <3>1. Pools(op) /\ all = op.needed
        BY <1>1, <2>1 DEF Licensed
      <3>2. op.dependence \in {"independent", "diagonal"}
        BY <1>7, <2>1 DEF CountsAsIndependent
      <3>. HIDE DEF all
      <3>. QED BY <3>1, <3>2 DEF Pools
    <2>2. CASE op.kind = "borrowing"
      <3>1. Borrows(op)
        BY <2>2 DEF Licensed
      <3>2. \A i, j : Independent(i, j) <=> Independent(j, i)
        BY DEF Independent
      <3>. QED BY <3>1, <3>2 DEF Borrows, PairwiseIndependent, DisjointGroups
    <2>. QED BY <1>7, <2>1, <2>2 DEF CountsAsIndependent
  <1>8. CountsAsIndependent(op) => Cardinality(Slots(all)) = Cardinality(Observed(all))
    <2>. HIDE DEF all
    <2>. QED BY <1>2, <1>7, ObservedSlots
  <1>. HIDE DEF all
  <1>. QED BY <1>1, <1>3, <1>4, <1>5, <1>6, <1>8

\* A result registered behind the others, perhaps in the place of one of them.
LEMMA RegisterKeeps ==
  ASSUME LedgerInv, UNCHANGED sources,
         NEW op \in OperationRecord, NEW mass \in [slots : Nat, distinct : SUBSET Observations],
         NEW p \in {0} \cup DOMAIN results, HasRoom, Register(op, mass, p),
         Listed(op), CountedRight([op |-> op, mass |-> mass, replaces |-> p, status |-> "valid"]),
         \/ op.kind # "reuse" /\ op.of = 0 /\ LossClass(sources, op) = "valid"
         \/ /\ op.kind = "reuse" /\ op.needed = {} /\ op.helping = {}
            /\ op.of \in DOMAIN results /\ results[op.of].status = "valid"
            /\ mass = results[op.of].mass
  PROVE  /\ ResultsInv' /\ StandingIsCurrent' /\ (\E S : Rests(S))'
         /\ \A r \in DOMAIN results :
               r \in DOMAIN results' /\ Standing[results'[r].status] >= Standing[results[r].status]
  <1>. DEFINE rec == [op |-> op, mass |-> mass, replaces |-> p, status |-> "valid"]
              n == Len(results) + 1
              gone == [results[p] EXCEPT !.status = "replaced"]
              old == IF p = 0 THEN results ELSE [results EXCEPT ![p] = gone]
  <1>1. results \in Seq(ResultRecord) /\ DOMAIN results = 1..Len(results) /\ Len(results) \in Nat
    BY DEF LedgerInv, ResultsInv
  <1>2. rec \in ResultRecord
    BY <1>1 DEF ResultRecord, Statuses
  <1>3. results' = Append(old, rec)
    BY DEF Register
  <1>4. /\ old \in Seq(ResultRecord) /\ Len(old) = Len(results)
        /\ \A r \in 1..Len(results) : old[r] = IF r = p THEN gone ELSE results[r]
    <2>1. CASE p = 0
      BY <1>1, <2>1
    <2>2. CASE p # 0
      <3>1. p \in 1..Len(results) /\ results[p] \in ResultRecord
        BY <1>1, <2>2, ElementOfSeq
      <3>2. gone \in ResultRecord
        BY <3>1 DEF ResultRecord, Statuses
      <3>3. old = [results EXCEPT ![p] = gone]
        BY <2>2
      <3>. HIDE DEF gone, old
      <3>. QED BY <1>1, <3>1, <3>2, <3>3, ExceptSeq
    <2>. QED BY <2>1, <2>2
  <1>. HIDE DEF old
  <1>5. /\ results' \in Seq(ResultRecord) /\ Len(results') = n
        /\ \A r \in 1..Len(results) : results'[r] = old[r]
        /\ results'[n] = rec
    <2>. HIDE DEF rec
    <2>. QED BY <1>1, <1>2, <1>3, <1>4
  <1>6. ASSUME NEW r \in DOMAIN results
        PROVE  /\ results[r] \in ResultRecord
               /\ results'[r].op = results[r].op /\ results'[r].mass = results[r].mass
               /\ results'[r].replaces = results[r].replaces
               /\ results'[r].status = IF r = p THEN "replaced" ELSE results[r].status
    <2>1. results[r] \in ResultRecord
      BY <1>1, ElementOfSeq
    <2>2. results'[r] = IF r = p THEN gone ELSE results[r]
      BY <1>1, <1>4, <1>5
    <2>. QED BY <2>1, <2>2 DEF ResultRecord
  <1>7. DOMAIN results' = DOMAIN results \cup {n} /\ n \notin DOMAIN results
    BY <1>1, <1>5
  <1>8. Ids' = Ids /\ sources' = sources
    BY DEF Ids
  <1>9. results'[n].op = op /\ results'[n].mass = mass /\ results'[n].replaces = p
        /\ results'[n].status = "valid"
    BY <1>5
  <1>10. ResultsInv'
    <2>1. ASSUME NEW r \in DOMAIN results
          PROVE  /\ WellCited(results', r) /\ CountedRight(results'[r])
                 /\ results'[r].op.needed \subseteq Ids' /\ results'[r].op.helping \subseteq Ids'
      <3>1. WellCited(results, r) /\ Listed(results[r].op) /\ CountedRight(results[r])
        BY DEF LedgerInv, ResultsInv
      <3>2. WellCited(results', r)
        BY <1>6, <1>7, <3>1 DEF WellCited
      <3>3. results'[r].op.needed \subseteq Ids' /\ results'[r].op.helping \subseteq Ids'
        BY <1>6, <1>8, <3>1 DEF Listed
      <3>4. CountedRight(results'[r])
        BY <1>6, <3>1 DEF CountedRight
      <3>. QED BY <3>2, <3>3, <3>4
    <2>2. WellCited(results', n)
      <3>1. p < n /\ op.of < n
        BY <1>1
      <3>2. op.kind = "reuse" => /\ op.of \in DOMAIN results' /\ results'[op.of].mass = mass
        BY <1>6, <1>7
      <3>. HIDE DEF n
      <3>. QED BY <1>9, <3>1, <3>2 DEF WellCited
    <2>3. results'[n].op.needed \subseteq Ids' /\ results'[n].op.helping \subseteq Ids'
      BY <1>8, <1>9 DEF Listed
    <2>4. CountedRight(results'[n])
      BY <1>5
    <2>5. Len(results') <= MaxResults
      BY <1>1, <1>5, Bounds DEF HasRoom
    <2>6. ASSUME NEW r \in DOMAIN results'
          PROVE  WellCited(results', r) /\ CountedRight(results'[r])
                 /\ results'[r].op.needed \subseteq Ids' /\ results'[r].op.helping \subseteq Ids'
      <3>. HIDE DEF n
      <3>. QED BY <1>7, <2>1, <2>2, <2>3, <2>4
    <2>. QED BY <1>5, <2>5, <2>6 DEF ResultsInv, Listed
  <1>11. StandingIsCurrent'
    <2>1. ASSUME NEW r \in DOMAIN results, results'[r].op.kind # "reuse",
                 results'[r].status # "replaced"
          PROVE  results'[r].status = LossClass(sources, results'[r].op)
      BY <1>6, <2>1 DEF LedgerInv, StandingIsCurrent
    <2>2. results'[n].op.kind # "reuse" => results'[n].status = LossClass(sources, results'[n].op)
      BY <1>9
    <2>. QED BY <1>7, <1>8, <2>1, <2>2 DEF StandingIsCurrent
  <1>12. (\E S : Rests(S))'
    <2>1. PICK S : Rests(S)
      BY DEF LedgerInv
    <2>2. PICK T : T = S \cup {n}
      OBVIOUS
    <2>3. \A j \in op.needed \cup op.helping : Usable(j)
      BY LossClasses DEF Usable
    <2>4. op.kind = "reuse" => op.of \in S
      BY <2>1 DEF Rests
    <2>5. S \subseteq DOMAIN results
      BY <2>1 DEF Rests
    <2>. HIDE DEF n
    <2>6. ASSUME NEW i \in T
          PROVE  /\ i \in DOMAIN results'
                 /\ results'[i].op.kind = "reuse" => results'[i].op.of \in T
                 /\ \A j \in results'[i].op.needed \cup results'[i].op.helping : Usable(j)
      <3>1. CASE i = n
        BY <1>7, <1>9, <2>2, <2>3, <2>4, <3>1
      <3>2. CASE i \in S
        BY <1>6, <1>7, <2>1, <2>2, <2>5, <3>2 DEF Rests, Cites
      <3>. QED BY <2>2, <3>1, <3>2
    <2>7. \A r \in DOMAIN results' : results'[r].status = "valid" => r \in T
      BY <1>6, <1>7, <2>1, <2>2 DEF Rests
    <2>8. Rests(T)'
      BY <1>8, <2>6, <2>7 DEF Rests, Cites, Usable
    <2>. QED BY <2>8
  <1>13. ASSUME NEW r \in DOMAIN results
         PROVE  Standing[results'[r].status] >= Standing[results[r].status]
    <2>1. results[r].status \in Statuses
      BY <1>6 DEF ResultRecord
    <2>. QED BY <1>6, <2>1 DEF Standing, Statuses
  <1>. QED BY <1>7, <1>10, <1>11, <1>12, <1>13
\* What StandingsOnlyWorsen says of one step.
Worsens ==
    /\ \A r \in DOMAIN results :
          r \in DOMAIN results' /\ Standing[results'[r].status] >= Standing[results[r].status]
    /\ \A i \in Ids :
          i \in DOMAIN sources' /\ (sources[i].status # "active" => sources'[i].status # "active")

\* Where results are left alone, so are their standings.
LEMMA StandingOrdered ==
  ASSUME LedgerInv, UNCHANGED results, NEW r \in DOMAIN results
  PROVE  r \in DOMAIN results' /\ Standing[results'[r].status] >= Standing[results[r].status]
  <1>1. results \in Seq(ResultRecord) /\ r \in 1..Len(results)
    BY DEF LedgerInv, ResultsInv
  <1>2. results[r] \in ResultRecord
    BY <1>1, ElementOfSeq
  <1>3. results[r].status \in Statuses
    BY <1>2 DEF ResultRecord
  <1>. QED BY <1>3 DEF Statuses, Standing

\* The log grows within its bound.
LEMMA LogsKeeps == SourcesInv /\ Logs => log' \in 0..MaxOperations
  BY Bounds DEF SourcesInv, Logs

\* The sources of the ledger succeed themselves.
LEMMA SameSucceeds ==
  ASSUME SourcesInv PROVE Grown(sources)
  <1>1. sources \in Seq(SourceRecord) /\ Len(sources) \in Nat /\ Ids = 1..Len(sources)
    BY DEF SourcesInv, Ids
  <1>2. Succeeds(sources)
    BY <1>1 DEF Succeeds
  <1>. QED BY <1>1, <1>2 DEF Grown, SourcesInv, Lineaged, Ids

\* The sources of a ledger that succeeds the present one are in it.
LEMMA StayListed ==
  ASSUME SourcesInv, Grown(sources') PROVE Ids \subseteq DOMAIN sources'
  BY DEF SourcesInv, Grown, Succeeds, Ids

\* A new source leaves every result as it stands.
LEMMA AddKeeps ==
  ASSUME LedgerInv, NEW d \in Declarations, Add(d) PROVE LedgerInv' /\ Worsens
  <1>1. Grown(sources') /\ \A i \in Ids : sources'[i] = sources[i]
    BY AddGrows DEF Add, LedgerInv
  <1>2. results' = results /\ Succeeds(sources') /\ SourcesInv
    BY <1>1 DEF Add, Grown, LedgerInv
  <1>3. SourcesInv'
    BY <1>1, <1>2, GrownKeeps, LogsKeeps DEF Add
  <1>4. Ids \subseteq Ids'
    BY <1>1, <1>2, StayListed DEF Ids
  <1>5. ASSUME NEW r \in DOMAIN results
        PROVE  results[r].op \in OperationRecord /\ Listed(results[r].op)
    <2>1. results \in Seq(ResultRecord) /\ r \in 1..Len(results)
      BY DEF LedgerInv, ResultsInv
    <2>2. results[r] \in ResultRecord
      BY <2>1, ElementOfSeq
    <2>. QED BY <2>2 DEF ResultRecord, LedgerInv, ResultsInv
  <1>6. ASSUME NEW r \in DOMAIN results
        PROVE  /\ LossClass(sources', results[r].op) = LossClass(sources, results[r].op)
               /\ \A i \in Ids : Lost(sources', i, Retired) <=> Lost(sources, i, Retired)
    <2>1. \A i \in Ids : sources'[i].status = sources[i].status
      BY <1>1
    <2>. QED BY <1>2, <1>5, <2>1, ClassSame
  <1>7. ResultsInv'
    <2>1. ASSUME NEW r \in DOMAIN results
          PROVE  results[r].op.needed \subseteq Ids' /\ results[r].op.helping \subseteq Ids'
      BY <1>4, <1>5 DEF Listed
    <2>. QED BY <1>2, <2>1 DEF LedgerInv, ResultsInv, Listed
  <1>8. StandingIsCurrent'
    BY <1>2, <1>6 DEF LedgerInv, StandingIsCurrent
  <1>9. (\E S : Rests(S))'
    <2>1. PICK S : Rests(S)
      BY DEF LedgerInv
    <2>2. ASSUME NEW i \in S, NEW j \in results[i].op.needed \cup results[i].op.helping
          PROVE  ~Lost(sources', j, Retired)
      <3>1. i \in DOMAIN results /\ ~Lost(sources, j, Retired)
        BY <2>1 DEF Rests, Usable
      <3>2. j \in Ids
        BY <1>5, <3>1 DEF Listed
      <3>. QED BY <1>6, <3>1, <3>2
    <2>3. Rests(S)'
      BY <1>2, <2>1, <2>2 DEF Rests, Cites, Usable
    <2>. QED BY <2>3
  <1>10. Worsens
    BY <1>1, <1>2, <1>4, StandingOrdered DEF Worsens, Ids
  <1>. QED BY <1>3, <1>7, <1>8, <1>9, <1>10 DEF LedgerInv

\* A source retires, and the results are restated.
LEMMA RetireKeeps ==
  ASSUME LedgerInv, NEW t \in Ids, NEW how \in Retired, NEW added,
         \/ added = <<>> /\ how = "withdrawn"
         \/ /\ sources[t].status = "active"
            /\ \E d \in Declarations : Canonical(d) /\ IsNew(d) /\ added = <<Source(d)>>,
         Retire(t, how, added)
  PROVE  LedgerInv' /\ Worsens
  <1>1. /\ sources' = [sources EXCEPT ![t].status = how,
                          ![t].by = IF added = <<>> THEN 0 ELSE Len(sources) + 1] \o added
        /\ results' = Reclassify(sources') /\ Logs /\ SourcesInv
    BY DEF Retire, LedgerInv
  <1>2. /\ Grown(sources')
        /\ \A i \in Ids : sources[i].status # "active" => sources'[i].status # "active"
    BY <1>1, RetireGrows
  <1>3. SourcesInv'
    BY <1>1, <1>2, GrownKeeps, LogsKeeps
  <1>4. /\ ResultsInv' /\ StandingIsCurrent' /\ (\E S : Rests(S))'
        /\ \A r \in DOMAIN results :
              r \in DOMAIN results' /\ Standing[results'[r].status] >= Standing[results[r].status]
    BY <1>1, <1>2, ReclassifyKeeps DEF Grown
  <1>5. Ids \subseteq DOMAIN sources'
    BY <1>1, <1>2, StayListed
  <1>. QED BY <1>2, <1>3, <1>4, <1>5 DEF LedgerInv, Worsens

\* A registered result leaves the sources alone.
LEMMA RegisteredKeeps ==
  ASSUME LedgerInv, UNCHANGED sources, Logs,
         ResultsInv' /\ StandingIsCurrent' /\ (\E S : Rests(S))',
         \A r \in DOMAIN results :
            r \in DOMAIN results' /\ Standing[results'[r].status] >= Standing[results[r].status]
  PROVE  LedgerInv' /\ Worsens
  <1>1. SourcesInv /\ Grown(sources')
    BY SameSucceeds DEF LedgerInv
  <1>2. SourcesInv'
    BY <1>1, GrownKeeps, LogsKeeps
  <1>. QED BY <1>2 DEF LedgerInv, Worsens, Ids

\* A licensed combination is registered.
LEMMA CombineKeeps ==
  ASSUME LedgerInv, Combine
  PROVE  LedgerInv' /\ Worsens
  <1>1. PICK op \in SourceOperations, p \in {0} \cup DOMAIN results :
           HasRoom /\ Licensed(op) /\ Register(op, Account(op), p)
    BY DEF Combine
  <1>2. sources' = sources /\ Logs
    BY <1>1 DEF Register
  <1>3. /\ op \in OperationRecord /\ op.kind # "reuse" /\ op.of = 0 /\ Listed(op)
        /\ LossClass(sources, op) = "valid"
        /\ Account(op) \in [slots : Nat, distinct : SUBSET Observations]
        /\ CountsAsIndependent(op) => Account(op).slots = Cardinality(Account(op).distinct)
    BY <1>1, AccountRight DEF LedgerInv
  <1>4. PICK mass \in [slots : Nat, distinct : SUBSET Observations] : mass = Account(op)
    BY <1>3
  <1>5. CountedRight([op |-> op, mass |-> mass, replaces |-> p, status |-> "valid"])
    BY <1>3, <1>4 DEF CountedRight
  <1>6. Register(op, mass, p)
    BY <1>1, <1>4
  <1>7. /\ ResultsInv' /\ StandingIsCurrent' /\ (\E S : Rests(S))'
        /\ \A r \in DOMAIN results :
              r \in DOMAIN results' /\ Standing[results'[r].status] >= Standing[results[r].status]
    BY <1>1, <1>2, <1>3, <1>5, <1>6, RegisterKeeps
  <1>. QED BY <1>2, <1>7, RegisteredKeeps

\* A valid result is cited.
LEMMA ReuseKeeps ==
  ASSUME LedgerInv, Reuse
  PROVE  LedgerInv' /\ Worsens
  <1>. PICK op \in ReuseOperations :
          /\ HasRoom /\ results[op.of].status = "valid"
          /\ \E p \in {0} \cup DOMAIN results : Register(op, results[op.of].mass, p)
    BY DEF Reuse
  <1>1. PICK r \in DOMAIN results :
           op = [kind |-> "reuse", needed |-> {}, helping |-> {}, dependence |-> "none", of |-> r]
    BY DEF ReuseOperations, Operation
  <1>2. /\ op.kind = "reuse" /\ op.needed = {} /\ op.helping = {} /\ op.of = r
        /\ op \in OperationRecord /\ Listed(op)
    <2>1. r \in Nat
      BY DEF LedgerInv, ResultsInv
    <2>. QED BY <1>1, <2>1 DEF OperationRecord, OperationKinds, Listed
  <1>3. PICK p \in {0} \cup DOMAIN results :
           HasRoom /\ results[r].status = "valid" /\ Register(op, results[r].mass, p)
    BY <1>2
  <1>4. sources' = sources /\ Logs
    BY <1>3 DEF Register
  <1>5. results[r].mass \in [slots : Nat, distinct : SUBSET Observations]
    <2>1. results \in Seq(ResultRecord) /\ r \in 1..Len(results)
      BY DEF LedgerInv, ResultsInv
    <2>2. results[r] \in ResultRecord
      BY <2>1, ElementOfSeq
    <2>. QED BY <2>2 DEF ResultRecord
  <1>6. PICK mass \in [slots : Nat, distinct : SUBSET Observations] : mass = results[r].mass
    BY <1>5
  <1>7. CountedRight([op |-> op, mass |-> mass, replaces |-> p, status |-> "valid"])
    BY <1>2 DEF CountedRight, CountsAsIndependent
  <1>8. Register(op, mass, p)
    BY <1>3, <1>6
  <1>9. /\ ResultsInv' /\ StandingIsCurrent' /\ (\E S : Rests(S))'
        /\ \A q \in DOMAIN results :
              q \in DOMAIN results' /\ Standing[results'[q].status] >= Standing[results[q].status]
    BY <1>2, <1>3, <1>4, <1>6, <1>7, <1>8, RegisterKeeps
  <1>. QED BY <1>4, <1>9, RegisteredKeeps

\* Every step keeps the invariant and makes no standing better.
LEMMA LedgerStep == LedgerInv /\ [Next]_vars => LedgerInv' /\ [Worsens]_vars
  <1>. SUFFICES ASSUME LedgerInv, [Next]_vars PROVE LedgerInv' /\ [Worsens]_vars
    OBVIOUS
  <1>1. CASE \E d \in Declarations : Add(d)
    BY <1>1, AddKeeps
  <1>2. CASE \E how \in {"updated", "replaced", "superseded"}, t \in Ids, d \in Declarations :
                Replace(how, t, d)
    <2>1. PICK how \in {"updated", "replaced", "superseded"}, t \in Ids, d \in Declarations :
             Replace(how, t, d)
      BY <1>2
    <2>2. PICK added : added = <<Source(d)>>
      OBVIOUS
    <2>3. how \in Retired /\ sources[t].status = "active" /\ Canonical(d) /\ IsNew(d)
      BY <2>1 DEF Replace, MayReplace, Retired
    <2>4. Retire(t, how, added)
      BY <2>1, <2>2 DEF Replace
    <2>. QED BY <2>2, <2>3, <2>4, RetireKeeps
  <1>3. CASE \E t \in Ids : Withdraw(t)
    <2>1. PICK t \in Ids : Retire(t, "withdrawn", <<>>)
      BY <1>3 DEF Withdraw
    <2>2. "withdrawn" \in Retired
      BY DEF Retired
    <2>. QED BY <2>1, <2>2, RetireKeeps
  <1>4. CASE RevalidateDownstream
    <2>1. sources' = sources /\ results' = Reclassify(sources) /\ Logs
      BY <1>4 DEF RevalidateDownstream
    <2>2. Succeeds(sources)
      BY SameSucceeds DEF Grown, LedgerInv
    <2>3. /\ ResultsInv' /\ StandingIsCurrent' /\ (\E S : Rests(S))'
          /\ \A r \in DOMAIN results :
                r \in DOMAIN results' /\ Standing[results'[r].status] >= Standing[results[r].status]
      BY <2>1, <2>2, ReclassifyKeeps
    <2>. QED BY <2>1, <2>3, RegisteredKeeps
  <1>5. CASE Combine
    BY <1>5, CombineKeeps
  <1>6. CASE Reuse
    BY <1>6, ReuseKeeps
  <1>7. CASE UNCHANGED vars
    <2>1. SourcesInv' /\ ResultsInv'
      BY <1>7 DEF LedgerInv, SourcesInv, ResultsInv, vars, Ids, Slots, Known, Rows,
                  TotalObservations, Listed
    <2>2. StandingIsCurrent' /\ (\E S : Rests(S))'
      BY <1>7 DEF LedgerInv, StandingIsCurrent, Rests, Cites, Usable, vars
    <2>. QED BY <1>7, <2>1, <2>2 DEF LedgerInv
  <1>. QED BY <1>1, <1>2, <1>3, <1>4, <1>5, <1>6, <1>7 DEF Next

\* The empty ledger has the invariant.
LEMMA LedgerInitially == Init => LedgerInv
  <1>. SUFFICES ASSUME Init PROVE LedgerInv
    OBVIOUS
  <1>1. sources = <<>> /\ results = <<>> /\ log = 0
    BY DEF Init
  <1>2. Ids = {} /\ Slots(Ids) = {}
    BY <1>1 DEF Ids, Slots
  <1>3. IsFiniteSet(Slots(Ids)) /\ TotalObservations = 0
    BY <1>2, FS_EmptySet DEF TotalObservations
  <1>4. SourcesInv
    BY <1>1, <1>3, Bounds DEF SourcesInv, Lineaged
  <1>5. ResultsInv /\ StandingIsCurrent
    BY <1>1, Bounds DEF ResultsInv, StandingIsCurrent
  <1>6. Rests({})
    BY <1>1 DEF Rests, Cites
  <1>. QED BY <1>4, <1>5, <1>6 DEF LedgerInv

\* The invariant holds of every ledger.
LEMMA LedgerInvariant == Spec => []LedgerInv
  BY LedgerInitially, LedgerStep, PTL DEF Spec

-----------------------------------------------------------------------------
(* The theorems.                                                           *)

\* EvidenceLedger's tables stay well formed whatever is added, retired, registered or
\* revalidated: lineages and citations point backwards, a source retired for another
\* names it, and MAX_SOURCES, MAX_RESULTS, MAX_OPERATIONS and
\* MAX_TOTAL_OBSERVATIONS are kept.
THEOREM TypeCorrect == Spec => []TypeOK
  <1>1. LedgerInv => TypeOK
    <2>. SUFFICES ASSUME LedgerInv PROVE TypeOK
      OBVIOUS
    <2>1. /\ Len(sources) <= MaxSources /\ Len(results) <= MaxResults /\ log \in 0..MaxOperations
          /\ TotalObservations <= MaxObservations
      BY DEF LedgerInv, SourcesInv, ResultsInv
    <2>2. ASSUME NEW i \in Ids
          PROVE  /\ sources[i].declaration \in Declarations
                 /\ \A p \in sources[i].declaration.parents : p < i
                 /\ sources[i].status \in Retired \cup {"active"}
                 /\ sources[i].status \notin Permanent \cup {"active"} => sources[i].by \in Ids
      <3>1. sources \in Seq(SourceRecord) /\ i \in 1..Len(sources)
        BY DEF LedgerInv, SourcesInv, Ids
      <3>2. sources[i] \in SourceRecord
        BY <3>1, ElementOfSeq
      <3>3. sources[i].declaration \in Declarations /\ sources[i].status \in Retired \cup {"active"}
        BY <3>2 DEF SourceRecord
      <3>. QED BY <3>3 DEF LedgerInv, SourcesInv, Lineaged, Ids
    <2>3. ASSUME NEW r \in DOMAIN results
          PROVE  /\ results[r].status \in {"valid", "recompute", "withdrawn", "replaced"}
                 /\ results[r].op.of < r /\ results[r].replaces < r
      <3>1. results \in Seq(ResultRecord) /\ r \in 1..Len(results)
        BY DEF LedgerInv, ResultsInv
      <3>2. results[r] \in ResultRecord
        BY <3>1, ElementOfSeq
      <3>3. results[r].status \in Statuses
        BY <3>2 DEF ResultRecord
      <3>. QED BY <3>3 DEF Statuses, LedgerInv, ResultsInv, WellCited
    <2>. QED BY <2>1, <2>2, <2>3 DEF TypeOK
  <1>. QED BY <1>1, LedgerInvariant, PTL

\* The standing reclassify leaves a combination in is the one source_loss_class gives
\* for the sources as they are now, unless the combination was replaced.
THEOREM StandingCurrent == Spec => []StandingIsCurrent
  <1>1. LedgerInv => StandingIsCurrent
    BY DEF LedgerInv
  <1>. QED BY <1>1, LedgerInvariant, PTL

\* A result reported valid rests, through all the results it cites, on sources that are
\* active and derived from active sources only.
THEOREM ValidRests == Spec => []ValidRestsOnUsable
  <1>1. LedgerInv => ValidRestsOnUsable
    <2>. SUFFICES ASSUME LedgerInv, NEW r \in DOMAIN results, results[r].status = "valid",
                         NEW i \in ResultSources(r)
                  PROVE  Usable(i)
      BY DEF ValidRestsOnUsable
    <2>1. PICK S : Rests(S)
      BY DEF LedgerInv
    <2>2. Citations(r) \subseteq S
      BY <2>1 DEF Citations, Rests
    <2>3. PICK j \in Citations(r) : i \in results[j].op.needed \cup results[j].op.helping
      BY DEF ResultSources
    <2>. QED BY <2>1, <2>2, <2>3 DEF Rests
  <1>. QED BY <1>1, LedgerInvariant, PTL

\* A pooling declared independent or diagonal, a borrowing, and whatever cites one has as
\* many distinct observations in its mass account as its sources list.
THEOREM Counted == Spec => []CountedOnce
  <1>1. LedgerInv => CountedOnce
    <2>. SUFFICES ASSUME LedgerInv, NEW r \in DOMAIN results, NEW j \in Citations(r),
                         CountsAsIndependent(results[j].op)
                  PROVE  results[r].mass.slots = Cardinality(results[r].mass.distinct)
      BY DEF CountedOnce
    <2>. DEFINE S == {i \in DOMAIN results : results[i].mass = results[r].mass}
    <2>1. r \in S /\ S \in SUBSET DOMAIN results
      OBVIOUS
    <2>2. Cites(S)
      BY DEF Cites, LedgerInv, ResultsInv, WellCited
    <2>3. j \in S
      <3>. HIDE DEF S
      <3>. QED BY <2>1, <2>2 DEF Citations
    <2>4. CountedRight(results[j])
      BY <2>3 DEF LedgerInv, ResultsInv
    <2>. QED BY <2>3, <2>4 DEF CountedRight
  <1>. QED BY <1>1, LedgerInvariant, PTL

\* No operation of the ledger gives a result back a standing it lost, reactivates a
\* source, or drops a result or a source.
THEOREM OnlyWorsen == Spec => StandingsOnlyWorsen
  <1>1. LedgerInv /\ [Next]_vars => [Worsens]_vars
    BY LedgerStep
  <1>2. Spec => [][Worsens]_vars
    BY <1>1, LedgerInvariant, PTL DEF Spec
  <1>. QED BY <1>2 DEF StandingsOnlyWorsen, Worsens
=============================================================================
