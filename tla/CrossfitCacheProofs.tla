------------------------ MODULE CrossfitCacheProofs -------------------------
(***************************************************************************)
(* Proofs about CrossfitCache: every fit is made and counted once, a reuse *)
(* is of the fit of its own inputs, what is charged is what is retained,   *)
(* and sharing is reported exactly.  The argument is mutual exclusion: a   *)
(* build that reached its fits holds every slot it leases, so nobody else  *)
(* stores into them between its look at the slots and its publication.     *)
(* Last, the scopes never wait for each other in a circle, and leases      *)
(* cannot deadlock where the columns of every build are distinct.          *)
(***************************************************************************)
EXTENDS CrossfitCache, FiniteSetTheorems, SequenceTheorems, TLAPS

(***************************************************************************)
(* The inductive invariant.                                                *)
(***************************************************************************)

Building == {"lock", "lease", "fit", "publish", "drop"}
ScopeRecord == [pc : Building \cup {"idle", "over"}, build : SUBSET Builds,
                leases : Seq(SUBSET Slots), at : Nat, fresh : SUBSET Slots, tasks : Nat]
SlotRecord == [holder : SUBSET Scopes, value : SUBSET Slots, poisoned : BOOLEAN]

\* The build of a scope and how far its leases are.
Leases(me, b) ==
    /\ me.build = {b}
    /\ Len(me.leases) >= 1 /\ Len(me.leases) <= Len(b.outcomes) + 1
    /\ \A i \in DOMAIN me.leases : me.leases[i] \subseteq {SlotOf(b, i)}
    /\ me.pc = "lock" => /\ me.at \in 1..Len(me.leases)
                         /\ me.at = 1 => Len(me.leases) = 1
                         /\ me.at # 1 => Len(me.leases) = Len(b.outcomes) + 1
    /\ me.pc = "lease" => me.at = 1 /\ Len(me.leases) <= Len(b.outcomes)
    /\ me.pc = "publish" => me.at \in 1..Len(me.leases)

\* The positions of the leases whose slots a scope holds.
Locked(me) ==
    IF me.pc = "lock" THEN 1..(me.at - 1)
    ELSE IF me.pc = "lease" THEN {1}
    ELSE IF me.pc \in {"fit", "publish"} THEN DOMAIN me.leases ELSE {}

\* A scope holds them, each for one lease.
Holds(s, me) ==
    /\ \A i \in Locked(me) : \A x \in me.leases[i] : slots[x].holder = {s}
    /\ \A i, j \in Locked(me) : i # j => me.leases[i] \cap me.leases[j] = {}

\* What a publishing build takes to be fresh is what no fit was stored for, but for
\* what it stored itself.
FreshIsFresh(me) ==
    me.pc = "publish" =>
        \A i \in DOMAIN me.leases : \A x \in me.leases[i] :
            /\ x \in me.fresh /\ i >= me.at => slots[x].value = {}
            /\ x \notin me.fresh => slots[x].value # {}

ScopeInv(s) ==
    /\ scope[s].pc \in Building => \E b \in Builds : Leases(scope[s], b)
    /\ scope[s].pc = "idle" => scope[s].at = 1
    /\ Holds(s, scope[s])
    /\ FreshIsFresh(scope[s])

SlotsInv ==
    /\ slots \in [Slots -> SlotRecord]
    /\ scope \in [Scopes -> ScopeRecord]
    /\ \A x \in Slots : slots[x].value \in {{}, {x}}
    /\ \A s \in Scopes : ScopeInv(s)

\* The slots that hold a fit of a kind.
Made(k) == {x \in Slots : Kind(x) = k /\ slots[x].value # {}}
FitsInv ==
    /\ fits \in [{"propensity", "outcome"} -> Nat]
    /\ \A k \in {"propensity", "outcome"} : IsFiniteSet(Made(k)) /\ fits[k] = Cardinality(Made(k))

\* The scopes that read an entry.
Readers(x) == {t \in Scopes : x \in used[t]}
UseInv ==
    /\ used \in [Scopes -> SUBSET Slots]
    /\ scopes \in [Slots -> Nat]
    /\ \A x \in Slots : IsFiniteSet(Readers(x)) /\ scopes[x] = Cardinality(Readers(x))

RetainedInv ==
    /\ entries \subseteq Slots /\ IsFiniteSet(entries)
    /\ retained \in Nat
    /\ preparations \in Seq(Problems) /\ Len(preparations) <= MaxPreparations
    /\ \A i, j \in DOMAIN preparations : preparations[i] = preparations[j] => i = j
    /\ IsFiniteSet(PreparedValues(Prepared))
    /\ RetainedIsExact

-----------------------------------------------------------------------------
(* Leases and slots.                                                       *)

\* The slots of a build's leases are its inputs.
LEMMA SlotIsInputs ==
  ASSUME NEW b \in Builds, NEW i \in 1..(Len(b.outcomes) + 1)
  PROVE  SlotOf(b, i) = Inputs(b, i) /\ SlotOf(b, i) \in Slots
  <1>1. b.key \in Keys /\ b.outcomes \in Seq(Outcomes)
    BY BuildAssumption
  <1>2. i # 1 => b.outcomes[i - 1] \in Outcomes
    BY <1>1
  <1>. QED BY <1>1, <1>2 DEF SlotOf, OutcomeEntry, Inputs, Slots

\* A scope keeps what it has where nobody touches the slots it holds.
LEMMA Undisturbed ==
  ASSUME SlotsInv, NEW t \in Scopes, scope'[t] = scope[t],
         \A x \in Slots : slots[x].holder = {t} => slots'[x] = slots[x]
  PROVE  ScopeInv(t)'
  <1>. DEFINE me == scope[t]
  <1>1. ScopeInv(t) /\ me \in ScopeRecord
    BY DEF SlotsInv
  <1>2. ASSUME NEW i \in Locked(me), me.pc \in Building
        PROVE  i \in DOMAIN me.leases
    <2>1. PICK b \in Builds : Leases(me, b)
      BY <1>1, <1>2 DEF ScopeInv
    <2>2. me.leases \in Seq(SUBSET Slots) /\ me.at \in Nat
      BY <1>1 DEF ScopeRecord
    <2>. QED BY <2>1, <2>2 DEF Locked, Leases
  <1>3. ASSUME NEW i \in Locked(me), NEW x \in me.leases[i]
        PROVE  x \in Slots /\ slots[x].holder = {t} /\ slots'[x] = slots[x]
    <2>1. me.pc \in Building
      BY DEF Locked, Building
    <2>2. me.leases \in Seq(SUBSET Slots) /\ i \in DOMAIN me.leases
      BY <1>1, <1>2, <2>1 DEF ScopeRecord
    <2>3. x \in Slots
      BY <2>2
    <2>4. slots[x].holder = {t}
      BY <1>1 DEF ScopeInv, Holds
    <2>. QED BY <2>3, <2>4
  <1>4. Holds(t, me)'
    BY <1>1, <1>3 DEF ScopeInv, Holds, Locked
  <1>5. FreshIsFresh(me)'
    BY <1>1, <1>3 DEF ScopeInv, FreshIsFresh, Locked
  <1>. QED BY <1>1, <1>4, <1>5 DEF ScopeInv, Leases
\* A scope moves on: the others are undisturbed when only free slots and its own change.
LEMMA ScopeMoves ==
  ASSUME SlotsInv, NEW s \in Scopes, NEW now \in ScopeRecord,
         scope' = [scope EXCEPT ![s] = now],
         slots' \in [Slots -> SlotRecord],
         \A x \in Slots : slots'[x].value \in {{}, {x}},
         \A x \in Slots : slots[x].holder \in {{}, {s}} \/ slots'[x] = slots[x],
         now.pc \in Building => \E b \in Builds : Leases(now, b),
         now.pc = "idle" => now.at = 1,
         Holds(s, now)', FreshIsFresh(now)'
  PROVE  SlotsInv'
  <1>1. scope \in [Scopes -> ScopeRecord]
    BY DEF SlotsInv
  <1>2. scope' \in [Scopes -> ScopeRecord] /\ scope'[s] = now
    BY <1>1
  <1>3. ScopeInv(s)'
    BY <1>2 DEF ScopeInv
  <1>4. ASSUME NEW t \in Scopes, t # s PROVE ScopeInv(t)'
    <2>1. scope'[t] = scope[t]
      BY <1>1, <1>4
    <2>2. \A x \in Slots : slots[x].holder = {t} => slots'[x] = slots[x]
      BY <1>4
    <2>. QED BY <2>1, <2>2, Undisturbed
  <1>. QED BY <1>2, <1>3, <1>4 DEF SlotsInv

\* What a scope in its build knows.
LEMMA InBuild ==
  ASSUME SlotsInv, NEW s \in Scopes
  PROVE  /\ scope[s] \in ScopeRecord
         /\ scope[s].leases \in Seq(SUBSET Slots) /\ scope[s].at \in Nat
         /\ scope[s].fresh \in SUBSET Slots /\ scope[s].tasks \in Nat
         /\ ScopeInv(s)
         /\ \A x \in Slots : slots[x] \in SlotRecord /\ slots[x].value \in {{}, {x}}
  <1>1. scope[s] \in ScopeRecord
    BY DEF SlotsInv
  <1>. QED BY <1>1 DEF SlotsInv, ScopeRecord

\* A scope outside its build holds nothing.
LEMMA OutOfBuild ==
  ASSUME SlotsInv, NEW s \in Scopes, NEW now \in ScopeRecord, now.pc \in {"idle", "over"},
         now.pc = "idle" => now.at = 1,
         scope' = [scope EXCEPT ![s] = now],
         slots' \in [Slots -> SlotRecord],
         \A x \in Slots : slots'[x].value \in {{}, {x}},
         \A x \in Slots : slots[x].holder \in {{}, {s}} \/ slots'[x] = slots[x]
  PROVE  SlotsInv'
  <1>1. Locked(now) = {} /\ now.pc # "publish" /\ now.pc \notin Building
    BY DEF Locked, Building
  <1>2. Holds(s, now)' /\ FreshIsFresh(now)'
    BY <1>1 DEF Holds, FreshIsFresh
  <1>. QED BY <1>1, <1>2, ScopeMoves

\* The record of a scope between builds.
LEMMA IdleRecord ==
  ASSUME NEW n \in Nat
  PROVE  /\ Idle(n) \in ScopeRecord /\ Idle(n).pc = "idle" /\ Idle(n).at = 1
         /\ [Idle(n) EXCEPT !.pc = "over"] \in ScopeRecord
         /\ [Idle(n) EXCEPT !.pc = "over"].pc = "over"
  <1>1. <<>> \in Seq(SUBSET Slots)
    OBVIOUS
  <1>. QED BY <1>1 DEF Idle, ScopeRecord

\* A build begins with the lease of its propensity slot, or runs unshared.
LEMMA BeginSlots ==
  ASSUME SlotsInv, NEW s \in Scopes, NEW b \in Builds, Begin(s, b) PROVE SlotsInv'
  <1>. DEFINE me == scope[s]
              lease == Lease(<<b.key>>)
  <1>1. /\ me.pc = "idle" /\ slots' = slots
        /\ scope' = [scope EXCEPT ![s] =
               IF lease = {} THEN Idle(me.tasks + 1)
               ELSE [me EXCEPT !.pc = "lock", !.build = {b}, !.leases = <<lease>>]]
    BY DEF Begin
  <1>2. /\ me \in ScopeRecord /\ me.tasks \in Nat /\ me.tasks + 1 \in Nat
        /\ \A x \in Slots : slots[x].value \in {{}, {x}}
    BY InBuild
  <1>3. slots \in [Slots -> SlotRecord]
    BY DEF SlotsInv
  <1>4. CASE lease = {}
    <2>1. PICK now : now = Idle(me.tasks + 1)
      OBVIOUS
    <2>2. now \in ScopeRecord /\ now.pc = "idle" /\ now.at = 1
      BY <1>2, <2>1, IdleRecord
    <2>. QED BY <1>1, <1>2, <1>3, <1>4, <2>1, <2>2, OutOfBuild
  <1>5. CASE lease # {}
    <2>1. PICK now : now = [me EXCEPT !.pc = "lock", !.build = {b}, !.leases = <<lease>>]
      OBVIOUS
    <2>2. me.at = 1
      BY <1>1, InBuild DEF ScopeInv
    <2>3. lease \subseteq {SlotOf(b, 1)} /\ SlotOf(b, 1) \in Slots /\ Len(b.outcomes) \in Nat
      <3>1. Len(b.outcomes) \in Nat
        BY BuildAssumption
      <3>2. SlotOf(b, 1) \in Slots
        BY <3>1, SlotIsInputs
      <3>. QED BY <3>1, <3>2 DEF SlotOf, Lease
    <2>. HIDE DEF lease
    <2>4. now \in ScopeRecord /\ now.pc = "lock" /\ now.at = 1 /\ now.build = {b}
          /\ now.leases = <<lease>>
      <3>1. <<lease>> \in Seq(SUBSET Slots) /\ {b} \in SUBSET Builds
        BY <2>3
      <3>. DEFINE first == <<lease>>
                  one == {b}
      <3>. HIDE DEF first, one
      <3>2. now = [me EXCEPT !.pc = "lock", !.build = one, !.leases = first]
        BY <2>1 DEF first, one
      <3>3. first \in Seq(SUBSET Slots) /\ one \in SUBSET Builds
        BY <3>1 DEF first, one
      <3>4. now \in ScopeRecord /\ now.pc = "lock" /\ now.at = me.at /\ now.build = one
            /\ now.leases = first
        BY <1>2, <3>2, <3>3 DEF ScopeRecord, Building
      <3>. QED BY <2>2, <3>4 DEF first, one
    <2>5. Leases(now, b)
      BY <2>3, <2>4 DEF Leases
    <2>6. Locked(now) = {}
      BY <2>4 DEF Locked
    <2>7. Holds(s, now)' /\ FreshIsFresh(now)'
      BY <2>4, <2>6 DEF Holds, FreshIsFresh
    <2>. QED BY <1>1, <1>2, <1>3, <1>5, <2>1, <2>4, <2>5, <2>7, ScopeMoves DEF lease
  <1>. QED BY <1>4, <1>5

\* The slot that is next is free, and is held from here on.
LEMMA LockSlots ==
  ASSUME SlotsInv, NEW s \in Scopes, LockSlot(s) PROVE SlotsInv'
  <1>. DEFINE me == scope[s]
              xs == me.leases[me.at]
  <1>1. me.pc = "lock" /\ \A x \in xs : slots[x].holder = {}
    BY DEF LockSlot
  <1>2. /\ me \in ScopeRecord /\ me.leases \in Seq(SUBSET Slots) /\ me.at \in Nat /\ ScopeInv(s)
        /\ \A x \in Slots : slots[x] \in SlotRecord /\ slots[x].value \in {{}, {x}}
    BY InBuild
  <1>3. PICK b \in Builds : Leases(me, b)
    BY <1>1, <1>2 DEF ScopeInv, Building
  <1>4. slots \in [Slots -> SlotRecord] /\ me.at \in 1..Len(me.leases) /\ xs \in SUBSET Slots
    BY <1>1, <1>2, <1>3 DEF SlotsInv, Leases
  <1>5. CASE scope' = [scope EXCEPT ![s].pc = "drop"] /\ slots' = slots
    <2>1. PICK now : now = [me EXCEPT !.pc = "drop"]
      OBVIOUS
    <2>2. /\ now \in ScopeRecord /\ now.pc = "drop" /\ now.leases = me.leases
          /\ now.build = me.build
      BY <1>2, <2>1 DEF ScopeRecord, Building
    <2>3. Leases(now, b) /\ Locked(now) = {}
      BY <1>3, <2>2 DEF Leases, Locked
    <2>4. Holds(s, now)' /\ FreshIsFresh(now)'
      BY <2>2, <2>3 DEF Holds, FreshIsFresh
    <2>5. scope' = [scope EXCEPT ![s] = now]
      BY <1>5, <2>1
    <2>. QED BY <1>2, <1>4, <1>5, <2>2, <2>3, <2>4, <2>5, ScopeMoves
  <1>6. CASE Acquire(s, xs) /\ scope' = [scope EXCEPT ![s] = AfterLock(me, b)]
    <2>1. PICK now : now = AfterLock(me, b)
      OBVIOUS
    <2>2. Len(b.outcomes) \in Nat
      BY BuildAssumption
    <2>3. /\ now \in ScopeRecord /\ now.leases = me.leases /\ now.build = me.build
          /\ now.pc \in {"lock", "lease", "fit"}
          /\ now.pc = "fit" => me.at > Len(b.outcomes)
          /\ now.pc = "lease" => me.at = 1 /\ now.at = 1 /\ ~(me.at > Len(b.outcomes))
          /\ now.pc = "lock" => me.at # 1 /\ now.at = me.at + 1 /\ ~(me.at > Len(b.outcomes))
      <3>1. CASE me.at > Len(b.outcomes)
        <4>1. now = [me EXCEPT !.pc = "fit"]
          BY <2>1, <3>1 DEF AfterLock
        <4>. QED BY <1>2, <3>1, <4>1 DEF ScopeRecord, Building
      <3>2. CASE ~(me.at > Len(b.outcomes)) /\ me.at = 1
        <4>1. now = [me EXCEPT !.pc = "lease"]
          BY <2>1, <3>2 DEF AfterLock
        <4>. QED BY <1>2, <3>2, <4>1 DEF ScopeRecord, Building
      <3>3. CASE ~(me.at > Len(b.outcomes)) /\ me.at # 1
        <4>1. now = [me EXCEPT !.at = me.at + 1]
          BY <2>1, <3>3 DEF AfterLock
        <4>2. me.at + 1 \in Nat
          BY <1>2
        <4>. QED BY <1>1, <1>2, <3>3, <4>1, <4>2 DEF ScopeRecord
      <3>. QED BY <3>1, <3>2, <3>3
    <2>4. Leases(now, b)
      <3>1. /\ now.build = {b}
            /\ Len(now.leases) >= 1 /\ Len(now.leases) <= Len(b.outcomes) + 1
            /\ \A i \in DOMAIN now.leases : now.leases[i] \subseteq {SlotOf(b, i)}
        BY <1>3, <2>3 DEF Leases
      <3>2. /\ me.at = 1 => Len(me.leases) = 1
            /\ me.at # 1 => Len(me.leases) = Len(b.outcomes) + 1
            /\ Len(me.leases) \in Nat
        BY <1>1, <1>2, <1>3 DEF Leases
      <3>3. now.pc = "lock" => /\ now.at \in 1..Len(now.leases) /\ now.at # 1
                               /\ Len(now.leases) = Len(b.outcomes) + 1
        BY <1>2, <1>4, <2>2, <2>3, <3>2
      <3>4. ASSUME now.pc = "lease" PROVE now.at = 1 /\ Len(now.leases) <= Len(b.outcomes)
        <4>1. me.at = 1 /\ now.at = 1 /\ ~(me.at > Len(b.outcomes)) /\ now.leases = me.leases
          BY <2>3, <3>4
        <4>2. Len(me.leases) = 1
          BY <3>2, <4>1
        <4>. QED BY <2>2, <4>1, <4>2
      <3>. QED BY <2>3, <3>1, <3>3, <3>4 DEF Leases
    <2>5. Locked(now) = 1..me.at /\ Locked(me) = 1..(me.at - 1)
      BY <1>1, <1>2, <1>3, <1>4, <2>2, <2>3 DEF Leases, Locked
    <2>6. ASSUME NEW x \in Slots
          PROVE  /\ slots'[x] \in SlotRecord /\ slots'[x].value = slots[x].value
                 /\ x \in xs => slots'[x].holder = {s}
                 /\ x \notin xs => slots'[x] = slots[x]
      <3>1. slots[x] \in SlotRecord
        BY <1>2
      <3>2. slots'[x] = IF x \in xs THEN [slots[x] EXCEPT !.holder = {s}] ELSE slots[x]
        BY <1>6 DEF Acquire
      <3>. HIDE DEF xs
      <3>. QED BY <3>1, <3>2 DEF SlotRecord
    <2>7. slots' \in [Slots -> SlotRecord]
      BY <1>6, <2>6 DEF Acquire
    <2>8. ASSUME NEW i \in 1..(me.at - 1), NEW x \in me.leases[i]
          PROVE  x \in Slots /\ x \notin xs /\ slots'[x].holder = {s}
      <3>1. x \in Slots /\ slots[x].holder = {s}
        BY <1>2, <1>4, <2>5 DEF ScopeInv, Holds
      <3>2. x \notin xs
        BY <1>1, <3>1
      <3>. QED BY <2>6, <3>1, <3>2
    <2>9. Holds(s, now)'
      <3>1. ASSUME NEW i \in 1..me.at, NEW x \in me.leases[i] PROVE slots'[x].holder = {s}
        <4>1. CASE i = me.at
          BY <1>4, <2>6, <4>1
        <4>2. CASE i # me.at
          BY <1>2, <2>8, <4>2
        <4>. QED BY <4>1, <4>2
      <3>2. ASSUME NEW i \in 1..me.at, NEW j \in 1..me.at, i # j
            PROVE  me.leases[i] \cap me.leases[j] = {}
        <4>1. CASE i # me.at /\ j # me.at
          BY <1>2, <2>5, <3>2, <4>1 DEF ScopeInv, Holds
        <4>2. CASE i = me.at
          <5>1. j \in 1..(me.at - 1)
            BY <1>2, <3>2, <4>2
          <5>. QED BY <2>8, <4>2, <5>1
        <4>3. CASE j = me.at
          <5>1. i \in 1..(me.at - 1)
            BY <1>2, <3>2, <4>3
          <5>. QED BY <2>8, <4>3, <5>1
        <4>. QED BY <4>1, <4>2, <4>3
      <3>. QED BY <2>3, <2>5, <3>1, <3>2 DEF Holds
    <2>10. FreshIsFresh(now)'
      BY <2>3 DEF FreshIsFresh
    <2>11. \A x \in Slots : /\ slots'[x].value \in {{}, {x}}
                            /\ slots[x].holder \in {{}, {s}} \/ slots'[x] = slots[x]
      BY <1>1, <1>2, <2>6
    <2>. QED BY <1>6, <2>1, <2>3, <2>4, <2>7, <2>9, <2>10, <2>11, ScopeMoves
  <1>7. \/ scope' = [scope EXCEPT ![s].pc = "drop"] /\ slots' = slots
        \/ Acquire(s, xs) /\ scope' = [scope EXCEPT ![s] = AfterLock(me, b)]
    <2>1. me.build = {b}
      BY <1>3 DEF Leases
    <2>. QED BY <2>1 DEF LockSlot
  <1>. QED BY <1>5, <1>6, <1>7
\* An outcome slot is leased under the propensity slot, which stays held.
LEMMA LeaseSlots ==
  ASSUME SlotsInv, NEW s \in Scopes, LeaseOutcome(s) PROVE SlotsInv'
  <1>. DEFINE me == scope[s]
              i == Len(me.leases) + 1
  <1>1. me.pc = "lease" /\ slots' = slots
    BY DEF LeaseOutcome
  <1>2. /\ me \in ScopeRecord /\ me.leases \in Seq(SUBSET Slots) /\ me.at \in Nat /\ ScopeInv(s)
        /\ \A x \in Slots : slots[x].value \in {{}, {x}}
    BY InBuild
  <1>3. PICK b \in Builds : Leases(me, b)
    BY <1>1, <1>2 DEF ScopeInv, Building
  <1>. DEFINE lease == Lease(SlotOf(b, i))
              done == i > Len(b.outcomes)
              all == Append(me.leases, lease)
  <1>4. scope' = [scope EXCEPT ![s] =
           [me EXCEPT !.leases = all, !.pc = IF done THEN "lock" ELSE "lease",
                      !.at = IF done THEN 2 ELSE 1]]
    BY <1>3 DEF LeaseOutcome, Leases
  <1>5. Len(b.outcomes) \in Nat /\ Len(me.leases) \in Nat /\ i \in 2..(Len(b.outcomes) + 1)
    BY <1>1, <1>2, <1>3, BuildAssumption DEF Leases
  <1>6. lease \subseteq {SlotOf(b, i)} /\ SlotOf(b, i) \in Slots
    <2>1. SlotOf(b, i) \in Slots
      BY <1>5, SlotIsInputs
    <2>. QED BY <2>1 DEF Lease
  <1>. HIDE DEF lease
  <1>7. /\ all \in Seq(SUBSET Slots) /\ Len(all) = i /\ all[i] = lease
        /\ \A j \in 1..Len(me.leases) : all[j] = me.leases[j]
    BY <1>2, <1>6
  <1>. HIDE DEF all
  <1>8. PICK now : now = [me EXCEPT !.leases = all, !.pc = IF done THEN "lock" ELSE "lease",
                                    !.at = IF done THEN 2 ELSE 1]
    OBVIOUS
  <1>9. /\ now \in ScopeRecord /\ now.leases = all /\ now.build = me.build
        /\ now.pc = (IF done THEN "lock" ELSE "lease") /\ now.at = IF done THEN 2 ELSE 1
    <2>. HIDE DEF done
    <2>. QED BY <1>2, <1>7, <1>8 DEF ScopeRecord, Building
  <1>10. Leases(now, b)
    <2>1. /\ now.build = {b}
          /\ Len(now.leases) >= 1 /\ Len(now.leases) <= Len(b.outcomes) + 1
      BY <1>3, <1>5, <1>7, <1>9 DEF Leases
    <2>2. ASSUME NEW j \in DOMAIN now.leases PROVE now.leases[j] \subseteq {SlotOf(b, j)}
      <3>1. CASE j = i
        BY <1>6, <1>7, <1>9, <3>1
      <3>2. CASE j # i
        <4>1. j \in 1..Len(me.leases) /\ j \in DOMAIN me.leases
          BY <1>2, <1>5, <1>7, <1>9, <3>2
        <4>. QED BY <1>3, <1>7, <1>9, <4>1 DEF Leases
      <3>. QED BY <3>1, <3>2
    <2>3. CASE done
      <3>1. Len(now.leases) = Len(b.outcomes) + 1 /\ now.at \in 1..Len(now.leases) /\ now.at # 1
        BY <1>5, <1>7, <1>9, <2>3
      <3>. QED BY <1>9, <2>1, <2>2, <2>3, <3>1 DEF Leases
    <2>4. CASE ~done
      <3>1. Len(now.leases) <= Len(b.outcomes) /\ now.at = 1 /\ now.pc = "lease"
        BY <1>5, <1>7, <1>9, <2>4
      <3>. QED BY <2>1, <2>2, <3>1 DEF Leases
    <2>. QED BY <2>3, <2>4
  <1>11. Locked(now) = {1} /\ Locked(me) = {1}
    BY <1>1, <1>9 DEF Locked
  <1>12. now.leases[1] = me.leases[1]
    BY <1>5, <1>7, <1>9
  <1>13. Holds(s, now)' /\ FreshIsFresh(now)'
    <2>1. \A x \in now.leases[1] : slots'[x].holder = {s}
      BY <1>1, <1>2, <1>11, <1>12 DEF ScopeInv, Holds
    <2>2. now.pc # "publish"
      BY <1>9
    <2>. QED BY <1>11, <2>1, <2>2 DEF Holds, FreshIsFresh
  <1>14. slots \in [Slots -> SlotRecord] /\ now.pc # "idle"
    BY <1>9 DEF SlotsInv
  <1>. HIDE DEF done
  <1>. QED BY <1>1, <1>2, <1>4, <1>8, <1>9, <1>10, <1>13, <1>14, ScopeMoves

\* A step within a build that leaves its leases and every slot alone.
LEMMA StayInBuild ==
  ASSUME SlotsInv, NEW s \in Scopes, NEW now \in ScopeRecord,
         scope' = [scope EXCEPT ![s] = now], slots' = slots,
         scope[s].pc \in Building, now.pc \in {"publish", "drop"},
         now.build = scope[s].build, now.leases = scope[s].leases, now.at = 1,
         now.pc = "publish" =>
            /\ scope[s].pc = "fit"
            /\ now.fresh = {x \in Leased(scope[s]) : slots[x].value = {}}
  PROVE  SlotsInv'
  <1>. DEFINE me == scope[s]
  <1>1. /\ me.leases \in Seq(SUBSET Slots) /\ ScopeInv(s)
        /\ \A x \in Slots : slots[x].value \in {{}, {x}}
    BY InBuild
  <1>2. PICK b \in Builds : Leases(me, b)
    BY <1>1 DEF ScopeInv
  <1>3. Leases(now, b)
    BY <1>1, <1>2 DEF Leases
  <1>4. Holds(s, now)'
    <2>1. CASE now.pc = "publish"
      <3>1. Locked(now) = Locked(me)
        BY <2>1 DEF Locked
      <3>. QED BY <1>1, <3>1 DEF ScopeInv, Holds
    <2>2. CASE now.pc = "drop"
      <3>1. Locked(now) = {}
        BY <2>2 DEF Locked
      <3>. QED BY <3>1 DEF Holds
    <2>. QED BY <2>1, <2>2
  <1>5. FreshIsFresh(now)'
    <2>1. ASSUME now.pc = "publish", NEW i \in DOMAIN me.leases, NEW x \in me.leases[i]
          PROVE  x \in now.fresh <=> slots[x].value = {}
      BY <2>1 DEF Leased
    <2>. QED BY <2>1 DEF FreshIsFresh
  <1>6. slots' \in [Slots -> SlotRecord] /\ now.pc # "idle"
    BY DEF SlotsInv
  <1>. QED BY <1>1, <1>3, <1>4, <1>5, <1>6, ScopeMoves

\* The slots are looked at, and every fold is fit or fails.
LEMMA FitSlots ==
  ASSUME SlotsInv, NEW s \in Scopes, Fit(s) PROVE SlotsInv'
  <1>. DEFINE me == scope[s]
              fresh == {x \in Leased(me) : slots[x].value = {}}
  <1>1. PICK pc \in {"publish", "drop"} :
           scope' = [scope EXCEPT ![s].pc = pc, ![s].at = 1, ![s].fresh = fresh]
    BY DEF Fit
  <1>2. me.pc = "fit" /\ slots' = slots
    BY DEF Fit
  <1>3. me \in ScopeRecord /\ me.leases \in Seq(SUBSET Slots) /\ scope \in [Scopes -> ScopeRecord]
    BY InBuild DEF SlotsInv
  <1>4. fresh \in SUBSET Slots
    BY <1>3 DEF Leased
  <1>5. PICK now : now = [me EXCEPT !.pc = pc, !.at = 1, !.fresh = fresh]
    OBVIOUS
  <1>6. scope' = [scope EXCEPT ![s] = now]
    BY <1>1, <1>3, <1>5
  <1>. HIDE DEF fresh
  <1>7. /\ now \in ScopeRecord /\ now.pc = pc /\ now.at = 1 /\ now.fresh = fresh
        /\ now.build = me.build /\ now.leases = me.leases
    BY <1>3, <1>4, <1>5 DEF ScopeRecord, Building
  <1>8. me.pc \in Building
    BY <1>2 DEF Building
  <1>. QED BY <1>2, <1>6, <1>7, <1>8, StayInBuild DEF fresh

\* A panic frees the slots of its own scope only.
LEMMA PanicSlots ==
  ASSUME SlotsInv, NEW s \in Scopes, Panic(s) PROVE SlotsInv'
  <1>1. PICK now : now = [Idle(0) EXCEPT !.pc = "over"]
    OBVIOUS
  <1>2. now \in ScopeRecord /\ now.pc = "over"
    BY <1>1, IdleRecord
  <1>3. scope' = [scope EXCEPT ![s] = now]
    BY <1>1 DEF Panic
  <1>4. ASSUME NEW x \in Slots
        PROVE  /\ slots'[x] \in SlotRecord /\ slots'[x].value \in {{}, {x}}
               /\ slots[x].holder \in {{}, {s}} \/ slots'[x] = slots[x]
    <2>1. slots[x] \in SlotRecord /\ slots[x].value \in {{}, {x}}
      BY InBuild
    <2>2. slots'[x] = IF slots[x].holder = {s}
                      THEN [slots[x] EXCEPT !.holder = {}, !.poisoned = TRUE] ELSE slots[x]
      BY DEF Panic
    <2>. QED BY <2>1, <2>2 DEF SlotRecord
  <1>5. slots' \in [Slots -> SlotRecord]
    BY <1>4 DEF Panic
  <1>. QED BY <1>2, <1>3, <1>4, <1>5, OutOfBuild

\* The guards go, and with the last the build is over.
LEMMA DropSlots ==
  ASSUME SlotsInv, NEW s \in Scopes, Drop(s) PROVE SlotsInv'
  <1>. DEFINE me == scope[s]
  <1>1. me.pc = "drop" /\ me \in ScopeRecord /\ me.tasks + 1 \in Nat /\ ScopeInv(s)
    BY InBuild DEF Drop
  <1>2. scope \in [Scopes -> ScopeRecord]
    BY DEF SlotsInv
  <1>3. PICK now \in {me, Idle(me.tasks + 1)} : scope' = [scope EXCEPT ![s] = now]
    BY DEF Drop
  <1>4. ASSUME NEW x \in Slots
        PROVE  /\ slots'[x] \in SlotRecord /\ slots'[x].value \in {{}, {x}}
               /\ slots[x].holder \in {{}, {s}} \/ slots'[x] = slots[x]
    <2>1. slots[x] \in SlotRecord /\ slots[x].value \in {{}, {x}}
      BY InBuild
    <2>2. slots'[x] = IF Release(s, x) THEN [slots[x] EXCEPT !.holder = {}] ELSE slots[x]
      BY DEF Drop
    <2>3. Release(s, x) => slots[x].holder = {s}
      BY DEF Release
    <2>. QED BY <2>1, <2>2, <2>3 DEF SlotRecord
  <1>5. slots' \in [Slots -> SlotRecord]
    BY <1>4 DEF Drop
  <1>6. CASE now = me
    <2>1. Locked(now) = {} /\ now.pc # "publish" /\ now.pc # "idle" /\ now \in ScopeRecord
      BY <1>1, <1>6 DEF Locked
    <2>2. Holds(s, now)' /\ FreshIsFresh(now)'
      BY <2>1 DEF Holds, FreshIsFresh
    <2>3. now.pc \in Building => \E b \in Builds : Leases(now, b)
      BY <1>1, <1>6 DEF ScopeInv
    <2>. QED BY <1>3, <1>4, <1>5, <2>1, <2>2, <2>3, ScopeMoves
  <1>7. CASE now = Idle(me.tasks + 1)
    <2>1. now \in ScopeRecord /\ now.pc = "idle" /\ now.at = 1
      BY <1>1, <1>7, IdleRecord
    <2>. QED BY <1>3, <1>4, <1>5, <2>1, OutOfBuild
  <1>. QED BY <1>6, <1>7
\* What one publication stores: at most one slot, which this scope holds and which holds
\* no fit, under the inputs of the build.
LEMMA PublishedSlot ==
  ASSUME SlotsInv, NEW s \in Scopes, Publish(s)
  PROVE  LET me == scope[s]
             xs == me.leases[me.at]
             stored == xs \cap me.fresh
         IN  /\ me.pc = "publish" /\ me.at \in DOMAIN me.leases
             /\ xs \in SUBSET Slots /\ \A x, y \in xs : x = y
             /\ \A x \in stored : slots[x].holder = {s} /\ slots[x].value = {}
             /\ \A x \in Slots :
                   /\ x \in stored => slots'[x] = [slots[x] EXCEPT !.value = {x}]
                   /\ x \notin stored => slots'[x] = slots[x]
             /\ slots' = [x \in Slots |-> slots'[x]]
             /\ scope' = [scope EXCEPT ![s] = IF me.at = Len(me.leases)
                                              THEN [me EXCEPT !.pc = "drop"]
                                              ELSE [me EXCEPT !.at = me.at + 1]]
             /\ NoteUse(s, xs)
             /\ fits' = [k \in {"propensity", "outcome"} |->
                            fits[k] + Cardinality({x \in stored : Kind(x) = k})]
  <1>. DEFINE me == scope[s]
              xs == me.leases[me.at]
              stored == xs \cap me.fresh
  <1>1. me.pc = "publish"
    BY DEF Publish
  <1>2. me.leases \in Seq(SUBSET Slots) /\ ScopeInv(s)
    BY InBuild
  <1>3. PICK b \in Builds : Leases(me, b)
    BY <1>1, <1>2 DEF ScopeInv, Building
  <1>4. /\ me.at \in 1..Len(me.leases) /\ me.at \in DOMAIN me.leases
        /\ xs \subseteq {SlotOf(b, me.at)}
        /\ me.at \in 1..(Len(b.outcomes) + 1)
    <2>1. me.at \in 1..Len(me.leases) /\ Len(me.leases) <= Len(b.outcomes) + 1
      BY <1>1, <1>3 DEF Leases
    <2>2. Len(b.outcomes) \in Nat /\ Len(me.leases) \in Nat /\ DOMAIN me.leases = 1..Len(me.leases)
      BY <1>2, BuildAssumption
    <2>. QED BY <1>3, <2>1, <2>2 DEF Leases
  <1>5. SlotOf(b, me.at) = Inputs(b, me.at) /\ SlotOf(b, me.at) \in Slots
    BY <1>4, SlotIsInputs
  <1>6. xs \in SUBSET Slots /\ \A x \in xs : x = Inputs(b, me.at)
    BY <1>4, <1>5
  <1>7. ASSUME NEW x \in stored PROVE slots[x].holder = {s} /\ slots[x].value = {}
    <2>1. Locked(me) = DOMAIN me.leases
      BY <1>1 DEF Locked
    <2>2. slots[x].holder = {s}
      BY <1>2, <1>4, <2>1 DEF ScopeInv, Holds
    <2>3. slots[x].value = {}
      BY <1>1, <1>2, <1>4 DEF ScopeInv, FreshIsFresh
    <2>. QED BY <2>2, <2>3
  <1>8. /\ slots' = [x \in Slots |-> IF x \in stored
                                     THEN [slots[x] EXCEPT !.value = {Inputs(b, me.at)}]
                                     ELSE slots[x]]
        /\ NoteUse(s, xs)
        /\ fits' = [k \in {"propensity", "outcome"} |->
                       fits[k] + Cardinality({x \in stored : Kind(x) = k})]
        /\ scope' = [scope EXCEPT ![s] = IF me.at = Len(me.leases)
                                         THEN [me EXCEPT !.pc = "drop"]
                                         ELSE [me EXCEPT !.at = me.at + 1]]
    <2>1. me.build = {b}
      BY <1>3 DEF Leases
    <2>. QED BY <2>1 DEF Publish
  <1>9. \A x \in Slots :
           /\ x \in stored => slots'[x] = [slots[x] EXCEPT !.value = {x}]
           /\ x \notin stored => slots'[x] = slots[x]
    BY <1>6, <1>8
  <1>10. slots' = [x \in Slots |-> slots'[x]]
    BY <1>8
  <1>. QED BY <1>1, <1>4, <1>6, <1>7, <1>8, <1>9, <1>10

\* One lease of a build is published.
LEMMA PublishSlots ==
  ASSUME SlotsInv, NEW s \in Scopes, Publish(s) PROVE SlotsInv'
  <1>. DEFINE me == scope[s]
              xs == me.leases[me.at]
              stored == xs \cap me.fresh
              last == me.at = Len(me.leases)
  <1>1. /\ me.pc = "publish" /\ me.at \in DOMAIN me.leases
        /\ xs \in SUBSET Slots
        /\ \A x \in stored : slots[x].holder = {s} /\ slots[x].value = {}
        /\ \A x \in Slots :
              /\ x \in stored => slots'[x] = [slots[x] EXCEPT !.value = {x}]
              /\ x \notin stored => slots'[x] = slots[x]
        /\ slots' = [x \in Slots |-> slots'[x]]
        /\ scope' = [scope EXCEPT ![s] = IF last THEN [me EXCEPT !.pc = "drop"]
                                         ELSE [me EXCEPT !.at = me.at + 1]]
    BY PublishedSlot
  <1>2. /\ me \in ScopeRecord /\ me.leases \in Seq(SUBSET Slots) /\ me.at \in Nat /\ ScopeInv(s)
        /\ \A x \in Slots : slots[x] \in SlotRecord /\ slots[x].value \in {{}, {x}}
    BY InBuild
  <1>3. PICK b \in Builds : Leases(me, b)
    BY <1>1, <1>2 DEF ScopeInv, Building
  <1>4. ASSUME NEW x \in Slots
        PROVE  /\ slots'[x] \in SlotRecord /\ slots'[x].value \in {{}, {x}}
               /\ slots'[x].holder = slots[x].holder
               /\ slots[x].holder \in {{}, {s}} \/ slots'[x] = slots[x]
               /\ slots[x].value # {} => slots'[x].value # {}
               /\ x \in stored => slots'[x].value = {x}
    <2>1. slots[x] \in SlotRecord /\ slots[x].value \in {{}, {x}}
      BY <1>2
    <2>2. CASE x \in stored
      <3>1. slots'[x] = [slots[x] EXCEPT !.value = {x}] /\ {x} \in SUBSET Slots
        BY <1>1, <2>2
      <3>2. slots'[x] \in SlotRecord /\ slots'[x].value = {x} /\ slots'[x].holder = slots[x].holder
        BY <2>1, <3>1 DEF SlotRecord
      <3>. QED BY <1>1, <2>2, <3>2
    <2>3. CASE x \notin stored
      BY <1>1, <2>1, <2>3
    <2>. QED BY <2>2, <2>3
  <1>5. slots' \in [Slots -> SlotRecord]
    BY <1>1, <1>4
  <1>6. PICK now : now = IF last THEN [me EXCEPT !.pc = "drop"] ELSE [me EXCEPT !.at = me.at + 1]
    OBVIOUS
  <1>7. /\ now \in ScopeRecord /\ now.leases = me.leases /\ now.build = me.build
        /\ now.fresh = me.fresh
        /\ now.pc \in {"drop", "publish"}
        /\ now.pc = "publish" => ~last /\ now.at = me.at + 1
    <2>1. CASE last
      <3>1. now = [me EXCEPT !.pc = "drop"]
        BY <1>6, <2>1
      <3>. QED BY <1>2, <3>1 DEF ScopeRecord, Building
    <2>2. CASE ~last
      <3>1. now = [me EXCEPT !.at = me.at + 1] /\ me.at + 1 \in Nat
        BY <1>2, <1>6, <2>2
      <3>. QED BY <1>1, <1>2, <2>2, <3>1 DEF ScopeRecord
    <2>. QED BY <2>1, <2>2
  <1>8. me.at \in 1..Len(me.leases) /\ Len(me.leases) \in Nat /\ DOMAIN me.leases = 1..Len(me.leases)
    BY <1>1, <1>2
  <1>9. Leases(now, b)
    <2>1. now.pc = "publish" => now.at \in 1..Len(now.leases)
      BY <1>7, <1>8
    <2>. QED BY <1>3, <1>7, <2>1 DEF Leases
  <1>10. Locked(me) = DOMAIN me.leases /\ Locked(now) \subseteq DOMAIN me.leases
    BY <1>1, <1>7 DEF Locked
  <1>11. /\ \A i \in DOMAIN me.leases : \A x \in me.leases[i] : x \in Slots /\ slots[x].holder = {s}
         /\ \A i, j \in DOMAIN me.leases : i # j => me.leases[i] \cap me.leases[j] = {}
    BY <1>2, <1>10 DEF ScopeInv, Holds
  <1>12. Holds(s, now)'
    BY <1>4, <1>7, <1>10, <1>11 DEF Holds
  <1>13. FreshIsFresh(now)'
    <2>. SUFFICES ASSUME now.pc = "publish", NEW i \in DOMAIN me.leases, NEW x \in me.leases[i]
                  PROVE  /\ x \in me.fresh /\ i >= me.at + 1 => slots'[x].value = {}
                         /\ x \notin me.fresh => slots'[x].value # {}
      BY <1>7 DEF FreshIsFresh
    <2>1. x \in Slots
      BY <1>11
    <2>2. ASSUME x \in me.fresh, i >= me.at + 1 PROVE slots'[x].value = {}
      <3>1. i # me.at /\ i >= me.at
        BY <1>8, <2>2
      <3>2. x \notin stored
        BY <1>1, <1>11, <3>1
      <3>3. slots[x].value = {}
        BY <1>1, <1>2, <2>2, <3>1 DEF ScopeInv, FreshIsFresh
      <3>. QED BY <1>1, <2>1, <3>2, <3>3
    <2>3. ASSUME x \notin me.fresh PROVE slots'[x].value # {}
      <3>1. slots[x].value # {}
        BY <1>1, <1>2, <2>3 DEF ScopeInv, FreshIsFresh
      <3>. QED BY <1>4, <2>1, <3>1
    <2>. QED BY <2>2, <2>3
  <1>14. now.pc # "idle"
    BY <1>7
  <1>. HIDE DEF last
  <1>. QED BY <1>1, <1>4, <1>5, <1>6, <1>7, <1>9, <1>12, <1>13, <1>14, ScopeMoves

\* A preparation is shared, or the scope ends.
LEMMA BetweenBuilds ==
  ASSUME SlotsInv, NEW s \in Scopes,
         (\E p \in Problems : SharePreparation(s, p)) \/ End(s)
  PROVE  SlotsInv'
  <1>. DEFINE me == scope[s]
  <1>1. me.pc = "idle" /\ slots' = slots
    BY DEF SharePreparation, End
  <1>2. /\ me \in ScopeRecord /\ me.tasks \in Nat /\ ScopeInv(s)
        /\ \A x \in Slots : slots[x].value \in {{}, {x}}
    BY InBuild
  <1>3. scope \in [Scopes -> ScopeRecord] /\ slots \in [Slots -> SlotRecord]
    BY DEF SlotsInv
  <1>4. PICK now \in {[me EXCEPT !.tasks = me.tasks + 1], [me EXCEPT !.pc = "over"]} :
           scope' = [scope EXCEPT ![s] = now]
    BY <1>3 DEF SharePreparation, End
  <1>5. /\ now \in ScopeRecord /\ now.pc \in {"idle", "over"} /\ now.at = me.at
    <2>1. me.tasks + 1 \in Nat
      BY <1>2
    <2>. QED BY <1>1, <1>2, <1>4, <2>1 DEF ScopeRecord
  <1>6. me.at = 1
    BY <1>1, <1>2 DEF ScopeInv
  <1>. QED BY <1>1, <1>2, <1>3, <1>4, <1>5, <1>6, OutOfBuild

\* Every step keeps mutual exclusion and what it protects.
LEMMA SlotsStep == SlotsInv /\ [Next]_vars => SlotsInv'
  <1>. SUFFICES ASSUME SlotsInv, [Next]_vars PROVE SlotsInv'
    OBVIOUS
  <1>1. CASE \E s \in Scopes : Step(s)
    <2>1. PICK s \in Scopes : Step(s)
      BY <1>1
    <2>. QED BY <2>1, BeginSlots, BetweenBuilds, LockSlots, LeaseSlots, FitSlots, PanicSlots,
                PublishSlots, DropSlots DEF Step
  <1>2. CASE UNCHANGED vars
    BY <1>2 DEF vars, SlotsInv, ScopeInv, Holds, FreshIsFresh
  <1>. QED BY <1>1, <1>2 DEF Next
-----------------------------------------------------------------------------
(* Fits and readers.                                                       *)

\* No step but a publication touches a fit.
LEMMA OnlyPublishStores ==
  ASSUME SlotsInv, NEW s \in Scopes, Step(s), ~Publish(s)
  PROVE  /\ \A x \in Slots : slots'[x].value = slots[x].value
         /\ UNCHANGED <<fits, used, scopes>>
  <1>1. \A x \in Slots : slots[x] \in SlotRecord
    BY DEF SlotsInv
  <1>2. UNCHANGED <<fits, used, scopes>>
    BY DEF Step, Begin, SharePreparation, LockSlot, LeaseOutcome, Fit, Panic, Drop, End
  <1>3. CASE Panic(s)
    <2>1. ASSUME NEW x \in Slots PROVE slots'[x].value = slots[x].value
      <3>1. slots'[x] = IF slots[x].holder = {s}
                        THEN [slots[x] EXCEPT !.holder = {}, !.poisoned = TRUE] ELSE slots[x]
        BY <1>3 DEF Panic
      <3>. QED BY <1>1, <3>1 DEF SlotRecord
    <2>. QED BY <1>2, <2>1
  <1>4. CASE Drop(s)
    <2>1. ASSUME NEW x \in Slots PROVE slots'[x].value = slots[x].value
      <3>1. slots'[x] = IF Release(s, x) THEN [slots[x] EXCEPT !.holder = {}] ELSE slots[x]
        BY <1>4 DEF Drop
      <3>. QED BY <1>1, <3>1 DEF SlotRecord
    <2>. QED BY <1>2, <2>1
  <1>5. CASE LockSlot(s)
    <2>1. slots' = slots \/ Acquire(s, scope[s].leases[scope[s].at])
      BY <1>5 DEF LockSlot
    <2>2. ASSUME NEW xs, Acquire(s, xs), NEW x \in Slots PROVE slots'[x].value = slots[x].value
      <3>1. slots'[x] = IF x \in xs THEN [slots[x] EXCEPT !.holder = {s}] ELSE slots[x]
        BY <2>2 DEF Acquire
      <3>. QED BY <1>1, <3>1 DEF SlotRecord
    <2>. QED BY <1>2, <2>1, <2>2
  <1>6. CASE ~Panic(s) /\ ~Drop(s) /\ ~LockSlot(s)
    <2>1. slots' = slots
      BY <1>6 DEF Step, Begin, SharePreparation, LeaseOutcome, Fit, End
    <2>. QED BY <1>2, <2>1
  <1>. QED BY <1>3, <1>4, <1>5, <1>6

\* A slot that held no fit is one fit more.
LEMMA FitsStep == SlotsInv /\ FitsInv /\ [Next]_vars => FitsInv'
  <1>. SUFFICES ASSUME SlotsInv, FitsInv, [Next]_vars PROVE FitsInv'
    OBVIOUS
  <1>1. ASSUME \A x \in Slots : slots'[x].value = slots[x].value, fits' = fits PROVE FitsInv'
    <2>1. \A k : Made(k)' = Made(k)
      BY <1>1 DEF Made
    <2>. QED BY <1>1, <2>1 DEF FitsInv
  <1>2. ASSUME NEW s \in Scopes, Publish(s) PROVE FitsInv'
    <2>. DEFINE me == scope[s]
                xs == me.leases[me.at]
                stored == xs \cap me.fresh
    <2>1. /\ xs \in SUBSET Slots /\ \A x, y \in xs : x = y
          /\ \A x \in stored : slots[x].value = {}
          /\ \A x \in Slots :
                /\ x \in stored => slots'[x] = [slots[x] EXCEPT !.value = {x}]
                /\ x \notin stored => slots'[x] = slots[x]
          /\ fits' = [k \in {"propensity", "outcome"} |->
                         fits[k] + Cardinality({x \in stored : Kind(x) = k})]
      BY <1>2, PublishedSlot
    <2>2. \A x \in Slots : slots[x] \in SlotRecord
      BY DEF SlotsInv
    <2>3. ASSUME NEW x \in stored PROVE slots'[x].value = {x}
      <3>1. x \in Slots /\ slots'[x] = [slots[x] EXCEPT !.value = {x}]
        BY <2>1
      <3>2. slots[x] \in SlotRecord
        BY <2>2, <3>1
      <3>. HIDE DEF stored
      <3>. QED BY <3>1, <3>2 DEF SlotRecord
    <2>4. ASSUME NEW k \in {"propensity", "outcome"}
          PROVE  IsFiniteSet(Made(k)') /\ fits'[k] = Cardinality(Made(k)') /\ fits'[k] \in Nat
      <3>. DEFINE new == {x \in stored : Kind(x) = k}
      <3>1. Made(k)' = Made(k) \cup new
        BY <2>1, <2>3 DEF Made
      <3>2. IsFiniteSet(Made(k)) /\ fits[k] = Cardinality(Made(k)) /\ fits[k] \in Nat
        BY DEF FitsInv
      <3>3. fits'[k] = fits[k] + Cardinality(new)
        BY <2>1
      <3>4. CASE new = {}
        <4>1. Made(k)' = Made(k) /\ Cardinality(new) = 0
          BY <3>1, <3>4, FS_EmptySet
        <4>. HIDE DEF new
        <4>. QED BY <3>2, <3>3, <4>1
      <3>5. CASE new # {}
        <4>1. PICK x : x \in new
          BY <3>5
        <4>2. new = {x} /\ x \notin Made(k)
          BY <2>1, <4>1 DEF Made
        <4>. HIDE DEF new
        <4>3. Cardinality(new) = 1
          BY <4>2, FS_Singleton
        <4>4. IsFiniteSet(Made(k) \cup {x}) /\ Cardinality(Made(k) \cup {x}) = Cardinality(Made(k)) + 1
          BY <3>2, <4>2, FS_AddElement
        <4>5. IsFiniteSet(Made(k)') /\ Cardinality(Made(k)') = Cardinality(Made(k)) + 1
          BY <3>1, <4>2, <4>4
        <4>. QED BY <3>2, <3>3, <4>3, <4>5
      <3>. QED BY <3>4, <3>5
    <2>5. fits' \in [{"propensity", "outcome"} -> Nat]
      BY <2>1, <2>4
    <2>. QED BY <2>4, <2>5 DEF FitsInv
  <1>3. CASE \E s \in Scopes : Step(s)
    <2>1. PICK s \in Scopes : Step(s)
      BY <1>3
    <2>. QED BY <1>1, <1>2, <2>1, OnlyPublishStores
  <1>4. CASE UNCHANGED vars
    BY <1>1, <1>4 DEF vars
  <1>. QED BY <1>3, <1>4 DEF Next

\* A scope that reads an entry is counted for it, once.
LEMMA UseStep == SlotsInv /\ UseInv /\ [Next]_vars => UseInv'
  <1>. SUFFICES ASSUME SlotsInv, UseInv, [Next]_vars PROVE UseInv'
    OBVIOUS
  <1>1. ASSUME UNCHANGED <<used, scopes>> PROVE UseInv'
    BY <1>1 DEF UseInv, Readers
  <1>2. ASSUME NEW s \in Scopes, Publish(s) PROVE UseInv'
    <2>1. PICK xs \in SUBSET Slots : NoteUse(s, xs)
      BY <1>2, PublishedSlot
    <2>2. used' = [used EXCEPT ![s] = used[s] \cup xs] /\ used \in [Scopes -> SUBSET Slots]
      BY <2>1 DEF NoteUse, UseInv
    <2>3. used' \in [Scopes -> SUBSET Slots]
      BY <2>2
    <2>4. ASSUME NEW x \in Slots
          PROVE  IsFiniteSet(Readers(x)') /\ scopes'[x] = Cardinality(Readers(x)') /\ scopes'[x] \in Nat
      <3>1. scopes'[x] = IF x \in xs \ used[s] THEN scopes[x] + 1 ELSE scopes[x]
        BY <2>1 DEF NoteUse
      <3>2. IsFiniteSet(Readers(x)) /\ scopes[x] = Cardinality(Readers(x)) /\ scopes[x] \in Nat
        BY DEF UseInv
      <3>3. CASE x \in xs \ used[s]
        <4>1. Readers(x)' = Readers(x) \cup {s} /\ s \notin Readers(x)
          BY <2>2, <3>3 DEF Readers
        <4>2. /\ IsFiniteSet(Readers(x) \cup {s})
              /\ Cardinality(Readers(x) \cup {s}) = Cardinality(Readers(x)) + 1
          BY <3>2, <4>1, FS_AddElement
        <4>3. IsFiniteSet(Readers(x)') /\ Cardinality(Readers(x)') = Cardinality(Readers(x)) + 1
          BY <4>1, <4>2
        <4>. QED BY <3>1, <3>2, <3>3, <4>3
      <3>4. CASE x \notin xs \ used[s]
        <4>1. Readers(x)' = Readers(x)
          BY <2>2, <3>4 DEF Readers
        <4>. QED BY <3>1, <3>2, <3>4, <4>1
      <3>. QED BY <3>3, <3>4
    <2>5. scopes' \in [Slots -> Nat]
      BY <2>1, <2>4 DEF NoteUse
    <2>. QED BY <2>3, <2>4, <2>5 DEF UseInv
  <1>3. CASE \E s \in Scopes : Step(s)
    <2>1. PICK s \in Scopes : Step(s)
      BY <1>3
    <2>. QED BY <1>1, <1>2, <2>1, OnlyPublishStores
  <1>4. CASE UNCHANGED vars
    BY <1>1, <1>4 DEF vars
  <1>. QED BY <1>3, <1>4 DEF Next

-----------------------------------------------------------------------------
(* What is retained.                                                       *)

\* A number times one more.
LEMMA OneMore ==
  ASSUME NEW c \in Nat, NEW n \in Nat
  PROVE  /\ c * (n + 1) = c * n + c /\ c * n \in Nat
         /\ n # 0 => c * (n - 1) = c * n - c
  OBVIOUS

\* An entry more is charged its cost.
LEMMA RetainKeeps ==
  ASSUME RetainedInv, NEW x \in Slots, Retain(x), UNCHANGED preparations PROVE RetainedInv'
  <1>. DEFINE P == {y \in entries : IsPropensity(y)}
              Q == {y \in entries : ~IsPropensity(y)}
  <1>1. /\ IsFiniteSet(P) /\ IsFiniteSet(Q) /\ Cardinality(P) \in Nat /\ Cardinality(Q) \in Nat
    <2>1. IsFiniteSet(P) /\ IsFiniteSet(Q)
      <3>1. P \in SUBSET entries /\ Q \in SUBSET entries
        OBVIOUS
      <3>. HIDE DEF P, Q
      <3>. QED BY <3>1, FS_Subset DEF RetainedInv
    <2>. QED BY <2>1, FS_CardinalityType
  <1>2. /\ KeyCost \in Nat /\ OutcomeCost \in Nat /\ MaxRetained \in Nat
        /\ Cardinality(PreparedValues(Prepared)) \in Nat /\ retained \in Nat
    BY CostAssumption, FS_CardinalityType DEF RetainedInv
  <1>3. /\ Charged = KeyCost * Cardinality(P) + OutcomeCost * Cardinality(Q)
        /\ retained = Charged + Cardinality(PreparedValues(Prepared))
    BY DEF Charged, RetainedInv, RetainedIsExact
  <1>0. UNCHANGED <<Prepared, PreparedValues(Prepared)>>
    BY DEF Prepared, PreparedValues
  <1>4. CASE x \in entries \/ Lease(x) = {}
    <2>1. entries' = entries /\ retained' = retained
      BY <1>4 DEF Retain, Lease
    <2>. QED BY <1>0, <2>1 DEF RetainedInv, RetainedIsExact, Charged
  <1>5. CASE x \notin entries /\ Lease(x) # {}
    <2>1. /\ entries' = entries \cup {x} /\ retained' = retained + Cost(x)
          /\ retained + Cost(x) <= MaxRetained
      BY <1>5 DEF Retain, Lease
    <2>2. IsFiniteSet(entries') /\ entries' \subseteq Slots
      BY <2>1, FS_AddElement DEF RetainedInv
    <2>3. CASE IsPropensity(x)
      <3>1. /\ {y \in entries' : IsPropensity(y)} = P \cup {x} /\ x \notin P
            /\ {y \in entries' : ~IsPropensity(y)} = Q
        BY <1>5, <2>1, <2>3
      <3>2. Cardinality(P \cup {x}) = Cardinality(P) + 1
        <4>. HIDE DEF P
        <4>. QED BY <1>1, <3>1, FS_AddElement
      <3>3. Charged' = KeyCost * (Cardinality(P) + 1) + OutcomeCost * Cardinality(Q)
        BY <3>1, <3>2 DEF Charged
      <3>. HIDE DEF P, Q
      <3>4. /\ KeyCost * (Cardinality(P) + 1) = KeyCost * Cardinality(P) + KeyCost
            /\ KeyCost * Cardinality(P) \in Nat /\ OutcomeCost * Cardinality(Q) \in Nat
            /\ Cardinality(PreparedValues(Prepared)) \in Nat
        BY <1>1, <1>2, OneMore
      <3>5. Cost(x) = KeyCost
        BY <2>3 DEF Cost
      <3>6. retained' = Charged' + Cardinality(PreparedValues(Prepared)) /\ retained' \in Nat
        <4>1. PICK a \in Nat, b \in Nat, c \in Nat :
                 /\ a = KeyCost * Cardinality(P) /\ b = OutcomeCost * Cardinality(Q)
                 /\ c = Cardinality(PreparedValues(Prepared))
          BY <3>4
        <4>2. retained = (a + b) + c /\ Charged' = (a + KeyCost) + b
          BY <1>3, <3>3, <3>4, <4>1
        <4>3. retained' = Charged' + c /\ retained' \in Nat
          BY <1>2, <2>1, <3>5, <4>2
        <4>. QED BY <4>1, <4>3
      <3>. QED BY <1>0, <2>1, <2>2, <3>6 DEF RetainedInv, RetainedIsExact
    <2>4. CASE ~IsPropensity(x)
      <3>1. /\ {y \in entries' : ~IsPropensity(y)} = Q \cup {x} /\ x \notin Q
            /\ {y \in entries' : IsPropensity(y)} = P
        BY <1>5, <2>1, <2>4
      <3>2. Cardinality(Q \cup {x}) = Cardinality(Q) + 1
        <4>. HIDE DEF Q
        <4>. QED BY <1>1, <3>1, FS_AddElement
      <3>3. Charged' = KeyCost * Cardinality(P) + OutcomeCost * (Cardinality(Q) + 1)
        BY <3>1, <3>2 DEF Charged
      <3>. HIDE DEF P, Q
      <3>4. /\ OutcomeCost * (Cardinality(Q) + 1) = OutcomeCost * Cardinality(Q) + OutcomeCost
            /\ KeyCost * Cardinality(P) \in Nat /\ OutcomeCost * Cardinality(Q) \in Nat
            /\ Cardinality(PreparedValues(Prepared)) \in Nat
        BY <1>1, <1>2, OneMore
      <3>5. Cost(x) = OutcomeCost
        BY <2>4 DEF Cost
      <3>6. retained' = Charged' + Cardinality(PreparedValues(Prepared)) /\ retained' \in Nat
        <4>1. PICK a \in Nat, b \in Nat, c \in Nat :
                 /\ a = KeyCost * Cardinality(P) /\ b = OutcomeCost * Cardinality(Q)
                 /\ c = Cardinality(PreparedValues(Prepared))
          BY <3>4
        <4>2. retained = (a + b) + c /\ Charged' = a + (b + OutcomeCost)
          BY <1>3, <3>3, <3>4, <4>1
        <4>3. retained' = Charged' + c /\ retained' \in Nat
          BY <1>2, <2>1, <3>5, <4>2
        <4>. QED BY <4>1, <4>3
      <3>. QED BY <1>0, <2>1, <2>2, <3>6 DEF RetainedInv, RetainedIsExact
    <2>. QED BY <2>3, <2>4
  <1>. QED BY <1>4, <1>5
\* What the entries cost is a number.
LEMMA ChargedType ==
  ASSUME RetainedInv PROVE Charged \in Nat
  <1>. DEFINE P == {y \in entries : IsPropensity(y)}
              Q == {y \in entries : ~IsPropensity(y)}
  <1>1. P \in SUBSET entries /\ Q \in SUBSET entries /\ IsFiniteSet(entries)
    BY DEF RetainedInv
  <1>2. Charged = KeyCost * Cardinality(P) + OutcomeCost * Cardinality(Q)
    BY DEF Charged
  <1>. HIDE DEF P, Q
  <1>3. Cardinality(P) \in Nat /\ Cardinality(Q) \in Nat
    BY <1>1, FS_Subset, FS_CardinalityType
  <1>4. KeyCost * Cardinality(P) \in Nat /\ OutcomeCost * Cardinality(Q) \in Nat
    BY <1>3, CostAssumption, OneMore
  <1>. QED BY <1>2, <1>4

\* One more preparation retains its own values.
LEMMA PrepareOne ==
  ASSUME NEW P, IsFiniteSet(PreparedValues(P)), NEW p \in Problems, p \notin P
  PROVE  /\ IsFiniteSet(PreparedValues(P \cup {p}))
         /\ Cardinality(PreparedValues(P)) \in Nat
         /\ Cardinality(PreparedValues(P \cup {p})) = Cardinality(PreparedValues(P)) + ProblemCost[p]
  <1>. DEFINE V == PreparedValues(P)
              W == {p} \X (1..ProblemCost[p])
  <1>1. ProblemCost[p] \in Nat
    BY CostAssumption
  <1>2. IsFiniteSet({p}) /\ Cardinality({p}) = 1
    BY FS_Singleton
  <1>3. IsFiniteSet(1..ProblemCost[p]) /\ Cardinality(1..ProblemCost[p]) = ProblemCost[p]
    <2>. DEFINE c == ProblemCost[p]
    <2>. HIDE DEF c
    <2>1. c \in Int /\ 1 \in Int /\ c \in Nat
      BY <1>1 DEF c
    <2>2. IsFiniteSet(1..c) /\ Cardinality(1..c) = IF 1 > c THEN 0 ELSE c - 1 + 1
      BY <2>1, FS_Interval
    <2>3. Cardinality(1..c) = c
      BY <2>1, <2>2
    <2>. QED BY <2>2, <2>3 DEF c
  <1>4. IsFiniteSet(W) /\ Cardinality(W) = ProblemCost[p]
    <2>1. IsFiniteSet(W) /\ Cardinality(W) = Cardinality({p}) * Cardinality(1..ProblemCost[p])
      BY <1>2, <1>3, FS_Product
    <2>. QED BY <1>1, <1>2, <1>3, <2>1
  <1>5. V \cap W = {} /\ PreparedValues(P \cup {p}) = V \cup W
    BY DEF PreparedValues
  <1>6. Cardinality(V) \in Nat
    BY FS_CardinalityType
  <1>. HIDE DEF V, W
  <1>7. IsFiniteSet(V)
    BY DEF V
  <1>8. /\ IsFiniteSet(V \cup W)
        /\ Cardinality(V \cup W) = Cardinality(V) + Cardinality(W) - Cardinality(V \cap W)
    BY <1>4, <1>7, FS_Union
  <1>9. Cardinality(V \cap W) = 0
    BY <1>5, FS_EmptySet
  <1>10. Cardinality(V \cup W) = Cardinality(V) + ProblemCost[p]
    BY <1>1, <1>4, <1>6, <1>8, <1>9
  <1>. QED BY <1>5, <1>6, <1>8, <1>10 DEF V

\* The preparations once the oldest left, and with one more at the end.
LEMMA PreparedTail ==
  ASSUME NEW q \in Seq(Problems), q # <<>>,
         \A i, j \in DOMAIN q : q[i] = q[j] => i = j
  PROVE  /\ Tail(q) \in Seq(Problems) /\ Len(Tail(q)) = Len(q) - 1
         /\ \A i, j \in DOMAIN Tail(q) : Tail(q)[i] = Tail(q)[j] => i = j
         /\ Head(q) \in Problems /\ Head(q) \notin {Tail(q)[i] : i \in DOMAIN Tail(q)}
         /\ {q[i] : i \in DOMAIN q} = {Tail(q)[i] : i \in DOMAIN Tail(q)} \cup {Head(q)}
  <1>1. /\ Len(q) \in Nat /\ Len(q) # 0 /\ DOMAIN q = 1..Len(q)
        /\ Tail(q) \in Seq(Problems) /\ Len(Tail(q)) = Len(q) - 1
        /\ DOMAIN Tail(q) = 1..(Len(q) - 1)
        /\ Head(q) = q[1] /\ Head(q) \in Problems
    OBVIOUS
  <1>2. \A i \in 1..(Len(q) - 1) : Tail(q)[i] = q[i + 1] /\ i + 1 \in 1..Len(q) /\ i + 1 # 1
    BY <1>1
  <1>3. \A i \in 1..Len(q) : i = 1 \/ (i - 1 \in 1..(Len(q) - 1) /\ q[i] = Tail(q)[i - 1])
    BY <1>1
  <1>4. \A i, j \in DOMAIN Tail(q) : Tail(q)[i] = Tail(q)[j] => i = j
    BY <1>1, <1>2
  <1>5. Head(q) \notin {Tail(q)[i] : i \in DOMAIN Tail(q)}
    <2>1. 1 \in DOMAIN q
      BY <1>1
    <2>. QED BY <1>1, <1>2, <2>1
  <1>6. {q[i] : i \in DOMAIN q} = {Tail(q)[i] : i \in DOMAIN Tail(q)} \cup {Head(q)}
    <2>1. ASSUME NEW i \in DOMAIN q
          PROVE  q[i] \in {Tail(q)[j] : j \in DOMAIN Tail(q)} \cup {Head(q)}
      BY <1>1, <1>3
    <2>2. ASSUME NEW i \in DOMAIN Tail(q) PROVE Tail(q)[i] \in {q[j] : j \in DOMAIN q}
      BY <1>1, <1>2
    <2>3. Head(q) \in {q[j] : j \in DOMAIN q}
      BY <1>1
    <2>. QED BY <2>1, <2>2, <2>3
  <1>. QED BY <1>1, <1>4, <1>5, <1>6

LEMMA PreparedAppend ==
  ASSUME NEW q \in Seq(Problems), NEW p \in Problems,
         p \notin {q[i] : i \in DOMAIN q},
         \A i, j \in DOMAIN q : q[i] = q[j] => i = j
  PROVE  /\ Append(q, p) \in Seq(Problems) /\ Len(Append(q, p)) = Len(q) + 1
         /\ \A i, j \in DOMAIN Append(q, p) : Append(q, p)[i] = Append(q, p)[j] => i = j
         /\ {Append(q, p)[i] : i \in DOMAIN Append(q, p)} = {q[i] : i \in DOMAIN q} \cup {p}
  <1>1. /\ Len(q) \in Nat /\ DOMAIN q = 1..Len(q)
        /\ Append(q, p) \in Seq(Problems) /\ Len(Append(q, p)) = Len(q) + 1
        /\ DOMAIN Append(q, p) = 1..(Len(q) + 1)
        /\ Append(q, p)[Len(q) + 1] = p
        /\ \A i \in 1..Len(q) : Append(q, p)[i] = q[i]
    OBVIOUS
  <1>2. \A i \in 1..(Len(q) + 1) : i \in 1..Len(q) \/ i = Len(q) + 1
    BY <1>1
  <1>3. 1..Len(q) \subseteq 1..(Len(q) + 1) /\ Len(q) + 1 \in 1..(Len(q) + 1)
    BY <1>1
  <1>4. \A i, j \in DOMAIN Append(q, p) : Append(q, p)[i] = Append(q, p)[j] => i = j
    BY <1>1, <1>2
  <1>5. {Append(q, p)[i] : i \in DOMAIN Append(q, p)} = {q[i] : i \in DOMAIN q} \cup {p}
    BY <1>1, <1>2, <1>3
  <1>. QED BY <1>1, <1>4, <1>5

\* A shared preparation is charged what it costs, and the one that makes room is not
\* charged any more, whatever each of them costs.
LEMMA ShareKeeps ==
  ASSUME RetainedInv, NEW s \in Scopes, NEW p \in Problems, SharePreparation(s, p)
  PROVE  RetainedInv'
  <1>. DEFINE n == Len(preparations)
              full == n = MaxPreparations
              kept == IF full THEN Tail(preparations) ELSE preparations
              K == {kept[i] : i \in DOMAIN kept}
              known == \E i \in DOMAIN preparations : preparations[i] = p
              left == AfterEviction(p)
              fits_in == left + ProblemCost[p] <= MaxRetained
  <1>1. /\ entries' = entries
        /\ preparations' = IF known THEN preparations
                           ELSE IF fits_in THEN Append(kept, p) ELSE kept
        /\ retained' = IF known THEN retained
                       ELSE IF fits_in THEN left + ProblemCost[p] ELSE left
    BY DEF SharePreparation
  <1>2. /\ preparations \in Seq(Problems) /\ n \in Nat /\ n <= MaxPreparations
        /\ \A i, j \in DOMAIN preparations : preparations[i] = preparations[j] => i = j
        /\ MaxPreparations \in Nat \ {0} /\ ProblemCost[p] \in Nat /\ MaxRetained \in Nat
        /\ IsFiniteSet(PreparedValues(Prepared))
        /\ Cardinality(PreparedValues(Prepared)) \in Nat
        /\ Charged \in Nat /\ retained \in Nat
        /\ retained = Charged + Cardinality(PreparedValues(Prepared)) /\ retained <= MaxRetained
        /\ entries \subseteq Slots /\ IsFiniteSet(entries)
    BY CostAssumption, ChargedType, FS_CardinalityType DEF RetainedInv, RetainedIsExact
  <1>3. Charged' = Charged
    BY <1>1 DEF Charged
  <1>4. /\ kept \in Seq(Problems) /\ Len(kept) \in Nat /\ Len(kept) + 1 <= MaxPreparations
        /\ \A i, j \in DOMAIN kept : kept[i] = kept[j] => i = j
        /\ K \subseteq Prepared
        /\ IsFiniteSet(PreparedValues(K)) /\ Cardinality(PreparedValues(K)) \in Nat
        /\ left = Charged + Cardinality(PreparedValues(K))
        /\ left \in Nat /\ left <= MaxRetained
    <2>1. CASE full
      <3>1. preparations # <<>>
        BY <1>2, <2>1
      <3>2. kept = Tail(preparations) /\ left = retained - ProblemCost[Head(preparations)]
        BY <2>1 DEF AfterEviction
      <3>3. /\ kept \in Seq(Problems) /\ Len(kept) = n - 1
            /\ \A i, j \in DOMAIN kept : kept[i] = kept[j] => i = j
            /\ Head(preparations) \in Problems /\ Head(preparations) \notin K
            /\ Prepared = K \cup {Head(preparations)}
        <4>1. /\ Tail(preparations) \in Seq(Problems) /\ Len(Tail(preparations)) = Len(preparations) - 1
              /\ \A i, j \in DOMAIN Tail(preparations) :
                    Tail(preparations)[i] = Tail(preparations)[j] => i = j
              /\ Head(preparations) \in Problems
              /\ Head(preparations) \notin {Tail(preparations)[i] : i \in DOMAIN Tail(preparations)}
              /\ Prepared = {Tail(preparations)[i] : i \in DOMAIN Tail(preparations)}
                               \cup {Head(preparations)}
          <5>1. /\ preparations \in Seq(Problems)
                /\ \A i, j \in DOMAIN preparations : preparations[i] = preparations[j] => i = j
            BY <1>2
          <5>. QED BY <3>1, <5>1, PreparedTail DEF Prepared
        <4>. HIDE DEF kept
        <4>. QED BY <3>2, <4>1
      <3>. HIDE DEF K, kept, left, n
      <3>4. PreparedValues(K) \subseteq PreparedValues(Prepared)
        BY <3>3 DEF PreparedValues
      <3>5. IsFiniteSet(PreparedValues(K))
        BY <1>2, <3>4, FS_Subset
      <3>6. /\ Cardinality(PreparedValues(K)) \in Nat /\ ProblemCost[Head(preparations)] \in Nat
            /\ Cardinality(PreparedValues(Prepared))
                  = Cardinality(PreparedValues(K)) + ProblemCost[Head(preparations)]
        BY <3>3, <3>5, PrepareOne, CostAssumption
      <3>7. /\ left = Charged + Cardinality(PreparedValues(K))
            /\ left \in Nat /\ left <= MaxRetained
        <4>1. PICK a \in Nat, b \in Nat, c \in Nat :
                 /\ a = Charged /\ b = Cardinality(PreparedValues(K))
                 /\ c = ProblemCost[Head(preparations)]
          BY <1>2, <3>6
        <4>2. retained = a + (b + c) /\ left = retained - c /\ retained <= MaxRetained
          BY <1>2, <3>2, <3>6, <4>1
        <4>3. left = a + b /\ left \in Nat /\ left <= MaxRetained
          BY <1>2, <4>2
        <4>. QED BY <4>1, <4>3
      <3>8. Len(kept) \in Nat /\ Len(kept) + 1 <= MaxPreparations
        <4>1. n # 0
          BY <1>2, <2>1 DEF n
        <4>. QED BY <1>2, <3>3, <4>1
      <3>. QED BY <3>3, <3>5, <3>6, <3>7, <3>8
    <2>2. CASE ~full
      <3>1. kept = preparations /\ left = retained /\ K = Prepared
        BY <2>2 DEF AfterEviction, Prepared
      <3>2. n + 1 <= MaxPreparations
        BY <1>2, <2>2
      <3>. QED BY <1>2, <3>1, <3>2
    <2>. QED BY <2>1, <2>2
  <1>5. known <=> p \in Prepared
    BY DEF Prepared
  <1>6. ASSUME preparations' = kept, retained' = left PROVE RetainedInv'
    <2>1. Prepared' = K
      BY <1>6 DEF Prepared
    <2>2. Len(kept) <= MaxPreparations
      BY <1>2, <1>4
    <2>. HIDE DEF K, kept, left
    <2>3. PreparedValues(Prepared)' = PreparedValues(K)
      BY <2>1 DEF PreparedValues
    <2>. QED BY <1>1, <1>2, <1>3, <1>4, <1>6, <2>2, <2>3 DEF RetainedInv, RetainedIsExact
  <1>7. CASE known
    <2>1. UNCHANGED <<entries, retained, preparations>>
      BY <1>1, <1>7
    <2>. QED BY <2>1 DEF RetainedInv, RetainedIsExact, Charged, Prepared, PreparedValues
  <1>8. CASE ~known /\ fits_in
    <2>1. preparations' = Append(kept, p) /\ retained' = left + ProblemCost[p]
          /\ retained' <= MaxRetained
      BY <1>1, <1>8
    <2>2. p \notin K
      BY <1>4, <1>5, <1>8
    <2>3. /\ preparations' \in Seq(Problems) /\ Len(preparations') = Len(kept) + 1
          /\ \A i, j \in DOMAIN preparations' : preparations'[i] = preparations'[j] => i = j
          /\ Prepared' = K \cup {p}
      <3>1. /\ kept \in Seq(Problems) /\ p \notin {kept[i] : i \in DOMAIN kept}
            /\ \A i, j \in DOMAIN kept : kept[i] = kept[j] => i = j
        BY <1>4, <2>2
      <3>. HIDE DEF kept
      <3>2. /\ Append(kept, p) \in Seq(Problems) /\ Len(Append(kept, p)) = Len(kept) + 1
            /\ \A i, j \in DOMAIN Append(kept, p) : Append(kept, p)[i] = Append(kept, p)[j] => i = j
            /\ {Append(kept, p)[i] : i \in DOMAIN Append(kept, p)} = K \cup {p}
        BY <3>1, PreparedAppend
      <3>. QED BY <2>1, <3>2 DEF Prepared
    <2>. HIDE DEF K, kept, left
    <2>4. PreparedValues(Prepared)' = PreparedValues(K \cup {p})
      BY <2>3 DEF PreparedValues
    <2>5. /\ IsFiniteSet(PreparedValues(K \cup {p}))
          /\ Cardinality(PreparedValues(K \cup {p})) = Cardinality(PreparedValues(K)) + ProblemCost[p]
      BY <1>4, <2>2, PrepareOne
    <2>6. /\ retained' = Charged + Cardinality(PreparedValues(K \cup {p}))
          /\ retained' \in Nat
      <3>1. PICK a \in Nat, b \in Nat, c \in Nat :
               a = Charged /\ b = Cardinality(PreparedValues(K)) /\ c = ProblemCost[p]
        BY <1>2, <1>4
      <3>2. retained' = (a + b) + c /\ Cardinality(PreparedValues(K \cup {p})) = b + c
        BY <1>4, <2>1, <2>5, <3>1
      <3>. QED BY <3>1, <3>2
    <2>. QED BY <1>1, <1>2, <1>3, <1>4, <2>1, <2>3, <2>4, <2>5, <2>6 DEF RetainedInv, RetainedIsExact
  <1>9. CASE ~known /\ ~fits_in
    BY <1>1, <1>6, <1>9
  <1>. QED BY <1>7, <1>8, <1>9

\* Every step keeps the account of what is retained.
LEMMA RetainedStep == SlotsInv /\ RetainedInv /\ [Next]_vars => RetainedInv'
  <1>. SUFFICES ASSUME SlotsInv, RetainedInv, [Next]_vars PROVE RetainedInv'
    OBVIOUS
  <1>1. ASSUME UNCHANGED <<entries, retained, preparations>> PROVE RetainedInv'
    BY <1>1 DEF RetainedInv, RetainedIsExact, Charged, Prepared, PreparedValues
  <1>2. ASSUME NEW s \in Scopes, NEW b \in Builds, Begin(s, b) PROVE RetainedInv'
    <2>1. Retain(<<b.key>>) /\ preparations' = preparations
      BY <1>2 DEF Begin
    <2>2. <<b.key>> \in Slots
      BY BuildAssumption DEF Slots
    <2>3. PICK x \in Slots : x = <<b.key>>
      BY <2>2
    <2>4. Retain(x)
      BY <2>1, <2>3
    <2>. QED BY <2>1, <2>4, RetainKeeps
  <1>3. ASSUME NEW s \in Scopes, LeaseOutcome(s) PROVE RetainedInv'
    <2>. DEFINE me == scope[s]
                i == Len(me.leases) + 1
    <2>1. /\ me.pc = "lease" /\ preparations' = preparations
          /\ \E b \in me.build : Retain(SlotOf(b, i))
      BY <1>3 DEF LeaseOutcome
    <2>2. ScopeInv(s) /\ me.leases \in Seq(SUBSET Slots)
      BY InBuild
    <2>3. PICK b \in Builds : Leases(me, b)
      BY <2>1, <2>2 DEF ScopeInv, Building
    <2>4. Retain(SlotOf(b, i))
      BY <2>1, <2>3 DEF Leases
    <2>5. i \in 1..(Len(b.outcomes) + 1)
      BY <2>1, <2>2, <2>3, BuildAssumption DEF Leases
    <2>6. SlotOf(b, i) \in Slots
      BY <2>5, SlotIsInputs
    <2>7. PICK x \in Slots : x = SlotOf(b, i)
      BY <2>6
    <2>8. Retain(x)
      BY <2>4, <2>7
    <2>. QED BY <2>1, <2>8, RetainKeeps
  <1>4. CASE \E s \in Scopes : Step(s)
    <2>1. PICK s \in Scopes : Step(s)
      BY <1>4
    <2>2. CASE LockSlot(s) \/ Fit(s) \/ Panic(s) \/ Publish(s) \/ Drop(s) \/ End(s)
      <3>1. UNCHANGED <<entries, retained, preparations>>
        BY <2>2 DEF LockSlot, Fit, Panic, Publish, Drop, End
      <3>. QED BY <1>1, <3>1
    <2>. QED BY <1>2, <1>3, <2>1, <2>2, ShareKeeps DEF Step
  <1>5. CASE UNCHANGED vars
    BY <1>1, <1>5 DEF vars
  <1>. QED BY <1>4, <1>5 DEF Next

-----------------------------------------------------------------------------
(* The theorems.                                                           *)

\* The empty cache has the invariant.
LEMMA CacheInitially == Init => SlotsInv /\ FitsInv /\ UseInv /\ RetainedInv
  <1>. SUFFICES ASSUME Init PROVE SlotsInv /\ FitsInv /\ UseInv /\ RetainedInv
    OBVIOUS
  <1>1. SlotsInv
    <2>1. ASSUME NEW x \in Slots PROVE slots[x] \in SlotRecord /\ slots[x].value = {}
      BY DEF Init, SlotRecord
    <2>2. slots \in [Slots -> SlotRecord]
      BY <2>1 DEF Init
    <2>3. Idle(0) \in ScopeRecord /\ Idle(0).pc = "idle" /\ Idle(0).at = 1
      BY IdleRecord
    <2>4. ASSUME NEW s \in Scopes
          PROVE  /\ scope[s] \in ScopeRecord /\ scope[s].pc = "idle" /\ scope[s].at = 1
                 /\ Locked(scope[s]) = {}
      <3>1. scope[s] = Idle(0)
        BY DEF Init
      <3>2. scope[s].pc = "idle"
        BY <2>3, <3>1
      <3>. QED BY <2>3, <3>1, <3>2 DEF Locked
    <2>5. scope \in [Scopes -> ScopeRecord]
      BY <2>4 DEF Init
    <2>6. \A s \in Scopes : ScopeInv(s)
      BY <2>4 DEF ScopeInv, Holds, FreshIsFresh, Building
    <2>. QED BY <2>1, <2>2, <2>5, <2>6 DEF SlotsInv
  <1>2. FitsInv
    <2>1. \A k : Made(k) = {}
      BY DEF Made, Init
    <2>. QED BY <2>1, FS_EmptySet DEF FitsInv, Init
  <1>3. UseInv
    <2>1. \A x : Readers(x) = {}
      BY DEF Readers, Init
    <2>. QED BY <2>1, FS_EmptySet DEF UseInv, Init
  <1>4. RetainedInv
    <2>1. entries = {} /\ retained = 0 /\ preparations = <<>>
      BY DEF Init
    <2>2. /\ {x \in entries : IsPropensity(x)} = {} /\ {x \in entries : ~IsPropensity(x)} = {}
          /\ Cardinality({}) = 0 /\ IsFiniteSet({})
      BY <2>1, FS_EmptySet
    <2>3. /\ Charged = KeyCost * 0 + OutcomeCost * 0 /\ Prepared = {}
      BY <2>1, <2>2 DEF Charged, Prepared
    <2>4. PreparedValues(Prepared) = {}
      BY <2>3 DEF PreparedValues
    <2>5. Charged + Cardinality(PreparedValues(Prepared)) = 0
      <3>1. Charged = 0
        BY <2>3, CostAssumption
      <3>2. Cardinality(PreparedValues(Prepared)) = 0
        BY <2>2, <2>4
      <3>. QED BY <3>1, <3>2
    <2>. QED BY <2>1, <2>2, <2>4, <2>5, CostAssumption DEF RetainedInv, RetainedIsExact
  <1>. QED BY <1>1, <1>2, <1>3, <1>4

\* The slots invariant holds of every cache.
LEMMA SlotsInvariant == Spec => []SlotsInv
  <1>1. Init => SlotsInv
    BY CacheInitially
  <1>. QED BY <1>1, SlotsStep, PTL DEF Spec

\* Concurrent builds of the same key compute a fit once: propensity_fits and
\* outcome_fits are the slots that hold a fit, whichever builds failed, were cancelled
\* or panicked.
THEOREM FitsOnce == Spec => []FitOnce
  <1>1. Init => FitsInv
    BY CacheInitially
  <1>2. FitsInv => FitOnce
    BY DEF FitsInv, FitOnce, Made
  <1>. QED BY <1>1, <1>2, SlotsInvariant, FitsStep, PTL DEF Spec

\* A build that publishes a lease it did not fit reads the fit of its own propensity key
\* and outcome column, and no other.
THEOREM ReuseExact == Spec => []ReuseIsExact
  <1>1. SlotsInv => ReuseIsExact
    <2>. SUFFICES ASSUME SlotsInv, NEW s \in Scopes, scope[s].pc = "publish",
                         NEW b \in scope[s].build, NEW i \in DOMAIN scope[s].leases,
                         NEW x \in scope[s].leases[i] \ scope[s].fresh
                  PROVE  slots[x].value = {Inputs(b, i)}
      BY DEF ReuseIsExact
    <2>. DEFINE me == scope[s]
    <2>1. ScopeInv(s) /\ me.leases \in Seq(SUBSET Slots)
      BY InBuild
    <2>2. PICK c \in Builds : Leases(me, c)
      BY <2>1 DEF ScopeInv, Building
    <2>3. b = c
      BY <2>2 DEF Leases
    <2>4. i \in 1..(Len(b.outcomes) + 1) /\ x = SlotOf(b, i) /\ x \in Slots
      <3>1. i \in 1..Len(me.leases) /\ Len(me.leases) \in Nat /\ Len(me.leases) <= Len(b.outcomes) + 1
        BY <2>1, <2>2, <2>3 DEF Leases
      <3>2. Len(b.outcomes) \in Nat
        BY <2>2, <2>3, BuildAssumption
      <3>3. x = SlotOf(b, i)
        BY <2>2, <2>3 DEF Leases
      <3>. QED BY <2>1, <3>1, <3>2, <3>3
    <2>5. SlotOf(b, i) = Inputs(b, i)
      BY <2>2, <2>3, <2>4, SlotIsInputs
    <2>6. slots[x].value # {}
      BY <2>1 DEF ScopeInv, FreshIsFresh
    <2>7. slots[x].value \in {{}, {x}}
      BY <2>4, InBuild
    <2>. QED BY <2>4, <2>5, <2>6, <2>7
  <1>. QED BY <1>1, SlotsInvariant, PTL

\* Entries::retained is the cost of what the cache keeps and within
\* MAX_RETAINED_VALUES, after evictions whose newcomer found no room too.
THEOREM RetainedExact == Spec => []RetainedIsExact
  <1>1. Init => RetainedInv
    BY CacheInitially
  <1>2. RetainedInv => RetainedIsExact
    BY DEF RetainedInv
  <1>. QED BY <1>1, <1>2, SlotsInvariant, RetainedStep, PTL DEF Spec

\* What a finished scope reports as shared with another scope was read by another scope.
THEOREM SharingReal == Spec => []SharingIsReal
  <1>1. Init => UseInv
    BY CacheInitially
  <1>2. UseInv => SharingIsReal
    <2>. SUFFICES ASSUME UseInv, NEW s \in Scopes, NEW k
                  PROVE  SharedWithAnotherScope(s, k)
                            <=> \E t \in Scopes \ {s} : \E x \in used[s] \cap used[t] : Kind(x) = k
      BY DEF SharingIsReal
    <2>1. ASSUME NEW x \in used[s]
          PROVE  scopes[x] > 1 <=> \E t \in Scopes \ {s} : x \in used[t]
      <3>1. /\ x \in Slots /\ IsFiniteSet(Readers(x)) /\ scopes[x] = Cardinality(Readers(x))
            /\ scopes[x] \in Nat /\ s \in Readers(x)
        BY DEF UseInv, Readers
      <3>2. ASSUME scopes[x] > 1 PROVE \E t \in Scopes \ {s} : x \in used[t]
        <4>1. Readers(x) # {s}
          <5>1. Cardinality({s}) = 1
            BY FS_Singleton
          <5>. QED BY <3>1, <3>2, <5>1
        <4>. QED BY <3>1, <4>1 DEF Readers
      <3>3. ASSUME NEW t \in Scopes \ {s}, x \in used[t] PROVE scopes[x] > 1
        <4>1. {s} \in SUBSET Readers(x) /\ Readers(x) # {s}
          BY <3>1, <3>3 DEF Readers
        <4>2. Cardinality({s}) = 1
          BY FS_Singleton
        <4>3. PICK one : one = {s}
          OBVIOUS
        <4>4. Cardinality(one) <= Cardinality(Readers(x)) /\ Cardinality(Readers(x)) # Cardinality(one)
          BY <3>1, <4>1, <4>3, FS_Subset
        <4>. QED BY <3>1, <4>2, <4>3, <4>4
      <3>. QED BY <3>2, <3>3
    <2>. QED BY <2>1 DEF SharedWithAnotherScope
  <1>. QED BY <1>1, <1>2, SlotsInvariant, UseStep, PTL DEF Spec

-----------------------------------------------------------------------------
(* Waiting.  Only the first lock of a build is contended: an outcome slot  *)
(* is held together with the propensity slot it belongs to.                *)

\* A slot belongs to the build of the scope that holds it, and until the build ends it
\* is one of those the scope locked.
Held(x, me) ==
    /\ me.pc \in Building
    /\ \E b \in me.build : x[1] = b.key
    /\ me.pc # "drop" => \E i \in Locked(me) : x \in me.leases[i]

WaitInv ==
    /\ \A x \in Slots : \A s \in slots[x].holder :
          slots[x].holder = {s} /\ slots[<<x[1]>>].holder = {s} /\ Held(x, scope[s])
    /\ \A s \in Scopes : scope[s].pc \in Building =>
          \A b \in scope[s].build : scope[s].leases[1] = {<<b.key>>}

\* No scopes wait for each other in a circle.
ScopesCannotDeadlock ==
    \A T \in SUBSET Scopes : T # {} => \E s \in T : WaitsFor(s) \cap T \subseteq {s}

\* No build asks for the same column twice.
DistinctColumns ==
    \A b \in Builds : \A i, j \in DOMAIN b.outcomes : b.outcomes[i] = b.outcomes[j] => i = j

\* The propensity slot of a slot.
LEMMA SlotOfKey ==
  ASSUME NEW x \in Slots
  PROVE  /\ x[1] \in Keys /\ <<x[1]>> \in Slots /\ IsPropensity(<<x[1]>>)
         /\ <<x[1]>>[1] = x[1]
         /\ IsPropensity(x) <=> x = <<x[1]>>
  <1>1. CASE \E k \in Keys : x = <<k>>
    BY <1>1 DEF Slots, IsPropensity
  <1>2. CASE \E k \in Keys, y \in Outcomes : x = <<k, y>>
    BY <1>2 DEF Slots, IsPropensity
  <1>. QED BY <1>1, <1>2 DEF Slots

\* The slots of a build's leases have its key.
LEMMA SlotOfBuild ==
  ASSUME NEW b \in Builds, NEW i PROVE SlotOf(b, i)[1] = b.key
  BY DEF SlotOf, OutcomeEntry

\* A scope moves on, taking free slots and letting its own go.
LEMMA HolderMoves ==
  ASSUME SlotsInv, WaitInv, NEW s \in Scopes, NEW now,
         scope' = [scope EXCEPT ![s] = now],
         \A x \in Slots : slots'[x].holder \in {{}, {s}} \/ slots'[x].holder = slots[x].holder,
         \A x \in Slots : slots[x].holder \in {{}, {s}} \/ slots'[x].holder = slots[x].holder,
         \A x \in Slots : s \in slots'[x].holder =>
            Held(x, now) /\ slots'[<<x[1]>>].holder = {s},
         now.pc \in Building => \A b \in now.build : now.leases[1] = {<<b.key>>}
  PROVE  WaitInv'
  <1>1. scope \in [Scopes -> ScopeRecord] /\ \A x \in Slots : slots[x].holder \in SUBSET Scopes
    BY DEF SlotsInv, SlotRecord
  <1>2. scope'[s] = now /\ \A t \in Scopes : t # s => scope'[t] = scope[t]
    BY <1>1
  <1>3. ASSUME NEW x \in Slots, NEW t \in slots'[x].holder
        PROVE  slots'[x].holder = {t} /\ slots'[<<x[1]>>].holder = {t} /\ Held(x, scope'[t])
    <2>1. CASE t = s
      <3>1. slots'[x].holder = {s}
        <4>1. CASE slots'[x].holder \in {{}, {s}}
          BY <1>3, <2>1, <4>1
        <4>2. CASE slots'[x].holder = slots[x].holder
          BY <1>3, <2>1, <4>2 DEF WaitInv
        <4>. QED BY <4>1, <4>2
      <3>. QED BY <1>2, <2>1, <3>1
    <2>2. CASE t # s
      <3>1. slots'[x].holder = slots[x].holder
        BY <1>3, <2>2
      <3>2. slots[x].holder = {t} /\ slots[<<x[1]>>].holder = {t} /\ Held(x, scope[t])
        BY <3>1 DEF WaitInv
      <3>3. <<x[1]>> \in Slots
        BY SlotOfKey
      <3>4. slots'[<<x[1]>>].holder = slots[<<x[1]>>].holder
        BY <2>2, <3>2, <3>3
      <3>5. t \in Scopes /\ scope'[t] = scope[t]
        BY <1>1, <1>2, <2>2, <3>2
      <3>. QED BY <3>1, <3>2, <3>4, <3>5
    <2>. QED BY <2>1, <2>2
  <1>4. ASSUME NEW t \in Scopes, scope'[t].pc \in Building, NEW b \in scope'[t].build
        PROVE  scope'[t].leases[1] = {<<b.key>>}
    <2>1. CASE t = s
      BY <1>2, <1>4, <2>1
    <2>2. CASE t # s
      BY <1>2, <1>4, <2>2 DEF WaitInv
    <2>. QED BY <2>1, <2>2
  <1>. QED BY <1>3, <1>4 DEF WaitInv, Held, Locked

\* A scope moves on and the locks stay as they are.
LEMMA HolderStays ==
  ASSUME SlotsInv, WaitInv, NEW s \in Scopes, NEW now,
         scope' = [scope EXCEPT ![s] = now],
         \A x \in Slots : slots'[x].holder = slots[x].holder,
         \A x \in Slots : Held(x, scope[s]) => Held(x, now),
         now.pc \in Building => \A b \in now.build : now.leases[1] = {<<b.key>>}
  PROVE  WaitInv'
  <1>1. ASSUME NEW x \in Slots, s \in slots'[x].holder
        PROVE  Held(x, now) /\ slots'[<<x[1]>>].holder = {s}
    <2>1. Held(x, scope[s]) /\ slots[<<x[1]>>].holder = {s}
      BY <1>1 DEF WaitInv
    <2>2. <<x[1]>> \in Slots
      BY SlotOfKey
    <2>. QED BY <2>1, <2>2
  <1>. QED BY <1>1, HolderMoves

\* Outside its build a scope holds no slot.
LEMMA IdleWaits ==
  ASSUME SlotsInv, WaitInv, NEW s \in Scopes, NEW now,
         scope' = [scope EXCEPT ![s] = now], slots' = slots,
         scope[s].pc = "idle",
         now.pc \in Building => \A b \in now.build : now.leases[1] = {<<b.key>>}
  PROVE  WaitInv'
  <1>1. \A x \in Slots : ~Held(x, scope[s])
    BY DEF Held, Building
  <1>. QED BY <1>1, HolderStays

\* A build begins with the lease of its propensity slot and no lock.
LEMMA BeginWaits ==
  ASSUME SlotsInv, WaitInv, NEW s \in Scopes, NEW b \in Builds, Begin(s, b) PROVE WaitInv'
  <1>. DEFINE me == scope[s]
              lease == Lease(<<b.key>>)
              busy == [me EXCEPT !.pc = "lock", !.build = {b}, !.leases = <<lease>>]
  <1>1. /\ me.pc = "idle" /\ slots' = slots
        /\ scope' = [scope EXCEPT ![s] = IF lease = {} THEN Idle(me.tasks + 1) ELSE busy]
    BY DEF Begin
  <1>2. CASE lease = {}
    <2>1. PICK now : now = Idle(me.tasks + 1)
      OBVIOUS
    <2>2. now.pc \notin Building
      BY <2>1 DEF Idle, Building
    <2>. QED BY <1>1, <1>2, <2>1, <2>2, IdleWaits
  <1>3. CASE lease # {}
    <2>1. lease = {<<b.key>>}
      BY <1>3 DEF Lease
    <2>. HIDE DEF lease
    <2>2. PICK now : now = busy
      OBVIOUS
    <2>3. now.build = {b} /\ now.leases = <<lease>>
      <3>1. me \in ScopeRecord
        BY InBuild
      <3>. QED BY <2>2, <3>1 DEF ScopeRecord
    <2>4. now.leases[1] = {<<b.key>>}
      BY <2>1, <2>3
    <2>. QED BY <1>1, <1>3, <2>2, <2>3, <2>4, IdleWaits
  <1>. QED BY <1>2, <1>3

\* Preparations are shared and scopes end outside builds.
LEMMA OutsideWaits ==
  ASSUME SlotsInv, WaitInv, NEW s \in Scopes,
         End(s) \/ \E p \in Problems : SharePreparation(s, p)
  PROVE  WaitInv'
  <1>. DEFINE me == scope[s]
  <1>1. me \in ScopeRecord /\ me.pc = "idle" /\ slots' = slots /\ me.tasks \in Nat
    BY InBuild DEF End, SharePreparation
  <1>2. PICK now \in {[me EXCEPT !.pc = "over"], [me EXCEPT !.tasks = me.tasks + 1]} :
           scope' = [scope EXCEPT ![s] = now]
    BY DEF End, SharePreparation
  <1>3. now.pc \notin Building
    BY <1>1, <1>2 DEF ScopeRecord, Building
  <1>. QED BY <1>1, <1>2, <1>3, IdleWaits

\* An outcome slot is locked where the propensity slot is held.
LEMMA LockWaits ==
  ASSUME SlotsInv, WaitInv, NEW s \in Scopes, LockSlot(s) PROVE WaitInv'
  <1>. DEFINE me == scope[s]
              xs == me.leases[me.at]
  <1>1. me.pc = "lock" /\ \A x \in xs : slots[x].holder = {}
    BY DEF LockSlot
  <1>2. /\ me \in ScopeRecord /\ me.leases \in Seq(SUBSET Slots) /\ me.at \in Nat /\ ScopeInv(s)
        /\ me.pc \in Building
    BY <1>1, InBuild DEF Building
  <1>3. PICK b \in Builds : Leases(me, b)
    BY <1>2 DEF ScopeInv
  <1>4. /\ me.build = {b} /\ me.at \in 1..Len(me.leases) /\ xs \in SUBSET Slots
        /\ xs \subseteq {SlotOf(b, me.at)} /\ me.leases[1] = {<<b.key>>}
        /\ Locked(me) = 1..(me.at - 1) /\ Len(b.outcomes) \in Nat
    BY <1>1, <1>2, <1>3, BuildAssumption DEF Leases, WaitInv, Locked
  <1>5. CASE scope' = [scope EXCEPT ![s].pc = "drop"] /\ slots' = slots
    <2>1. PICK now : now = [me EXCEPT !.pc = "drop"]
      OBVIOUS
    <2>2. now.pc = "drop" /\ now.leases = me.leases /\ now.build = me.build
      BY <1>2, <2>1 DEF ScopeRecord
    <2>3. \A x \in Slots : Held(x, me) => Held(x, now)
      BY <2>2 DEF Held, Building
    <2>4. scope' = [scope EXCEPT ![s] = now]
      BY <1>5, <2>1
    <2>. QED BY <1>4, <1>5, <2>2, <2>3, <2>4, HolderStays
  <1>6. CASE Acquire(s, xs) /\ scope' = [scope EXCEPT ![s] = AfterLock(me, b)]
    <2>1. PICK now : now = AfterLock(me, b)
      OBVIOUS
    <2>2. /\ now.leases = me.leases /\ now.build = me.build
          /\ now.pc \in {"lock", "lease", "fit"}
          /\ now.pc = "fit" => me.at > Len(b.outcomes)
          /\ now.pc = "lease" => me.at = 1
          /\ now.pc = "lock" => now.at = me.at + 1
      <3>1. CASE me.at > Len(b.outcomes)
        <4>1. now = [me EXCEPT !.pc = "fit"]
          BY <2>1, <3>1 DEF AfterLock
        <4>. QED BY <1>2, <3>1, <4>1 DEF ScopeRecord
      <3>2. CASE ~(me.at > Len(b.outcomes)) /\ me.at = 1
        <4>1. now = [me EXCEPT !.pc = "lease"]
          BY <2>1, <3>2 DEF AfterLock
        <4>. QED BY <1>2, <3>2, <4>1 DEF ScopeRecord
      <3>3. CASE ~(me.at > Len(b.outcomes)) /\ me.at # 1
        <4>1. now = [me EXCEPT !.at = me.at + 1]
          BY <2>1, <3>3 DEF AfterLock
        <4>. QED BY <1>1, <1>2, <3>3, <4>1 DEF ScopeRecord
      <3>. QED BY <3>1, <3>2, <3>3
    <2>3. 1..me.at \subseteq Locked(now)
      <3>1. CASE now.pc = "lock"
        <4>1. Locked(now) = 1..(now.at - 1) /\ now.at = me.at + 1
          BY <2>2, <3>1 DEF Locked
        <4>. QED BY <1>2, <4>1
      <3>2. CASE now.pc = "lease"
        BY <2>2, <3>2 DEF Locked
      <3>3. CASE now.pc = "fit"
        <4>1. Locked(now) = 1..Len(me.leases)
          BY <1>2, <2>2, <3>3 DEF Locked
        <4>. QED BY <1>2, <1>4, <4>1
      <3>. QED BY <2>2, <3>1, <3>2, <3>3
    <2>4. ASSUME NEW x \in Slots
          PROVE  /\ x \in xs => slots'[x].holder = {s}
                 /\ x \notin xs => slots'[x] = slots[x]
      <3>1. slots[x] \in SlotRecord
        BY InBuild
      <3>2. slots'[x] = IF x \in xs THEN [slots[x] EXCEPT !.holder = {s}] ELSE slots[x]
        BY <1>6 DEF Acquire
      <3>. HIDE DEF xs
      <3>. QED BY <3>1, <3>2 DEF SlotRecord
    <2>5. ASSUME NEW x \in Slots, s \in slots'[x].holder
          PROVE  Held(x, now) /\ slots'[<<x[1]>>].holder = {s}
      <3>1. CASE x \in xs
        <4>1. x[1] = b.key
          BY <1>4, <3>1, SlotOfBuild
        <4>2. me.at \in Locked(now)
          BY <1>2, <1>4, <2>3
        <4>3. Held(x, now)
          BY <1>4, <2>2, <3>1, <4>1, <4>2 DEF Held, Building
        <4>4. PICK y \in Slots : y = <<b.key>> /\ y = <<x[1]>>
          BY <4>1, SlotOfKey
        <4>5. CASE me.at = 1
          <5>1. y \in xs
            BY <1>4, <4>4, <4>5
          <5>2. slots'[y].holder = {s}
            BY <2>4, <5>1
          <5>. QED BY <4>3, <4>4, <5>2
        <4>6. CASE me.at # 1
          <5>1. 1 \in Locked(me)
            BY <1>2, <1>4, <4>6
          <5>2. slots[y].holder = {s}
            BY <1>2, <1>4, <4>4, <5>1 DEF ScopeInv, Holds
          <5>3. y \notin xs
            BY <1>1, <5>2
          <5>4. slots'[y].holder = {s}
            BY <2>4, <5>2, <5>3
          <5>. QED BY <4>3, <4>4, <5>4
        <4>. QED BY <4>5, <4>6
      <3>2. CASE x \notin xs
        <4>1. s \in slots[x].holder
          BY <2>4, <2>5, <3>2
        <4>2. slots[<<x[1]>>].holder = {s} /\ Held(x, me)
          BY <4>1 DEF WaitInv
        <4>3. <<x[1]>> \in Slots /\ <<x[1]>> \notin xs
          BY <1>1, <4>2, SlotOfKey
        <4>4. PICK i \in 1..(me.at - 1) : x \in me.leases[i]
          BY <1>1, <1>4, <4>2 DEF Held
        <4>5. i \in Locked(now)
          BY <1>2, <2>3, <4>4
        <4>6. Held(x, now)
          BY <2>2, <4>2, <4>4, <4>5 DEF Held, Building
        <4>. QED BY <2>4, <4>2, <4>3, <4>6
      <3>. QED BY <3>1, <3>2
    <2>6. \A x \in Slots :
             /\ slots'[x].holder \in {{}, {s}} \/ slots'[x].holder = slots[x].holder
             /\ slots[x].holder \in {{}, {s}} \/ slots'[x].holder = slots[x].holder
      BY <1>1, <2>4
    <2>. QED BY <1>4, <1>6, <2>1, <2>2, <2>5, <2>6, HolderMoves
  <1>7. \/ scope' = [scope EXCEPT ![s].pc = "drop"] /\ slots' = slots
        \/ Acquire(s, xs) /\ scope' = [scope EXCEPT ![s] = AfterLock(me, b)]
    BY <1>4 DEF LockSlot
  <1>. QED BY <1>5, <1>6, <1>7

\* Leasing an outcome slot locks nothing.
LEMMA LeaseWaits ==
  ASSUME SlotsInv, WaitInv, NEW s \in Scopes, LeaseOutcome(s) PROVE WaitInv'
  <1>. DEFINE me == scope[s]
              i == Len(me.leases) + 1
  <1>1. me.pc = "lease" /\ slots' = slots
    BY DEF LeaseOutcome
  <1>2. me \in ScopeRecord /\ me.leases \in Seq(SUBSET Slots) /\ ScopeInv(s) /\ me.pc \in Building
    BY <1>1, InBuild DEF Building
  <1>3. PICK b \in Builds : Leases(me, b)
    BY <1>2 DEF ScopeInv
  <1>. DEFINE lease == Lease(SlotOf(b, i))
              done == i > Len(b.outcomes)
              all == Append(me.leases, lease)
  <1>4. scope' = [scope EXCEPT ![s] =
           [me EXCEPT !.leases = all, !.pc = IF done THEN "lock" ELSE "lease",
                      !.at = IF done THEN 2 ELSE 1]]
    BY <1>3 DEF LeaseOutcome, Leases
  <1>5. Len(me.leases) >= 1 /\ me.build = {b} /\ me.leases[1] = {<<b.key>>} /\ Locked(me) = {1}
    BY <1>1, <1>2, <1>3 DEF Leases, WaitInv, Locked
  <1>. HIDE DEF lease
  <1>6. all[1] = me.leases[1]
    BY <1>2, <1>5
  <1>. HIDE DEF all, done
  <1>7. PICK now : now = [me EXCEPT !.leases = all, !.pc = IF done THEN "lock" ELSE "lease",
                                    !.at = IF done THEN 2 ELSE 1]
    OBVIOUS
  <1>8. /\ now.leases = all /\ now.build = me.build
        /\ now.pc = (IF done THEN "lock" ELSE "lease") /\ now.at = IF done THEN 2 ELSE 1
    BY <1>2, <1>7 DEF ScopeRecord
  <1>9. Locked(now) = {1}
    BY <1>8 DEF Locked
  <1>10. \A x \in Slots : Held(x, me) => Held(x, now)
    BY <1>1, <1>5, <1>6, <1>8, <1>9 DEF Held, Building
  <1>11. \A c \in now.build : now.leases[1] = {<<c.key>>}
    BY <1>5, <1>6, <1>8
  <1>12. scope' = [scope EXCEPT ![s] = now]
    BY <1>4, <1>7
  <1>. QED BY <1>1, <1>10, <1>11, <1>12, HolderStays

\* The locks are kept over the fits.
LEMMA FitWaits ==
  ASSUME SlotsInv, WaitInv, NEW s \in Scopes, Fit(s) PROVE WaitInv'
  <1>. DEFINE me == scope[s]
              fresh == {x \in Leased(me) : slots[x].value = {}}
  <1>1. PICK pc \in {"publish", "drop"} :
           scope' = [scope EXCEPT ![s].pc = pc, ![s].at = 1, ![s].fresh = fresh]
    BY DEF Fit
  <1>2. me.pc = "fit" /\ slots' = slots
    BY DEF Fit
  <1>3. me \in ScopeRecord /\ scope \in [Scopes -> ScopeRecord]
    BY InBuild DEF SlotsInv
  <1>4. PICK now : now = [me EXCEPT !.pc = pc, !.at = 1, !.fresh = fresh]
    OBVIOUS
  <1>5. scope' = [scope EXCEPT ![s] = now]
    BY <1>1, <1>3, <1>4
  <1>. HIDE DEF fresh
  <1>6. now.pc = pc /\ now.build = me.build /\ now.leases = me.leases
    BY <1>3, <1>4 DEF ScopeRecord
  <1>7. now.pc # "drop" => Locked(now) = Locked(me)
    BY <1>2, <1>6 DEF Locked
  <1>8. \A x \in Slots : Held(x, me) => Held(x, now)
    BY <1>2, <1>6, <1>7 DEF Held, Building
  <1>9. \A b \in now.build : now.leases[1] = {<<b.key>>}
    BY <1>2, <1>6 DEF WaitInv, Building
  <1>. QED BY <1>2, <1>5, <1>8, <1>9, HolderStays

\* Publication keeps the locks.
LEMMA PublishWaits ==
  ASSUME SlotsInv, WaitInv, NEW s \in Scopes, Publish(s) PROVE WaitInv'
  <1>. DEFINE me == scope[s]
              stored == me.leases[me.at] \cap me.fresh
  <1>1. /\ me.pc = "publish"
        /\ \A x \in Slots : /\ x \in stored => slots'[x] = [slots[x] EXCEPT !.value = {x}]
                            /\ x \notin stored => slots'[x] = slots[x]
    BY PublishedSlot
  <1>2. PICK now \in {[me EXCEPT !.pc = "drop"], [me EXCEPT !.at = me.at + 1]} :
           scope' = [scope EXCEPT ![s] = now]
    BY PublishedSlot
  <1>3. me \in ScopeRecord /\ \A x \in Slots : slots[x] \in SlotRecord
    BY InBuild
  <1>4. /\ now.build = me.build /\ now.leases = me.leases
        /\ now.pc \in {"drop", "publish"}
    BY <1>1, <1>2, <1>3 DEF ScopeRecord
  <1>5. now.pc # "drop" => Locked(now) = Locked(me)
    BY <1>1, <1>4 DEF Locked
  <1>6. \A x \in Slots : Held(x, me) => Held(x, now)
    BY <1>1, <1>4, <1>5 DEF Held, Building
  <1>7. \A b \in now.build : now.leases[1] = {<<b.key>>}
    BY <1>1, <1>4 DEF WaitInv, Building
  <1>8. ASSUME NEW x \in Slots PROVE slots'[x].holder = slots[x].holder
    <2>. HIDE DEF stored
    <2>. QED BY <1>1, <1>3 DEF SlotRecord
  <1>. QED BY <1>2, <1>6, <1>7, <1>8, HolderStays

\* A panic lets go every lock of its scope.
LEMMA PanicWaits ==
  ASSUME SlotsInv, WaitInv, NEW s \in Scopes, Panic(s) PROVE WaitInv'
  <1>1. PICK now : now = [Idle(0) EXCEPT !.pc = "over"]
    OBVIOUS
  <1>2. now.pc = "over"
    BY <1>1, IdleRecord
  <1>3. scope' = [scope EXCEPT ![s] = now]
    BY <1>1 DEF Panic
  <1>4. ASSUME NEW x \in Slots
        PROVE  /\ slots[x].holder = {s} => slots'[x].holder = {}
               /\ slots[x].holder # {s} => slots'[x] = slots[x] /\ s \notin slots[x].holder
    <2>1. slots[x] \in SlotRecord
      BY InBuild
    <2>2. slots'[x] = IF slots[x].holder = {s}
                      THEN [slots[x] EXCEPT !.holder = {}, !.poisoned = TRUE] ELSE slots[x]
      BY DEF Panic
    <2>3. s \in slots[x].holder => slots[x].holder = {s}
      BY DEF WaitInv
    <2>. QED BY <2>1, <2>2, <2>3 DEF SlotRecord
  <1>5. now.pc \notin Building
    BY <1>2 DEF Building
  <1>6. \A x \in Slots :
           /\ slots'[x].holder \in {{}, {s}} \/ slots'[x].holder = slots[x].holder
           /\ slots[x].holder \in {{}, {s}} \/ slots'[x].holder = slots[x].holder
           /\ s \notin slots'[x].holder
    BY <1>4
  <1>. QED BY <1>3, <1>5, <1>6, HolderMoves

\* The outcome slots go first, and the propensity slot of the build with the last guard.
LEMMA DropWaits ==
  ASSUME SlotsInv, WaitInv, NEW s \in Scopes, Drop(s) PROVE WaitInv'
  <1>. DEFINE me == scope[s]
              more == \E x \in Slots : slots[x].holder = {s} /\ ~IsPropensity(x)
  <1>1. /\ me.pc = "drop" /\ me.pc \in Building /\ ScopeInv(s)
        /\ scope' = [scope EXCEPT ![s] = IF more THEN me ELSE Idle(me.tasks + 1)]
    BY InBuild DEF Drop, Building
  <1>2. PICK b \in Builds : Leases(me, b)
    BY <1>1 DEF ScopeInv
  <1>3. me.build = {b}
    BY <1>2 DEF Leases
  <1>4. ASSUME NEW x \in Slots
        PROVE  /\ Release(s, x) => slots[x].holder = {s} /\ slots'[x].holder = {}
               /\ ~Release(s, x) => slots'[x] = slots[x]
    <2>1. slots[x] \in SlotRecord
      BY InBuild
    <2>2. slots'[x] = IF Release(s, x) THEN [slots[x] EXCEPT !.holder = {}] ELSE slots[x]
      BY DEF Drop
    <2>3. Release(s, x) => slots[x].holder = {s}
      BY DEF Release
    <2>. QED BY <2>1, <2>2, <2>3 DEF SlotRecord
  <1>5. ASSUME NEW x \in Slots, slots[x].holder = {s}
        PROVE  /\ x[1] = b.key /\ Held(x, me)
               /\ IsPropensity(x) => x = <<b.key>>
               /\ slots[<<b.key>>].holder = {s} /\ <<b.key>> \in Slots
    <2>1. Held(x, me) /\ slots[<<x[1]>>].holder = {s}
      BY <1>5 DEF WaitInv
    <2>2. x[1] = b.key
      BY <1>3, <2>1 DEF Held
    <2>. QED BY <2>1, <2>2, SlotOfKey
  <1>6. ASSUME NEW x \in Slots, s \in slots'[x].holder
        PROVE  more /\ slots'[<<x[1]>>].holder = {s} /\ Held(x, me)
    <2>1. ~Release(s, x) /\ slots'[x] = slots[x]
      BY <1>4, <1>6
    <2>2. slots[x].holder = {s}
      BY <1>6, <2>1 DEF WaitInv
    <2>3. IsPropensity(x) /\ x = <<b.key>> /\ x[1] = b.key /\ Held(x, me)
      BY <1>5, <2>1, <2>2 DEF Release
    <2>4. PICK z \in Slots : slots[z].holder = {s} /\ z # x
      BY <2>1, <2>2 DEF Release
    <2>5. ~IsPropensity(z)
      BY <1>5, <2>3, <2>4
    <2>6. slots'[x].holder = {s} /\ x = <<x[1]>>
      BY <2>1, <2>2, <2>3
    <2>. QED BY <2>3, <2>4, <2>5, <2>6
  <1>7. PICK now : now = IF more THEN me ELSE Idle(me.tasks + 1)
    OBVIOUS
  <1>8. now.pc \in Building => \A c \in now.build : now.leases[1] = {<<c.key>>}
    <2>1. CASE more
      BY <1>7, <2>1 DEF WaitInv
    <2>2. CASE ~more
      BY <1>7, <2>2 DEF Idle, Building
    <2>. QED BY <2>1, <2>2
  <1>9. \A x \in Slots :
           /\ slots'[x].holder \in {{}, {s}} \/ slots'[x].holder = slots[x].holder
           /\ slots[x].holder \in {{}, {s}} \/ slots'[x].holder = slots[x].holder
    BY <1>4
  <1>10. \A x \in Slots : s \in slots'[x].holder =>
            Held(x, now) /\ slots'[<<x[1]>>].holder = {s}
    <2>1. more => now = me
      BY <1>7
    <2>2. ASSUME NEW x \in Slots, s \in slots'[x].holder
          PROVE  Held(x, now) /\ slots'[<<x[1]>>].holder = {s}
      <3>1. more /\ slots'[<<x[1]>>].holder = {s} /\ Held(x, me)
        BY <1>6, <2>2
      <3>. QED BY <2>1, <3>1
    <2>. QED BY <2>2
  <1>11. scope' = [scope EXCEPT ![s] = now]
    BY <1>1, <1>7
  <1>. QED BY <1>8, <1>9, <1>10, <1>11, HolderMoves

\* Every lock is held for a build, under the lock of its propensity slot.
LEMMA WaitInvariant == Spec => []WaitInv
  <1>1. Init => WaitInv
    BY DEF Init, WaitInv, Idle, Building
  <1>2. SlotsInv /\ WaitInv /\ [Next]_vars => WaitInv'
    <2>. SUFFICES ASSUME SlotsInv, WaitInv, [Next]_vars PROVE WaitInv'
      OBVIOUS
    <2>1. CASE UNCHANGED vars
      BY <2>1 DEF vars, WaitInv, Held, Locked
    <2>2. ASSUME NEW s \in Scopes, Step(s) PROVE WaitInv'
      BY <2>2, BeginWaits, OutsideWaits, LockWaits, LeaseWaits, FitWaits, PanicWaits,
         PublishWaits, DropWaits DEF Step
    <2>. QED BY <2>1, <2>2 DEF Next
  <1>. QED BY <1>1, <1>2, SlotsInvariant, PTL DEF Spec

\* Who waits past its first lock waits for itself at most; who holds a slot is past its
\* first lock.
LEMMA WaitsUnderPropensity ==
  ASSUME SlotsInv, WaitInv, NEW s \in Scopes
  PROVE  /\ scope[s].at # 1 => WaitsFor(s) \subseteq {s}
         /\ \A t \in WaitsFor(s) : t \in Scopes /\ (scope[t].pc = "lock" => scope[t].at # 1)
         /\ s \in WaitsFor(s) => \E b \in Builds :
               \E i, j \in DOMAIN b.outcomes : i # j /\ b.outcomes[i] = b.outcomes[j]
  <1>. DEFINE me == scope[s]
              xs == me.leases[me.at]
  <1>. SUFFICES ASSUME NEW t \in WaitsFor(s)
                PROVE  /\ me.at # 1 => t = s
                       /\ t \in Scopes /\ (scope[t].pc = "lock" => scope[t].at # 1)
                       /\ t = s => \E b \in Builds : \E i, j \in DOMAIN b.outcomes :
                             i # j /\ b.outcomes[i] = b.outcomes[j]
    OBVIOUS
  <1>1. me.pc = "lock" /\ me.pc \in Building
    BY DEF WaitsFor, Building
  <1>2. PICK x \in xs : t \in slots[x].holder
    BY <1>1 DEF WaitsFor
  <1>3. me \in ScopeRecord /\ me.leases \in Seq(SUBSET Slots) /\ me.at \in Nat /\ ScopeInv(s)
    BY InBuild
  <1>4. PICK b \in Builds : Leases(me, b)
    BY <1>1, <1>3 DEF ScopeInv
  <1>5. /\ me.build = {b} /\ me.at \in 1..Len(me.leases) /\ xs \subseteq {SlotOf(b, me.at)}
        /\ xs \in SUBSET Slots /\ me.leases[1] = {<<b.key>>} /\ Locked(me) = 1..(me.at - 1)
    BY <1>1, <1>3, <1>4 DEF Leases, WaitInv, Locked
  <1>6. x \in Slots /\ x = SlotOf(b, me.at) /\ x[1] = b.key
    BY <1>2, <1>5, SlotOfBuild
  <1>7. /\ slots[x].holder = {t} /\ slots[<<b.key>>].holder = {t} /\ Held(x, scope[t])
        /\ t \in Scopes
    <2>1. slots[x].holder \in SUBSET Scopes
      BY <1>6, InBuild DEF SlotRecord
    <2>. QED BY <1>2, <1>6, <2>1 DEF WaitInv
  <1>8. scope[t].pc = "lock" => scope[t].at # 1
    <2>1. SUFFICES ASSUME scope[t].pc = "lock", scope[t].at = 1 PROVE FALSE
      OBVIOUS
    <2>2. Locked(scope[t]) = {}
      BY <2>1 DEF Locked
    <2>. QED BY <1>7, <2>1, <2>2 DEF Held
  <1>9. ASSUME me.at # 1 PROVE t = s
    <2>1. 1 \in Locked(me)
      BY <1>3, <1>5, <1>9
    <2>2. slots[<<b.key>>].holder = {s}
      BY <1>3, <1>5, <2>1 DEF ScopeInv, Holds
    <2>. QED BY <1>7, <2>2
  <1>10. ASSUME t = s
         PROVE  \E i, j \in DOMAIN b.outcomes : i # j /\ b.outcomes[i] = b.outcomes[j]
    <2>1. PICK i \in 1..(me.at - 1) : x \in me.leases[i]
      BY <1>1, <1>5, <1>7, <1>10 DEF Held
    <2>2. Len(me.leases) <= Len(b.outcomes) + 1 /\ Len(b.outcomes) \in Nat
          /\ DOMAIN b.outcomes = 1..Len(b.outcomes) /\ Len(me.leases) \in Nat
      BY <1>3, <1>4, BuildAssumption DEF Leases
    <2>3. i \in DOMAIN me.leases
      BY <1>3, <1>5, <2>1
    <2>4. SlotOf(b, i) = SlotOf(b, me.at)
      BY <1>4, <1>6, <2>1, <2>3 DEF Leases
    <2>5. i # 1 /\ me.at # 1 /\ b.outcomes[i - 1] = b.outcomes[me.at - 1]
      <3>1. me.at # 1 /\ SlotOf(b, me.at) = <<b.key, b.outcomes[me.at - 1]>>
        BY <1>3, <2>1 DEF SlotOf, OutcomeEntry
      <3>2. i # 1
        BY <2>4, <3>1 DEF SlotOf
      <3>3. SlotOf(b, i) = <<b.key, b.outcomes[i - 1]>>
        BY <3>2 DEF SlotOf, OutcomeEntry
      <3>. QED BY <2>4, <3>1, <3>2, <3>3
    <2>6. i - 1 \in DOMAIN b.outcomes /\ me.at - 1 \in DOMAIN b.outcomes /\ i - 1 # me.at - 1
      <3>. DEFINE n == Len(b.outcomes)
      <3>1. i \in Nat /\ i < me.at /\ i >= 2 /\ me.at \in Nat /\ me.at <= n + 1 /\ n \in Nat
        BY <1>3, <1>5, <2>1, <2>2, <2>5
      <3>. HIDE DEF n
      <3>2. i - 1 \in 1..n /\ me.at - 1 \in 1..n /\ i - 1 # me.at - 1
        BY <3>1
      <3>. QED BY <2>2, <3>2 DEF n
    <2>. QED BY <2>5, <2>6
  <1>. QED BY <1>7, <1>8, <1>9, <1>10

\* Queries of a batch never wait for each other in a circle: "outcome slots are only
\* ever locked under their propensity slot".
THEOREM ScopesDoNotDeadlock == Spec => []ScopesCannotDeadlock
  <1>1. SlotsInv /\ WaitInv => ScopesCannotDeadlock
    <2>. SUFFICES ASSUME SlotsInv, WaitInv, NEW T \in SUBSET Scopes, T # {}
                  PROVE  \E s \in T : WaitsFor(s) \cap T \subseteq {s}
      BY DEF ScopesCannotDeadlock
    <2>1. PICK s \in T : TRUE
      OBVIOUS
    <2>2. ASSUME NEW t \in WaitsFor(s) \cap T PROVE WaitsFor(t) \subseteq {t}
      <3>1. t \in Scopes /\ (scope[t].pc = "lock" => scope[t].at # 1)
        BY <2>2, WaitsUnderPropensity
      <3>2. CASE scope[t].pc = "lock"
        BY <3>1, <3>2, WaitsUnderPropensity
      <3>3. CASE scope[t].pc # "lock"
        BY <3>3 DEF WaitsFor
      <3>. QED BY <3>2, <3>3
    <2>. QED BY <2>1, <2>2
  <1>. QED BY <1>1, SlotsInvariant, WaitInvariant, PTL

\* "leases cannot deadlock" holds of every batch whose builds have distinct columns: what
\* breaks it is a build with two equal columns, waiting for itself.
THEOREM DistinctColumnsDoNotDeadlock ==
  ASSUME DistinctColumns PROVE Spec => []LeasesCannotDeadlock
  <1>1. SlotsInv /\ WaitInv /\ ScopesCannotDeadlock => LeasesCannotDeadlock
    <2>. SUFFICES ASSUME SlotsInv, WaitInv, ScopesCannotDeadlock,
                         NEW T \in SUBSET Scopes, T # {}
                  PROVE  \E s \in T : WaitsFor(s) \cap T = {}
      BY DEF LeasesCannotDeadlock
    <2>1. PICK s \in T : WaitsFor(s) \cap T \subseteq {s}
      BY DEF ScopesCannotDeadlock
    <2>2. s \notin WaitsFor(s)
      BY WaitsUnderPropensity DEF DistinctColumns
    <2>. QED BY <2>1, <2>2
  <1>. QED BY <1>1, SlotsInvariant, WaitInvariant, ScopesDoNotDeadlock, PTL
=============================================================================
