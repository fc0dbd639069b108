-------------------------- MODULE ParallelMapProofs --------------------------
(***************************************************************************)
(* Proofs about ParallelMap: type correctness, that a failing chunk stops, *)
(* that the call answers what a serial run would, that it never gets stuck *)
(* and that its workers run out of work, for every number of indices and   *)
(* of workers.                                                             *)
(***************************************************************************)
EXTENDS ParallelMap, SequenceTheorems, FiniteSetTheorems, WellFoundedInduction, TLAPS

\* How chunks and the calling thread relate: chunks lie one after the other below
\* start, a worker that still works is inside its own, and the last one spawned
\* takes what is left.
ChunkInv ==
    /\ spawned <= threads
    /\ threads = 1 => spawned = 0
    /\ start <= n
    /\ threads > 1 /\ spawned = threads => start = n
    /\ \A t \in Threads : pc[t] = "unborn" <=> t >= spawned
    /\ \A t \in Threads : pc[t] = "unborn" => begin[t] = 0 /\ end[t] = 0
    /\ \A t \in Threads : begin[t] <= index[t] /\ index[t] <= end[t] /\ end[t] <= start
    /\ \A t \in Threads : pc[t] \in {"load", "call", "failed"} => index[t] < end[t]
    /\ \A s, t \in Threads : s < t /\ pc[t] # "unborn" => end[s] <= begin[t]

\* No slot below start is outside every chunk.
CoverInv ==
    threads > 1 => \A i \in 0..(start - 1) : \E t \in Threads : i \in Chunk(t)

\* The filled slots of a chunk are the ones its worker has passed.
FillInv ==
    /\ \A t \in Threads : \A i \in Chunk(t) : slots[i] = "none" <=> i >= index[t]
    /\ \A i \in Index : i >= start => slots[i] = "none"

\* Slots hold what f returned.
OutcomeInv ==
    /\ \A i \in Index : slots[i] = "ok" => i \notin fails
    /\ \A i \in Index : slots[i] = "err" => i \in fails \/ cancelled
    /\ \A t \in Threads : pc[t] = "failed" => index[t] \in fails \/ cancelled
    /\ threads = 1 => \A i \in 0..(start - 1) : i \notin fails

\* first_failure only goes down, through indices that failed; what a worker read
\* is why it left its chunk early.
KnownInv ==
    /\ \A t \in Threads : seen[t] <= Len(order)
    /\ \A k, l \in 1..Len(order) : k <= l => order[l] <= order[k]
    /\ \A k \in 1..Len(order) :
          order[k] = NoFailure \/ (order[k] \in Index /\ slots[order[k]] = "err")
    /\ \A t \in Threads :
          pc[t] = "done" /\ index[t] # end[t] => \E k \in 1..Len(order) : order[k] < index[t]

\* A worker whose chunk holds a failure is right after it and has seen it.
StopInv ==
    \A t \in Threads : \A j \in Chunk(t) :
        slots[j] = "err" =>
            /\ pc[t] \in {"load", "done"}
            /\ index[t] = j + 1
            /\ order[seen[t]] <= j

MapInv == ChunkInv /\ CoverInv /\ FillInv /\ OutcomeInv /\ KnownInv /\ StopInv

-----------------------------------------------------------------------------
\* The share of the next worker fits into the rest, and the last worker takes all
\* of it.
LEMMA TakeBounds ==
  ASSUME NEW rest \in Nat, NEW left \in Nat, left > 0
  PROVE  /\ Take(rest, left) \in Nat
         /\ Take(rest, left) <= rest
         /\ left = 1 => Take(rest, left) = rest
  <1> DEFINE q == (rest + left - 1) \div left
  <1>1. q \in Int /\ left * q <= rest + left - 1 /\ rest + left - 1 < left * q + left
    BY SMT
  <1>2. q >= 0
    BY <1>1, SMT
  <1>3. q <= rest
    BY <1>1, SMT
  <1>4. left = 1 => q = rest
    BY <1>1, SMT
  <1> QED BY <1>1, <1>2, <1>3, <1>4 DEF Take

\* The constants and the index sets are numbers.
LEMMA Numbers ==
  /\ MaxN \in Nat /\ MaxThreads \in Nat /\ MaxThreads > 0
  /\ Threads \subseteq Nat /\ Index \subseteq Nat
  BY SizeAssumption, ThreadAssumption DEF Threads, Index

\* The values of first_failure.
LEMMA OrderRange ==
  ASSUME TypeOK
  PROVE  Len(order) \in Nat /\ \A k \in 1..Len(order) : order[k] \in 0..MaxN
  <1>1. order \in Seq(0..MaxN)
    BY DEF TypeOK
  <1>2. Len(order) \in Nat
    BY <1>1
  <1> QED BY <1>1, <1>2, ElementOfSeq

\* A chunk consists of slots.
LEMMA ChunkIndex ==
  ASSUME TypeOK, NEW s \in Threads, NEW i \in Chunk(s)
  PROVE  i \in Index /\ i \in Int
  <1>1. begin[s] \in 0..MaxN /\ end[s] \in 0..MaxN
    BY DEF TypeOK
  <1> QED BY <1>1, Numbers DEF Chunk, Index

-----------------------------------------------------------------------------
(* Initial states.                                                         *)

\* A call starts type correct.
LEMMA TypeInit == Init => TypeOK
  <1> SUFFICES ASSUME Init PROVE TypeOK
    OBVIOUS
  <1>1. n \in Nat /\ n <= MaxN
    BY Numbers DEF Init, MapInit
  <1>2. threads \in 1..MaxThreads
    BY <1>1, Numbers DEF Init, Clamp
  <1>3. order \in Seq(0..MaxN) /\ Len(order) > 0
    BY Numbers DEF Init, NoFailure
  <1>4. result \in {Pending, AllOk, Panic} \cup {ErrAt(i) : i \in Index}
    BY DEF Init, MapInit
  <1>5. n \in 0..MaxN /\ fails \in SUBSET (0..(n - 1)) /\ cancelled \in BOOLEAN
    BY DEF Init, MapInit
  <1>6. spawned \in 0..MaxThreads /\ start \in 0..MaxN
    BY Numbers DEF Init
  <1>7. /\ begin \in [Threads -> 0..MaxN] /\ index \in [Threads -> 0..MaxN]
        /\ end \in [Threads -> 0..MaxN] /\ seen \in [Threads -> Nat \ {0}]
    BY Numbers DEF Init
  <1>8. /\ pc \in [Threads -> {"unborn", "load", "call", "failed", "done"}]
        /\ slots \in [Index -> {"none", "ok", "err"}]
    BY DEF Init
  <1> QED BY <1>2, <1>3, <1>4, <1>5, <1>6, <1>7, <1>8 DEF TypeOK

\* A call starts with no chunk handed out and no failure known.
LEMMA InvInit == Init => MapInv
  <1> SUFFICES ASSUME Init PROVE MapInv
    OBVIOUS
  <1>1. TypeOK
    BY TypeInit
  <1>2. threads <= n \/ threads = 1
    BY Numbers DEF Init, MapInit, Clamp
  <1>3. ChunkInv
    BY <1>1, <1>2, Numbers DEF Init, ChunkInv, TypeOK
  <1>4. CoverInv /\ FillInv /\ OutcomeInv /\ StopInv
    BY <1>1, Numbers DEF Init, CoverInv, FillInv, OutcomeInv, StopInv, Chunk, TypeOK
  <1>5. KnownInv
    BY <1>1, Numbers DEF Init, KnownInv, TypeOK
  <1> QED BY <1>3, <1>4, <1>5 DEF MapInv

-----------------------------------------------------------------------------
(* Steps of the calling thread.                                            *)

\* Handing out a chunk.
LEMMA SpawnStep ==
  ASSUME TypeOK, MapInv, NEW t \in Threads, Spawn(t)
  PROVE  TypeOK' /\ MapInv'
  <1> DEFINE take == Take(n - start, threads - t)
  <1>1. /\ n - start \in Nat /\ threads - t \in Nat /\ threads - t > 0
        /\ t = spawned /\ spawned < threads /\ threads > 1 /\ pc[t] = "unborn"
        /\ t \in Nat /\ start \in Nat /\ n \in Nat
    BY Numbers DEF TypeOK, MapInv, ChunkInv, Spawn, Spawning
  <1>2. take \in Nat /\ take <= n - start /\ (threads - t = 1 => take = n - start)
    BY <1>1, TakeBounds
  <1> HIDE DEF take
  <1>3. /\ start' = start + take /\ spawned' = spawned + 1
        /\ begin' = [begin EXCEPT ![t] = start]
        /\ index' = [index EXCEPT ![t] = start]
        /\ end' = [end EXCEPT ![t] = start + take]
        /\ pc' = [pc EXCEPT ![t] = IF take = 0 THEN "done" ELSE "load"]
        /\ UNCHANGED <<n, fails, cancelled, result, threads, order, seen, slots>>
    BY DEF Spawn, take, mapVars
  <1>4. TypeOK'
    BY <1>1, <1>2, <1>3, Numbers DEF TypeOK
  <1>5. ChunkInv'
    <2>1. /\ spawned' <= threads' /\ (threads' = 1 => spawned' = 0) /\ start' <= n'
          /\ (threads' > 1 /\ spawned' = threads' => start' = n')
      BY <1>1, <1>2, <1>3, Numbers DEF TypeOK
    <2>2. \A s \in Threads : pc'[s] = "unborn" <=> s >= spawned'
      BY <1>1, <1>2, <1>3, Numbers DEF TypeOK, MapInv, ChunkInv
    <2>3. \A s \in Threads : pc'[s] = "unborn" => begin'[s] = 0 /\ end'[s] = 0
      BY <1>1, <1>2, <1>3, Numbers DEF TypeOK, MapInv, ChunkInv
    <2>4. \A s \in Threads :
             begin'[s] <= index'[s] /\ index'[s] <= end'[s] /\ end'[s] <= start'
      BY <1>1, <1>2, <1>3, Numbers DEF TypeOK, MapInv, ChunkInv
    <2>5. \A s \in Threads : pc'[s] \in {"load", "call", "failed"} => index'[s] < end'[s]
      BY <1>1, <1>2, <1>3, Numbers DEF TypeOK, MapInv, ChunkInv
    <2>6. \A s, u \in Threads : s < u /\ pc'[u] # "unborn" => end'[s] <= begin'[u]
      <3> SUFFICES ASSUME NEW s \in Threads, NEW u \in Threads, s < u, pc'[u] # "unborn"
                   PROVE  end'[s] <= begin'[u]
        OBVIOUS
      <3>1. s # t
        BY <1>1, <1>3, <2>2, Numbers
      <3>2. end'[s] = end[s] /\ end[s] <= start
        BY <3>1, <1>3 DEF TypeOK, MapInv, ChunkInv
      <3>3. CASE u = t
        BY <3>2, <3>3, <1>3 DEF TypeOK
      <3>4. CASE u # t
        BY <3>2, <3>4, <1>3 DEF TypeOK, MapInv, ChunkInv
      <3> QED BY <3>3, <3>4
    <2> QED BY <2>1, <2>2, <2>3, <2>4, <2>5, <2>6 DEF ChunkInv
  <1>6. \A s \in Threads : s # t => Chunk(s)' = Chunk(s)
    BY <1>3 DEF TypeOK, Chunk
  <1>7. Chunk(t)' = start..(start + take - 1) /\ Chunk(t) = {}
    <2>1. begin'[t] = start /\ end'[t] = start + take
      BY <1>3 DEF TypeOK
    <2>2. begin[t] = 0 /\ end[t] = 0
      BY <1>1 DEF MapInv, ChunkInv
    <2>3. Chunk(t)' = begin'[t]..(end'[t] - 1) /\ Chunk(t) = begin[t]..(end[t] - 1)
      BY DEF Chunk
    <2>4. Chunk(t) = 0..(0 - 1)
      BY <2>2, <2>3
    <2>5. 0..(0 - 1) = {}
      OBVIOUS
    <2>6. Chunk(t)' = start..(start + take - 1)
      BY <2>1, <1>1, <1>2 DEF Chunk
    <2> QED BY <2>4, <2>5, <2>6
  <1>8. CoverInv'
    <2> SUFFICES ASSUME threads > 1, NEW i \in 0..(start' - 1)
                 PROVE  \E s \in Threads : i \in Chunk(s)'
      BY <1>3 DEF CoverInv
    <2>1. CASE i < start
      <3>1. PICK s \in Threads : i \in Chunk(s)
        BY <2>1, <1>1 DEF MapInv, CoverInv
      <3> QED BY <3>1, <1>6, <1>7
    <2>2. CASE i >= start
      BY <2>2, <1>1, <1>2, <1>3, <1>7
    <2> QED BY <2>1, <2>2, <1>1
  <1>9. FillInv'
    <2>1. \A i \in Chunk(t)' : i \in Index /\ slots'[i] = "none" /\ i >= index'[t]
      BY <1>1, <1>2, <1>3, <1>7, Numbers DEF TypeOK, Index, MapInv, FillInv
    <2>2. \A s \in Threads : s # t => index'[s] = index[s]
      BY <1>3 DEF TypeOK
    <2>3. \A s \in Threads : \A i \in Chunk(s)' : slots'[i] = "none" <=> i >= index'[s]
      BY <1>3, <1>6, <2>1, <2>2 DEF MapInv, FillInv
    <2> QED BY <2>3, <1>1, <1>2, <1>3, Numbers DEF FillInv, MapInv
  <1>10. OutcomeInv'
    BY <1>1, <1>3 DEF TypeOK, OutcomeInv, MapInv
  <1>11. KnownInv'
    <2>1. \A s \in Threads :
             pc'[s] = "done" /\ index'[s] # end'[s] => \E k \in 1..Len(order) : order[k] < index'[s]
      <3> SUFFICES ASSUME NEW s \in Threads, pc'[s] = "done", index'[s] # end'[s]
                   PROVE  \E k \in 1..Len(order) : order[k] < index'[s]
        OBVIOUS
      <3>1. s # t
        BY <1>1, <1>2, <1>3 DEF TypeOK
      <3>2. pc[s] = "done" /\ index'[s] = index[s] /\ end'[s] = end[s]
        BY <3>1, <1>3 DEF TypeOK
      <3> QED BY <3>2 DEF MapInv, KnownInv
    <2> QED BY <2>1, <1>3 DEF MapInv, KnownInv
  <1>12. StopInv'
    <2>1. \A i \in Chunk(t)' : slots'[i] = "none"
      BY <1>1, <1>2, <1>3, <1>7, Numbers DEF TypeOK, Index, MapInv, FillInv
    <2>2. \A s \in Threads : s # t => pc'[s] = pc[s] /\ index'[s] = index[s]
      BY <1>3 DEF TypeOK
    <2> QED BY <2>1, <2>2, <1>3, <1>6 DEF StopInv, MapInv
  <1> QED BY <1>4, <1>5, <1>8, <1>9, <1>10, <1>11, <1>12 DEF MapInv

\* The serial path, the collection and a cancellation move no chunk.
LEMMA MainStep ==
  ASSUME TypeOK, MapInv, SerialCall \/ SerialEnd \/ Collect \/ CancelCall
  PROVE  TypeOK' /\ MapInv'
  <1>1. CASE SerialCall
    <2>1. start \in Nat /\ n \in Nat /\ start < n /\ threads = 1 /\ spawned = 0
          /\ n <= MaxN
      BY <1>1, Numbers DEF TypeOK, MapInv, ChunkInv, SerialCall
    <2>2. UNCHANGED <<n, fails, cancelled, threads, spawned, order, pc, begin, index, end, seen, slots>>
      BY <1>1 DEF SerialCall, workerVars
    <2>3. \/ start' = start + 1 /\ result' = result /\ start \notin fails
          \/ start' = start /\ result' = ErrAt(start)
      BY <1>1 DEF SerialCall, Outcomes
    <2>4. start \in Index
      BY <2>1, Numbers DEF Index
    <2>5. TypeOK'
      BY <2>1, <2>2, <2>3, <2>4, Numbers DEF TypeOK
    <2>6. ChunkInv' /\ CoverInv'
      BY <2>1, <2>2, <2>3, Numbers DEF TypeOK, MapInv, ChunkInv, CoverInv
    <2>7. FillInv' /\ StopInv'
      BY <2>1, <2>2, <2>3, Numbers DEF TypeOK, MapInv, FillInv, StopInv, Chunk
    <2>8. OutcomeInv' /\ KnownInv'
      BY <2>1, <2>2, <2>3, Numbers DEF TypeOK, MapInv, OutcomeInv, KnownInv
    <2> QED BY <2>5, <2>6, <2>7, <2>8 DEF MapInv
  <1>2. CASE SerialEnd \/ Collect
    <2>1. UNCHANGED <<n, fails, cancelled, threads, spawned, start, order, pc, begin, index, end, seen, slots>>
      BY <1>2 DEF SerialEnd, Collect, mainVars, workerVars
    <2>2. result' \in {Pending, AllOk, Panic} \cup {ErrAt(i) : i \in Index}
      <3>1. \A i \in 0..(n - 1) : i \in Index
        BY Numbers DEF TypeOK, Index
      <3> QED BY <1>2, <3>1 DEF SerialEnd, Collect
    <2>3. TypeOK'
      BY <2>1, <2>2 DEF TypeOK
    <2> QED BY <2>1, <2>3
          DEF MapInv, ChunkInv, CoverInv, FillInv, OutcomeInv, KnownInv, StopInv, Chunk
  <1>3. CASE CancelCall
    <2>1. UNCHANGED <<n, fails, result, threads, spawned, start, order, pc, begin, index, end, seen, slots>>
      BY <1>3 DEF CancelCall, Cancel, mainVars, workerVars
    <2>2. cancelled' = TRUE
      BY <1>3 DEF CancelCall, Cancel
    <2>3. TypeOK'
      BY <2>1, <2>2 DEF TypeOK
    <2> QED BY <2>1, <2>2, <2>3
          DEF MapInv, ChunkInv, CoverInv, FillInv, OutcomeInv, KnownInv, StopInv, Chunk
  <1> QED BY <1>1, <1>2, <1>3

-----------------------------------------------------------------------------
(* Steps of a worker.                                                      *)

\* Reading first_failure: a worker that leaves its chunk has read why, and one whose
\* chunk holds a failure cannot go on.
LEMMA LoadStep ==
  ASSUME TypeOK, MapInv, NEW t \in Threads, Load(t)
  PROVE  TypeOK' /\ MapInv'
  <1>1. PICK k \in seen[t]..Len(order) :
           /\ seen' = [seen EXCEPT ![t] = k]
           /\ pc' = [pc EXCEPT ![t] = IF Stops(order[k], index[t]) THEN "done" ELSE "call"]
    BY DEF Load
  <1>2. /\ UNCHANGED <<n, fails, cancelled, result, threads, spawned, start, order, begin, index, end, slots>>
        /\ pc[t] = "load"
    BY DEF Load, mapVars, mainVars
  <1>3. /\ seen[t] \in Nat \ {0} /\ Len(order) \in Nat /\ k \in Nat /\ k > 0
        /\ k \in 1..Len(order) /\ seen[t] \in 1..Len(order)
    BY <1>1 DEF TypeOK, MapInv, KnownInv
  <1>4. TypeOK'
    BY <1>1, <1>2, <1>3 DEF TypeOK
  <1>5. \A s \in Threads : s # t => pc'[s] = pc[s] /\ seen'[s] = seen[s]
    BY <1>1 DEF TypeOK
  <1>6. pc'[t] = (IF order[k] < index[t] THEN "done" ELSE "call") /\ seen'[t] = k
    BY <1>1 DEF TypeOK, Stops
  <1>7. \A s \in Threads : Chunk(s)' = Chunk(s)
    BY <1>2 DEF Chunk
  <1>8. ChunkInv'
    BY <1>2, <1>5, <1>6 DEF MapInv, ChunkInv
  <1>9. CoverInv' /\ FillInv'
    BY <1>2, <1>7 DEF MapInv, CoverInv, FillInv
  <1>10. OutcomeInv'
    BY <1>2, <1>5, <1>6 DEF MapInv, OutcomeInv
  <1>11. KnownInv'
    BY <1>2, <1>3, <1>5, <1>6 DEF MapInv, KnownInv
  <1>12. StopInv'
    <2> SUFFICES ASSUME NEW s \in Threads, NEW j \in Chunk(s), slots[j] = "err"
                 PROVE  pc'[s] \in {"load", "done"} /\ index[s] = j + 1 /\ order[seen'[s]] <= j
      BY <1>2, <1>7 DEF StopInv
    <2>1. pc[s] \in {"load", "done"} /\ index[s] = j + 1 /\ order[seen[s]] <= j
      BY DEF MapInv, StopInv
    <2>2. CASE s # t
      BY <2>1, <2>2, <1>5
    <2>3. CASE s = t
      <3>1. j \in Int
        BY ChunkIndex
      <3>2. order[k] \in 0..MaxN /\ order[seen[t]] \in 0..MaxN
        BY <1>3, OrderRange
      <3>3. order[k] <= order[seen[t]]
        BY <1>1, <1>3 DEF MapInv, KnownInv
      <3>4. order[k] <= j /\ order[k] < index[t]
        BY <2>1, <2>3, <3>1, <3>2, <3>3, Numbers
      <3> QED BY <2>1, <2>3, <3>4, <1>6
    <2> QED BY <2>2, <2>3
  <1> QED BY <1>4, <1>8, <1>9, <1>10, <1>11, <1>12 DEF MapInv

\* f failed and first_failure is not updated yet.
LEMMA CallErrStep ==
  ASSUME TypeOK, MapInv, NEW t \in Threads, pc[t] = "call", "err" \in Outcomes(index[t]),
         pc' = [pc EXCEPT ![t] = "failed"],
         UNCHANGED <<mapVars, mainVars, order, begin, index, end, seen, slots>>
  PROVE  TypeOK' /\ MapInv'
  <1>1. UNCHANGED <<n, fails, cancelled, result, threads, spawned, start>>
    BY DEF mapVars, mainVars
  <1>2. index[t] \in fails \/ cancelled
    BY DEF Outcomes
  <1>3. TypeOK'
    BY <1>1 DEF TypeOK
  <1>4. \A s \in Threads : pc'[s] = IF s = t THEN "failed" ELSE pc[s]
    BY DEF TypeOK
  <1>5. ChunkInv' /\ CoverInv'
    BY <1>1, <1>4 DEF MapInv, ChunkInv, CoverInv, Chunk
  <1>6. FillInv' /\ OutcomeInv'
    BY <1>1, <1>2, <1>4 DEF MapInv, FillInv, OutcomeInv, Chunk
  <1>7. KnownInv' /\ StopInv'
    BY <1>1, <1>4 DEF MapInv, KnownInv, StopInv, Chunk
  <1> QED BY <1>3, <1>5, <1>6, <1>7 DEF MapInv

\* Filling the slot of a worker's index: the facts that do not depend on how the
\* call ended.
LEMMA FillStep ==
  ASSUME TypeOK, MapInv, NEW t \in Threads, pc[t] \in {"call", "failed"},
         NEW out \in {"ok", "err"}, Fill(t, out),
         UNCHANGED <<mapVars, mainVars, begin, end>>
  PROVE  /\ index[t] \in Index /\ index[t] \in Chunk(t) /\ slots[index[t]] = "none"
         /\ slots' \in [Index -> {"none", "ok", "err"}]
         /\ \A i \in Index : slots'[i] = IF i = index[t] THEN out ELSE slots[i]
         /\ index' \in [Threads -> 0..MaxN]
         /\ \A s \in Threads : index'[s] = IF s = t THEN index[t] + 1 ELSE index[s]
         /\ pc' \in [Threads -> {"unborn", "load", "call", "failed", "done"}]
         /\ \A s \in Threads : s # t => pc'[s] = pc[s]
         /\ pc'[t] \in {"load", "done"} /\ (pc'[t] = "done" <=> index[t] + 1 = end[t])
         /\ \A s \in Threads : Chunk(s)' = Chunk(s) /\ Chunk(s) \subseteq Index
         /\ \A s \in Threads : s # t => index[t] \notin Chunk(s)
         /\ ChunkInv' /\ CoverInv' /\ FillInv'
  <1>1. UNCHANGED <<n, fails, cancelled, result, threads, spawned, start>>
    BY DEF mapVars, mainVars
  <1>2. /\ index[t] < end[t] /\ end[t] <= start /\ start <= n /\ n <= MaxN
        /\ begin[t] <= index[t] /\ index[t] \in Nat /\ end[t] \in Nat /\ begin[t] \in Nat
        /\ start \in Nat /\ n \in Nat
    BY Numbers DEF TypeOK, MapInv, ChunkInv
  <1>3. index[t] \in Index /\ index[t] \in Chunk(t)
    BY <1>2, Numbers DEF Index, Chunk
  <1>4. slots[index[t]] = "none"
    BY <1>2, <1>3 DEF MapInv, FillInv
  <1>5. /\ slots' \in [Index -> {"none", "ok", "err"}]
        /\ \A i \in Index : slots'[i] = IF i = index[t] THEN out ELSE slots[i]
    BY <1>3 DEF Fill, TypeOK
  <1>6. /\ index' \in [Threads -> 0..MaxN]
        /\ \A s \in Threads : index'[s] = IF s = t THEN index[t] + 1 ELSE index[s]
    BY <1>2, Numbers DEF Fill, TypeOK
  <1>7. /\ pc' \in [Threads -> {"unborn", "load", "call", "failed", "done"}]
        /\ \A s \in Threads : s # t => pc'[s] = pc[s]
        /\ pc'[t] \in {"load", "done"} /\ (pc'[t] = "done" <=> index[t] + 1 = end[t])
    BY DEF Fill, TypeOK, AtEnd
  <1>8. \A s \in Threads : Chunk(s)' = Chunk(s)
    BY DEF Chunk
  <1>9. \A s \in Threads : Chunk(s) \subseteq Index
    BY ChunkIndex
  <1>10. \A s \in Threads : s # t => index[t] \notin Chunk(s)
    <2> SUFFICES ASSUME NEW s \in Threads, s # t, index[t] \in Chunk(s) PROVE FALSE
      OBVIOUS
    <2>1. s \in Nat /\ t \in Nat
      BY Numbers
    <2>2. begin[s] <= index[t] /\ index[t] < end[s] /\ begin[s] \in Nat /\ end[s] \in Nat
      BY <1>2 DEF Chunk, TypeOK
    <2>3. pc[s] # "unborn"
      BY <2>2, <1>2 DEF MapInv, ChunkInv
    <2>4. CASE s < t
      BY <2>2, <2>4, <1>2 DEF MapInv, ChunkInv
    <2>5. CASE t < s
      BY <2>2, <2>3, <2>5, <1>2 DEF MapInv, ChunkInv
    <2> QED BY <2>1, <2>4, <2>5
  <1>11. ChunkInv'
    <2>1. \A s \in Threads : pc'[s] = "unborn" <=> pc[s] = "unborn"
      BY <1>7
    <2>2. \A s \in Threads : begin[s] <= index'[s] /\ index'[s] <= end[s]
      BY <1>2, <1>6 DEF MapInv, ChunkInv
    <2>3. \A s \in Threads : pc'[s] \in {"load", "call", "failed"} => index'[s] < end[s]
      BY <1>2, <1>6, <1>7 DEF MapInv, ChunkInv
    <2> QED BY <1>1, <2>1, <2>2, <2>3 DEF MapInv, ChunkInv
  <1>12. CoverInv'
    BY <1>1, <1>8 DEF MapInv, CoverInv
  <1>13. FillInv'
    <2>1. \A s \in Threads : \A i \in Chunk(s) : slots'[i] = "none" <=> i >= index'[s]
      <3> SUFFICES ASSUME NEW s \in Threads, NEW i \in Chunk(s)
                   PROVE  slots'[i] = "none" <=> i >= index'[s]
        OBVIOUS
      <3>0. i \in Index /\ i \in Int
        BY ChunkIndex
      <3>1. slots[i] = "none" <=> i >= index[s]
        BY DEF MapInv, FillInv
      <3>2. CASE s = t
        BY <3>0, <3>1, <3>2, <1>2, <1>5, <1>6
      <3>3. CASE s # t
        BY <3>0, <3>1, <3>3, <1>5, <1>6, <1>10
      <3> QED BY <3>2, <3>3
    <2>2. \A i \in Index : i >= start => slots'[i] = "none"
      BY <1>2, <1>5, Numbers DEF MapInv, FillInv
    <2> QED BY <1>1, <1>8, <2>1, <2>2 DEF FillInv
  <1> QED BY <1>3, <1>4, <1>5, <1>6, <1>7, <1>8, <1>9, <1>10, <1>11, <1>12, <1>13

\* f succeeded.
LEMMA CallOkStep ==
  ASSUME TypeOK, MapInv, NEW t \in Threads, pc[t] = "call", "ok" \in Outcomes(index[t]),
         Fill(t, "ok"), UNCHANGED <<mapVars, mainVars, order, begin, end, seen>>
  PROVE  TypeOK' /\ MapInv'
  <1>1. UNCHANGED <<n, fails, cancelled, result, threads, spawned, start>>
    BY DEF mapVars, mainVars
  <1>2. /\ index[t] \in Index /\ index[t] \in Chunk(t) /\ slots[index[t]] = "none"
        /\ slots' \in [Index -> {"none", "ok", "err"}]
        /\ \A i \in Index : slots'[i] = IF i = index[t] THEN "ok" ELSE slots[i]
    BY FillStep
  <1>3. /\ index' \in [Threads -> 0..MaxN]
        /\ \A s \in Threads : index'[s] = IF s = t THEN index[t] + 1 ELSE index[s]
        /\ pc' \in [Threads -> {"unborn", "load", "call", "failed", "done"}]
        /\ \A s \in Threads : s # t => pc'[s] = pc[s]
        /\ pc'[t] \in {"load", "done"} /\ (pc'[t] = "done" <=> index[t] + 1 = end[t])
    BY FillStep
  <1>4. \A s \in Threads : Chunk(s)' = Chunk(s) /\ Chunk(s) \subseteq Index
    BY FillStep
  <1>5. ChunkInv' /\ CoverInv' /\ FillInv'
    BY FillStep
  <1>6. TypeOK'
    BY <1>1, <1>2, <1>3 DEF TypeOK
  <1>7. index[t] \notin fails
    BY DEF Outcomes
  <1>8. OutcomeInv'
    <2>1. \A i \in Index : slots'[i] = "ok" => i \notin fails
      BY <1>2, <1>7 DEF MapInv, OutcomeInv
    <2>2. \A i \in Index : slots'[i] = "err" => i \in fails \/ cancelled
      BY <1>2 DEF MapInv, OutcomeInv
    <2>3. \A s \in Threads : pc'[s] = "failed" => index'[s] \in fails \/ cancelled
      BY <1>3 DEF MapInv, OutcomeInv
    <2> QED BY <1>1, <2>1, <2>2, <2>3 DEF MapInv, OutcomeInv
  <1>9. KnownInv'
    <2>1. \A k \in 1..Len(order) :
             order[k] = NoFailure \/ (order[k] \in Index /\ slots'[order[k]] = "err")
      BY <1>2 DEF MapInv, KnownInv
    <2>2. \A s \in Threads :
             pc'[s] = "done" /\ index'[s] # end[s] => \E k \in 1..Len(order) : order[k] < index'[s]
      BY <1>3 DEF MapInv, KnownInv
    <2> QED BY <2>1, <2>2 DEF MapInv, KnownInv
  <1>10. StopInv'
    <2> SUFFICES ASSUME NEW s \in Threads, NEW j \in Chunk(s), slots'[j] = "err"
                 PROVE  pc'[s] \in {"load", "done"} /\ index'[s] = j + 1 /\ order[seen[s]] <= j
      BY <1>4 DEF StopInv
    <2>1. slots[j] = "err"
      BY <1>2, <1>4
    <2>2. pc[s] \in {"load", "done"} /\ index[s] = j + 1 /\ order[seen[s]] <= j
      BY <2>1 DEF MapInv, StopInv
    <2>3. s # t
      BY <2>2
    <2> QED BY <2>2, <2>3, <1>3
  <1> QED BY <1>5, <1>6, <1>8, <1>9, <1>10 DEF MapInv

\* f failed: fetch_min lowers first_failure to an index that failed and leaves the
\* worker with a value not above its own index.
LEMMA FailedStep ==
  ASSUME TypeOK, MapInv, NEW t \in Threads, Failed(t)
  PROVE  TypeOK' /\ MapInv'
  <1> DEFINE len == Len(order)
             low == FetchMin(order[len], index[t])
  <1>1. /\ UNCHANGED <<n, fails, cancelled, result, threads, spawned, start, begin, end>>
        /\ pc[t] = "failed" /\ Fill(t, "err") /\ UNCHANGED <<mapVars, mainVars, begin, end>>
        /\ order' = Append(order, low) /\ seen' = [seen EXCEPT ![t] = len + 1]
    BY DEF Failed, mapVars, mainVars
  <1>2. /\ index[t] \in Index /\ index[t] \in Chunk(t) /\ slots[index[t]] = "none"
        /\ slots' \in [Index -> {"none", "ok", "err"}]
        /\ \A i \in Index : slots'[i] = IF i = index[t] THEN "err" ELSE slots[i]
    BY <1>1, FillStep
  <1>3. /\ index' \in [Threads -> 0..MaxN]
        /\ \A s \in Threads : index'[s] = IF s = t THEN index[t] + 1 ELSE index[s]
        /\ pc' \in [Threads -> {"unborn", "load", "call", "failed", "done"}]
        /\ \A s \in Threads : s # t => pc'[s] = pc[s]
        /\ pc'[t] \in {"load", "done"} /\ (pc'[t] = "done" <=> index[t] + 1 = end[t])
    BY <1>1, FillStep
  <1>4. /\ \A s \in Threads : Chunk(s)' = Chunk(s) /\ Chunk(s) \subseteq Index
        /\ \A s \in Threads : s # t => index[t] \notin Chunk(s)
    BY <1>1, FillStep
  <1>5. ChunkInv' /\ CoverInv' /\ FillInv'
    BY <1>1, FillStep
  <1>6. /\ len \in Nat /\ len > 0 /\ order[len] \in 0..MaxN /\ index[t] \in 0..MaxN
        /\ low \in 0..MaxN /\ low <= index[t] /\ low <= order[len]
        /\ low = index[t] \/ low = order[len]
    <2>1. len \in Nat /\ len > 0 /\ index[t] \in 0..MaxN
      BY OrderRange DEF TypeOK
    <2>2. order[len] \in 0..MaxN
      BY <2>1, OrderRange
    <2> QED BY <2>1, <2>2, Numbers DEF FetchMin
  <1> HIDE DEF low
  <1>7. /\ order' \in Seq(0..MaxN) /\ Len(order') = len + 1 /\ order'[len + 1] = low
        /\ \A k \in 1..len : order'[k] = order[k]
    <2>1. order \in Seq(0..MaxN)
      BY DEF TypeOK
    <2> QED BY <1>1, <1>6, <2>1
  <1>8. TypeOK'
    <2>1. seen' \in [Threads -> Nat \ {0}] /\ Len(order') > 0
      BY <1>1, <1>6, <1>7 DEF TypeOK
    <2>2. order' \in Seq(0..MaxN)
      BY <1>7
    <2> QED BY <1>1, <1>2, <1>3, <2>1, <2>2 DEF TypeOK
  <1>9. OutcomeInv'
    <2>1. \A i \in Index : slots'[i] = "ok" => i \notin fails
      BY <1>2 DEF MapInv, OutcomeInv
    <2>2. \A i \in Index : slots'[i] = "err" => i \in fails \/ cancelled
      BY <1>1, <1>2 DEF MapInv, OutcomeInv
    <2>3. \A s \in Threads : pc'[s] = "failed" => index'[s] \in fails \/ cancelled
      BY <1>3 DEF MapInv, OutcomeInv
    <2> QED BY <1>1, <2>1, <2>2, <2>3 DEF MapInv, OutcomeInv
  <1>10. KnownInv'
    <2>1. \A s \in Threads : seen'[s] <= Len(order')
      BY <1>1, <1>6, <1>7 DEF TypeOK, MapInv, KnownInv
    <2>2. \A k, l \in 1..Len(order') : k <= l => order'[l] <= order'[k]
      <3> SUFFICES ASSUME NEW k \in 1..(len + 1), NEW l \in 1..(len + 1), k <= l
                   PROVE  order'[l] <= order'[k]
        BY <1>7
      <3>1. CASE l \in 1..len
        BY <3>1, <1>6, <1>7 DEF MapInv, KnownInv
      <3>2. CASE l = len + 1 /\ k \in 1..len
        <4>1. order[k] \in 0..MaxN /\ len \in 1..len /\ k <= len
          BY <3>2, <1>6, OrderRange
        <4>2. order[len] <= order[k]
          BY <3>2, <4>1 DEF MapInv, KnownInv
        <4> QED BY <4>1, <4>2, <3>2, <1>6, <1>7
      <3>3. CASE l = len + 1 /\ k = len + 1
        BY <3>3, <1>6, <1>7
      <3> QED BY <3>1, <3>2, <3>3, <1>6
    <2>3. \A k \in 1..len :
             order[k] = NoFailure \/ (order[k] \in Index /\ slots'[order[k]] = "err")
      BY <1>2 DEF MapInv, KnownInv
    <2>4. low = NoFailure \/ (low \in Index /\ slots'[low] = "err")
      BY <2>3, <1>2, <1>6
    <2>5. \A k \in 1..Len(order') :
             order'[k] = NoFailure \/ (order'[k] \in Index /\ slots'[order'[k]] = "err")
      BY <2>3, <2>4, <1>6, <1>7
    <2>6. \A s \in Threads :
             pc'[s] = "done" /\ index'[s] # end[s] => \E k \in 1..len : order[k] < index'[s]
      BY <1>3 DEF MapInv, KnownInv
    <2>7. \A s \in Threads :
             pc'[s] = "done" /\ index'[s] # end[s] =>
                \E k \in 1..Len(order') : order'[k] < index'[s]
      BY <2>6, <1>6, <1>7
    <2> QED BY <2>1, <2>2, <2>5, <2>7, <1>1 DEF KnownInv
  <1>11. StopInv'
    <2> SUFFICES ASSUME NEW s \in Threads, NEW j \in Chunk(s), slots'[j] = "err"
                 PROVE  pc'[s] \in {"load", "done"} /\ index'[s] = j + 1 /\ order'[seen'[s]] <= j
      BY <1>4 DEF StopInv
    <2>1. CASE s = t
      <3>1. j = index[t]
        <4> SUFFICES ASSUME j # index[t] PROVE FALSE
          OBVIOUS
        <4>1. slots[j] = "err"
          BY <1>2, <1>4
        <4> QED BY <4>1, <2>1, <1>1 DEF MapInv, StopInv
      <3>2. seen'[t] = len + 1
        BY <1>1 DEF TypeOK
      <3> QED BY <3>1, <3>2, <2>1, <1>3, <1>6, <1>7
    <2>2. CASE s # t
      <3>1. slots[j] = "err"
        BY <2>2, <1>2, <1>4
      <3>2. pc[s] \in {"load", "done"} /\ index[s] = j + 1 /\ order[seen[s]] <= j
        BY <3>1 DEF MapInv, StopInv
      <3>3. seen'[s] = seen[s] /\ seen[s] \in 1..len
        BY <2>2, <1>1, <1>6 DEF TypeOK, MapInv, KnownInv
      <3> QED BY <2>2, <3>2, <3>3, <1>3, <1>7
    <2> QED BY <2>1, <2>2
  <1> QED BY <1>5, <1>8, <1>9, <1>10, <1>11 DEF MapInv

-----------------------------------------------------------------------------
(* The theorems.                                                           *)

\* Every step preserves both invariants.
LEMMA InvStep == TypeOK /\ MapInv /\ [Next]_vars => TypeOK' /\ MapInv'
  <1> SUFFICES ASSUME TypeOK, MapInv, [Next]_vars PROVE TypeOK' /\ MapInv'
    OBVIOUS
  <1>1. CASE CancelCall \/ SerialCall \/ SerialEnd \/ Collect
    BY <1>1, MainStep
  <1>2. CASE \E t \in Threads : Spawn(t)
    BY <1>2, SpawnStep
  <1>3. ASSUME NEW t \in Threads, Worker(t) PROVE TypeOK' /\ MapInv'
    <2>1. CASE Load(t)
      BY <2>1, LoadStep
    <2>2. CASE Failed(t)
      BY <2>2, FailedStep
    <2>3. CASE Call(t)
      <3>1. pc[t] = "call" /\ UNCHANGED <<mapVars, mainVars, order, begin, end, seen>>
        BY <2>3 DEF Call
      <3>2. CASE "ok" \in Outcomes(index[t]) /\ Fill(t, "ok")
        BY <3>1, <3>2, CallOkStep
      <3>3. CASE /\ "err" \in Outcomes(index[t])
                 /\ pc' = [pc EXCEPT ![t] = "failed"]
                 /\ UNCHANGED <<index, slots>>
        BY <3>1, <3>3, CallErrStep
      <3> QED BY <2>3, <3>2, <3>3 DEF Call
    <2> QED BY <1>3, <2>1, <2>2, <2>3 DEF Worker
  <1>4. CASE UNCHANGED vars
    <2>1. UNCHANGED <<n, fails, cancelled, result, threads, spawned, start, order, pc, begin, index, end, seen, slots>>
      BY <1>4 DEF vars, mapVars, mainVars, workerVars
    <2>2. TypeOK'
      BY <2>1 DEF TypeOK
    <2> QED BY <2>1, <2>2
          DEF MapInv, ChunkInv, CoverInv, FillInv, OutcomeInv, KnownInv, StopInv, Chunk
  <1> QED BY <1>1, <1>2, <1>3, <1>4 DEF Next, Main

\* Both hold throughout every call.
LEMMA Invariant == Spec => [](TypeOK /\ MapInv)
  BY TypeInit, InvInit, InvStep, PTL DEF Spec

\* Type correctness, for every number of indices and of workers: no worker leaves
\* the slots it was handed.
THEOREM TypeCorrect == Spec => []TypeOK
  BY Invariant, PTL

\* A chunk stops at its first failure, for every number of indices and workers and
\* every value a relaxed load of first_failure may return.
THEOREM ChunkStops == Spec => []FailingChunkStops
  <1>1. TypeOK /\ MapInv => FailingChunkStops
    <2> SUFFICES ASSUME TypeOK, MapInv, NEW t \in Threads, NEW j \in Chunk(t), slots[j] = "err",
                        NEW i \in Chunk(t), i > j
                 PROVE  pc[t] \in {"load", "done"} /\ slots[i] = "none"
      BY DEF FailingChunkStops, MapInv, StopInv
    <2>1. pc[t] \in {"load", "done"} /\ index[t] = j + 1
      BY DEF MapInv, StopInv
    <2>2. i \in Int /\ j \in Int
      BY ChunkIndex
    <2> QED BY <2>1, <2>2 DEF MapInv, FillInv
  <1> QED BY <1>1, Invariant, PTL

\* A step of a call is a step, or a stutter, of the serial promise.
LEMMA PromiseStep ==
  ASSUME TypeOK, MapInv, [Next]_vars
  PROVE  [MapNext]_mapVars
  <1>1. CASE CancelCall
    BY <1>1 DEF CancelCall, MapNext
  <1>2. CASE SerialCall
    <2>1. start \in 0..(n - 1) /\ result = Pending /\ UNCHANGED <<n, fails, cancelled>> /\ threads = 1
      BY <1>2 DEF SerialCall, TypeOK
    <2>2. CASE UNCHANGED result
      BY <2>1, <2>2 DEF mapVars
    <2>3. CASE "err" \in Outcomes(start) /\ result' = ErrAt(start)
      <3>1. start \in fails \/ cancelled
        BY <2>3 DEF Outcomes
      <3>2. \A j \in fails : start <= j
        BY <2>1 DEF TypeOK, MapInv, OutcomeInv
      <3>3. Serial(result')
        BY <2>1, <2>3, <3>1, <3>2 DEF Serial
      <3> QED BY <2>1, <2>3, <3>3 DEF MapNext, Answer
    <2> QED BY <1>2, <2>2, <2>3 DEF SerialCall
  <1>3. CASE SerialEnd
    <2>1. start = n /\ threads = 1 /\ result = Pending /\ result' = AllOk
          /\ UNCHANGED <<n, fails, cancelled>>
      BY <1>3 DEF SerialEnd
    <2>2. fails = {}
      BY <2>1 DEF TypeOK, MapInv, OutcomeInv
    <2> QED BY <2>1, <2>2 DEF MapNext, Answer, Serial
  <1>4. CASE Collect
    <2>1. result = Pending /\ Joined /\ UNCHANGED <<n, fails, cancelled>>
      BY <1>4 DEF Collect
    <2>2. \A i \in 0..(n - 1) : i \in Index
      BY Numbers DEF TypeOK, Index
    <2>3. CASE (\A i \in 0..(n - 1) : slots[i] = "ok") /\ result' = AllOk
      <3>1. \A i \in 0..(n - 1) : i \notin fails
        BY <2>2, <2>3 DEF MapInv, OutcomeInv
      <3>2. fails = {}
        BY <3>1 DEF TypeOK
      <3> QED BY <2>1, <2>3, <3>2 DEF MapNext, Answer, Serial
    <2>4. ASSUME NEW i \in 0..(n - 1), Stopping(i),
                 result' = IF slots[i] = "err" THEN ErrAt(i) ELSE Panic
          PROVE  [MapNext]_mapVars
      <3>0. i \in Int /\ i \in Index /\ n \in Nat
        BY <2>2 DEF TypeOK
      <3>1. \A j \in 0..(i - 1) : slots[j] = "ok" /\ j \in Index
        BY <2>2, <2>4, <3>0 DEF Stopping
      <3>2. CASE slots[i] = "err"
        <4>1. i \in fails \/ cancelled
          BY <3>2, <3>0 DEF MapInv, OutcomeInv
        <4>2. \A j \in 0..(i - 1) : j \notin fails
          BY <3>1 DEF MapInv, OutcomeInv
        <4>3. \A j \in fails : i <= j
          BY <4>2, <3>0 DEF TypeOK
        <4>4. Serial(result') /\ result' = ErrAt(i)
          BY <2>1, <2>4, <3>2, <4>1, <4>3 DEF Serial
        <4> QED BY <2>1, <4>4 DEF MapNext, Answer
      <3>3. CASE slots[i] # "err"
        <4>1. slots[i] = "none"
          BY <3>0, <3>3, <2>4 DEF Stopping, TypeOK
        <4>2. start = n /\ threads > 1
          BY <2>1 DEF Joined, Spawning, TypeOK, MapInv, ChunkInv
        <4>3. PICK t \in Threads : i \in Chunk(t)
          BY <4>2, <3>0 DEF MapInv, CoverInv
        <4>4. i >= index[t] /\ index[t] \in Nat /\ end[t] \in Nat /\ i < end[t] /\ begin[t] \in Nat
          BY <4>1, <4>3, <3>0 DEF MapInv, FillInv, Chunk, TypeOK
        <4>5. pc[t] = "done"
          <5>1. pc[t] # "unborn"
            BY <4>3, <4>4, <3>0 DEF MapInv, ChunkInv, Chunk
          <5> QED BY <5>1, <2>1 DEF Joined
        <4>6. PICK k \in 1..Len(order) : order[k] < index[t]
          BY <4>4, <4>5, <3>0 DEF MapInv, KnownInv
        <4>7. order[k] \in 0..MaxN /\ order[k] < i /\ i < MaxN
          BY <4>4, <4>6, <3>0, OrderRange, Numbers DEF Index
        <4>8. slots[order[k]] = "err"
          BY <4>7, Numbers DEF MapInv, KnownInv, NoFailure
        <4>9. order[k] \in 0..(i - 1)
          BY <4>7, <3>0, Numbers
        <4> QED BY <4>8, <4>9, <3>1
      <3> QED BY <3>2, <3>3
    <2> QED BY <1>4, <2>3, <2>4 DEF Collect
  <1>5. CASE \E t \in Threads : Spawn(t) \/ Worker(t)
    BY <1>5 DEF Spawn, Worker, Load, Call, Failed
  <1>6. CASE UNCHANGED vars
    BY <1>6 DEF vars
  <1> QED BY <1>1, <1>2, <1>3, <1>4, <1>5, <1>6 DEF Next, Main

\* map_indexed implements its serial promise, for every number of indices and
\* workers: the lowest failing index answers, and the panic on an unfilled slot is
\* never reached.
THEOREM Implements == Spec => AnswersLikeSerial
  <1>1. Init => MapInit
    BY DEF Init
  <1> QED BY <1>1, Invariant, PromiseStep, PTL DEF Spec, AnswersLikeSerial, MapSpec

-----------------------------------------------------------------------------
(* Progress.  Under the fairness of FairSpec the two theorems below give   *)
(* Returns: somebody can always step, and nobody steps for ever.           *)

\* A worker at work.
Busy(t) == pc[t] \in {"load", "call", "failed"}

\* The calling thread is in a loop of its own, or has joined the workers and finds what
\* the collection ends with.
CallerMoves ==
    \/ threads = 1
    \/ Spawning /\ spawned \in Threads
    \/ Joined /\ (\/ \A i \in 0..(n - 1) : slots[i] = "ok"
                  \/ \E i \in 0..(n - 1) : Stopping(i))

\* No thread waits for one that waits: a call that has not returned has a worker at work,
\* which waits for nobody, or its calling thread can go on.
NobodyIsStuck == result = Pending => CallerMoves \/ \E t \in Threads : Busy(t)

\* The steps a worker has left at most: load, call and fetch_min for each index.
Rest(t) ==
    IF ~Busy(t) THEN 0
    ELSE 3 * (end[t] - index[t])
            - (IF pc[t] = "load" THEN 0 ELSE IF pc[t] = "call" THEN 1 ELSE 2)

\* A spawned worker never goes back, whatever first_failure it reads and whoever else
\* steps: each of its steps leaves it fewer.
WorkRunsOut ==
    \A t \in Threads : pc[t] # "unborn" =>
        /\ Rest(t) \in Nat
        /\ <<pc[t], index[t], end[t]>>' # <<pc[t], index[t], end[t]>> => Rest(t)' < Rest(t)

\* A set of indices that is not empty has a least one.
LEMMA LeastIndex ==
  ASSUME NEW S \in SUBSET Nat, S # {}
  PROVE  \E i \in S : \A j \in S : i <= j
  <1>. DEFINE Below == {0..i : i \in S}
  <1>1. Below \subseteq FiniteSubsetsOf(Nat) /\ Below # {}
    <2>1. \A i \in S : 0..i \in SUBSET Nat /\ IsFiniteSet(0..i)
      BY FS_Interval
    <2>. QED BY <2>1 DEF FiniteSubsetsOf
  <1>2. PICK least \in Below : \A u \in Below : <<u, least>> \notin StrictSubsetOrdering(Nat)
    <2>. HIDE DEF Below
    <2>. QED BY <1>1, WFMin, FS_StrictSubsetOrderingWellFounded
  <1>3. PICK i \in S : least = 0..i
    OBVIOUS
  <1>4. ASSUME NEW j \in S PROVE ~(j < i)
    <2>1. ~(0..j \subseteq 0..i /\ 0..j # 0..i)
      <3>1. <<0..j, 0..i>> \notin StrictSubsetOrdering(Nat)
        BY <1>2, <1>3
      <3>. QED BY <3>1 DEF StrictSubsetOrdering
    <2>2. j < i => 0..j \subseteq 0..i /\ i \in 0..i /\ i \notin 0..j
      OBVIOUS
    <2>. QED BY <2>1, <2>2
  <1>. QED BY <1>4

\* No call of map_indexed gets stuck, for every number of indices and workers: the
\* collection finds all slots filled or a first one that stops it.
THEOREM NeverStuck == Spec => []NobodyIsStuck
  <1>1. TypeOK /\ MapInv => NobodyIsStuck
    <2>. SUFFICES ASSUME TypeOK, MapInv, threads # 1, ~Spawning, \A t \in Threads : ~Busy(t)
                  PROVE  CallerMoves
      <3>1. ASSUME TypeOK, MapInv, Spawning PROVE spawned \in Threads
        BY <3>1, Numbers DEF TypeOK, Spawning, Threads
      <3>. QED BY <3>1 DEF NobodyIsStuck, CallerMoves
    <2>1. Joined
      BY DEF Joined, Busy, TypeOK
    <2>. DEFINE S == {i \in 0..(n - 1) : slots[i] # "ok"}
    <2>2. CASE S = {}
      BY <2>1, <2>2 DEF CallerMoves
    <2>3. CASE S # {}
      <3>1. S \in SUBSET Nat /\ n \in Nat
        BY DEF TypeOK
      <3>2. PICK i \in S : \A j \in S : i <= j
        BY <2>3, <3>1, LeastIndex
      <3>3. Stopping(i)
        BY <3>1, <3>2 DEF Stopping
      <3>. QED BY <2>1, <3>2, <3>3 DEF CallerMoves
    <2>. QED BY <2>2, <2>3
  <1>. QED BY <1>1, Invariant, PTL

\* A worker at work moves on to its next index or leaves its chunk.
LEMMA WorkerDescends ==
  ASSUME TypeOK, MapInv, NEW t \in Threads, Worker(t)
  PROVE  /\ Rest(t)' < Rest(t)
         /\ \A s \in Threads : s # t => pc'[s] = pc[s] /\ index'[s] = index[s] /\ end'[s] = end[s]
  <1>1. /\ pc[t] \in {"load", "call", "failed"} /\ end' = end
        /\ index[t] \in Nat /\ end[t] \in Nat /\ index[t] < end[t]
    <2>1. pc[t] \in {"load", "call", "failed"} /\ end' = end
      BY DEF Worker, Load, Call, Failed, Fill
    <2>. QED BY <2>1 DEF MapInv, ChunkInv, TypeOK
  <1>2. pc \in [Threads -> {"unborn", "load", "call", "failed", "done"}]
        /\ index \in [Threads -> 0..MaxN]
    BY DEF TypeOK
  <1>3. CASE Load(t)
    <2>1. index' = index /\ pc[t] = "load"
          /\ \E to \in {"done", "call"} : pc' = [pc EXCEPT ![t] = to]
      BY <1>3 DEF Load
    <2>2. pc'[t] \in {"done", "call"} /\ \A s \in Threads : s # t => pc'[s] = pc[s]
      BY <1>2, <2>1
    <2>. QED BY <1>1, <2>1, <2>2 DEF Rest, Busy
  <1>4. ASSUME NEW out, Fill(t, out), pc[t] \in {"call", "failed"}
        PROVE  /\ Rest(t)' < Rest(t)
               /\ \A s \in Threads : s # t =>
                     pc'[s] = pc[s] /\ index'[s] = index[s] /\ end'[s] = end[s]
    <2>1. index'[t] = index[t] + 1
          /\ pc'[t] = IF index[t] + 1 = end[t] THEN "done" ELSE "load"
      BY <1>2, <1>4 DEF Fill, AtEnd
    <2>2. \A s \in Threads : s # t => pc'[s] = pc[s] /\ index'[s] = index[s]
      BY <1>2, <1>4 DEF Fill
    <2>. QED BY <1>1, <1>4, <2>1, <2>2 DEF Rest, Busy
  <1>5. CASE Failed(t)
    BY <1>4, <1>5 DEF Failed
  <1>6. CASE Call(t)
    <2>1. CASE \E out : Fill(t, out)
      BY <1>4, <1>6, <2>1 DEF Call
    <2>2. CASE pc' = [pc EXCEPT ![t] = "failed"] /\ UNCHANGED <<index, slots>>
      <3>1. pc[t] = "call" /\ pc'[t] = "failed" /\ index' = index
            /\ \A s \in Threads : s # t => pc'[s] = pc[s]
        BY <1>2, <1>6, <2>2 DEF Call
      <3>. QED BY <1>1, <3>1 DEF Rest, Busy
    <2>. QED BY <1>6, <2>1, <2>2 DEF Call
  <1>. QED BY <1>3, <1>5, <1>6 DEF Worker

\* Every worker of map_indexed runs out of work, however stale the failures it reads.
THEOREM WorkersRunOut == Spec => [][WorkRunsOut]_vars
  <1>1. TypeOK /\ MapInv /\ Next => WorkRunsOut
    <2>. SUFFICES ASSUME TypeOK, MapInv, Next, NEW t \in Threads, pc[t] # "unborn"
                  PROVE  /\ Rest(t) \in Nat
                         /\ <<pc[t], index[t], end[t]>>' # <<pc[t], index[t], end[t]>>
                               => Rest(t)' < Rest(t)
      BY DEF WorkRunsOut
    <2>1. Rest(t) \in Nat
      <3>1. index[t] \in Nat /\ end[t] \in Nat /\ (Busy(t) => index[t] < end[t])
        BY DEF MapInv, ChunkInv, TypeOK, Busy
      <3>. QED BY <3>1 DEF Rest
    <2>2. CASE CancelCall \/ SerialCall \/ SerialEnd \/ Collect
      BY <2>1, <2>2 DEF CancelCall, SerialCall, SerialEnd, Collect, workerVars
    <2>3. ASSUME NEW s \in Threads, Spawn(s)
          PROVE  <<pc[t], index[t], end[t]>>' = <<pc[t], index[t], end[t]>>
      <3>1. s # t
        BY <2>3, Numbers DEF Spawn, MapInv, ChunkInv, TypeOK
      <3>. QED BY <2>3, <3>1 DEF Spawn, TypeOK
    <2>4. ASSUME NEW s \in Threads, Worker(s)
          PROVE  <<pc[t], index[t], end[t]>>' # <<pc[t], index[t], end[t]>> => Rest(t)' < Rest(t)
      <3>1. CASE s = t
        BY <2>4, <3>1, WorkerDescends
      <3>2. CASE s # t
        BY <2>4, <3>2, WorkerDescends
      <3>. QED BY <3>1, <3>2
    <2>. QED BY <2>1, <2>2, <2>3, <2>4 DEF Next, Main
  <1>. QED BY <1>1, Invariant, PTL DEF Spec
=============================================================================
