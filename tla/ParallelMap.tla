----------------------------- MODULE ParallelMap -----------------------------
(***************************************************************************)
(* ExecutionContext::map_indexed (antecedent-core, execution.rs).          *)
(*                                                                         *)
(* The calling thread splits the slots into chunks, spawns a scoped worker *)
(* for each, joins them all and collects the slots in index order.  A      *)
(* worker skips the rest of its chunk once it reads a lower failure.       *)
(*                                                                         *)
(* first_failure is loaded and updated with Ordering::Relaxed, so a load   *)
(* may return any value of the modification order that is not older than   *)
(* the last one the loading thread saw; fetch_min reads the newest.  A slot*)
(* is written by its worker only and read after the join, so it is filled  *)
(* in the step that ends the index.                                        *)
(***************************************************************************)
EXTENDS IndexedMap, Sequences

CONSTANTS MaxThreads   \* largest parallelism.max_threads

ASSUME ThreadAssumption == MaxThreads \in Nat \ {0}

Threads == 0..(MaxThreads - 1)
Index   == 0..(MaxN - 1)
NoFailure == MaxN   \* usize::MAX: above every index

VARIABLES
    threads,  \* workers this call uses, 1 for the serial path
    spawned,  \* workers spawned so far
    start,    \* first slot not handed out; in the serial path, the next index
    order,    \* modification order of first_failure
    pc,       \* where each worker is
    begin,    \* first index of each worker's chunk
    index,    \* the worker's next index
    end,      \* first index past its chunk
    seen,     \* position in order of the value it saw last
    slots     \* outcome of each index

mainVars   == <<threads, spawned, start>>
workerVars == <<order, pc, begin, index, end, seen, slots>>
vars       == <<mapVars, mainVars, workerVars>>

Clamp(max_threads, size) ==
    IF size = 0 THEN 1 ELSE IF max_threads > size THEN size ELSE max_threads

\* Slots the next worker takes, of the rest, when left workers are still to come.
Take(rest, left) == (rest + left - 1) \div left

Init ==
    /\ MapInit
    /\ \E max_threads \in 1..MaxThreads : threads = Clamp(max_threads, n)
    /\ spawned = 0
    /\ start = 0
    /\ order = <<NoFailure>>
    /\ pc = [t \in Threads |-> "unborn"]
    /\ begin = [t \in Threads |-> 0]
    /\ index = [t \in Threads |-> 0]
    /\ end = [t \in Threads |-> 0]
    /\ seen = [t \in Threads |-> 1]
    /\ slots = [i \in Index |-> "none"]

Chunk(t) == begin[t]..(end[t] - 1)

\* What f(i) may return now.
Outcomes(i) ==
    IF i \in fails THEN {"err"} ELSE IF cancelled THEN {"ok", "err"} ELSE {"ok"}

-----------------------------------------------------------------------------
(* The calling thread.                                                     *)

\* One call of the serial path.
SerialCall ==
    /\ threads = 1 /\ start < n /\ result = Pending
    /\ \E out \in Outcomes(start) :
          \/ out = "ok" /\ start' = start + 1 /\ UNCHANGED result
          \/ out = "err" /\ result' = ErrAt(start) /\ UNCHANGED start
    /\ UNCHANGED <<n, fails, cancelled, threads, spawned, workerVars>>

SerialEnd ==
    /\ threads = 1 /\ start = n /\ result = Pending
    /\ result' = AllOk
    /\ UNCHANGED <<n, fails, cancelled, mainVars, workerVars>>

Spawning == threads > 1 /\ spawned < threads /\ (spawned = 0 \/ start < n)

Spawn(t) ==
    /\ Spawning /\ t = spawned
    /\ LET take == Take(n - start, threads - t)
       IN  /\ begin' = [begin EXCEPT ![t] = start]
           /\ index' = [index EXCEPT ![t] = start]
           /\ end' = [end EXCEPT ![t] = start + take]
           /\ start' = start + take
           /\ pc' = [pc EXCEPT ![t] = IF take = 0 THEN "done" ELSE "load"]
    /\ spawned' = spawned + 1
    /\ UNCHANGED <<mapVars, threads, order, seen, slots>>

Joined == threads > 1 /\ ~Spawning /\ \A t \in Threads : pc[t] \in {"unborn", "done"}

\* The first slot, in index order, that stops the collection.
Stopping(i) == slots[i] # "ok" /\ \A j \in 0..(i - 1) : slots[j] = "ok"
Panic == [tag |-> "panic", at |-> 0]

Collect ==
    /\ Joined /\ result = Pending
    /\ \/ (\A i \in 0..(n - 1) : slots[i] = "ok") /\ result' = AllOk
       \/ \E i \in 0..(n - 1) :
             /\ Stopping(i)
             /\ result' = IF slots[i] = "err" THEN ErrAt(i) ELSE Panic
    /\ UNCHANGED <<n, fails, cancelled, mainVars, workerVars>>

-----------------------------------------------------------------------------
(* A worker.                                                               *)

\* Mutant: any failure stops the worker.
Stops_Any(known, i) == known # NoFailure

\* The worker leaves its chunk at index i when it read failure known.
Stops(known, i) == known < i

\* Mutant: waits instead of leaving the chunk.
Load_Waits(t) ==
    /\ pc[t] = "load"
    /\ \E k \in seen[t]..Len(order) :
          /\ ~Stops(order[k], index[t])
          /\ seen' = [seen EXCEPT ![t] = k]
    /\ pc' = [pc EXCEPT ![t] = "call"]
    /\ UNCHANGED <<mapVars, mainVars, order, begin, index, end, slots>>

Load(t) ==
    /\ pc[t] = "load"
    /\ \E k \in seen[t]..Len(order) :
          /\ seen' = [seen EXCEPT ![t] = k]
          /\ pc' = [pc EXCEPT ![t] = IF Stops(order[k], index[t]) THEN "done" ELSE "call"]
    /\ UNCHANGED <<mapVars, mainVars, order, begin, index, end, slots>>

\* Mutant: one index past the chunk is still taken.
AtEnd_Late(i, e) == i > e

AtEnd(i, e) == i = e

\* The slot is written and the loop moves on.
Fill(t, out) ==
    /\ slots' = [slots EXCEPT ![index[t]] = out]
    /\ index' = [index EXCEPT ![t] = @ + 1]
    /\ pc' = [pc EXCEPT ![t] = IF AtEnd(index[t] + 1, end[t]) THEN "done" ELSE "load"]

Call(t) ==
    /\ pc[t] = "call"
    /\ \E out \in Outcomes(index[t]) :
          \/ out = "ok" /\ Fill(t, out)
          \/ /\ out = "err"
             /\ pc' = [pc EXCEPT ![t] = "failed"]
             /\ UNCHANGED <<index, slots>>
    /\ UNCHANGED <<mapVars, mainVars, order, begin, end, seen>>

\* Mutant: a plain store.
FetchMin_Store(known, i) == i

FetchMin(known, i) == IF i < known THEN i ELSE known

\* first_failure.fetch_min and the slot.
Failed(t) ==
    /\ pc[t] = "failed"
    /\ order' = Append(order, FetchMin(order[Len(order)], index[t]))
    /\ seen' = [seen EXCEPT ![t] = Len(order) + 1]
    /\ Fill(t, "err")
    /\ UNCHANGED <<mapVars, mainVars, begin, end>>

-----------------------------------------------------------------------------
\* CancellationToken::cancel, from any thread while the call runs.
CancelCall ==
    /\ result = Pending
    /\ Cancel
    /\ UNCHANGED <<mainVars, workerVars>>

Main == SerialCall \/ SerialEnd \/ (\E t \in Threads : Spawn(t)) \/ Collect
Worker(t) == Load(t) \/ Call(t) \/ Failed(t)

Next == CancelCall \/ Main \/ (\E t \in Threads : Worker(t))

Spec == Init /\ [][Next]_vars

\* The calling thread and every worker are scheduled, and f returns.
FairSpec == Spec /\ WF_vars(Main) /\ \A t \in Threads : WF_vars(Worker(t))

-----------------------------------------------------------------------------
(* Properties.                                                             *)

\* Every variable keeps its type: workers stay inside the slots and
\* first_failure holds an index or usize::MAX.
TypeOK ==
    /\ n \in 0..MaxN
    /\ fails \in SUBSET (0..(n - 1))
    /\ cancelled \in BOOLEAN
    /\ result \in {Pending, AllOk, Panic} \cup {ErrAt(i) : i \in Index}
    /\ threads \in 1..MaxThreads
    /\ spawned \in 0..MaxThreads
    /\ start \in 0..MaxN
    /\ order \in Seq(0..MaxN)
    /\ Len(order) > 0
    /\ pc \in [Threads -> {"unborn", "load", "call", "failed", "done"}]
    /\ begin \in [Threads -> 0..MaxN]
    /\ index \in [Threads -> 0..MaxN]
    /\ end \in [Threads -> 0..MaxN]
    /\ seen \in [Threads -> Nat \ {0}]
    /\ slots \in [Index -> {"none", "ok", "err"}]

\* Whatever the number of threads, their interleaving and the age of the values
\* they read, the call answers what a serial run would: all values, or the error
\* of the lowest failing index, and never the panic on an unfilled slot.
AnswersLikeSerial == MapSpec

\* "Its own chunk must stop there": no index above a failed one of the same chunk
\* is evaluated, however stale the other workers' updates of first_failure are.
FailingChunkStops ==
    \A t \in Threads : \A j \in Chunk(t) :
        slots[j] = "err" =>
            /\ pc[t] \in {"load", "done"}
            /\ \A i \in Chunk(t) : i > j => slots[i] = "none"

\* The call returns: no worker waits for another.
Returns == <>(result # Pending)
=============================================================================
