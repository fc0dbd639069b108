----------------------------- MODULE IndexedMap -----------------------------
(***************************************************************************)
(* What ExecutionContext::map_indexed promises a caller: the answer of a   *)
(* serial run of f(0), f(1), ..., f(n-1), which stops at the first error.  *)
(* f is deterministic in its index until the context is cancelled; from    *)
(* then on an index may also fail because f observed the cancellation.     *)
(***************************************************************************)
EXTENDS Integers

CONSTANTS MaxN   \* largest number of indices

ASSUME SizeAssumption == MaxN \in Nat

VARIABLES
    n,          \* number of indices
    fails,      \* indices f fails at
    cancelled,  \* the context's cancellation flag
    result      \* what the call returned, Pending until it does

mapVars == <<n, fails, cancelled, result>>

Pending  == [tag |-> "pending", at |-> 0]
AllOk    == [tag |-> "ok", at |-> 0]
ErrAt(i) == [tag |-> "err", at |-> i]

\* A serial run may answer r.
Serial(r) ==
    \/ r = AllOk /\ fails = {}
    \/ \E i \in 0..(n - 1) :
          /\ r = ErrAt(i)
          /\ i \in fails \/ cancelled
          /\ \A j \in fails : i <= j

MapInit ==
    /\ n \in 0..MaxN
    /\ fails \in SUBSET (0..(n - 1))
    /\ cancelled = FALSE
    /\ result = Pending

Cancel ==
    /\ ~cancelled
    /\ cancelled' = TRUE
    /\ UNCHANGED <<n, fails, result>>

Answer ==
    /\ result = Pending
    /\ result' \in {AllOk} \cup {ErrAt(i) : i \in 0..(n - 1)}
    /\ Serial(result')
    /\ UNCHANGED <<n, fails, cancelled>>

MapNext == Cancel \/ Answer

MapSpec == MapInit /\ [][MapNext]_mapVars
=============================================================================
