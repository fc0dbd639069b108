---------------------------- MODULE EffectLedger ----------------------------
(***************************************************************************)
(* What a callback executor promises about foreign side effects: a request *)
(* without an idempotency key enters its provider at most once, and within *)
(* one scope a key, which stands for one operation of its provider, enters *)
(* it for one request only.  Failures, cancellations and rolled back runs  *)
(* do not weaken this; only a new session does, which knows nothing of     *)
(* earlier ones.                                                           *)
(***************************************************************************)
EXTENDS Integers

CONSTANTS
    Effects,     \* side-effecting requests
    NoKey,       \* the key of a request that carries none
    Scope        \* what remembers the keys of a request: [Effects -> scopes]

VARIABLE sent    \* how often each request entered its provider

SameOperation(q, r) ==
    /\ Scope[q] = Scope[r]
    /\ q.key = r.key
    /\ q.descriptor = r.descriptor

\* r may enter its provider when q is what entered before it.
Allows(q, r) ==
    /\ r.key = NoKey => q # r
    /\ r.key # NoKey /\ SameOperation(q, r) => q = r

LedgerInit == sent = [r \in Effects |-> 0]

\* One run enters the providers of the requests in S, once each.
Enter(S) ==
    /\ \A r \in S : \A q \in Effects : sent[q] > 0 => Allows(q, r)
    /\ sent' = [r \in Effects |-> IF r \in S THEN sent[r] + 1 ELSE sent[r]]

NewSession == sent' = [r \in Effects |-> 0]

LedgerNext == NewSession \/ \E S \in SUBSET Effects : Enter(S)

LedgerSpec == LedgerInit /\ [][LedgerNext]_sent
=============================================================================
