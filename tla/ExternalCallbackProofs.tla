----------------------- MODULE ExternalCallbackProofs -----------------------
(***************************************************************************)
(* The theorems about a callback session, for any requests, providers and  *)
(* limits.                                                                 *)
(*                                                                         *)
(* The first part is about one execution, whichever session makes it; the  *)
(* composite session rests on it too.  Everything a session attempted is   *)
(* remembered (MemoryInv): the request itself and, if it carries a key,    *)
(* the binding of its key.  admit_attempt compares a request with that     *)
(* memory before the provider is entered.                                  *)
(*                                                                         *)
(* SessionKeepsEffects is not inductive: that a request may enter its      *)
(* provider follows from what the session remembers, so LedgerInv says     *)
(* that all that was sent is remembered.  The invariants about answers     *)
(* follow from HeldInv: the identities a session holds are those of the    *)
(* one claim it holds, and a volatile request's carry an epoch that has    *)
(* passed.  TypeOK needs SizeInv: every provider entry moves the epoch on, *)
(* so no request was sent more often than the epoch says.                  *)
(***************************************************************************)
EXTENDS ExternalCallback, FiniteSetTheorems, TLAPS

Fields == {"previous", "live", "portable", "attempts", "bindings", "epoch"}

Binding(r) == [op |-> KeyOf(r), request |-> r]

Remembered(s, r) ==
    /\ r \in s.attempts
    /\ r.key # NoKey => Binding(r) \in s.bindings

\* Attempts are side effects and remembered, and a key is bound to one request.
MemoryInv(s) ==
    /\ DOMAIN s = Fields
    /\ s.epoch \in Nat
    /\ \A q \in s.attempts : SideEffecting(q) /\ Remembered(s, q)
    /\ \A b, c \in s.bindings : b.op = c.op => b = c

-----------------------------------------------------------------------------
(* admit_attempt.                                                          *)

LEMMA AdmitFields ==
  ASSUME NEW s, DOMAIN s = Fields, s.epoch \in Nat, NEW r
  PROVE  /\ DOMAIN Admit(s, r) = Fields
         /\ Admit(s, r).epoch \in Nat
         /\ Admit(s, r).epoch >= s.epoch
         /\ s.epoch < EpochLimit => Admit(s, r).epoch = s.epoch + 1
         /\ Admit(s, r).previous = s.previous
         /\ Admit(s, r).live = s.live
         /\ Admit(s, r).portable = s.portable
         /\ Admit(s, r).attempts = Record(s, r).attempts
         /\ Admit(s, r).bindings = Record(s, r).bindings
  <1>1. /\ DOMAIN Record(s, r) = Fields
        /\ Record(s, r).epoch = s.epoch
        /\ Record(s, r).previous = s.previous
        /\ Record(s, r).live = s.live
        /\ Record(s, r).portable = s.portable
    BY DEF Record, Fields
  <1>. QED BY <1>1 DEF Admit, Fields

LEMMA RecordFields ==
  ASSUME NEW s, DOMAIN s = Fields, NEW r, SideEffecting(r)
  PROVE  /\ Record(s, r).attempts = s.attempts \cup {r}
         /\ Record(s, r).bindings = IF r.key = NoKey THEN s.bindings
                                    ELSE {b \in s.bindings : b.op # KeyOf(r)} \cup {Binding(r)}
  BY DEF Record, Binding, Fields

\* A remembered request is the only one its key is admitted for, and without a key
\* it is not admitted again.
LEMMA AdmittedByMemory ==
  ASSUME NEW s, NEW r, SideEffecting(r), Admits(s, r), NEW q, Remembered(s, q)
  PROVE  /\ r.key = NoKey => q # r
         /\ r.key # NoKey /\ q.key = r.key /\ q.descriptor = r.descriptor => q = r
  <1>1. r.key = NoKey => q # r
    BY DEF Admits, RetryUnsafe, Remembered
  <1>2. ASSUME r.key # NoKey, q.key = r.key, q.descriptor = r.descriptor PROVE q = r
    <2>1. Binding(q) \in s.bindings /\ Binding(q).op = KeyOf(r) /\ Binding(q).request = q
      BY <1>2 DEF Remembered, Binding, KeyOf
    <2>. QED BY <1>2, <2>1 DEF Admits, KeyConflict
  <1>. QED BY <1>1, <1>2

\* Recording an admitted request remembers it and forgets nothing.
LEMMA RecordRemembers ==
  ASSUME NEW s, DOMAIN s = Fields, s.epoch \in Nat, NEW r, SideEffecting(r), Admits(s, r),
         NEW q, Remembered(s, q) \/ q = r
  PROVE  Remembered(Admit(s, r), q)
  <1>1. /\ Admit(s, r).attempts = s.attempts \cup {r}
        /\ Admit(s, r).bindings = IF r.key = NoKey THEN s.bindings
                                  ELSE {b \in s.bindings : b.op # KeyOf(r)} \cup {Binding(r)}
    <2>1. Admit(s, r).attempts = Record(s, r).attempts /\ Admit(s, r).bindings = Record(s, r).bindings
      BY AdmitFields
    <2>. QED BY <2>1, RecordFields, Zenon
  <1>2. CASE q = r
    BY <1>1, <1>2 DEF Remembered
  <1>3. CASE q # r /\ Remembered(s, q)
    <2>1. CASE q.key = NoKey
      BY <1>1, <1>3, <2>1 DEF Remembered
    <2>2. CASE q.key # NoKey
      <3>1. Binding(q) \in s.bindings /\ q \in s.attempts
        BY <1>3, <2>2 DEF Remembered
      <3>2. Binding(q).op # KeyOf(r)
        <4>1. KeyOf(q) = KeyOf(r) => q.key = r.key /\ q.descriptor = r.descriptor
          BY DEF KeyOf
        <4>. QED BY <1>3, <2>2, <4>1, AdmittedByMemory DEF Binding
      <3>. QED BY <1>1, <3>1, <3>2 DEF Remembered
    <2>. QED BY <2>1, <2>2
  <1>. QED BY <1>2, <1>3

LEMMA AdmitMemory ==
  ASSUME NEW s, MemoryInv(s), NEW r, Admits(s, r)
  PROVE  MemoryInv(Admit(s, r))
  <1>0. DOMAIN s = Fields /\ s.epoch \in Nat
    BY DEF MemoryInv
  <1>1. CASE SideEffecting(r)
    <2>1. /\ Admit(s, r).attempts = s.attempts \cup {r}
          /\ Admit(s, r).bindings = IF r.key = NoKey THEN s.bindings
                                    ELSE {b \in s.bindings : b.op # KeyOf(r)} \cup {Binding(r)}
      <3>1. Admit(s, r).attempts = Record(s, r).attempts /\ Admit(s, r).bindings = Record(s, r).bindings
        BY <1>0, AdmitFields
      <3>. QED BY <1>0, <1>1, <3>1, RecordFields, Zenon
    <2>2. \A q \in Admit(s, r).attempts : SideEffecting(q) /\ Remembered(Admit(s, r), q)
      BY <1>0, <1>1, <2>1, RecordRemembers DEF MemoryInv
    <2>3. Binding(r).op = KeyOf(r)
      BY DEF Binding
    <2>4. \A b, c \in Admit(s, r).bindings : b.op = c.op => b = c
      BY <2>1, <2>3 DEF MemoryInv
    <2>. QED BY <1>0, <2>2, <2>4, AdmitFields DEF MemoryInv
  <1>2. CASE ~SideEffecting(r)
    <2>1. Record(s, r) = s
      BY <1>2 DEF Record
    <2>. QED BY <1>0, <2>1, AdmitFields DEF MemoryInv, Remembered
  <1>. QED BY <1>1, <1>2

-----------------------------------------------------------------------------
(* execute.                                                                *)

\* The session once the provider's means are published.
Published(s, r, v) ==
    [Admit(s, r) EXCEPT !.previous = {Identities(s, r)}, !.live = {Claim(r, v)}, !.portable = {}]

Reusing(s) == Answer(s, "reused", s.live, FALSE)
Failing(s, r) == Answer(Admit(s, r), "failed", {}, TRUE)
Computing(s, r, v) == Answer(Published(s, r, v), "computed", {Claim(r, v)}, TRUE)

\* The answers of an execution: nothing changed; or the provider was entered with an
\* admitted request, and failed or published its means.
LEMMA ExecuteAnswers ==
  ASSUME NEW s, NEW r, NEW ctx, NEW a \in Execute(s, r, ctx)
  PROVE  \/ a = Refusal(s)
         \/ /\ a = Reusing(s)
            /\ Validates(r) /\ ~ProviderChanged(s, r)
         \/ /\ Admits(s, r) /\ Validates(r) /\ ProviderChanged(s, r)
            /\ \/ a = Failing(s, r)
               \/ \E v \in Values :
                     /\ Replays(s, r, v)
                     /\ a = Computing(s, r, v)
  BY DEF Execute, Invoke, RefusedAtEntry, Published, Reusing, Failing, Computing

\* The provider is not entered and nothing changes, or it is entered with an admitted
\* request, which is recorded whatever the provider does.
LEMMA EnteredOrNot ==
  ASSUME NEW s, DOMAIN s = Fields, s.epoch \in Nat, NEW r, NEW ctx, NEW a \in Execute(s, r, ctx)
  PROVE  \/ a.session = s /\ a.entered = FALSE
         \/ /\ a.entered = TRUE
            /\ Admits(s, r)
            /\ DOMAIN a.session = Fields
            /\ a.session.attempts = Admit(s, r).attempts
            /\ a.session.bindings = Admit(s, r).bindings
            /\ a.session.epoch = Admit(s, r).epoch
  <1>1. CASE a = Refusal(s) \/ a = Reusing(s)
    BY <1>1 DEF Refusal, Reusing, Answer
  <1>2. DOMAIN Admit(s, r) = Fields
    BY AdmitFields
  <1>3. CASE Admits(s, r) /\ a = Failing(s, r)
    <2>1. a.session = Admit(s, r) /\ a.entered = TRUE
      BY <1>3 DEF Failing, Answer
    <2>. QED BY <1>2, <1>3, <2>1
  <1>4. ASSUME Admits(s, r), NEW v \in Values,
               a = Computing(s, r, v)
        PROVE  /\ a.entered = TRUE
               /\ DOMAIN a.session = Fields
               /\ a.session.attempts = Admit(s, r).attempts
               /\ a.session.bindings = Admit(s, r).bindings
               /\ a.session.epoch = Admit(s, r).epoch
    <2>1. a.session = Published(s, r, v) /\ a.entered = TRUE
      BY <1>4 DEF Computing, Answer
    <2>. QED BY <1>2, <2>1 DEF Published, Fields
  <1>5. \/ a = Refusal(s) \/ a = Reusing(s)
        \/ Admits(s, r) /\ a = Failing(s, r)
        \/ /\ Admits(s, r)
           /\ \E v \in Values : a = Computing(s, r, v)
    BY ExecuteAnswers
  <1>6. CASE /\ Admits(s, r)
             /\ \E v \in Values : a = Computing(s, r, v)
    BY <1>4, <1>6, Zenon
  <1>. QED BY <1>1, <1>3, <1>5, <1>6, Zenon

\* An execution keeps the memory of the session and forgets nothing.
LEMMA ExecuteMemory ==
  ASSUME NEW s, MemoryInv(s), NEW r, NEW ctx, NEW a \in Execute(s, r, ctx)
  PROVE  /\ MemoryInv(a.session)
         /\ a.session.epoch >= s.epoch
         /\ s.attempts \subseteq a.session.attempts
         /\ a.session.attempts \subseteq s.attempts \cup {r}
         /\ SideEffecting(r) /\ a.entered = TRUE => r \in a.session.attempts
  <1>0. DOMAIN s = Fields /\ s.epoch \in Nat
    BY DEF MemoryInv
  <1>1. CASE a.session = s /\ a.entered = FALSE
    BY <1>0, <1>1
  <1>2. CASE /\ a.entered = TRUE
             /\ Admits(s, r)
             /\ DOMAIN a.session = Fields
             /\ a.session.attempts = Admit(s, r).attempts
             /\ a.session.bindings = Admit(s, r).bindings
             /\ a.session.epoch = Admit(s, r).epoch
    <2>1. MemoryInv(Admit(s, r))
      BY <1>2, AdmitMemory
    <2>2. MemoryInv(a.session)
      BY <1>2, <2>1 DEF MemoryInv, Remembered
    <2>3. /\ Admit(s, r).epoch >= s.epoch
          /\ Admit(s, r).attempts = Record(s, r).attempts
      BY <1>0, AdmitFields
    <2>4. CASE SideEffecting(r)
      <3>1. Record(s, r).attempts = s.attempts \cup {r}
        BY <1>0, <2>4, RecordFields
      <3>. QED BY <1>2, <2>2, <2>3, <3>1
    <2>5. CASE ~SideEffecting(r)
      <3>1. Record(s, r) = s
        BY <2>5 DEF Record
      <3>. QED BY <1>2, <2>2, <2>3, <2>5, <3>1
    <2>. QED BY <2>4, <2>5
  <1>. QED BY <1>0, <1>1, <1>2, EnteredOrNot

\* Taking over the attempts of another session keeps what that one remembers.
LEMMA AbsorbMemory ==
  ASSUME NEW s, MemoryInv(s), NEW o, MemoryInv(o), s.attempts \subseteq o.attempts
  PROVE  /\ MemoryInv(AbsorbAttempts(s, o))
         /\ AbsorbAttempts(s, o).attempts = o.attempts
  <1>1. /\ DOMAIN s = Fields /\ s.epoch \in Nat
        /\ DOMAIN o = Fields /\ o.epoch \in Nat
    BY DEF MemoryInv
  <1>2. /\ DOMAIN AbsorbAttempts(s, o) = Fields
        /\ AbsorbAttempts(s, o).attempts = s.attempts \cup o.attempts
        /\ AbsorbAttempts(s, o).bindings =
              {b \in s.bindings : \A c \in o.bindings : c.op # b.op} \cup o.bindings
        /\ AbsorbAttempts(s, o).epoch \in Nat
    BY <1>1 DEF AbsorbAttempts, Fields
  <1>3. AbsorbAttempts(s, o).attempts = o.attempts
    BY <1>2
  <1>4. \A q \in o.attempts : SideEffecting(q) /\ Remembered(AbsorbAttempts(s, o), q)
    BY <1>2, <1>3 DEF MemoryInv, Remembered
  <1>5. \A b, c \in AbsorbAttempts(s, o).bindings : b.op = c.op => b = c
    BY <1>2 DEF MemoryInv
  <1>. QED BY <1>2, <1>3, <1>4, <1>5 DEF MemoryInv

LEMMA NewMemory == MemoryInv(NewCallbacks)
  BY DEF NewCallbacks, MemoryInv, Fields

-----------------------------------------------------------------------------
(* What a session holds.                                                   *)

\* Identities are backed by a claim, and a volatile request's are of an epoch gone by.
Backed(s) ==
    /\ \A c, d \in s.live : c = d
    /\ \A p \in s.previous :
          /\ DOMAIN p = {"study", "operation"}
          /\ p.operation # {} => \E c \in s.live \cup s.portable : c.request = p.study
          /\ Volatile(p.study) => \A o \in p.operation : o.epoch \in Nat /\ o.epoch < s.epoch

\* A failed call only moves the epoch on.
LEMMA FailingBacked ==
  ASSUME NEW s, MemoryInv(s), Backed(s), NEW r, s.epoch < EpochLimit
  PROVE  Backed(Admit(s, r))
  <1>1. /\ Admit(s, r).previous = s.previous /\ Admit(s, r).live = s.live
        /\ Admit(s, r).portable = s.portable /\ Admit(s, r).epoch = s.epoch + 1
        /\ s.epoch \in Nat
    BY AdmitFields DEF MemoryInv
  <1>. QED BY <1>1 DEF Backed
LEMMA ComputingBacked ==
  ASSUME NEW s, MemoryInv(s), NEW r, NEW v, s.epoch < EpochLimit
  PROVE  Backed(Published(s, r, v))
  <1>1. DOMAIN Admit(s, r) = Fields /\ Admit(s, r).epoch = s.epoch + 1 /\ s.epoch \in Nat
    BY AdmitFields DEF MemoryInv
  <1>2. /\ Published(s, r, v).previous = {Identities(s, r)}
        /\ Published(s, r, v).live = {Claim(r, v)}
        /\ Published(s, r, v).epoch = s.epoch + 1
    BY <1>1 DEF Published, Fields
  <1>3. /\ Identities(s, r).study = r
        /\ Identities(s, r).operation = {Operation(s, r)}
        /\ DOMAIN Identities(s, r) = {"study", "operation"}
        /\ Claim(r, v).request = r
        /\ Volatile(r) => Operation(s, r).epoch = s.epoch
    BY DEF Identities, Claim, Operation
  <1>. QED BY <1>1, <1>2, <1>3 DEF Backed

\* A claim that is reused is the one of this request, which is not volatile.
LEMMA ReusingIsPure ==
  ASSUME NEW s, MemoryInv(s), Backed(s), NEW r \in Requests, Validates(r), ~ProviderChanged(s, r)
  PROVE  Replayable(r) /\ \A c \in s.live : c.request = r
  <1>1. s.portable = {} /\ s.previous = {Identities(s, r)}
    BY DEF ProviderChanged
  <1>2. /\ Identities(s, r).study = r
        /\ Identities(s, r).operation = {Operation(s, r)}
        /\ Volatile(r) => Operation(s, r).epoch = s.epoch
    BY DEF Identities, Operation
  <1>3. \E c \in s.live : c.request = r
    BY <1>1, <1>2 DEF Backed
  <1>4. \A c \in s.live : c.request = r
    BY <1>3 DEF Backed
  <1>5. ~Volatile(r)
    BY <1>1, <1>2 DEF Backed, MemoryInv
  <1>6. r.descriptor.policy \in Policies /\ r.descriptor.policy # "unknown"
    BY RequestAssumption DEF Validates
  <1>. QED BY <1>4, <1>5, <1>6 DEF Policies, Volatile, Replayable

LEMMA AbsorbBacked ==
  ASSUME NEW s, MemoryInv(s), Backed(s), NEW o, MemoryInv(o)
  PROVE  /\ Backed(AbsorbAttempts(s, o))
         /\ AbsorbAttempts(s, o).previous = s.previous
         /\ AbsorbAttempts(s, o).live = s.live
         /\ AbsorbAttempts(s, o).portable = s.portable
         /\ AbsorbAttempts(s, o).epoch >= s.epoch
  <1>1. /\ AbsorbAttempts(s, o).previous = s.previous
        /\ AbsorbAttempts(s, o).live = s.live
        /\ AbsorbAttempts(s, o).portable = s.portable
        /\ AbsorbAttempts(s, o).epoch \in Nat
        /\ AbsorbAttempts(s, o).epoch >= s.epoch
        /\ s.epoch \in Nat
    BY DEF AbsorbAttempts, Fields, MemoryInv
  <1>. QED BY <1>1 DEF Backed

\* Told to recompute, a session keeps what it holds and cannot reuse it.
LEMMA Forced ==
  ASSUME NEW s, MemoryInv(s), Backed(s), NEW r
  PROVE  /\ MemoryInv(ForceRecompute(s)) /\ Backed(ForceRecompute(s))
         /\ ForceRecompute(s).attempts = s.attempts
         /\ ForceRecompute(s).live = s.live
         /\ ForceRecompute(s).portable = s.portable
         /\ ForceRecompute(s).epoch = s.epoch
         /\ Identities(ForceRecompute(s), r) = Identities(s, r)
         /\ Admits(ForceRecompute(s), r) => Admits(s, r)
         /\ ProviderChanged(ForceRecompute(s), r)
  <1>1. /\ DOMAIN ForceRecompute(s) = Fields
        /\ ForceRecompute(s).attempts = s.attempts
        /\ ForceRecompute(s).bindings = s.bindings
        /\ ForceRecompute(s).live = s.live
        /\ ForceRecompute(s).portable = s.portable
        /\ ForceRecompute(s).epoch = s.epoch
        /\ ForceRecompute(s).previous = {[p EXCEPT !.operation = {}] : p \in s.previous}
    BY DEF ForceRecompute, Fields, MemoryInv
  <1>2. MemoryInv(ForceRecompute(s))
    BY <1>1 DEF MemoryInv, Remembered
  <1>3. \A p \in ForceRecompute(s).previous :
           DOMAIN p = {"study", "operation"} /\ p.operation = {}
    BY <1>1 DEF Backed
  <1>4. Backed(ForceRecompute(s))
    <2>1. \A c, d \in ForceRecompute(s).live : c = d
      BY <1>1 DEF Backed
    <2>. QED BY <1>3, <2>1 DEF Backed
  <1>5. Identities(ForceRecompute(s), r) = Identities(s, r)
    BY <1>1 DEF Identities, Operation
  <1>6. Admits(ForceRecompute(s), r) => Admits(s, r)
    BY <1>1 DEF Admits, KeyConflict, RetryUnsafe, AtAttemptLimit
  <1>7. Identities(s, r).operation # {}
    BY DEF Identities
  <1>8. ProviderChanged(ForceRecompute(s), r)
    BY <1>3, <1>5, <1>7 DEF ProviderChanged
  <1>. QED BY <1>1, <1>2, <1>4, <1>5, <1>6, <1>8

-----------------------------------------------------------------------------
(* EffectLedger.                                                           *)

LedgerInv ==
    /\ MemoryInv(session)
    /\ session.attempts \subseteq SideEffects
    /\ entries \in [SideEffects -> Nat]
    /\ \A r \in SideEffects : entries[r] > 0 => r \in session.attempts

LEMMA LedgerInitially == CallbackInit => LedgerInv
  <1>1. NewCallbacks.attempts = {}
    BY DEF NewCallbacks
  <1>. QED BY <1>1, NewMemory DEF CallbackInit, LedgerInv

\* What one execution leaves of the memory and the counters.
LEMMA RunLedger ==
  ASSUME LedgerInv, NEW r \in Requests, NEW ctx \in Contexts, Run(r, ctx)
  PROVE  LedgerInv' /\ [SessionLedger!LedgerNext]_entries
  <1>1. PICK a \in Execute(session, r, ctx) :
           /\ session' = a.session
           /\ entries' = [q \in SideEffects |-> IF a.entered /\ q = r THEN entries[q] + 1 ELSE entries[q]]
    BY DEF Run
  <1>2. MemoryInv(session)
    BY DEF LedgerInv
  <1>3. /\ MemoryInv(a.session)
        /\ session.attempts \subseteq a.session.attempts
        /\ a.session.attempts \subseteq session.attempts \cup {r}
        /\ SideEffecting(r) /\ a.entered = TRUE => r \in a.session.attempts
    BY <1>2, ExecuteMemory
  <1>4. \A q \in a.session.attempts : SideEffecting(q)
    BY <1>3 DEF MemoryInv
  <1>5. a.session.attempts \subseteq SideEffects
    BY <1>3, <1>4 DEF LedgerInv, SideEffects
  <1>6. \/ a.session = session /\ a.entered = FALSE
        \/ a.entered = TRUE /\ Admits(session, r)
    BY <1>2, EnteredOrNot DEF MemoryInv
  <1>7. CASE a.entered = FALSE
    <2>1. entries' = entries
      BY <1>1, <1>7 DEF LedgerInv
    <2>. QED BY <1>1, <1>3, <1>5, <2>1 DEF LedgerInv
  <1>8. CASE a.entered = TRUE /\ Admits(session, r)
    <2>1. entries' = [q \in SideEffects |-> IF q = r THEN entries[q] + 1 ELSE entries[q]]
      BY <1>1, <1>8
    <2>2. LedgerInv'
      <3>1. entries' \in [SideEffects -> Nat]
        BY <2>1 DEF LedgerInv
      <3>2. ASSUME NEW q \in SideEffects, entries'[q] > 0 PROVE q \in a.session.attempts
        <4>1. CASE q = r
          BY <1>3, <1>8, <4>1 DEF SideEffects
        <4>2. CASE q # r
          BY <1>3, <2>1, <3>2, <4>2 DEF LedgerInv
        <4>. QED BY <4>1, <4>2
      <3>. QED BY <1>1, <1>3, <1>5, <3>1, <3>2 DEF LedgerInv
    <2>3. CASE r \notin SideEffects
      <3>1. entries' = entries
        BY <2>1, <2>3 DEF LedgerInv
      <3>. QED BY <2>2, <3>1
    <2>4. CASE r \in SideEffects
      <3>1. ASSUME NEW q \in SideEffects, entries[q] > 0 PROVE SessionLedger!Allows(q, r)
        <4>1. Remembered(session, q)
          BY <3>1 DEF LedgerInv, MemoryInv
        <4>2. SideEffecting(r)
          BY <2>4 DEF SideEffects
        <4>. QED BY <1>8, <4>1, <4>2, AdmittedByMemory DEF SessionLedger!Allows, SessionLedger!SameOperation
      <3>2. entries' = [q \in SideEffects |-> IF q \in {r} THEN entries[q] + 1 ELSE entries[q]]
        BY <2>1
      <3>3. SessionLedger!Enter({r})
        BY <3>1, <3>2 DEF SessionLedger!Enter
      <3>. QED BY <2>2, <2>4, <3>3 DEF SessionLedger!LedgerNext
    <2>. QED BY <2>3, <2>4
  <1>. QED BY <1>6, <1>7, <1>8

LEMMA LedgerStep == LedgerInv /\ [CallbackNext]_callbackVars => LedgerInv' /\ [SessionLedger!LedgerNext]_entries
  <1>. SUFFICES ASSUME LedgerInv, [CallbackNext]_callbackVars
                PROVE  LedgerInv' /\ [SessionLedger!LedgerNext]_entries
    OBVIOUS
  <1>1. ASSUME NEW r \in Requests, NEW ctx \in Contexts, Run(r, ctx)
        PROVE  LedgerInv' /\ [SessionLedger!LedgerNext]_entries
    BY <1>1, RunLedger
  <1>2. CASE ExportOutput
    BY <1>2 DEF ExportOutput, LedgerInv
  <1>3. ASSUME NEW new, MemoryInv(new), new.attempts = {}, session' = new,
               entries' = [q \in SideEffects |-> 0]
        PROVE  LedgerInv' /\ [SessionLedger!LedgerNext]_entries
    BY <1>3 DEF LedgerInv, SessionLedger!LedgerNext, SessionLedger!NewSession
  <1>4. ASSUME NEW a \in exported, NEW r \in Requests, Resume(a, r)
        PROVE  LedgerInv' /\ [SessionLedger!LedgerNext]_entries
    <2>1. MemoryInv(Resumed(a, r)) /\ Resumed(a, r).attempts = {}
      BY DEF Resumed, NewCallbacks, MemoryInv, Fields
    <2>. QED BY <1>3, <1>4, <2>1 DEF Resume
  <1>5. CASE Renew
    <2>1. NewCallbacks.attempts = {}
      BY DEF NewCallbacks
    <2>. QED BY <1>3, <1>5, <2>1, NewMemory DEF Renew
  <1>6. CASE UNCHANGED callbackVars
    BY <1>6 DEF callbackVars, LedgerInv
  <1>. QED BY <1>1, <1>2, <1>4, <1>5, <1>6 DEF CallbackNext

\* A callback session implements EffectLedger: through failures, cancellations, the
\* attempt limit and changes of request no unkeyed side effect is sent twice and no key
\* is sent for two requests.
THEOREM EffectsKept == CallbackSpec => SessionKeepsEffects
  <1>1. CallbackInit => SessionLedger!LedgerInit
    BY DEF CallbackInit, SessionLedger!LedgerInit
  <1>. QED BY <1>1, LedgerInitially, LedgerStep, PTL DEF CallbackSpec, SessionKeepsEffects, SessionLedger!LedgerSpec

\* The retry a key was given for is never refused, at the attempt limit too.
THEOREM KeyedRetries == CallbackSpec => []KeyedRetryIsAdmitted
  <1>1. LedgerInv => KeyedRetryIsAdmitted
    <2>. SUFFICES ASSUME LedgerInv, NEW r \in session.attempts, r.key # NoKey
                  PROVE  Admits(session, r)
      BY DEF KeyedRetryIsAdmitted
    <2>1. Binding(r) \in session.bindings /\ Binding(r).op = KeyOf(r) /\ Binding(r).request = r
      BY DEF LedgerInv, MemoryInv, Remembered, Binding
    <2>2. ~KeyConflict(session, r)
      BY <2>1 DEF KeyConflict, LedgerInv, MemoryInv
    <2>. QED BY <2>2 DEF Admits, RetryUnsafe, AtAttemptLimit
  <1>. QED BY <1>1, LedgerInitially, LedgerStep, PTL DEF CallbackSpec

-----------------------------------------------------------------------------
(* What a session holds and what it answers with.                          *)

\* A live claim is the one last returned, and while there is none the session still
\* has to reproduce what it resumed from.
HistoryHeld ==
    /\ answer.claim # {} => session.live # {}
    /\ session.live \subseteq returned
    /\ session.live = {} => session.portable = origin
    /\ session.live # {} => session.portable = {} /\ (origin # {} => reproduced)

HeldInv ==
    /\ MemoryInv(session)
    /\ Backed(session)
    /\ ReuseIsOfPureRequest
    /\ HistoryHeld

LEMMA RunHeld ==
  ASSUME HeldInv, NEW r \in Requests, NEW ctx \in Contexts, Run(r, ctx)
  PROVE  HeldInv'
  <1>1. PICK a \in Execute(session, r, ctx) :
           /\ a.entered => session.epoch < MaxCalls
           /\ session' = a.session
           /\ answer' = IF a.claim = {} THEN NoAnswer
                        ELSE [request |-> {r}, status |-> a.status, claim |-> a.claim]
           /\ IF a.status = "computed"
              THEN /\ returned' = a.claim
                   /\ reproduced' = (reproduced \/ \E c \in a.claim, o \in origin : Reproduces(c, o))
              ELSE UNCHANGED <<returned, reproduced>>
           /\ UNCHANGED origin
    BY DEF Run
  <1>2. MemoryInv(session) /\ Backed(session) /\ HistoryHeld /\ session.epoch \in Nat
         /\ DOMAIN session = Fields
    BY DEF HeldInv, MemoryInv
  <1>3. MemoryInv(a.session)
    BY <1>2, ExecuteMemory
  <1>4. NoAnswer.status = "none" /\ NoAnswer.claim = {}
    BY DEF NoAnswer
  <1>5. a.status # "reused" => ReuseIsOfPureRequest'
    BY <1>1, <1>4 DEF ReuseIsOfPureRequest
  <1>6. CASE a = Refusal(session)
    <2>1. a.session = session /\ a.status = "refused" /\ a.claim = {}
      BY <1>6 DEF Refusal, Answer
    <2>2. HistoryHeld'
      BY <1>1, <1>2, <1>4, <2>1 DEF HistoryHeld
    <2>. QED BY <1>1, <1>2, <1>5, <2>1, <2>2 DEF HeldInv
  <1>7. CASE a = Reusing(session) /\ Validates(r) /\ ~ProviderChanged(session, r)
    <2>1. a.session = session /\ a.status = "reused" /\ a.claim = session.live
      BY <1>7 DEF Reusing, Answer
    <2>2. Replayable(r) /\ \A c \in session.live : c.request = r
      BY <1>2, <1>7, ReusingIsPure
    <2>3. ReuseIsOfPureRequest'
      BY <1>1, <1>4, <2>1, <2>2 DEF ReuseIsOfPureRequest
    <2>4. HistoryHeld'
      BY <1>1, <1>2, <1>4, <2>1 DEF HistoryHeld
    <2>. QED BY <1>1, <1>2, <2>1, <2>3, <2>4 DEF HeldInv
  <1>8. CASE a = Failing(session, r)
    <2>1. a.session = Admit(session, r) /\ a.status = "failed" /\ a.entered = TRUE /\ a.claim = {}
      BY <1>8 DEF Failing, Answer
    <2>2. session.epoch < EpochLimit
      BY <1>1, <1>2, <2>1, CallsAssumption, RequestAssumption
    <2>3. Backed(a.session)
      BY <1>2, <2>1, <2>2, FailingBacked
    <2>4. Admit(session, r).live = session.live /\ Admit(session, r).portable = session.portable
      BY <1>2, AdmitFields
    <2>5. HistoryHeld'
      BY <1>1, <1>2, <1>4, <2>1, <2>4 DEF HistoryHeld
    <2>. QED BY <1>1, <1>3, <1>5, <2>1, <2>3, <2>5 DEF HeldInv
  <1>9. ASSUME NEW v \in Values, Replays(session, r, v), a = Computing(session, r, v)
        PROVE  HeldInv'
    <2>1. a.session = Published(session, r, v) /\ a.status = "computed" /\ a.entered = TRUE
          /\ a.claim = {Claim(r, v)}
      BY <1>9 DEF Computing, Answer
    <2>2. session.epoch < EpochLimit
      BY <1>1, <1>2, <2>1, CallsAssumption, RequestAssumption
    <2>3. Backed(a.session)
      BY <1>2, <2>1, <2>2, ComputingBacked
    <2>4. a.session.live = {Claim(r, v)} /\ a.session.portable = {}
      <3>1. DOMAIN Admit(session, r) = Fields
        BY <1>2, AdmitFields
      <3>. QED BY <2>1, <3>1 DEF Published, Fields
    <2>5. \A o \in session.portable : Reproduces(Claim(r, v), o)
      BY <1>9 DEF Replays, Reproduces, Claim
    <2>6. HistoryHeld'
      BY <1>1, <1>2, <2>1, <2>4, <2>5 DEF HistoryHeld
    <2>. QED BY <1>1, <1>3, <1>5, <2>1, <2>3, <2>6 DEF HeldInv
  <1>. QED BY <1>6, <1>7, <1>8, <1>9, ExecuteAnswers

LEMMA HeldInvariant == CallbackSpec => []HeldInv
  <1>1. /\ NewCallbacks.live = {} /\ NewCallbacks.previous = {} /\ NewCallbacks.portable = {}
        /\ NoAnswer.status = "none" /\ NoAnswer.claim = {}
    BY DEF NewCallbacks, NoAnswer
  <1>2. Backed(NewCallbacks)
    BY <1>1 DEF Backed
  <1>3. CallbackInit => HeldInv
    BY <1>1, <1>2, NewMemory DEF CallbackInit, HeldInv, ReuseIsOfPureRequest, HistoryHeld
  <1>4. ASSUME HeldInv, [CallbackNext]_callbackVars PROVE HeldInv'
    <2>1. ASSUME NEW r \in Requests, NEW ctx \in Contexts, Run(r, ctx) PROVE HeldInv'
      BY <1>4, <2>1, RunHeld
    <2>2. CASE ExportOutput
      BY <1>4, <2>2 DEF ExportOutput, HeldInv, ReuseIsOfPureRequest, HistoryHeld
    <2>3. ASSUME NEW a \in exported, NEW r \in Requests, Resume(a, r) PROVE HeldInv'
      <3>1. MemoryInv(Resumed(a, r))
        BY DEF Resumed, NewCallbacks, MemoryInv, Fields
      <3>2. /\ Resumed(a, r).live = {} /\ Resumed(a, r).portable = {a}
            /\ Resumed(a, r).previous = {Identities(NewCallbacks, r)}
        BY DEF Resumed, NewCallbacks
      <3>3. /\ Identities(NewCallbacks, r).study = r
            /\ DOMAIN Identities(NewCallbacks, r) = {"study", "operation"}
        BY DEF Identities
      <3>4. a.request = r /\ ~Volatile(r)
        BY <2>3 DEF Resume, CanResume, Replayable, Volatile
      <3>5. Backed(Resumed(a, r))
        BY <3>2, <3>3, <3>4 DEF Backed
      <3>. QED BY <1>1, <2>3, <3>1, <3>2, <3>5 DEF Resume, HeldInv, ReuseIsOfPureRequest, HistoryHeld
    <2>4. CASE Renew
      BY <1>1, <1>2, <2>4, NewMemory DEF Renew, HeldInv, ReuseIsOfPureRequest, HistoryHeld
    <2>5. CASE UNCHANGED callbackVars
      BY <1>4, <2>5 DEF callbackVars, HeldInv, ReuseIsOfPureRequest, HistoryHeld
    <2>. QED BY <1>4, <2>1, <2>2, <2>3, <2>4, <2>5 DEF CallbackNext
  <1>. QED BY <1>3, <1>4, PTL DEF CallbackSpec

\* No stateful or side-effecting request is answered from a retained output, and no
\* output is served for another request than its own.
THEOREM ReusePure == CallbackSpec => []ReuseIsOfPureRequest
  <1>1. HeldInv => ReuseIsOfPureRequest
    BY DEF HeldInv
  <1>. QED BY <1>1, HeldInvariant, PTL

\* A resumed session issues nothing until a provider reproduced the exported output in
\* its process, and the identities held are those of what was returned there.
THEOREM ReproducedFirst == CallbackSpec => []IssuesReproduced
  <1>1. HeldInv => IssuesReproduced
    BY DEF HeldInv, Backed, HistoryHeld, IssuesReproduced
  <1>. QED BY <1>1, HeldInvariant, PTL

-----------------------------------------------------------------------------
(* The sizes of a session's fields.                                        *)

Options == {{}} \cup {{c} : c \in Claims}

SizeInv ==
    /\ session.live \in Options /\ session.portable \in Options /\ exported \in Options
    /\ origin \in Options /\ returned \in Options /\ reproduced \in BOOLEAN
    /\ session.previous = {} \/ \E p : session.previous = {p}
    /\ session.epoch \in Nat /\ session.epoch <= MaxCalls
    /\ \A r \in SideEffects : entries[r] <= session.epoch

LEMMA RunSize ==
  ASSUME LedgerInv, SizeInv, NEW r \in Requests, NEW ctx \in Contexts, Run(r, ctx)
  PROVE  SizeInv'
  <1>1. PICK a \in Execute(session, r, ctx) :
           /\ a.entered => session.epoch < MaxCalls
           /\ session' = a.session
           /\ entries' = [q \in SideEffects |-> IF a.entered /\ q = r THEN entries[q] + 1 ELSE entries[q]]
           /\ IF a.status = "computed"
              THEN /\ returned' = a.claim
                   /\ reproduced' = (reproduced \/ \E c \in a.claim, o \in origin : Reproduces(c, o))
              ELSE UNCHANGED <<returned, reproduced>>
           /\ UNCHANGED <<exported, origin>>
    BY DEF Run
  <1>2. DOMAIN session = Fields /\ session.epoch \in Nat
    BY DEF LedgerInv, MemoryInv
  <1>3. CASE a = Refusal(session) \/ a = Reusing(session)
    <2>1. a.session = session /\ a.entered = FALSE /\ a.status # "computed"
      BY <1>3 DEF Refusal, Reusing, Answer
    <2>2. entries' = entries /\ session' = session
      BY <1>1, <2>1 DEF LedgerInv
    <2>3. UNCHANGED <<exported, origin, returned, reproduced>>
      BY <1>1, <2>1
    <2>. QED BY <2>2, <2>3 DEF SizeInv
  <1>4. ASSUME a.entered = TRUE, session'.epoch = Admit(session, r).epoch,
               session'.live \in Options, session'.portable \in Options,
               session'.previous = {} \/ \E p : session'.previous = {p},
               returned' \in Options
        PROVE  SizeInv'
    <2>1. session.epoch < MaxCalls
      BY <1>1, <1>4
    <2>2. session'.epoch = session.epoch + 1
      BY <1>2, <1>4, <2>1, AdmitFields, CallsAssumption, RequestAssumption
    <2>3. \A q \in SideEffects : entries[q] \in Nat /\ entries'[q] <= entries[q] + 1
      BY <1>1 DEF LedgerInv
    <2>4. \A q \in SideEffects : entries'[q] <= session'.epoch
      <3>1. \A q \in SideEffects : entries'[q] \in Nat
        BY <1>1, <2>3
      <3>. QED BY <1>2, <2>2, <2>3, <3>1 DEF SizeInv
    <2>5. session'.epoch \in Nat /\ session'.epoch <= MaxCalls
      BY <1>2, <2>1, <2>2, CallsAssumption
    <2>6. reproduced' \in BOOLEAN
      BY <1>1 DEF SizeInv
    <2>. QED BY <1>1, <1>4, <2>4, <2>5, <2>6 DEF SizeInv
  <1>5. CASE a = Failing(session, r)
    <2>1. a.session = Admit(session, r) /\ a.entered = TRUE /\ a.status # "computed"
      BY <1>5 DEF Failing, Answer
    <2>2. /\ Admit(session, r).live = session.live /\ Admit(session, r).portable = session.portable
          /\ Admit(session, r).previous = session.previous
      BY <1>2, AdmitFields
    <2>. QED BY <1>1, <1>4, <2>1, <2>2 DEF SizeInv
  <1>6. ASSUME NEW v \in Values, a = Computing(session, r, v) PROVE SizeInv'
    <2>1. a.session = Published(session, r, v) /\ a.entered = TRUE /\ a.status = "computed"
          /\ a.claim = {Claim(r, v)}
      BY <1>6 DEF Computing, Answer
    <2>2. DOMAIN Admit(session, r) = Fields
      BY <1>2, AdmitFields
    <2>3. /\ a.session.epoch = Admit(session, r).epoch
          /\ a.session.live = {Claim(r, v)} /\ a.session.portable = {}
          /\ a.session.previous = {Identities(session, r)}
      BY <2>1, <2>2 DEF Published, Fields
    <2>4. Claim(r, v) \in Claims
      BY DEF Claim, Claims
    <2>. QED BY <1>1, <1>4, <2>1, <2>3, <2>4 DEF Options
  <1>. QED BY <1>3, <1>5, <1>6, ExecuteAnswers

\* The sizes of a session that was just made.
LEMMA NewSize ==
  ASSUME session.live = {}, session.portable \in Options, exported \in Options,
         session.previous = {} \/ \E p : session.previous = {p}, session.epoch = 0,
         entries = [q \in SideEffects |-> 0],
         origin \in Options, returned = {}, reproduced = FALSE
  PROVE  SizeInv
  <1>1. {} \in Options
    BY DEF Options
  <1>2. session.epoch \in Nat /\ session.epoch <= MaxCalls
    BY CallsAssumption
  <1>3. \A q \in SideEffects : entries[q] <= session.epoch
    OBVIOUS
  <1>. QED BY <1>1, <1>2, <1>3 DEF SizeInv

LEMMA SizeStep == LedgerInv /\ SizeInv /\ [CallbackNext]_callbackVars => SizeInv'
  <1>. SUFFICES ASSUME LedgerInv, SizeInv, [CallbackNext]_callbackVars PROVE SizeInv'
    OBVIOUS
  <1>1. ASSUME NEW r \in Requests, NEW ctx \in Contexts, Run(r, ctx) PROVE SizeInv'
    BY <1>1, RunSize
  <1>2. CASE ExportOutput
    BY <1>2 DEF ExportOutput, SizeInv
  <1>3. ASSUME NEW a \in exported, NEW r \in Requests, Resume(a, r) PROVE SizeInv'
    <2>1. /\ Resumed(a, r).live = {} /\ Resumed(a, r).portable = {a}
          /\ Resumed(a, r).previous = {Identities(NewCallbacks, r)} /\ Resumed(a, r).epoch = 0
      BY DEF Resumed, NewCallbacks
    <2>2. a \in Claims
      BY DEF SizeInv, Options
    <2>3. /\ session' = Resumed(a, r) /\ exported' = exported
          /\ entries' = [q \in SideEffects |-> 0]
          /\ origin' = {a} /\ returned' = {} /\ reproduced' = FALSE
      BY <1>3 DEF Resume
    <2>4. session'.live \in Options /\ session'.portable \in Options /\ exported' \in Options
      BY <2>1, <2>2, <2>3 DEF SizeInv, Options
    <2>5. session'.epoch \in Nat /\ session'.epoch <= MaxCalls
      BY <2>1, <2>3, CallsAssumption
    <2>6. \A q \in SideEffects : entries'[q] <= session'.epoch
      BY <2>1, <2>3
    <2>. QED BY <2>1, <2>3, <2>4, <2>5, <2>6 DEF SizeInv, Options
  <1>4. CASE Renew
    <2>1. /\ NewCallbacks.live = {} /\ NewCallbacks.portable = {}
          /\ NewCallbacks.previous = {} /\ NewCallbacks.epoch = 0
      BY DEF NewCallbacks
    <2>2. {} \in Options
      BY DEF Options
    <2>3. /\ session' = NewCallbacks /\ exported' = exported
          /\ entries' = [q \in SideEffects |-> 0]
          /\ origin' = {} /\ returned' = {} /\ reproduced' = FALSE
      BY <1>4 DEF Renew
    <2>4. exported' \in Options
      BY <2>3 DEF SizeInv
    <2>5. session'.epoch \in Nat /\ session'.epoch <= MaxCalls
      BY <2>1, <2>3, CallsAssumption
    <2>6. \A q \in SideEffects : entries'[q] <= session'.epoch
      BY <2>1, <2>3
    <2>. QED BY <2>1, <2>2, <2>3, <2>4, <2>5, <2>6 DEF SizeInv
  <1>5. CASE UNCHANGED callbackVars
    BY <1>5 DEF callbackVars, SizeInv
  <1>. QED BY <1>1, <1>2, <1>3, <1>4, <1>5 DEF CallbackNext

\* The optional fields of a session hold at most one element, its attempts are side
\* effects, a key is bound to one request, and no request was sent more often than the
\* bound on provider entries.
THEOREM TypeCorrect == CallbackSpec => []TypeOK
  <1>1. CallbackInit => SizeInv
    <2>1. /\ NewCallbacks.live = {} /\ NewCallbacks.portable = {}
          /\ NewCallbacks.previous = {} /\ NewCallbacks.epoch = 0
      BY DEF NewCallbacks
    <2>2. {} \in Options
      BY DEF Options
    <2>. QED BY <2>1, <2>2, NewSize DEF CallbackInit
  <1>2. LedgerInv /\ SizeInv => TypeOK
    <2>. SUFFICES ASSUME LedgerInv, SizeInv PROVE TypeOK
      OBVIOUS
    <2>1. Cardinality(session.previous) <= 1
      <3>1. Cardinality({}) = 0 /\ \A p : Cardinality({p}) = 1
        BY FS_EmptySet, FS_Singleton
      <3>2. session.previous = {} \/ \E p : session.previous = {p}
        BY DEF SizeInv
      <3>3. Cardinality(session.previous) = 0 \/ Cardinality(session.previous) = 1
        BY <3>1, <3>2, Zenon
      <3>. QED BY <3>3
    <2>2. session.epoch \in 0..EpochLimit
      BY CallsAssumption, RequestAssumption DEF SizeInv
    <2>3. entries \in [SideEffects -> 0..MaxCalls]
      BY CallsAssumption DEF SizeInv, LedgerInv
    <2>. QED BY <2>1, <2>2, <2>3 DEF TypeOK, LedgerInv, MemoryInv, SizeInv, Options
  <1>. QED BY <1>1, <1>2, SizeStep, LedgerInitially, LedgerStep, PTL DEF CallbackSpec
=============================================================================
