--------------------------- MODULE InterruptProofs ---------------------------
(***************************************************************************)
(* The theorems about interrupts and callback exceptions, for any threads, *)
(* tokens, calls and limits.                                               *)
(*                                                                         *)
(* ContextIsLinked is not inductive: a context built ahead is linked when  *)
(* its call enters run, so QueueInv says that until then its token waits   *)
(* in the queue, which pruning leaves alone because the context keeps the  *)
(* token alive.  AttributionIsOwn needs StashInv: an id names one failure, *)
(* so no other call takes the exception away.                              *)
(***************************************************************************)
EXTENDS Interrupt, FiniteSetTheorems, TLAPS

Phases == {"python", "built", "setup", "working", "finished"}
Tokens == UserTokens \cup (Threads \X Nat \X Nat)
Call == [phase : Phases, number : Nat, ahead : Seq(Tokens), linked : SUBSET Tokens,
         ctx : SUBSET Tokens, interrupt : BOOLEAN, id : Nat]

\* Only a finished call names a callback failure, only a running one was interrupted,
\* and until it works it has no context.
InPhase(c) ==
    /\ c.phase # "finished" => c.id = 0
    /\ c.phase \in {"python", "built"} => c.interrupt = FALSE
    /\ c.phase \in {"python", "built", "setup"} => c.ctx = {}

CallInv ==
    /\ call \in [Threads -> Call]
    /\ \A t \in Threads : InPhase(call[t])

\* The contexts of a call that has not run yet are queued.
QueueInv ==
    /\ DOMAIN pending = Threads
    /\ \A t \in Threads : call[t].phase \in {"python", "built"} =>
          Range(call[t].ahead) \subseteq DOMAIN pending[t]

\* Ids are given out once.
StashInv ==
    /\ nextId \in Nat \ {0}
    /\ \A e \in stash : e.id \in Nat /\ e.id < nextId
    /\ \A e, f \in stash : e.id = f.id => e = f

\* The scope's own token was cancelled when the watcher saw the signal, and every token
\* of an interrupted run was, but for a user's that joined it later.
InterruptedInv ==
    \A t \in Threads : call[t].interrupt /\ call[t].phase \in {"setup", "working"} =>
        /\ Own(t, call[t].number) \in cancelled
        /\ call[t].ctx \subseteq cancelled \cup UserTokens

InterruptInv ==
    CallInv /\ QueueInv /\ ContextIsLinked /\ StashInv /\ AttributionIsOwn /\ InterruptedInv

-----------------------------------------------------------------------------
(* Calls.                                                                  *)

LEMMA OutsideType ==
  ASSUME NEW n \in Nat
  PROVE  /\ Outside(n) \in Call
         /\ InPhase(Outside(n)) /\ Outside(n).phase = "python" /\ Range(Outside(n).ahead) = {}
  BY DEF Outside, InPhase, Call, Phases, Tokens, Range

\* Pruning and queueing lose no token that is alive.
LEMMA QueueKeeps ==
  ASSUME QueueInv, NEW t \in Threads, NEW token, Queue(t, token)
  PROVE  /\ DOMAIN pending' = Threads
         /\ \A u \in Threads \ {t} : pending'[u] = pending[u]
         /\ token \in DOMAIN pending'[t]
         /\ \A x \in DOMAIN pending[t] : Alive(t, x) => x \in DOMAIN pending'[t]
  <1>. DEFINE kept == IF BagCardinality(pending[t]) >= pruneAt[t] THEN Pruned(t) ELSE pending[t]
  <1>1. pending' = [pending EXCEPT ![t] = kept (+) SetToBag({token})]
    BY DEF Queue
  <1>2. \A x \in DOMAIN pending[t] : Alive(t, x) => x \in DOMAIN kept
    BY DEF Pruned
  <1>3. DOMAIN (kept (+) SetToBag({token})) = DOMAIN kept \cup {token}
    <2>. HIDE DEF kept
    <2>. QED BY DEF (+), SetToBag
  <1>4. pending'[t] = kept (+) SetToBag({token})
    BY <1>1 DEF QueueInv
  <1>5. DOMAIN pending'[t] = DOMAIN kept \cup {token}
    BY <1>3, <1>4
  <1>. QED
    <2>. HIDE DEF kept
    <2>. QED BY <1>1, <1>2, <1>5 DEF QueueInv

\* What one call may do: its thread's part of the invariant, and of the others nothing
\* but that their failures stay in the stash.
LEMMA CallMoves ==
  ASSUME InterruptInv, NEW t \in Threads, NEW c \in Call,
         call' = [call EXCEPT ![t] = c],
         InPhase(c),
         DOMAIN pending' = Threads, \A u \in Threads \ {t} : pending'[u] = pending[u],
         c.phase \in {"python", "built"} => Range(c.ahead) \subseteq DOMAIN pending'[t],
         c.phase = "working" => c.ctx \subseteq {Own(t, c.number)} \cup c.linked,
         StashInv',
         \A u \in Threads \ {t} : \A e \in stash : e.thread = u => e \in stash',
         c.phase = "finished" /\ c.id # 0 =>
             [id |-> c.id, thread |-> t, number |-> c.number] \in stash',
         cancelled \subseteq cancelled',
         c.interrupt /\ c.phase \in {"setup", "working"} =>
             Own(t, c.number) \in cancelled' /\ c.ctx \subseteq cancelled' \cup UserTokens
  PROVE  InterruptInv'
  <1>1. call'[t] = c /\ \A u \in Threads \ {t} : call'[u] = call[u]
    BY DEF InterruptInv, CallInv
  <1>2. CallInv'
    <2>1. call' \in [Threads -> Call]
      BY DEF InterruptInv, CallInv
    <2>. QED BY <1>1, <2>1 DEF InterruptInv, CallInv
  <1>3. QueueInv'
    BY <1>1 DEF InterruptInv, QueueInv
  <1>4. ContextIsLinked'
    BY <1>1 DEF InterruptInv, ContextIsLinked
  <1>5. AttributionIsOwn'
    <2>. SUFFICES ASSUME NEW u \in Threads, call'[u].phase = "finished", call'[u].id # 0
                  PROVE  [id |-> call'[u].id, thread |-> u, number |-> call'[u].number] \in stash'
      BY DEF AttributionIsOwn
    <2>1. CASE u = t
      BY <1>1, <2>1
    <2>2. CASE u # t
      <3>. DEFINE e == [id |-> call[u].id, thread |-> u, number |-> call[u].number]
      <3>1. call'[u] = call[u]
        BY <1>1, <2>2
      <3>2. e \in stash
        BY <3>1 DEF InterruptInv, AttributionIsOwn
      <3>3. e.thread = u
        OBVIOUS
      <3>4. e \in stash'
        BY <2>2, <3>2, <3>3
      <3>. QED BY <3>1, <3>4
    <2>. QED BY <2>1, <2>2
  <1>6. InterruptedInv'
    <2>. SUFFICES ASSUME NEW u \in Threads, call'[u].interrupt,
                         call'[u].phase \in {"setup", "working"}
                  PROVE  /\ Own(u, call'[u].number) \in cancelled'
                         /\ call'[u].ctx \subseteq cancelled' \cup UserTokens
      BY DEF InterruptedInv, Own
    <2>1. CASE u = t
      BY <1>1, <2>1
    <2>2. CASE u # t
      <3>1. call'[u] = call[u]
        BY <1>1, <2>2
      <3>. QED BY <3>1 DEF InterruptInv, InterruptedInv
    <2>. QED BY <2>1, <2>2
  <1>. QED BY <1>2, <1>3, <1>4, <1>5, <1>6 DEF InterruptInv

\* The same, for a step that keeps queue, stash and cancelled tokens.
LEMMA CallAlone ==
  ASSUME InterruptInv, NEW t \in Threads, NEW c \in Call,
         call' = [call EXCEPT ![t] = c],
         InPhase(c),
         UNCHANGED <<pending, stash, nextId, cancelled>>,
         c.phase \in {"python", "built"} => Range(c.ahead) \subseteq DOMAIN pending[t],
         c.phase = "working" => c.ctx \subseteq {Own(t, c.number)} \cup c.linked,
         c.phase = "finished" /\ c.id # 0 =>
             [id |-> c.id, thread |-> t, number |-> c.number] \in stash,
         c.interrupt /\ c.phase \in {"setup", "working"} =>
             Own(t, c.number) \in cancelled /\ c.ctx \subseteq cancelled \cup UserTokens
  PROVE  InterruptInv'
  <1>1. StashInv'
    BY DEF InterruptInv, StashInv
  <1>2. DOMAIN pending' = Threads /\ pending' = pending /\ stash' = stash /\ cancelled' = cancelled
    BY DEF InterruptInv, QueueInv
  <1>. QED BY <1>1, <1>2, CallMoves

-----------------------------------------------------------------------------
(* link and run.                                                           *)

LEMMA AheadRange ==
  ASSUME NEW s \in Seq(Tokens), NEW x
  PROVE  Range(Append(s, x)) \subseteq Range(s) \cup {x}
  BY DEF Range

LEMMA BuildAheadKeeps ==
  ASSUME InterruptInv, NEW t \in Threads, BuildAhead(t)
  PROVE  InterruptInv'
  <1>. DEFINE fresh == ContextToken(t, call[t].number, Len(call[t].ahead) + 1)
  <1>1. PICK token \in UserTokens \cup {fresh} :
           /\ Queue(t, token)
           /\ call' = [call EXCEPT ![t] =
                  [call[t] EXCEPT !.phase = "built", !.ahead = Append(@, token)]]
    BY DEF BuildAhead
  <1>. DEFINE c == [call[t] EXCEPT !.phase = "built", !.ahead = Append(@, token)]
  <1>2. call[t] \in Call /\ InPhase(call[t]) /\ call[t].phase \in {"python", "built"}
    BY DEF InterruptInv, CallInv, BuildAhead
  <1>3. token \in Tokens
    <2>1. Len(call[t].ahead) + 1 \in Nat /\ call[t].number \in Nat
      BY <1>2 DEF Call
    <2>. QED BY <2>1 DEF Tokens, ContextToken
  <1>4. c \in Call /\ c.phase = "built" /\ InPhase(c) /\ c.ahead = Append(call[t].ahead, token)
    <2>1. Append(call[t].ahead, token) \in Seq(Tokens)
      BY <1>2, <1>3 DEF Call
    <2>. QED BY <1>2, <2>1 DEF Call, Phases, InPhase
  <1>5. Range(c.ahead) \subseteq DOMAIN pending'[t]
    <2>1. Range(call[t].ahead) \subseteq DOMAIN pending[t]
      BY <1>2 DEF InterruptInv, QueueInv
    <2>2. \A x \in Range(call[t].ahead) : Alive(t, x)
      BY DEF Alive, Range
    <2>3. Range(call[t].ahead) \cup {token} \subseteq DOMAIN pending'[t]
      BY <1>1, <2>1, <2>2, QueueKeeps DEF InterruptInv
    <2>4. call[t].ahead \in Seq(Tokens)
      BY <1>2 DEF Call
    <2>. QED BY <1>4, <2>3, <2>4, AheadRange
  <1>6. DOMAIN pending' = Threads /\ \A u \in Threads \ {t} : pending'[u] = pending[u]
    BY <1>1, QueueKeeps DEF InterruptInv
  <1>7. StashInv' /\ stash' = stash /\ cancelled' = cancelled
    BY DEF BuildAhead, InterruptInv, StashInv
  <1>8. call' = [call EXCEPT ![t] = c]
    BY <1>1
  <1>. HIDE DEF c, fresh
  <1>. QED BY <1>4, <1>5, <1>6, <1>7, <1>8, CallMoves

LEMMA OverKeeps ==
  ASSUME InterruptInv, NEW t \in Threads, call' = [call EXCEPT ![t] = Outside(call[t].number + 1)],
         DOMAIN pending' = Threads, \A u \in Threads \ {t} : pending'[u] = pending[u],
         cancelled' = cancelled, StashInv',
         \A u \in Threads \ {t} : \A e \in stash : e.thread = u => e \in stash'
  PROVE  InterruptInv'
  <1>1. call[t].number + 1 \in Nat
    BY DEF InterruptInv, CallInv, Call
  <1>. DEFINE c == Outside(call[t].number + 1)
  <1>2. c \in Call /\ InPhase(c) /\ c.phase = "python" /\ Range(c.ahead) = {}
    BY <1>1, OutsideType
  <1>. HIDE DEF c
  <1>. QED BY <1>2, CallMoves DEF c

LEMMA EnterRunKeeps ==
  ASSUME InterruptInv, NEW t \in Threads, EnterRun(t)
  PROVE  InterruptInv'
  <1>. DEFINE c == call[t]
              linked == {token \in DOMAIN pending[t] : Alive(t, token)}
              entered == [c EXCEPT !.linked = linked]
  <1>1. c \in Call /\ InPhase(c) /\ c.phase \in {"python", "built"}
    BY DEF InterruptInv, CallInv, EnterRun
  <1>2. linked \subseteq Tokens
    <2>1. \A x : Alive(t, x) => x \in Tokens
      BY <1>1 DEF Alive, Call, Tokens
    <2>. QED BY <2>1
  <1>3. entered \in Call /\ entered.ctx = {} /\ entered.interrupt = FALSE /\ entered.id = 0
        /\ entered.linked = linked /\ entered.number = c.number
    BY <1>1, <1>2 DEF Call, InPhase
  <1>4. /\ pending' = [pending EXCEPT ![t] = EmptyBag]
        /\ stash' = stash /\ cancelled' = cancelled /\ nextId' = nextId
    BY DEF EnterRun
  <1>5. /\ DOMAIN pending' = Threads /\ \A u \in Threads \ {t} : pending'[u] = pending[u]
        /\ StashInv'
    BY <1>4 DEF InterruptInv, QueueInv, StashInv
  <1>6. \/ call' = [call EXCEPT ![t] = Outside(c.number + 1)]
        \/ call' = [call EXCEPT ![t] = [entered EXCEPT !.phase = "setup"]]
        \/ \E token \in Range(c.ahead) :
              call' = [call EXCEPT ![t] = [entered EXCEPT !.phase = "working", !.ctx = {token}]]
    <2>. DEFINE runs == IF c.ahead = <<>> THEN {[entered EXCEPT !.phase = "setup"]}
                        ELSE {[entered EXCEPT !.phase = "working", !.ctx = {token}] :
                                 token \in Range(c.ahead)}
    <2>1. call' \in {[call EXCEPT ![t] = s] : s \in {Outside(c.number + 1)} \cup runs}
      BY DEF EnterRun
    <2>2. PICK s \in {Outside(c.number + 1)} \cup runs : call' = [call EXCEPT ![t] = s]
      <3>. HIDE DEF runs
      <3>. QED BY <2>1
    <2>3. CASE s = Outside(c.number + 1)
      BY <2>2, <2>3
    <2>4. CASE s \in runs
      <3>1. \/ s = [entered EXCEPT !.phase = "setup"]
            \/ \E token \in Range(c.ahead) : s = [entered EXCEPT !.phase = "working", !.ctx = {token}]
        <4>. HIDE DEF entered
        <4>. QED BY <2>4
      <3>. HIDE DEF entered, runs
      <3>. QED BY <2>2, <3>1
    <2>. QED BY <2>2, <2>3, <2>4
  <1>7. CASE call' = [call EXCEPT ![t] = Outside(c.number + 1)]
    BY <1>4, <1>5, <1>7, OverKeeps
  <1>8. CASE call' = [call EXCEPT ![t] = [entered EXCEPT !.phase = "setup"]]
    <2>. DEFINE d == [entered EXCEPT !.phase = "setup"]
    <2>1. d \in Call /\ InPhase(d) /\ d.phase = "setup" /\ d.interrupt = FALSE
      BY <1>3 DEF Call, Phases, InPhase
    <2>2. call' = [call EXCEPT ![t] = d]
      BY <1>8
    <2>. HIDE DEF d, entered, linked
    <2>. QED BY <1>4, <1>5, <2>1, <2>2, CallMoves
  <1>9. ASSUME NEW token \in Range(c.ahead),
               call' = [call EXCEPT ![t] = [entered EXCEPT !.phase = "working", !.ctx = {token}]]
        PROVE  InterruptInv'
    <2>. DEFINE d == [entered EXCEPT !.phase = "working", !.ctx = {token}]
    <2>1. token \in linked
      <3>1. token \in DOMAIN pending[t]
        BY <1>1, <1>9 DEF InterruptInv, QueueInv
      <3>. QED BY <3>1, <1>9 DEF Alive, Range
    <2>2. /\ d \in Call /\ InPhase(d) /\ d.phase = "working" /\ d.interrupt = FALSE
          /\ d.ctx = {token} /\ d.linked = linked
      <3>1. {token} \in SUBSET Tokens
        BY <1>2, <2>1
      <3>. QED BY <1>3, <3>1 DEF Call, Phases, InPhase
    <2>3. call' = [call EXCEPT ![t] = d]
      BY <1>9
    <2>4. d.ctx \subseteq {Own(t, d.number)} \cup d.linked
      BY <2>1, <2>2
    <2>. HIDE DEF c, d, entered, linked
    <2>. QED BY <1>4, <1>5, <2>2, <2>3, <2>4, CallMoves
  <1>. QED BY <1>6, <1>7, <1>8, <1>9

LEMMA BuildOnWorkerKeeps ==
  ASSUME InterruptInv, NEW t \in Threads, BuildOnWorker(t)
  PROVE  InterruptInv'
  <1>. DEFINE c == call[t]
              Made == {[c EXCEPT !.ctx = {Own(t, c.number)}]}
                        \cup {LinkOnWorker(c, token) : token \in UserTokens}
  <1>1. c \in Call /\ InPhase(c) /\ c.phase = "setup" /\ c.id = 0
    BY DEF InterruptInv, CallInv, InPhase, BuildOnWorker
  <1>2. UNCHANGED <<pending, stash, nextId, cancelled>>
    BY DEF BuildOnWorker
  <1>3. c.interrupt => Own(t, c.number) \in cancelled
    BY <1>1 DEF InterruptInv, InterruptedInv
  <1>4. call' \in {[call EXCEPT ![t] = [s EXCEPT !.phase = "working"]] : s \in Made}
    BY DEF BuildOnWorker
  <1>5. PICK s \in Made : call' = [call EXCEPT ![t] = [s EXCEPT !.phase = "working"]]
    <2>. HIDE DEF Made
    <2>. QED BY <1>4
  <1>6. /\ s \in Call /\ s.id = 0 /\ s.number = c.number /\ s.interrupt = c.interrupt
        /\ s.ctx \subseteq {Own(t, s.number)} \cup s.linked
        /\ s.interrupt => s.ctx \subseteq cancelled \cup UserTokens
    <2>1. CASE s = [c EXCEPT !.ctx = {Own(t, c.number)}]
      <3>1. {Own(t, c.number)} \in SUBSET Tokens
        BY <1>1 DEF Own, Tokens, Call
      <3>. QED BY <1>1, <1>3, <2>1, <3>1 DEF Call
    <2>2. ASSUME NEW token \in UserTokens, s = LinkOnWorker(c, token)
          PROVE  /\ s \in Call /\ s.id = 0 /\ s.number = c.number /\ s.interrupt = c.interrupt
                 /\ s.ctx \subseteq {Own(t, s.number)} \cup s.linked
                 /\ s.interrupt => s.ctx \subseteq cancelled \cup UserTokens
      <3>1. {token} \in SUBSET Tokens /\ c.linked \cup {token} \in SUBSET Tokens
        BY <1>1 DEF Tokens, Call
      <3>. QED BY <1>1, <2>2, <3>1 DEF Call, LinkOnWorker
    <2>. QED BY <2>1, <2>2
  <1>. DEFINE d == [s EXCEPT !.phase = "working"]
  <1>7. /\ d \in Call /\ d.phase = "working" /\ InPhase(d) /\ d.number = c.number
        /\ d.ctx \subseteq {Own(t, d.number)} \cup d.linked
        /\ d.interrupt => c.interrupt /\ d.ctx \subseteq cancelled \cup UserTokens
    BY <1>6 DEF Call, Phases, InPhase
  <1>8. call' = [call EXCEPT ![t] = d]
    BY <1>5
  <1>. HIDE DEF c, d, Made
  <1>. QED BY <1>2, <1>3, <1>7, <1>8, CallAlone

\* The work ends, by itself or because its token was cancelled.
LEMMA EndKeeps ==
  ASSUME InterruptInv, NEW t \in Threads, Finish(t) \/ Stop(t)
  PROVE  InterruptInv'
  <1>1. call[t] \in Call /\ call[t].id = 0
    BY DEF InterruptInv, CallInv, InPhase, Finish, Stop
  <1>. DEFINE d == [call[t] EXCEPT !.phase = "finished"]
  <1>2. d \in Call /\ d.phase = "finished" /\ d.id = 0 /\ InPhase(d)
    BY <1>1 DEF Call, Phases, InPhase
  <1>3. call' = [call EXCEPT ![t] = d] /\ UNCHANGED <<pending, stash, nextId, cancelled>>
    BY DEF Finish, Stop
  <1>. HIDE DEF d
  <1>. QED BY <1>2, <1>3, CallAlone

\* The watcher cancels the token of a context that exists.
LEMMA PollReaches ==
  ASSUME InterruptInv, NEW t \in Threads, Poll(t)
  PROVE  /\ cancelled \subseteq cancelled' /\ Own(t, call[t].number) \in cancelled'
         /\ call[t].ctx \subseteq cancelled'
  <1>1. cancelled' = cancelled \cup {Own(t, call[t].number)} \cup call[t].linked
    BY DEF Poll, CancelAll
  <1>2. CASE call[t].phase = "working"
    BY <1>1, <1>2 DEF InterruptInv, ContextIsLinked
  <1>3. CASE call[t].phase = "setup"
    BY <1>1, <1>3 DEF InterruptInv, CallInv, InPhase
  <1>. QED BY <1>2, <1>3 DEF Poll

LEMMA PollKeeps ==
  ASSUME InterruptInv, NEW t \in Threads, Poll(t)
  PROVE  InterruptInv'
  <1>. DEFINE c == call[t]
              d == [c EXCEPT !.interrupt = TRUE]
  <1>1. c \in Call /\ InPhase(c) /\ c.phase \in {"setup", "working"}
    BY DEF InterruptInv, CallInv, Poll
  <1>2. /\ d \in Call /\ InPhase(d) /\ d.phase \in {"setup", "working"} /\ d.phase = c.phase
        /\ d.ctx = c.ctx /\ d.number = c.number /\ d.linked = c.linked
    BY <1>1 DEF Call, InPhase
  <1>3. call' = [call EXCEPT ![t] = d] /\ UNCHANGED <<pending, stash, nextId>>
    BY DEF Poll
  <1>4. /\ DOMAIN pending' = Threads /\ \A u \in Threads \ {t} : pending'[u] = pending[u]
        /\ StashInv' /\ stash' = stash
    BY <1>3 DEF InterruptInv, QueueInv, StashInv
  <1>5. d.phase = "working" => d.ctx \subseteq {Own(t, d.number)} \cup d.linked
    BY <1>2 DEF InterruptInv, ContextIsLinked
  <1>6. /\ cancelled \subseteq cancelled' /\ Own(t, d.number) \in cancelled'
        /\ d.ctx \subseteq cancelled' \cup UserTokens
    BY <1>2, PollReaches
  <1>. HIDE DEF c, d
  <1>. QED BY <1>2, <1>3, <1>4, <1>5, <1>6, CallMoves

-----------------------------------------------------------------------------
(* Callback failures.                                                      *)

LEMMA FailureKeeps ==
  ASSUME InterruptInv, NEW t \in Threads, CallbackFails(t)
  PROVE  InterruptInv'
  <1>. DEFINE c == call[t]
              new == [id |-> nextId, thread |-> t, number |-> c.number]
              id == IF CallbackFailure(t) # stash THEN nextId ELSE 0
              d == [c EXCEPT !.phase = "finished", !.id = id]
  <1>1. c \in Call /\ InPhase(c) /\ c.phase = "working" /\ c.id = 0 /\ c.number \in Nat
    BY DEF InterruptInv, CallInv, InPhase, Call, CallbackFails
  <1>2. nextId \in Nat \ {0} /\ new \notin stash
    BY DEF InterruptInv, StashInv
  <1>3. /\ stash' = CallbackFailure(t) /\ nextId' = IF id # 0 THEN nextId + 1 ELSE nextId
        /\ pending' = pending /\ cancelled' = cancelled
        /\ call' = call \/ call' = [call EXCEPT ![t] = d]
    BY DEF CallbackFails
  <1>4. \/ stash' = stash /\ id = 0 /\ nextId' = nextId
        \/ stash' = stash \cup {new} /\ id = nextId /\ nextId' = nextId + 1
    <2>1. CallbackFailure(t) = stash \/ CallbackFailure(t) = stash \cup {new}
      BY DEF CallbackFailure, Keep
    <2>. QED BY <1>2, <1>3, <2>1
  <1>5. id \in Nat /\ (id # 0 => [id |-> id, thread |-> t, number |-> c.number] \in stash')
    BY <1>2, <1>4
  <1>6. StashInv' /\ stash \subseteq stash'
    <2>1. CASE stash' = stash /\ nextId' = nextId
      BY <2>1 DEF InterruptInv, StashInv
    <2>2. CASE stash' = stash \cup {new} /\ nextId' = nextId + 1
      <3>1. new.id = nextId
        OBVIOUS
      <3>2. \A e \in stash : e.id \in Nat /\ e.id < nextId
        BY DEF InterruptInv, StashInv
      <3>3. \A e \in stash' : e.id \in Nat /\ e.id < nextId'
        BY <1>2, <2>2, <3>1, <3>2
      <3>4. \A e, f \in stash' : e.id = f.id => e = f
        <4>1. \A e, f \in stash : e.id = f.id => e = f
          BY DEF InterruptInv, StashInv
        <4>. HIDE DEF new
        <4>. QED BY <1>2, <2>2, <3>1, <3>2, <4>1
      <3>. QED BY <1>2, <2>2, <3>3, <3>4 DEF StashInv
    <2>. QED BY <1>4, <2>1, <2>2
  <1>7. DOMAIN pending' = Threads /\ \A u \in Threads \ {t} : pending'[u] = pending[u]
    BY <1>3 DEF InterruptInv, QueueInv
  <1>8. CASE call' = [call EXCEPT ![t] = d]
    <2>1. /\ d \in Call /\ InPhase(d) /\ d.phase = "finished"
          /\ d.id = id /\ d.number = c.number
      BY <1>1, <1>5 DEF Call, Phases, InPhase
    <2>. HIDE DEF c, d, id, new
    <2>. QED BY <1>3, <1>5, <1>6, <1>7, <1>8, <2>1, CallMoves
  <1>9. CASE call' = call
    <2>1. call' = [call EXCEPT ![t] = c]
      BY <1>9 DEF InterruptInv, CallInv
    <2>2. /\ c.ctx \subseteq {Own(t, c.number)} \cup c.linked
          /\ c.interrupt => Own(t, c.number) \in cancelled /\ c.ctx \subseteq cancelled \cup UserTokens
      BY <1>1 DEF InterruptInv, ContextIsLinked, InterruptedInv
    <2>. HIDE DEF c, d, id, new
    <2>. QED BY <1>1, <1>3, <1>6, <1>7, <2>1, <2>2, CallMoves
  <1>. QED BY <1>3, <1>8, <1>9

\* A result takes the exception it names, which no other call waits for.
LEMMA ReturnKeeps ==
  ASSUME InterruptInv, NEW t \in Threads, Return(t)
  PROVE  InterruptInv'
  <1>. DEFINE id == call[t].id
  <1>1. /\ call' = [call EXCEPT ![t] = Outside(call[t].number + 1)]
        /\ pending' = pending /\ cancelled' = cancelled /\ nextId' = nextId
        /\ stash' = stash \/ (id # 0 /\ stash' = {e \in stash : e.id # id})
    BY DEF Return, Attribute
  <1>2. DOMAIN pending' = Threads /\ \A u \in Threads \ {t} : pending'[u] = pending[u]
    BY <1>1 DEF InterruptInv, QueueInv
  <1>3. StashInv'
    BY <1>1 DEF InterruptInv, StashInv
  <1>4. ASSUME NEW u \in Threads \ {t}, NEW e \in stash, e.thread = u PROVE e \in stash'
    <2>1. CASE stash' = stash
      BY <2>1
    <2>2. CASE id # 0 /\ stash' = {x \in stash : x.id # id}
      <3>. DEFINE own == [id |-> id, thread |-> t, number |-> call[t].number]
      <3>1. own \in stash /\ own.id = id /\ own.thread = t
        BY <2>2 DEF InterruptInv, AttributionIsOwn, Return
      <3>2. e # own
        BY <1>4, <3>1
      <3>3. e.id # id
        <4>. HIDE DEF own, id
        <4>. QED BY <3>1, <3>2 DEF InterruptInv, StashInv
      <3>. QED BY <2>2, <3>3
    <2>. QED BY <1>1, <2>1, <2>2
  <1>. HIDE DEF id
  <1>. QED BY <1>1, <1>2, <1>3, <1>4, OverKeeps

-----------------------------------------------------------------------------
(* The invariant.                                                          *)

LEMMA InterruptInit == Init => InterruptInv
  <1>. SUFFICES ASSUME Init PROVE InterruptInv
    OBVIOUS
  <1>1. \A t \in Threads : call[t] = Outside(0) /\ DOMAIN pending = Threads
    BY DEF Init
  <1>2. Outside(0) \in Call /\ InPhase(Outside(0)) /\ Outside(0).phase = "python"
        /\ Range(Outside(0).ahead) = {}
    BY OutsideType
  <1>3. CallInv
    <2>1. call \in [Threads -> Call]
      BY <1>2 DEF Init
    <2>. QED BY <1>1, <1>2, <2>1 DEF CallInv
  <1>4. QueueInv
    BY <1>1, <1>2 DEF QueueInv, Init
  <1>5. ContextIsLinked /\ AttributionIsOwn /\ InterruptedInv
    BY <1>1, <1>2 DEF ContextIsLinked, AttributionIsOwn, InterruptedInv
  <1>6. StashInv
    BY DEF Init, StashInv
  <1>. QED BY <1>3, <1>4, <1>5, <1>6 DEF InterruptInv

\* Steps that move no call.
LEMMA UserKeeps ==
  ASSUME InterruptInv, UNCHANGED <<pending, stash, nextId, call>>, cancelled \subseteq cancelled'
  PROVE  InterruptInv'
  <1>1. CallInv' /\ QueueInv' /\ StashInv'
    BY DEF InterruptInv, CallInv, QueueInv, StashInv
  <1>2. ContextIsLinked' /\ AttributionIsOwn' /\ InterruptedInv'
    BY DEF InterruptInv, ContextIsLinked, AttributionIsOwn, InterruptedInv
  <1>. QED BY <1>1, <1>2 DEF InterruptInv

LEMMA AbandonKeeps ==
  ASSUME InterruptInv, NEW t \in Threads, Abandon(t)
  PROVE  InterruptInv'
  <1>1. /\ call' = [call EXCEPT ![t] = Outside(call[t].number + 1)]
        /\ UNCHANGED <<pending, stash, nextId, cancelled>>
    BY DEF Abandon
  <1>2. DOMAIN pending' = Threads /\ StashInv'
    BY <1>1 DEF InterruptInv, QueueInv, StashInv
  <1>. QED BY <1>1, <1>2, OverKeeps

LEMMA InterruptStep == InterruptInv /\ [Next]_vars => InterruptInv'
  <1>. SUFFICES ASSUME InterruptInv, [Next]_vars PROVE InterruptInv'
    OBVIOUS
  <1>1. ASSUME NEW t \in Threads, BuildAhead(t) PROVE InterruptInv'
    BY <1>1, BuildAheadKeeps
  <1>2. ASSUME NEW t \in Threads, Abandon(t) PROVE InterruptInv'
    BY <1>2, AbandonKeeps
  <1>3. ASSUME NEW t \in Threads, EnterRun(t) PROVE InterruptInv'
    BY <1>3, EnterRunKeeps
  <1>4. ASSUME NEW t \in Threads, BuildOnWorker(t) PROVE InterruptInv'
    BY <1>4, BuildOnWorkerKeeps
  <1>5. ASSUME NEW t \in Threads, Finish(t) \/ Stop(t) PROVE InterruptInv'
    BY <1>5, EndKeeps
  <1>6. ASSUME NEW t \in Threads, Poll(t) PROVE InterruptInv'
    BY <1>6, PollKeeps
  <1>7. ASSUME NEW t \in Threads, CallbackFails(t) PROVE InterruptInv'
    BY <1>7, FailureKeeps
  <1>8. ASSUME NEW t \in Threads, Return(t) PROVE InterruptInv'
    BY <1>8, ReturnKeeps
  <1>9. CASE Sigint \/ RaiseInPython
    BY <1>9, UserKeeps DEF Sigint, RaiseInPython
  <1>10. ASSUME NEW token \in UserTokens, CancelToken(token) PROVE InterruptInv'
    BY <1>10, UserKeeps DEF CancelToken
  <1>11. CASE UNCHANGED vars
    BY <1>11, UserKeeps DEF vars
  <1>. QED BY <1>1, <1>2, <1>3, <1>4, <1>5, <1>6, <1>7, <1>8, <1>9, <1>10, <1>11 DEF Next

LEMMA InterruptInvariant == Spec => []InterruptInv
  BY InterruptInit, InterruptStep, PTL DEF Spec

-----------------------------------------------------------------------------
(* The theorems.                                                           *)

\* The token an engine polls is the run's own or one the watcher cancels with it
\* (link, run and install_cancellation), however many contexts were built ahead,
\* pruned from the queue or abandoned.
THEOREM ContextLinked == Spec => []ContextIsLinked
  <1>1. InterruptInv => ContextIsLinked
    BY DEF InterruptInv
  <1>. QED BY <1>1, InterruptInvariant, PTL

\* The id a failed run's message carries finds the exception of that very run in the
\* stash (callback_failure and attribute), whatever the other threads stash and take.
THEOREM AttributionOwn == Spec => []AttributionIsOwn
  <1>1. InterruptInv => AttributionIsOwn
    BY DEF InterruptInv
  <1>. QED BY <1>1, InterruptInvariant, PTL

\* A run that is stopped as soon as its engine polls its token.
Stopping(t) == call[t].phase = "working" /\ call[t].interrupt /\ call[t].ctx \subseteq cancelled

\* A step that interrupts a working run leaves it stopping, and a stopping run stays so
\* until it has finished.
SignalReachesEngine ==
    \A t \in Threads :
        /\ call[t].phase = "working" /\ ~call[t].interrupt /\ call'[t].interrupt => Stopping(t)'
        /\ Stopping(t) => Stopping(t)' \/ call'[t].phase = "finished"

LEMMA SignalStep == InterruptInv /\ Next => SignalReachesEngine
  <1>. SUFFICES ASSUME InterruptInv, Next, NEW t \in Threads, call[t].phase = "working"
                PROVE  /\ ~call[t].interrupt /\ call'[t].interrupt => Stopping(t)'
                       /\ Stopping(t) => Stopping(t)' \/ call'[t].phase = "finished"
    BY DEF SignalReachesEngine, Stopping
  <1>1. call \in [Threads -> Call]
    BY DEF InterruptInv, CallInv
  <1>2. CASE call'[t] = call[t] /\ cancelled \subseteq cancelled'
    BY <1>2 DEF Stopping
  <1>3. CASE call'[t].phase = "finished" /\ call'[t].interrupt = call[t].interrupt
    BY <1>3
  <1>4. CASE Poll(t)
    <2>1. call[t] \in Call
      BY <1>1
    <2>2. call'[t] = [call[t] EXCEPT !.interrupt = TRUE]
      BY <1>1, <1>4 DEF Poll
    <2>3. call'[t].phase = "working" /\ call'[t].interrupt /\ call'[t].ctx = call[t].ctx
      BY <2>1, <2>2 DEF Call
    <2>. QED BY <1>4, <2>3, PollReaches DEF Stopping
  <1>5. ASSUME NEW u \in Threads, u # t,
               \/ BuildAhead(u) \/ Abandon(u) \/ EnterRun(u) \/ BuildOnWorker(u) \/ Finish(u)
               \/ Stop(u) \/ Poll(u) \/ CallbackFails(u) \/ Return(u)
        PROVE  call'[t] = call[t] /\ cancelled \subseteq cancelled'
    <2>1. \E c : call' = [call EXCEPT ![u] = c]
      <3>1. CASE BuildAhead(u)
        BY <3>1 DEF BuildAhead
      <3>2. CASE EnterRun(u)
        <4>. DEFINE Made == {Outside(call[u].number + 1)} \cup
                 (IF call[u].ahead = <<>>
                  THEN {[[call[u] EXCEPT !.linked = {x \in DOMAIN pending[u] : Alive(u, x)}]
                            EXCEPT !.phase = "setup"]}
                  ELSE {[[call[u] EXCEPT !.linked = {x \in DOMAIN pending[u] : Alive(u, x)}]
                            EXCEPT !.phase = "working", !.ctx = {token}] :
                           token \in Range(call[u].ahead)})
        <4>1. call' \in {[call EXCEPT ![u] = s] : s \in Made}
          BY <3>2 DEF EnterRun
        <4>. HIDE DEF Made
        <4>. QED BY <4>1
      <3>3. CASE BuildOnWorker(u)
        <4>. DEFINE Made == {[call[u] EXCEPT !.ctx = {Own(u, call[u].number)}]}
                              \cup {LinkOnWorker(call[u], token) : token \in UserTokens}
        <4>1. call' \in {[call EXCEPT ![u] = [s EXCEPT !.phase = "working"]] : s \in Made}
          BY <3>3 DEF BuildOnWorker
        <4>. HIDE DEF Made
        <4>. QED BY <4>1
      <3>4. CASE CallbackFails(u)
        <4>1. call = [call EXCEPT ![u] = call[u]]
          BY <1>1
        <4>. QED BY <3>4, <4>1 DEF CallbackFails
      <3>5. CASE Abandon(u) \/ Finish(u) \/ Stop(u) \/ Poll(u) \/ Return(u)
        BY <3>5 DEF Abandon, Finish, Stop, Poll, Return
      <3>. QED BY <1>5, <3>1, <3>2, <3>3, <3>4, <3>5
    <2>2. cancelled \subseteq cancelled'
      BY <1>5, PollReaches DEF BuildAhead, Abandon, EnterRun, BuildOnWorker, Finish, Stop,
                              CallbackFails, Return
    <2>. QED BY <1>1, <1>5, <2>1, <2>2
  <1>6. CASE Finish(t) \/ Stop(t)
    <2>1. call[t] \in Call
      BY <1>1
    <2>2. call'[t] = [call[t] EXCEPT !.phase = "finished"]
      BY <1>1, <1>6 DEF Finish, Stop
    <2>3. call'[t].phase = "finished" /\ call'[t].interrupt = call[t].interrupt
      BY <2>1, <2>2 DEF Call
    <2>. QED BY <1>3, <2>3
  <1>7. CASE CallbackFails(t)
    <2>1. cancelled' = cancelled
      BY <1>7 DEF CallbackFails
    <2>2. \/ call' = call
          \/ \E id : call' = [call EXCEPT ![t] = [call[t] EXCEPT !.phase = "finished", !.id = id]]
      BY <1>7 DEF CallbackFails
    <2>3. call[t] \in Call
      BY <1>1
    <2>4. ASSUME NEW id, call' = [call EXCEPT ![t] = [call[t] EXCEPT !.phase = "finished", !.id = id]]
          PROVE  call'[t].phase = "finished" /\ call'[t].interrupt = call[t].interrupt
      BY <1>1, <2>3, <2>4 DEF Call
    <2>. QED BY <1>2, <1>3, <2>1, <2>2, <2>4
  <1>8. CASE Sigint \/ RaiseInPython \/ \E token \in UserTokens : CancelToken(token)
    BY <1>2, <1>8 DEF Sigint, RaiseInPython, CancelToken
  <1>9. ~BuildAhead(t) /\ ~Abandon(t) /\ ~EnterRun(t) /\ ~BuildOnWorker(t) /\ ~Return(t)
    BY DEF BuildAhead, Abandon, EnterRun, BuildOnWorker, Return
  <1>. QED BY <1>2, <1>4, <1>5, <1>6, <1>7, <1>8, <1>9 DEF Next

\* The first signal the watcher of a working run sees (cancel_all) leaves the engine
\* under a cancelled token, and no later step takes the run from under it before it has
\* finished: what InterruptStopsRun needs besides the engine's polling.
THEOREM SignalReaches == Spec => [][SignalReachesEngine]_vars
  <1>1. InterruptInv /\ [Next]_vars => [SignalReachesEngine]_vars
    BY SignalStep
  <1>. QED BY <1>1, InterruptInvariant, PTL DEF Spec
=============================================================================
