------------------------------ MODULE Interrupt ------------------------------
(***************************************************************************)
(* src/python/src/interrupt.rs: Ctrl-C and callback exceptions of native   *)
(* runs that have released the GIL.                                        *)
(*                                                                         *)
(* Each Python thread makes calls of the extension.  A call may build      *)
(* execution contexts ahead, then enters run: a worker thread executes     *)
(* under one context while the calling thread watches for its result and   *)
(* for a signal, which only the main thread can see.  Callbacks of the     *)
(* worker may fail; the exception waits in a stash shared by all threads.  *)
(*                                                                         *)
(* A token is a user's (handed in with a call, alive as long as its owner  *)
(* likes) or a context's own, which dies with the context.  Queued tokens  *)
(* are a bag: their order is never read.  Texts are left out: an error     *)
(* message is the callback id it carries.                                  *)
(***************************************************************************)
EXTENDS Integers, Sequences, FiniteSets, Bags, Functions

CONSTANTS
    Threads, Main,   \* Python threads, and the one that receives signals
    UserTokens,
    PruneFloor,      \* PENDING_PRUNE_FLOOR
    MaxStashed,      \* MAX_STASHED
    MaxCalls,        \* bound: calls of each thread, by thread
    MaxContexts,     \* bound: contexts one call builds ahead
    MaxSignals,      \* bound: signals
    MaxIds           \* bound: callback failures

ASSUME ThreadAssumption == Main \in Threads
ASSUME BoundAssumption ==
    PruneFloor \in Nat \ {0} /\ MaxStashed \in Nat /\ MaxCalls \in [Threads -> Nat]

VARIABLES
    signal,     \* a SIGINT is pending
    signals,    \* how many there were
    cancelled,  \* tokens that were cancelled
    pending,    \* PENDING of each thread
    pruneAt,    \* PENDING_PRUNE_AT of each thread
    stash,      \* STASH: the callback failures kept, by id, with the call they arose in
    nextId,     \* NEXT_ID
    call        \* the current call of each thread
vars == <<signal, signals, cancelled, pending, pruneAt, stash, nextId, call>>

\* The own token of a call's scope, and of the i-th context it built ahead.
Own(t, n) == <<t, n, 0>>
ContextToken(t, n, i) == <<t, n, i>>

\* Between two calls: number calls were made.
Outside(number) == [phase |-> "python", number |-> number, ahead |-> <<>>, linked |-> {},
                    ctx |-> {}, interrupt |-> FALSE, id |-> 0]

\* A context's own token lives while its call holds the context.
Alive(t, token) ==
    token \in UserTokens \/ \E i \in DOMAIN call[t].ahead : call[t].ahead[i] = token

-----------------------------------------------------------------------------
(* link and run.                                                           *)

\* Mutant: a queue that is pruned loses the tokens that are alive.
Pruned_Live(t) == [token \in {x \in DOMAIN pending[t] : ~Alive(t, x)} |-> pending[t][token]]

Pruned(t) == [token \in {x \in DOMAIN pending[t] : Alive(t, x)} |-> pending[t][token]]

\* link on a thread that has not entered run yet.
Queue(t, token) ==
    LET full == BagCardinality(pending[t]) >= pruneAt[t]
        kept == IF full THEN Pruned(t) ELSE pending[t]
    IN  /\ pending' = [pending EXCEPT ![t] = kept (+) SetToBag({token})]
        /\ pruneAt' = [pruneAt EXCEPT ![t] =
               IF ~full THEN @
               ELSE IF 2 * BagCardinality(kept) > PruneFloor THEN 2 * BagCardinality(kept)
               ELSE PruneFloor]

\* install_cancellation ahead of the run, with the caller's token or the context's own.
BuildAhead(t) ==
    LET c == call[t]
        fresh == ContextToken(t, c.number, Len(c.ahead) + 1)
    IN  /\ c.phase \in {"python", "built"}
        /\ c.number < MaxCalls[t] /\ Len(c.ahead) < MaxContexts
        /\ \E token \in UserTokens \cup {fresh} :
              /\ Queue(t, token)
              /\ call' = [call EXCEPT ![t] = [c EXCEPT !.phase = "built", !.ahead = Append(@, token)]]
        /\ UNCHANGED <<signal, signals, cancelled, stash, nextId>>

\* The call fails before it runs: its contexts are dropped, what was queued stays.
Abandon(t) ==
    /\ call[t].phase = "built"
    /\ call' = [call EXCEPT ![t] = Outside(call[t].number + 1)]
    /\ UNCHANGED <<signal, signals, cancelled, pending, pruneAt, stash, nextId>>

\* run: the queued tokens that are alive join the scope and the worker starts, under
\* one of the contexts built ahead if there are any.
EnterRun(t) ==
    LET c == call[t]
        entered == [c EXCEPT !.linked = {token \in DOMAIN pending[t] : Alive(t, token)}]
    IN  /\ c.phase \in {"python", "built"} /\ c.number < MaxCalls[t]
        /\ pending' = [pending EXCEPT ![t] = EmptyBag]
        /\ call' \in {[call EXCEPT ![t] = s] :
               s \in {Outside(c.number + 1)}   \* the worker could not be spawned
                       \cup (IF c.ahead = <<>> THEN {[entered EXCEPT !.phase = "setup"]}
                             ELSE {[entered EXCEPT !.phase = "working", !.ctx = {token}] :
                                      token \in Range(c.ahead)})}
        /\ UNCHANGED <<signal, signals, cancelled, pruneAt, stash, nextId>>

\* Mutant: a user's token is installed without being linked.
LinkOnWorker_Forgotten(c, token) == [c EXCEPT !.ctx = {token}]

\* link on a worker: the token joins the run.
LinkOnWorker(c, token) == [c EXCEPT !.ctx = {token}, !.linked = @ \cup {token}]

\* install_cancellation on the worker: the caller's token, or the ambient one.
BuildOnWorker(t) ==
    LET c == call[t]
    IN  /\ c.phase = "setup"
        /\ call' \in {[call EXCEPT ![t] = [s EXCEPT !.phase = "working"]] :
               s \in {[c EXCEPT !.ctx = {Own(t, c.number)}]}
                       \cup {LinkOnWorker(c, token) : token \in UserTokens}}
        /\ UNCHANGED <<signal, signals, cancelled, pending, pruneAt, stash, nextId>>

\* The work ends by itself, with a value or an error of its own.
Finish(t) ==
    /\ call[t].phase \in {"setup", "working"}
    /\ call' = [call EXCEPT ![t].phase = "finished"]
    /\ UNCHANGED <<signal, signals, cancelled, pending, pruneAt, stash, nextId>>

\* The engine polls its token.
Stop(t) ==
    /\ call[t].phase = "working" /\ call[t].ctx \subseteq cancelled
    /\ call' = [call EXCEPT ![t].phase = "finished"]
    /\ UNCHANGED <<signal, signals, cancelled, pending, pruneAt, stash, nextId>>

\* Mutant: the caller's own token is the only one an interrupt cancels.
CancelAll_OwnOnly(t) == cancelled \cup {Own(t, call[t].number)}

\* Scope::cancel_all.
CancelAll(t) == cancelled \cup {Own(t, call[t].number)} \cup call[t].linked

\* The watcher wakes, finds no result yet and sees a signal, the first one only.
Poll(t) ==
    /\ t = Main /\ signal
    /\ call[t].phase \in {"setup", "working"} /\ ~call[t].interrupt
    /\ cancelled' = CancelAll(t)
    /\ signal' = FALSE
    /\ call' = [call EXCEPT ![t].interrupt = TRUE]
    /\ UNCHANGED <<signals, pending, pruneAt, stash, nextId>>

-----------------------------------------------------------------------------
(* Callback failures.                                                      *)

Keep(t) == stash \cup {[id |-> nextId, thread |-> t, number |-> call[t].number]}

\* Mutant: a full stash makes room by dropping its oldest entry.
CallbackFailure_Evicts(t) ==
    IF Cardinality(stash) < MaxStashed THEN Keep(t)
    ELSE {entry \in Keep(t) : \E other \in Keep(t) : other.id < entry.id}

\* callback_failure: a full stash keeps what it has, and the message carries no id.
CallbackFailure(t) == IF Cardinality(stash) < MaxStashed THEN Keep(t) ELSE stash

\* A callback raises.  The engine gives up with its message, or goes on without it.
CallbackFails(t) ==
    LET kept == CallbackFailure(t)
        id == IF kept # stash THEN nextId ELSE 0
    IN  /\ call[t].phase = "working" /\ nextId <= MaxIds
        /\ stash' = kept
        /\ nextId' = IF id # 0 THEN nextId + 1 ELSE nextId
        /\ call' \in {call, [call EXCEPT ![t].phase = "finished", ![t].id = id]}
        /\ UNCHANGED <<signal, signals, cancelled, pending, pruneAt>>

\* Mutant: the exception of the latest failure is taken, whichever the message names.
Attribute_Latest(id) == {entry \in stash : \E other \in stash : entry.id < other.id}

\* attribute: the exception the message names is taken out of the stash.
Attribute(id) == {entry \in stash : entry.id # id}

\* run returns.  An interrupt wins over the result, and its message names no id.
Return(t) ==
    /\ call[t].phase = "finished"
    /\ stash' = IF call[t].interrupt \/ call[t].id = 0 THEN stash ELSE Attribute(call[t].id)
    /\ call' = [call EXCEPT ![t] = Outside(call[t].number + 1)]
    /\ UNCHANGED <<signal, signals, cancelled, pending, pruneAt, nextId>>

-----------------------------------------------------------------------------
(* The user.                                                               *)

Sigint ==
    /\ signals < MaxSignals
    /\ signal' = TRUE /\ signals' = signals + 1
    /\ UNCHANGED <<cancelled, pending, pruneAt, stash, nextId, call>>

\* The interpreter raises KeyboardInterrupt between two calls.
RaiseInPython ==
    /\ signal /\ call[Main].phase = "python"
    /\ signal' = FALSE
    /\ UNCHANGED <<signals, cancelled, pending, pruneAt, stash, nextId, call>>

CancelToken(token) ==
    /\ cancelled' = cancelled \cup {token}
    /\ UNCHANGED <<signal, signals, pending, pruneAt, stash, nextId, call>>

Init ==
    /\ signal = FALSE /\ signals = 0 /\ cancelled = {}
    /\ pending = [t \in Threads |-> EmptyBag]
    /\ pruneAt = [t \in Threads |-> PruneFloor]
    /\ stash = {} /\ nextId = 1
    /\ call = [t \in Threads |-> Outside(0)]

Next ==
    \/ \E t \in Threads :
          \/ BuildAhead(t) \/ Abandon(t) \/ EnterRun(t) \/ BuildOnWorker(t) \/ Finish(t)
          \/ Stop(t) \/ Poll(t) \/ CallbackFails(t) \/ Return(t)
    \/ Sigint \/ RaiseInPython
    \/ \E token \in UserTokens : CancelToken(token)

\* The watcher wakes every POLL, engines poll the token they run under, and a finished
\* run returns.  Work that is not cancelled may go on for ever.
Fairness == \A t \in Threads : WF_vars(Poll(t)) /\ WF_vars(Stop(t)) /\ WF_vars(Return(t))

Spec == Init /\ [][Next]_vars /\ Fairness

-----------------------------------------------------------------------------
(* Properties.                                                             *)

\* A run executes under its own token or one that was linked to it, wherever its
\* context was built and whatever abandoned calls had left in the queue.
ContextIsLinked ==
    \A t \in Threads : call[t].phase = "working" =>
        call[t].ctx \subseteq {Own(t, call[t].number)} \cup call[t].linked

\* A result that names a callback failure finds the exception of that very call,
\* whatever the calls of other threads kept, took and left behind.
AttributionIsOwn ==
    \A t \in Threads : call[t].phase = "finished" /\ call[t].id # 0 =>
        [id |-> call[t].id, thread |-> t, number |-> call[t].number] \in stash

\* The first signal that finds a run of the main thread at work stops it, although the
\* work by itself may never end.
InterruptStopsRun ==
    \A n \in 0..MaxCalls[Main] :
        (signal /\ call[Main].phase = "working" /\ call[Main].number = n /\ ~call[Main].interrupt)
            ~> call[Main].number > n
=============================================================================
