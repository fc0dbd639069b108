-------------------------- MODULE ExternalCallback --------------------------
(***************************************************************************)
(* One ExternalCallbackSession used by one caller: executions that reuse,  *)
(* are refused, fail inside the provider or publish; exports, and fresh    *)
(* processes that resume from an exported output.                          *)
(***************************************************************************)
EXTENDS ExternalSession

VARIABLES
    session,    \* the ExternalCallbackSession
    exported,   \* the output export_output last wrote, which outlives the process
    answer,     \* the claim the last call of execute returned, and the request it answered
    entries,    \* provider entries of this session for each side-effecting request
    origin,     \* the exported output this process resumed from, if any
    returned,   \* history: the claim on what a provider last returned in this process
    reproduced  \* history: a provider returned the output this process resumed from

callbackVars == <<session, exported, answer, entries, origin, returned, reproduced>>

\* What a provider returned repeats an exported output.
Reproduces(c, o) == c.request.descriptor = o.request.descriptor /\ c.value = o.value

NoAnswer == [request |-> {}, status |-> "none", claim |-> {}]

CallbackInit ==
    /\ session = NewCallbacks
    /\ exported = {}
    /\ answer = NoAnswer
    /\ entries = [r \in SideEffects |-> 0]
    /\ origin = {}
    /\ returned = {}
    /\ reproduced = FALSE

\* ExternalCallbackSession::execute.
Run(r, ctx) ==
    \E a \in Execute(session, r, ctx) :
        /\ a.entered => session.epoch < MaxCalls
        /\ session' = a.session
        /\ answer' = IF a.claim = {} THEN NoAnswer
                     ELSE [request |-> {r}, status |-> a.status, claim |-> a.claim]
        /\ entries' = [q \in SideEffects |->
               IF a.entered /\ q = r THEN entries[q] + 1 ELSE entries[q]]
        /\ IF a.status = "computed"
           THEN /\ returned' = a.claim
                /\ reproduced' = (reproduced \/ \E c \in a.claim, o \in origin : Reproduces(c, o))
           ELSE UNCHANGED <<returned, reproduced>>
        /\ UNCHANGED <<exported, origin>>

\* ExternalCallbackSession::export_output, refused when nothing was issued.
ExportOutput ==
    /\ session.live # {}
    /\ exported' = session.live
    /\ UNCHANGED <<session, answer, entries, origin, returned, reproduced>>

\* ExternalCallbackSession::resume in a fresh process.
Resume(artifact, r) ==
    /\ CanResume(artifact, r)
    /\ session' = Resumed(artifact, r)
    /\ answer' = NoAnswer
    /\ entries' = [q \in SideEffects |-> 0]
    /\ origin' = {artifact}
    /\ returned' = {}
    /\ reproduced' = FALSE
    /\ UNCHANGED exported

\* ExternalCallbackSession::new.
Renew ==
    /\ session # NewCallbacks
    /\ session' = NewCallbacks
    /\ answer' = NoAnswer
    /\ entries' = [q \in SideEffects |-> 0]
    /\ origin' = {}
    /\ returned' = {}
    /\ reproduced' = FALSE
    /\ UNCHANGED exported

CallbackNext ==
    \/ \E r \in Requests, ctx \in Contexts : Run(r, ctx)
    \/ ExportOutput
    \/ \E a \in exported, r \in Requests : Resume(a, r)
    \/ Renew

CallbackSpec == CallbackInit /\ [][CallbackNext]_callbackVars

-----------------------------------------------------------------------------
(* Properties.                                                             *)

Claims == [request : Requests, value : Values]

\* The session's optional fields hold at most one element, recorded attempts are
\* side-effecting requests, and a key is bound to one request at a time.
TypeOK ==
    /\ session.live \in {{}} \cup {{c} : c \in Claims}
    /\ session.portable \in {{}} \cup {{c} : c \in Claims}
    /\ Cardinality(session.previous) <= 1
    /\ session.attempts \subseteq SideEffects
    /\ \A b, c \in session.bindings : b.op = c.op => b = c
    /\ session.epoch \in 0..EpochLimit
    /\ exported \in {{}} \cup {{c} : c \in Claims}
    /\ origin \in {{}} \cup {{c} : c \in Claims}
    /\ returned \in {{}} \cup {{c} : c \in Claims}
    /\ reproduced \in BOOLEAN
    /\ entries \in [SideEffects -> 0..MaxCalls]

\* A retained output is served only for the request it was issued for and only
\* under a policy that declares the provider's answer repeatable: after failures,
\* switches of policy and of request, no execution of a stateful or
\* side-effecting request is answered without entering the provider.
ReuseIsOfPureRequest ==
    answer.status = "reused" =>
        \A r \in answer.request : Replayable(r) /\ \A c \in answer.claim : c.request = r

\* A resumed session issues nothing, as live claim, as answer or for export, until a
\* provider returned the exported output in this process; from then on, and in a new
\* session always, the identities held are those of a claim on what a provider returned
\* here.  Only before that may they be those of the output resumed from.
IssuesReproduced ==
    /\ origin # {} /\ session.live \cup answer.claim # {} => reproduced
    /\ \A p \in session.previous : p.operation # {} =>
          \/ \E c \in session.live \cap returned : c.request = p.study
          \/ session.live = {} /\ \E o \in origin : o.request = p.study

\* A keyed side-effecting request once attempted may always be attempted again,
\* at the attempt limit too: the retry the key was given for is never refused.
KeyedRetryIsAdmitted ==
    \A r \in session.attempts : r.key # NoKey => Admits(session, r)

\* The abstract ledger, kept by this session for all branches.
SessionLedger == INSTANCE EffectLedger WITH Effects <- SideEffects, sent <- entries,
                                            Scope <- [r \in SideEffects |-> "session"]

\* The session keeps the promise of EffectLedger: no unkeyed side effect is sent
\* twice and no key is sent for two requests, whatever fails or is cancelled.
SessionKeepsEffects == SessionLedger!LedgerSpec
=============================================================================
