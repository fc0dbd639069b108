----------------------- MODULE CompositeSessionProofs -----------------------
(***************************************************************************)
(* The theorems about a composite session, for any branches, requests,     *)
(* native inputs and limits.                                               *)
(*                                                                         *)
(* RunInv says what a run in progress has done to the clones it works on;  *)
(* it is kept branch by branch.  CompositeInv says what publications and   *)
(* rollbacks keep: above all that the identities the composite remembers   *)
(* of a branch are the ones the branch's own session remembers, so that    *)
(* the shared plan and the branch's plan never disagree.                   *)
(***************************************************************************)
EXTENDS CompositeSession, ExternalCallbackProofs

\* A callback session of a composite: never resumed from a portable output.
BranchInv(s) == MemoryInv(s) /\ Backed(s) /\ s.portable = {}

-----------------------------------------------------------------------------
(* One branch of a run.                                                    *)

\* a entered the provider, as a fact rather than a value.
Entered(a) == a.entered = TRUE

\* What an execution for r that began in s left in t.
Answers(s, t, r) ==
    /\ t.live # {} /\ \A c \in t.live : c.request = r
    /\ t.previous = {Identities(s, r)}
    /\ Volatile(r) => t.epoch > s.epoch

LEMMA BranchExecute ==
  ASSUME NEW s, BranchInv(s), NEW r \in Requests, NEW ctx, NEW a \in Execute(s, r, ctx),
         Entered(a) => s.epoch < EpochLimit
  PROVE  /\ BranchInv(a.session)
         /\ s.attempts \subseteq a.session.attempts
         /\ Entered(a) /\ SideEffecting(r) => Admits(s, r) /\ r \in a.session.attempts
         /\ a.claim # {} => Answers(s, a.session, r)
         /\ a.claim # {} => a.status = "computed" \/ a.session.live = s.live
         /\ a.claim # {} => (a.status = "computed" <=> ProviderChanged(s, r))
  <1>1. MemoryInv(s) /\ Backed(s) /\ s.portable = {} /\ DOMAIN s = Fields /\ s.epoch \in Nat
    BY DEF BranchInv, MemoryInv
  <1>2. /\ MemoryInv(a.session)
        /\ s.attempts \subseteq a.session.attempts
        /\ SideEffecting(r) /\ Entered(a) => r \in a.session.attempts
    BY <1>1, ExecuteMemory DEF Entered
  <1>3. Entered(a) => Admits(s, r)
    BY <1>1, EnteredOrNot DEF Entered
  <1>4. CASE a = Refusal(s)
    <2>1. a.session = s /\ a.claim = {}
      BY <1>4 DEF Refusal, Answer
    <2>. QED BY <1>1, <1>2, <1>3, <2>1 DEF BranchInv
  <1>5. CASE a = Reusing(s) /\ Validates(r) /\ ~ProviderChanged(s, r)
    <2>1. a.session = s /\ a.claim = s.live /\ a.status = "reused"
      BY <1>5 DEF Reusing, Answer
    <2>2. Replayable(r) /\ \A c \in s.live : c.request = r
      BY <1>1, <1>5, ReusingIsPure
    <2>3. s.previous = {Identities(s, r)}
      BY <1>5 DEF ProviderChanged
    <2>4. ~Volatile(r)
      BY <2>2 DEF Replayable, Volatile
    <2>5. a.claim # {} => Answers(s, a.session, r)
      BY <2>1, <2>2, <2>3, <2>4 DEF Answers
    <2>. QED BY <1>1, <1>2, <1>3, <1>5, <2>1, <2>5 DEF BranchInv
  <1>6. CASE a = Failing(s, r)
    <2>1. a.session = Admit(s, r) /\ a.claim = {} /\ Entered(a)
      BY <1>6 DEF Failing, Answer, Entered
    <2>2. Backed(a.session) /\ a.session.portable = {}
      BY <1>1, <2>1, FailingBacked, AdmitFields
    <2>. QED BY <1>2, <1>3, <2>1, <2>2 DEF BranchInv
  <1>7. ASSUME NEW v \in Values, ProviderChanged(s, r), a = Computing(s, r, v)
        PROVE  /\ Backed(a.session) /\ a.session.portable = {}
               /\ a.status = "computed"
               /\ Answers(s, a.session, r)
    <2>1. a.session = Published(s, r, v) /\ Entered(a) /\ a.status = "computed"
      BY <1>7 DEF Computing, Answer, Entered
    <2>2. Backed(a.session)
      BY <1>1, <2>1, ComputingBacked
    <2>3. DOMAIN Admit(s, r) = Fields /\ Admit(s, r).epoch = s.epoch + 1
      BY <1>1, <2>1, AdmitFields
    <2>4. /\ a.session.previous = {Identities(s, r)} /\ a.session.live = {Claim(r, v)}
          /\ a.session.portable = {} /\ a.session.epoch = s.epoch + 1
      BY <2>1, <2>3 DEF Published, Fields
    <2>5. Claim(r, v).request = r
      BY DEF Claim
    <2>. QED BY <1>1, <2>1, <2>2, <2>4, <2>5 DEF Answers
  <1>8. CASE ProviderChanged(s, r) /\ \E v \in Values : a = Computing(s, r, v)
    BY <1>2, <1>3, <1>7, <1>8 DEF BranchInv, Answers
  <1>. QED BY <1>4, <1>5, <1>6, <1>8, ExecuteAnswers

CallbacksInv ==
    /\ callbacks = [b \in Branches |-> callbacks[b]]
    /\ \A b \in Branches : BranchInv(callbacks[b])

\* What a run has done once it went through the requests S.
RunInv(run, ids, S) ==
    /\ run.callbacks = [b \in Branches |-> run.callbacks[b]]
    /\ \A b \in Branches :
          /\ BranchInv(run.callbacks[b])
          /\ callbacks[b].attempts \subseteq run.callbacks[b].attempts
          /\ (\A r \in S : r.branch # b) => run.callbacks[b] = callbacks[b] /\ b \notin run.worked
    /\ run.entered \subseteq S
    /\ \A r \in run.entered :
          SideEffecting(r) => Admits(callbacks[r.branch], r) /\ r \in run.callbacks[r.branch].attempts
    /\ run.status = "running" => \A r \in S :
          /\ Answers(callbacks[r.branch], run.callbacks[r.branch], r)
          /\ r.branch \in run.worked \/ run.callbacks[r.branch].live = callbacks[r.branch].live
          /\ r.branch \in run.worked <=> ProviderRecomputed(ids, r.branch)

\* The session a branch is run with: its own, perhaps told to recompute.
LEMMA BranchSessionInv ==
  ASSUME CallbacksInv, NEW run, NEW ids, NEW r \in Requests,
         run.callbacks[r.branch] = callbacks[r.branch],
         ~ProviderRecomputed(ids, r.branch) => ~ProviderChanged(callbacks[r.branch], r)
  PROVE  LET s == callbacks[r.branch]
             f == BranchSession(run, ids, r.branch)
         IN  /\ BranchInv(f)
             /\ f.attempts = s.attempts /\ f.live = s.live /\ f.epoch = s.epoch
             /\ Identities(f, r) = Identities(s, r)
             /\ Admits(f, r) => Admits(s, r)
             /\ ProviderChanged(f, r) <=> ProviderRecomputed(ids, r.branch)
  <1>1. r.branch \in Branches
    BY CompositeAssumption
  <1>2. MemoryInv(callbacks[r.branch]) /\ Backed(callbacks[r.branch]) /\ callbacks[r.branch].portable = {}
    BY <1>1 DEF CallbacksInv, BranchInv
  <1>3. CASE ProviderRecomputed(ids, r.branch)
    <2>1. BranchSession(run, ids, r.branch) = ForceRecompute(callbacks[r.branch])
      BY <1>3 DEF BranchSession
    <2>. QED BY <1>2, <1>3, <2>1, Forced DEF BranchInv
  <1>4. CASE ~ProviderRecomputed(ids, r.branch)
    <2>1. BranchSession(run, ids, r.branch) = callbacks[r.branch]
      BY <1>4 DEF BranchSession
    <2>. QED BY <1>2, <1>4, <2>1 DEF BranchInv
  <1>. QED BY <1>3, <1>4

LEMMA RunBranchKeeps ==
  ASSUME CallbacksInv, NEW run, NEW ids, NEW S \in SUBSET Requests, RunInv(run, ids, S),
         NEW r \in Requests, \A x \in S : x.branch # r.branch,
         ~ProviderRecomputed(ids, r.branch) => ~ProviderChanged(callbacks[r.branch], r),
         NEW ctx, NEW next \in RunBranch(run, ids, r, ctx),
         \A x \in next.entered : callbacks[x.branch].epoch < EpochLimit
  PROVE  RunInv(next, ids, S \cup {r}) /\ run.entered \subseteq next.entered
  <1>0. r.branch \in Branches
    BY CompositeAssumption
  <1>1. CASE run.status # "running"
    <2>1. next = run
      BY <1>1 DEF RunBranch
    <2>. QED BY <1>1, <2>1 DEF RunInv
  <1>2. CASE run.status = "running"
    <2>. DEFINE s == callbacks[r.branch]
                f == BranchSession(run, ids, r.branch)
    <2>1. PICK a \in Execute(f, r, ctx) :
             next = [callbacks |-> [run.callbacks EXCEPT ![r.branch] = a.session],
                     entered |-> run.entered \cup (IF a.entered THEN {r} ELSE {}),
                     worked |-> run.worked \cup (IF a.status = "computed" THEN {r.branch} ELSE {}),
                     status |-> IF a.claim = {} THEN "failed" ELSE "running"]
      BY <1>2 DEF RunBranch
    <2>2. run.callbacks[r.branch] = s /\ r.branch \notin run.worked
      BY <1>0 DEF RunInv
    <2>3. /\ BranchInv(f)
          /\ f.attempts = s.attempts /\ f.live = s.live /\ f.epoch = s.epoch
          /\ Identities(f, r) = Identities(s, r)
          /\ Admits(f, r) => Admits(s, r)
          /\ ProviderChanged(f, r) <=> ProviderRecomputed(ids, r.branch)
      BY <2>2, BranchSessionInv
    <2>4. /\ next.callbacks = [run.callbacks EXCEPT ![r.branch] = a.session]
          /\ next.entered = run.entered \cup (IF Entered(a) THEN {r} ELSE {})
          /\ next.worked = run.worked \cup (IF a.status = "computed" THEN {r.branch} ELSE {})
          /\ next.status = "running" => a.claim # {}
      BY <2>1 DEF Entered
    <2>5. Entered(a) => f.epoch < EpochLimit
      BY <2>3, <2>4
    <2>. HIDE DEF s, f
    <2>6. /\ BranchInv(a.session)
          /\ f.attempts \subseteq a.session.attempts
          /\ Entered(a) /\ SideEffecting(r) => Admits(f, r) /\ r \in a.session.attempts
          /\ a.claim # {} => Answers(f, a.session, r)
          /\ a.claim # {} => a.status = "computed" \/ a.session.live = f.live
          /\ a.claim # {} => (a.status = "computed" <=> ProviderChanged(f, r))
      BY <2>3, <2>5, BranchExecute
    <2>7. a.claim # {} => Answers(s, a.session, r)
      BY <2>3, <2>6 DEF Answers
    <2>8. /\ next.callbacks = [b \in Branches |-> next.callbacks[b]]
          /\ next.callbacks[r.branch] = a.session
          /\ \A b \in Branches : b # r.branch => next.callbacks[b] = run.callbacks[b]
      BY <1>0, <2>4 DEF RunInv
    <2>9. /\ r.branch \in next.worked <=> a.status = "computed"
          /\ \A b : b # r.branch => (b \in next.worked <=> b \in run.worked)
      BY <2>2, <2>4
    <2>10. \A x \in S : x.branch \in Branches /\ x.branch # r.branch
      BY CompositeAssumption
    <2>11. /\ run.entered \subseteq next.entered
           /\ next.entered \subseteq S \cup {r}
           /\ \A x \in next.entered : x \in run.entered \/ (x = r /\ Entered(a))
      BY <2>4, <2>6 DEF RunInv
    <2>12. \A b \in Branches :
              /\ BranchInv(next.callbacks[b])
              /\ callbacks[b].attempts \subseteq next.callbacks[b].attempts
      BY <2>3, <2>6, <2>8 DEF RunInv, s
    <2>13. \A b \in Branches : (\A x \in S \cup {r} : x.branch # b) =>
              next.callbacks[b] = callbacks[b] /\ b \notin next.worked
      BY <2>8, <2>9 DEF RunInv
    <2>14. ASSUME NEW x \in next.entered, SideEffecting(x)
           PROVE  Admits(callbacks[x.branch], x) /\ x \in next.callbacks[x.branch].attempts
      <3>1. CASE x = r /\ Entered(a)
        BY <2>3, <2>6, <2>8, <2>14, <3>1 DEF s
      <3>2. CASE x \in run.entered
        BY <2>8, <2>10, <2>14, <3>2 DEF RunInv
      <3>. QED BY <2>11, <3>1, <3>2
    <2>15. ASSUME next.status = "running", NEW x \in S \cup {r}
           PROVE  /\ Answers(callbacks[x.branch], next.callbacks[x.branch], x)
                  /\ \/ x.branch \in next.worked
                     \/ next.callbacks[x.branch].live = callbacks[x.branch].live
                  /\ x.branch \in next.worked <=> ProviderRecomputed(ids, x.branch)
      <3>1. CASE x = r
        BY <2>3, <2>4, <2>6, <2>7, <2>8, <2>9, <2>15, <3>1 DEF s, Answers
      <3>2. CASE x \in S
        BY <1>2, <2>8, <2>9, <2>10, <3>2 DEF RunInv, Answers
      <3>. QED BY <3>1, <3>2
    <2>. QED BY <2>8, <2>11, <2>12, <2>13, <2>14, <2>15 DEF RunInv
  <1>. QED BY <1>1, <1>2

-----------------------------------------------------------------------------
(* Both branches of a run.                                                 *)

Externals(q) == {q.externals[1], q.externals[2]}

LEMMA RequestParts ==
  ASSUME NEW q \in CompositeRequest
  PROVE  /\ q.externals[1] \in Requests /\ q.externals[2] \in Requests
         /\ q.externals[1].branch # q.externals[2].branch
         /\ BranchesOf(q) \subseteq Branches
         /\ \A r \in Externals(q) : r \in Requests /\ r.branch \in BranchesOf(q) /\ External(q, r.branch) = r
         /\ \A b \in BranchesOf(q) : External(q, b) \in Externals(q) /\ External(q, b).branch = b
  <1>1. /\ q.externals[1] \in Requests /\ q.externals[2] \in Requests
        /\ q.externals[1].branch # q.externals[2].branch
    BY DEF CompositeRequest
  <1>. QED BY <1>1, CompositeAssumption DEF BranchesOf, Externals, External

\* A branch that the plan reuses is one its own session would reuse.
PlansAgree(q, ids) ==
    \A r \in Externals(q) :
        ~ProviderRecomputed(ids, r.branch) => ~ProviderChanged(callbacks[r.branch], r)

LEMMA RunBranchGrows ==
  ASSUME NEW run, NEW ids, NEW r, NEW ctx, NEW next \in RunBranch(run, ids, r, ctx)
  PROVE  run.entered \subseteq next.entered
  BY DEF RunBranch

LEMMA BranchRunsKeep ==
  ASSUME CallbacksInv, NEW q \in CompositeRequest, NEW ids, PlansAgree(q, ids),
         NEW ctx, NEW run \in BranchRuns(q, ids, ctx), Account(run)
  PROVE  RunInv(run, ids, Externals(q))
  <1>. DEFINE first == q.externals[1]
              second == q.externals[2]
  <1>1. /\ first \in Requests /\ second \in Requests
        /\ first.branch # second.branch
        /\ first.branch \in Branches /\ second.branch \in Branches
    BY RequestParts, CompositeAssumption
  <1>2. PICK mid \in RunBranch(Started, ids, first, ctx[1]) : run \in RunBranch(mid, ids, second, ctx[2])
    BY DEF BranchRuns
  <1>3. \A r \in run.entered : r.branch \in Branches => callbacks[r.branch].epoch < EpochLimit
    BY CompositeAssumption, CallsAssumption, RequestAssumption DEF Account, CallbacksInv, BranchInv, MemoryInv
  <1>4. Started.entered = {} /\ mid.entered \subseteq run.entered
    BY <1>2, RunBranchGrows DEF Started
  <1>5. RunInv(Started, ids, {})
    BY DEF RunInv, Started, CallbacksInv
  <1>6. /\ ~ProviderRecomputed(ids, first.branch) => ~ProviderChanged(callbacks[first.branch], first)
        /\ ~ProviderRecomputed(ids, second.branch) => ~ProviderChanged(callbacks[second.branch], second)
    BY DEF PlansAgree, Externals
  <1>. HIDE DEF first, second
  <1>7. \A x \in mid.entered : x = first
    BY <1>2, <1>4 DEF RunBranch
  <1>8. RunInv(mid, ids, {} \cup {first})
    BY <1>1, <1>2, <1>3, <1>4, <1>5, <1>6, <1>7, RunBranchKeeps
  <1>9. RunInv(mid, ids, {first})
    BY <1>8
  <1>10. \A x \in run.entered : x \in {first, second}
    BY <1>2, <1>7 DEF RunBranch
  <1>11. RunInv(run, ids, {first} \cup {second})
    BY <1>1, <1>2, <1>3, <1>6, <1>9, <1>10, RunBranchKeeps
  <1>12. Externals(q) = {first} \cup {second}
    BY DEF Externals, first, second
  <1>. QED BY <1>11, <1>12

-----------------------------------------------------------------------------
(* Publications and rollbacks.                                             *)

SentInv ==
    /\ sent \in [SideEffects -> Nat]
    /\ \A r \in SideEffects : sent[r] > 0 => r \in callbacks[r.branch].attempts

\* The identities of the last published run, and the branches' own.
PreviousInv ==
    /\ previous.native = native
    /\ \A b \in Branches : previous.branch[b] = {} \/ previous.branch[b] = callbacks[b].previous
    /\ previous.terminal # {} => publication # {}
    /\ \A q \in publication :
          /\ q \in CompositeRequest
          /\ previous.terminal = {q.terminal}
          /\ \A b \in Branches : previous.branch[b] # {} <=> b \in BranchesOf(q)

CompositeInv ==
    /\ CallbacksInv
    /\ SentInv
    /\ PreviousInv
    /\ PublishedHangsTogether
    /\ NoRunIsLostLate

LEMMA InitInv == Init => CompositeInv
  <1>. SUFFICES ASSUME Init PROVE CompositeInv
    OBVIOUS
  <1>1. /\ NewCallbacks.live = {} /\ NewCallbacks.previous = {} /\ NewCallbacks.portable = {}
    BY DEF NewCallbacks
  <1>2. BranchInv(NewCallbacks)
    BY <1>1, NewMemory DEF BranchInv, Backed
  <1>3. CallbacksInv
    BY <1>2 DEF Init, CallbacksInv
  <1>4. SentInv
    BY DEF Init, SentInv
  <1>5. PreviousInv
    BY DEF Init, PreviousInv, NoBranches
  <1>. QED BY <1>3, <1>4, <1>5 DEF Init, CompositeInv, PublishedHangsTogether, NoRunIsLostLate

LEMMA PlansAgreeAlways ==
  ASSUME CompositeInv, NEW q \in CompositeRequest
  PROVE  PlansAgree(q, Inputs(q))
  <1>. SUFFICES ASSUME NEW r \in Externals(q), ~ProviderRecomputed(Inputs(q), r.branch)
                PROVE  ~ProviderChanged(callbacks[r.branch], r)
    BY DEF PlansAgree
  <1>1. r.branch \in BranchesOf(q) /\ r.branch \in Branches /\ External(q, r.branch) = r
    BY RequestParts
  <1>2. Inputs(q).branch[r.branch] = {Identities(callbacks[r.branch], r)}
    BY <1>1 DEF Inputs
  <1>3. previous.branch[r.branch] = {Identities(callbacks[r.branch], r)}
    BY <1>2 DEF ProviderRecomputed
  <1>4. callbacks[r.branch].previous = {Identities(callbacks[r.branch], r)}
    BY <1>1, <1>3 DEF CompositeInv, PreviousInv
  <1>. QED BY <1>1, <1>4 DEF ProviderChanged, CompositeInv, CallbacksInv, BranchInv

\* Whether it is published or rolled back, what a run sent is remembered.
LEMMA SentKept ==
  ASSUME CompositeInv, NEW q \in CompositeRequest, NEW ids, NEW run,
         RunInv(run, ids, Externals(q)), Account(run),
         \A b \in Branches : callbacks'[b].attempts = run.callbacks[b].attempts
  PROVE  SentInv'
  <1>1. sent' = [r \in SideEffects |-> IF r \in run.entered THEN sent[r] + 1 ELSE sent[r]]
    BY DEF Account
  <1>2. sent' \in [SideEffects -> Nat]
    BY <1>1 DEF CompositeInv, SentInv
  <1>3. ASSUME NEW r \in SideEffects, sent'[r] > 0 PROVE r \in callbacks'[r.branch].attempts
    <2>1. r.branch \in Branches /\ SideEffecting(r)
      BY CompositeAssumption DEF SideEffects
    <2>2. CASE r \in run.entered
      BY <2>1, <2>2 DEF RunInv
    <2>3. CASE r \notin run.entered
      BY <1>1, <1>3, <2>1, <2>3 DEF CompositeInv, SentInv, RunInv
    <2>. QED BY <2>2, <2>3
  <1>. QED BY <1>2, <1>3 DEF SentInv

LEMMA RunEnters ==
  ASSUME CompositeInv, NEW q \in CompositeRequest, NEW ids, NEW run,
         RunInv(run, ids, Externals(q)), Account(run)
  PROVE  Ledger!LedgerNext
  <1>. DEFINE S == run.entered \cap SideEffects
  <1>1. sent' = [r \in SideEffects |-> IF r \in S THEN sent[r] + 1 ELSE sent[r]]
    BY DEF Account
  <1>2. ASSUME NEW r \in S, NEW p \in SideEffects, sent[p] > 0 PROVE Ledger!Allows(p, r)
    <2>1. SideEffecting(r) /\ Admits(callbacks[r.branch], r) /\ r.branch \in Branches
      BY CompositeAssumption DEF RunInv, SideEffects
    <2>2. p.branch \in Branches /\ Remembered(callbacks[p.branch], p)
      BY <1>2, CompositeAssumption
         DEF SideEffects, CompositeInv, SentInv, CallbacksInv, BranchInv, MemoryInv
    <2>3. CASE p.branch # r.branch
      BY <2>3 DEF Ledger!Allows, Ledger!SameOperation
    <2>4. CASE p.branch = r.branch
      BY <2>1, <2>2, <2>4, AdmittedByMemory DEF Ledger!Allows, Ledger!SameOperation
    <2>. QED BY <2>3, <2>4
  <1>3. Ledger!Enter(S)
    BY <1>1, <1>2 DEF Ledger!Enter
  <1>. QED BY <1>3 DEF Ledger!LedgerNext

LEMMA FailKeeps ==
  ASSUME CompositeInv, NEW q \in CompositeRequest, NEW run,
         RunInv(run, Inputs(q), Externals(q)), Fail(q, run)
  PROVE  CompositeInv' /\ outcome' # "published"
  <1>1. /\ callbacks' = [b \in Branches |-> AbsorbAttempts(callbacks[b], run.callbacks[b])]
        /\ UNCHANGED <<native, previous, decision, publication>>
        /\ Account(run)
    BY DEF Fail, KeepAttempts
  <1>2. ASSUME NEW b \in Branches
        PROVE  /\ BranchInv(callbacks'[b])
               /\ callbacks'[b].attempts = run.callbacks[b].attempts
               /\ callbacks'[b].live = callbacks[b].live
               /\ callbacks'[b].previous = callbacks[b].previous
    <2>1. /\ BranchInv(callbacks[b]) /\ BranchInv(run.callbacks[b])
          /\ callbacks[b].attempts \subseteq run.callbacks[b].attempts
      BY DEF CompositeInv, CallbacksInv, RunInv
    <2>2. callbacks'[b] = AbsorbAttempts(callbacks[b], run.callbacks[b])
      BY <1>1
    <2>3. /\ MemoryInv(callbacks[b]) /\ Backed(callbacks[b]) /\ callbacks[b].portable = {}
          /\ MemoryInv(run.callbacks[b])
      BY <2>1 DEF BranchInv
    <2>4. /\ MemoryInv(AbsorbAttempts(callbacks[b], run.callbacks[b]))
          /\ AbsorbAttempts(callbacks[b], run.callbacks[b]).attempts = run.callbacks[b].attempts
      BY <2>1, <2>3, AbsorbMemory
    <2>5. /\ Backed(AbsorbAttempts(callbacks[b], run.callbacks[b]))
          /\ AbsorbAttempts(callbacks[b], run.callbacks[b]).previous = callbacks[b].previous
          /\ AbsorbAttempts(callbacks[b], run.callbacks[b]).live = callbacks[b].live
          /\ AbsorbAttempts(callbacks[b], run.callbacks[b]).portable = callbacks[b].portable
      BY <2>3, AbsorbBacked
    <2>. QED BY <2>2, <2>3, <2>4, <2>5 DEF BranchInv
  <1>3. CallbacksInv'
    BY <1>1, <1>2 DEF CallbacksInv
  <1>4. SentInv'
    BY <1>1, <1>2, SentKept
  <1>5. PreviousInv'
    BY <1>1, <1>2 DEF CompositeInv, PreviousInv
  <1>6. PublishedHangsTogether'
    <2>. SUFFICES ASSUME NEW p \in publication
                  PROVE  /\ native = p.native
                         /\ decision = {[native |-> native, terminal |-> p.terminal,
                                         claims |-> [b \in BranchesOf(p) |-> callbacks'[b].live]]}
                         /\ \A b \in BranchesOf(p) :
                               /\ callbacks'[b].live # {}
                               /\ \A c \in callbacks'[b].live : c.request = External(p, b)
      BY <1>1 DEF PublishedHangsTogether
    <2>1. BranchesOf(p) \subseteq Branches
      BY RequestParts DEF CompositeInv, PreviousInv
    <2>2. \A b \in BranchesOf(p) : callbacks'[b].live = callbacks[b].live
      BY <1>2, <2>1
    <2>3. [b \in BranchesOf(p) |-> callbacks'[b].live] = [b \in BranchesOf(p) |-> callbacks[b].live]
      BY <2>2
    <2>. QED BY <2>2, <2>3 DEF CompositeInv, PublishedHangsTogether
  <1>7. run.status = "running" => Finishes(run, q, Inputs(q))
    <2>. SUFFICES ASSUME run.status = "running" PROVE Finishes(run, q, Inputs(q))
      OBVIOUS
    <2>1. ReceiptVerifies(run, q, Inputs(q))
      <3>. SUFFICES ASSUME NEW b \in BranchesOf(q)
                    PROVE  b \in run.worked <=> ProviderRecomputed(Inputs(q), b)
        BY DEF ReceiptVerifies
      <3>1. PICK r \in Externals(q) : r.branch = b
        BY RequestParts
      <3>. QED BY <3>1 DEF RunInv
    <2>2. Decided(run, q, Inputs(q)) # {}
      <3>1. CASE DecisionRecomputed(q, Inputs(q))
        BY <3>1 DEF Decided
      <3>2. CASE ~DecisionRecomputed(q, Inputs(q))
        <4>1. previous.terminal = Inputs(q).terminal
          BY <3>2 DEF DecisionRecomputed
        <4>2. Inputs(q).terminal # {}
          BY DEF Inputs
        <4>3. PICK p \in publication : TRUE
          BY <4>1, <4>2 DEF CompositeInv, PreviousInv
        <4>4. decision # {}
          BY <4>3 DEF CompositeInv, PublishedHangsTogether
        <4>. QED BY <3>2, <4>4 DEF Decided
      <3>. QED BY <3>1, <3>2
    <2>. QED BY <2>1, <2>2 DEF Finishes
  <1>8. outcome' \in {"branch", "decision"}
    BY <1>7 DEF Fail, FailReasons
  <1>. QED BY <1>3, <1>4, <1>5, <1>6, <1>8 DEF CompositeInv, NoRunIsLostLate

\* What a publication that reuses the published decision says about it.
LEMMA DecisionStands ==
  ASSUME CompositeInv, NEW q \in CompositeRequest, NEW run,
         RunInv(run, Inputs(q), Externals(q)), run.status = "running",
         ~DecisionRecomputed(q, Inputs(q))
  PROVE  decision = {DecisionInputs(run, q)}
  <1>1. /\ previous.native = Inputs(q).native /\ previous.terminal = Inputs(q).terminal
        /\ \A b \in Branches : previous.branch[b] = Inputs(q).branch[b]
    BY DEF DecisionRecomputed
  <1>2. /\ Inputs(q).native = q.native /\ Inputs(q).terminal = {q.terminal}
        /\ \A b \in Branches : Inputs(q).branch[b] # {} <=> b \in BranchesOf(q)
    BY DEF Inputs
  <1>3. native = q.native /\ publication # {}
    BY <1>1, <1>2 DEF CompositeInv, PreviousInv
  <1>4. PICK p \in publication : TRUE
    BY <1>3
  <1>5. /\ p \in CompositeRequest /\ p.terminal = q.terminal
        /\ \A b \in Branches : b \in BranchesOf(p) <=> b \in BranchesOf(q)
    BY <1>1, <1>2 DEF CompositeInv, PreviousInv
  <1>6. BranchesOf(p) = BranchesOf(q)
    BY <1>5, RequestParts
  <1>7. decision = {[native |-> native, terminal |-> p.terminal,
                     claims |-> [b \in BranchesOf(p) |-> callbacks[b].live]]}
    BY DEF CompositeInv, PublishedHangsTogether
  <1>8. ASSUME NEW b \in BranchesOf(q) PROVE run.callbacks[b].live = callbacks[b].live
    <2>1. PICK r \in Externals(q) : r.branch = b
      BY RequestParts
    <2>2. b \in Branches
      BY RequestParts
    <2>3. ~ProviderRecomputed(Inputs(q), b)
      BY <1>1, <2>2 DEF ProviderRecomputed
    <2>. QED BY <2>1, <2>3 DEF RunInv
  <1>9. [b \in BranchesOf(q) |-> run.callbacks[b].live] = [b \in BranchesOf(p) |-> callbacks[b].live]
    BY <1>6, <1>8
  <1>. QED BY <1>3, <1>5, <1>7, <1>9 DEF DecisionInputs

LEMMA PublishKeeps ==
  ASSUME CompositeInv, NEW q \in CompositeRequest, NEW run,
         RunInv(run, Inputs(q), Externals(q)), Publish(q, run)
  PROVE  /\ CompositeInv'
         /\ \A p \in publication' : \A b \in BranchesOf(p) :
               Volatile(External(p, b)) => callbacks'[b].epoch > callbacks[b].epoch
  <1>1. /\ callbacks' = run.callbacks /\ native' = q.native /\ previous' = Inputs(q)
        /\ decision' = Decided(run, q, Inputs(q)) /\ publication' = {q}
        /\ outcome' = "published" /\ Account(run) /\ run.status = "running"
    BY DEF Publish, Finishes
  <1>2. CallbacksInv'
    BY <1>1 DEF CallbacksInv, RunInv
  <1>3. SentInv'
    BY <1>1, SentKept
  <1>4. ASSUME NEW b \in BranchesOf(q)
        PROVE  /\ b \in Branches
               /\ run.callbacks[b].live # {}
               /\ \A c \in run.callbacks[b].live : c.request = External(q, b)
               /\ run.callbacks[b].previous = {Identities(callbacks[b], External(q, b))}
               /\ Volatile(External(q, b)) => run.callbacks[b].epoch > callbacks[b].epoch
    <2>1. External(q, b) \in Externals(q) /\ External(q, b).branch = b /\ b \in Branches
      BY RequestParts
    <2>2. Answers(callbacks[b], run.callbacks[b], External(q, b))
      BY <1>1, <2>1 DEF RunInv
    <2>. QED BY <2>1, <2>2 DEF Answers
  <1>5. PreviousInv'
    <2>1. /\ Inputs(q).native = q.native /\ Inputs(q).terminal = {q.terminal}
          /\ \A b \in Branches : Inputs(q).branch[b] =
                IF b \in BranchesOf(q) THEN {Identities(callbacks[b], External(q, b))} ELSE {}
      BY DEF Inputs
    <2>2. \A b \in Branches : \/ Inputs(q).branch[b] = {} /\ b \notin BranchesOf(q)
                              \/ /\ Inputs(q).branch[b] = run.callbacks[b].previous
                                 /\ Inputs(q).branch[b] # {} /\ b \in BranchesOf(q)
      BY <1>4, <2>1
    <2>. QED BY <1>1, <2>1, <2>2 DEF PreviousInv
  <1>6. decision' = {DecisionInputs(run, q)}
    BY <1>1, DecisionStands DEF Decided
  <1>7. PublishedHangsTogether'
    BY <1>1, <1>4, <1>6 DEF PublishedHangsTogether, DecisionInputs
  <1>. QED BY <1>1, <1>2, <1>3, <1>4, <1>5, <1>7 DEF CompositeInv, NoRunIsLostLate

\* The action property's step.
EntersVolatile ==
    outcome' = "published" =>
        \A q \in publication' : \A b \in BranchesOf(q) :
            Volatile(External(q, b)) => callbacks'[b].epoch > callbacks[b].epoch

LEMMA CompositeStep ==
  ASSUME CompositeInv, [Next]_vars
  PROVE  CompositeInv' /\ [Ledger!LedgerNext]_sent /\ [EntersVolatile]_vars
  <1>1. CASE UNCHANGED vars
    <2>1. UNCHANGED <<native, previous, callbacks, decision, publication, outcome, sent>>
      BY <1>1 DEF vars
    <2>2. CallbacksInv' /\ SentInv' /\ PreviousInv'
      BY <2>1 DEF CompositeInv, CallbacksInv, SentInv, PreviousInv
    <2>3. PublishedHangsTogether' /\ NoRunIsLostLate'
      BY <2>1 DEF CompositeInv, PublishedHangsTogether, NoRunIsLostLate
    <2>. QED BY <1>1, <2>1, <2>2, <2>3 DEF CompositeInv
  <1>2. ASSUME NEW q \in CompositeRequest, FailNative(q)
        PROVE  CompositeInv' /\ [Ledger!LedgerNext]_sent /\ [EntersVolatile]_vars
    <2>1. UNCHANGED <<native, previous, callbacks, decision, publication, sent>> /\ outcome' = "native"
      BY <1>2 DEF FailNative
    <2>2. CallbacksInv' /\ SentInv' /\ PreviousInv'
      BY <2>1 DEF CompositeInv, CallbacksInv, SentInv, PreviousInv
    <2>3. PublishedHangsTogether' /\ NoRunIsLostLate'
      BY <2>1 DEF CompositeInv, PublishedHangsTogether, NoRunIsLostLate
    <2>. QED BY <2>1, <2>2, <2>3 DEF CompositeInv, EntersVolatile
  <1>3. ASSUME NEW q \in CompositeRequest, NEW ctx, ExecuteComposite(q, ctx)
        PROVE  CompositeInv' /\ [Ledger!LedgerNext]_sent /\ [EntersVolatile]_vars
    <2>1. PICK run \in BranchRuns(q, Inputs(q), ctx) : Fail(q, run) \/ Publish(q, run)
      BY <1>3 DEF ExecuteComposite
    <2>2. Account(run)
      BY <2>1 DEF Fail, Publish
    <2>3. PlansAgree(q, Inputs(q)) /\ CallbacksInv
      BY PlansAgreeAlways DEF CompositeInv
    <2>4. RunInv(run, Inputs(q), Externals(q))
      BY <2>2, <2>3, BranchRunsKeep
    <2>5. Ledger!LedgerNext
      BY <2>2, <2>4, RunEnters
    <2>6. CASE Fail(q, run)
      <3>1. CompositeInv' /\ outcome' # "published"
        BY <2>4, <2>6, FailKeeps
      <3>. QED BY <2>5, <3>1 DEF EntersVolatile
    <2>7. CASE Publish(q, run)
      <3>1. /\ CompositeInv'
            /\ \A p \in publication' : \A b \in BranchesOf(p) :
                  Volatile(External(p, b)) => callbacks'[b].epoch > callbacks[b].epoch
        BY <2>4, <2>7, PublishKeeps
      <3>. QED BY <2>5, <3>1 DEF EntersVolatile
    <2>. QED BY <2>1, <2>6, <2>7
  <1>4. CASE Next
    <2>1. PICK q \in CompositeRequest :
             \/ FailNative(q)
             \/ \E first, second \in CallContexts : ExecuteComposite(q, <<first, second>>)
      BY <1>4 DEF Next
    <2>. QED BY <1>2, <1>3, <2>1
  <1>. QED BY <1>1, <1>4

LEMMA CompositeInvariant == Spec => []CompositeInv
  BY InitInv, CompositeStep, PTL DEF Spec

\* After any mix of published, failed and rolled back runs the published decision
\* belongs to the native result and to the claims that are held.
THEOREM HangsTogether == Spec => []PublishedHangsTogether
  <1>1. CompositeInv => PublishedHangsTogether
    BY DEF CompositeInv
  <1>. QED BY <1>1, CompositeInvariant, PTL

\* The shared plan and the branches' own plans never disagree, so no run whose branches
\* all answered is lost after their providers were entered.
THEOREM NoneLostLate == Spec => []NoRunIsLostLate
  <1>1. CompositeInv => NoRunIsLostLate
    BY DEF CompositeInv
  <1>. QED BY <1>1, CompositeInvariant, PTL

\* What a run sent is remembered by the branch although the run was rolled back.
THEOREM AttemptsRemembered == Spec => []AttemptsSurvive
  <1>1. CompositeInv => AttemptsSurvive
    <2>. SUFFICES ASSUME CompositeInv, NEW r \in SideEffects, sent[r] > 0
                  PROVE  /\ r \in callbacks[r.branch].attempts
                         /\ r.key # NoKey => \E b \in callbacks[r.branch].bindings :
                                               b.op = KeyOf(r) /\ b.request = r
      BY DEF AttemptsSurvive
    <2>1. r.branch \in Branches
      BY CompositeAssumption DEF SideEffects
    <2>2. Remembered(callbacks[r.branch], r)
      BY <2>1 DEF CompositeInv, SentInv, CallbacksInv, BranchInv, MemoryInv
    <2>3. Binding(r).op = KeyOf(r) /\ Binding(r).request = r
      BY DEF Binding
    <2>. QED BY <2>2, <2>3 DEF Remembered
  <1>. QED BY <1>1, CompositeInvariant, PTL

\* A composite session implements EffectLedger, each branch remembering its own keys:
\* failures of either branch and rolled back runs never cause a second side effect.
THEOREM CompositeEffectsKept == Spec => SideEffectsKept
  <1>1. Init => Ledger!LedgerInit
    BY DEF Init, Ledger!LedgerInit
  <1>. QED BY <1>1, InitInv, CompositeStep, PTL DEF Spec, SideEffectsKept, Ledger!LedgerSpec

\* A run that publishes entered the provider of each stateful or side-effecting branch.
THEOREM VolatileEntered == Spec => VolatileBranchesAreEntered
  <1>1. VolatileBranchesAreEntered <=> [][EntersVolatile]_vars
    BY DEF VolatileBranchesAreEntered, EntersVolatile
  <1>. QED BY <1>1, InitInv, CompositeStep, PTL DEF Spec
=============================================================================
