# TLA+ specifications of antecedent

antecedent is a causal-inference library: a Rust workspace of about two dozen crates with a
Python package on top. Most of it is numerics, conversions and graph algorithms. What is hard
to test is smaller and sits around the numerics: which results are still valid after the inputs
changed, which stages of an analysis may be reused, what a session holds and remembers after a
failed or interrupted run, what concurrent workers make of a failure, and which evidence stands
behind a result. This directory models those parts in TLA+, checks them with TLC on small
instances and proves the main results with TLAPS.

## Inventory

| Component | State | Operations | What is hard |
| --- | --- | --- | --- |
| Incremental state (`antecedent-state`: `state.rs`, `store.rs`, `invalidation.rs`, `mechanism_diag.rs`) | version, data catalog, graph evidence, constraints, assumptions, interventions, query records, cached results, statistics slots, byte budget, invalidation log | `apply` of events, `register`, `publish_results[_at]`, `refresh_results[_at]`, evictions, slot and diagnostics insertion, `revalidation`, `is_stale`, `input_identities` | callers compute outside the state and publish late; freshness is kept in three places at once; one budget is shared by two stores |
| Recalculation planner (`antecedent-core/src/recalc.rs`) | previous and requested stage identities, statuses, changes | `RecalcPlan::plan` | reuse is decided edge by edge but must mean equality of whole identities; fresh processes; refusals |
| Recalculation session (`antecedent/src/analysis/recalc_receipt.rs`) | live study, law and decision, last identities, resume context, licenses | `new`, `resume`, setters, `plan`, `execute_with_receipt` | partial runs, failures between stages, restarts, licenses that change between runs |
| External callback sessions (`recalc_external.rs`, `recalc_attempt.rs`) | issued claim, portable output, epoch, attempts, idempotency bindings | `new`, `resume`, `export_output`, `plan`, `execute` | retries of side effects, keys that meet another request, the limit of the attempt ledger |
| Composite sessions (`recalc_composite.rs`) | a native session and one callback session per branch, published identities and decision | `from_native`, `execute` | two planners that must agree; rollback that must keep attempts |
| Execution context (`antecedent-core/src/execution.rs`) | chunks, slots, `first_failure`, cancellation flag | `map_indexed`, `cancel` | threads, relaxed atomics, early exit |
| Cross-fit nuisance cache (`crossfit_cache.rs`, with `crossfit_aipw.rs` and the batch) | entries with a lock each, learner preparations, retained size, scope counters | lease, fit, publish, `share_preparation`, scopes | locks held across fits that fail or panic; one bound for two kinds of content; the sharing report |
| Evidence ledger (`antecedent-contract/src/evidence_ledger`) | sources with lineage and effective rows, results with standing, operation log | `add_source`, update, replace, supersede, withdraw, combinations, reuse, `revalidate_downstream` | a loss must reach every result that rests on it, through lineages and citations; observations counted twice |
| Python interrupts (`python/src/interrupt.rs`, `install_cancellation`) | per-thread queue of weak tokens, active scope, stash of callback exceptions | `link`, `run`, `cancel_all`, `callback_failure`, `attribute` | a signal against the start and end of a run; contexts built ahead, abandoned or on the worker; exceptions of several threads |
| Other recalculation sessions (`recalc_static.rs`, `recalc_dr.rs`, ...) | as the recalculation session, per kind of study | the same shape | what each retains differs |
| Provider callbacks (`provider_callbacks.rs`, `callback_protocol`) | registrations, history, attempts | `register`, `execute`, `resume` | late and replayed results |
| Statistic store (`selective/store.rs`) | statistics by key, mode, counters | `lookup`, `insert`, `fork`, `replay_only` | lookup, compute and insert are separate |
| Class envelope memo (`class_envelope_cache.rs`) | memo table | memoized identification | computed outside the lock |
| Execution attempts (`execution_attempt.rs`) | thread-local observers, counters | `observe_execution`, tokens | unwinding, worker threads |
| Prepared studies, identification cache | sealed plans, tables | prepare, refresh, retarget | used here as the computation of session artifacts |
| Estimators, kernels, learners, graph, identification, discovery, design, attribution, artifact I/O | none shared | pure computation, conversion | numerics, outside a model checker's reach |

Interactions. A caller reads the incremental state, computes through a prepared study and
publishes back; nothing locks the state in between, the version is the only guard. A
recalculation session plans with the planner, runs prepared-study operations and commits.
A composite session plans once for a native session and two callback sessions and runs clones
of all three. Discovery, attribution and estimation call `map_indexed`, whose workers observe
the cancellation token; the queries of a batch run on threads of their own and share the
cross-fit cache. The Python bindings run an analysis on a worker thread whose tokens the
calling thread cancels when a signal arrives.

Properties that make the modelled parts correct:

- state: a result reported fresh was computed from the present inputs; the reported class is
  the one the event history gives; no byte of the budget is stranded; no statistics slot
  outlives a replacement of the data, and of those that outlive an append the OLS slots are announced
  (covariance slots are not, see divergences);
- planner: reuse means that nothing upstream moved, recomputation that something did; a
  refusal reaches everything that rests on it; a fresh process reuses nothing it does not hold;
- session: after any history the retained artifacts are those of the reported identities, and
  an executable plan runs to its end;
- callback sessions: an unkeyed side effect is sent once, a key for one request only, a keyed
  retry is never refused, no volatile answer is served from memory, and a resumed session issues nothing
  before a provider reproduced the output it resumes from;
- composite session: attempts outlive the rollback of their run, what is published belongs
  together, and the shared plan never contradicts a branch's own;
- map: what the workers return, a serial run could have returned; the call returns;
- cache: a fit is made once and reused for its own inputs only, whoever fails; the bound is
  exact; every query ends;
- ledger: no result stands on lost evidence, no observation counts twice, no standing heals;
- interrupts: the token the engine polls is one the watcher would cancel; exceptions reach the
  call they arose in; an interrupted run returns.

## Modules

| Module | Role |
| --- | --- |
| `CausalState` | incremental state |
| `RecalcPlan` | planner |
| `RecalcSession` | session; extends `RecalcPlan` and drives its actions |
| `EffectLedger` | what callback executors promise about side effects |
| `ExternalSession` | a callback session as a value: plan, admission, execution |
| `ExternalCallback` | the standalone callback session; implements `EffectLedger` |
| `CompositeSession` | a native response and callback branches; implements `EffectLedger` per branch |
| `IndexedMap` | what `map_indexed` promises: the answer of a serial run |
| `ParallelMap` | `map_indexed` with its threads; implements `IndexedMap` |
| `EvidenceLedger` | evidence ledger |
| `CrossfitCache` | nuisance cache with the builds that lock it |
| `Interrupt` | interrupts and callback exceptions of the Python bindings |
| `MC...` | constants for TLC |
| `CausalStateProofs`, `RecalcProofs`, `ParallelMapProofs`, `ExternalCallbackProofs`, `CompositeSessionProofs`, `EvidenceLedgerProofs`, `CrossfitCacheProofs`, `InterruptProofs` | theorems and proofs |

### CausalState

One action per event of `apply`, one for `register`, two for publishing (with and without
the version check, each covering `publish_results` and `refresh_results` through the form of
the update), and one per eviction and slot operation. `Recompute` is external: a caller's job
reads version and inputs in one step and publishes any number of steps later, or twice.

Abstractions: a digest is its content; an `Option` is a set of at most one element;
evidence and constraint records are counted by id, since their lists are only compared and
filtered by id; pending inputs are the (stage, change) pairs the deduplication keeps; `u64`
saturation is kept, with `U64Max` as the largest value; results are their size. The budget is any of `Budgets`,
chosen once: a limit, or `U64Max` for `CacheBudget::unlimited()`. A statistics slot is the set of kinds
of data event it has missed since it was made; `EnsureSlot` is `ols_ensure` and `cov_ensure`, which keep what
there is, and `InsertSlot` a caller's insertion into the public tables. The regime,
evidence and query layers are left out because no event makes them pending. `ModelStore` is
left out: no operation of the state reads it. `input_identities` is not a definition of its own: the content of the
inputs stands for their digest. `basis` keeps what each published result was
computed from and whether it carried identity layers. The variables `since`, `basis`,
`moved`, `appended` and `overflowed` are history; no guard reads them. `UncheckedForms` are the forms in which results may be
published without the version check.

### RecalcPlan

`Begin` starts `plan`, `Visit` decides the declared stages of one rank, `Retain` and `Drop` are the
caller's use of the plan: it ran it and holds its artifacts, or did not. The code walks
`Stage::all()` stage by stage; stages of one rank read lower ranks only, so
deciding them together gives the same statuses. `statuses` also carries the map
`Planner::changed`: the stages recomputed for another reason than a fresh process.

Effective identities are nested digests. Two are equal exactly when the own digests and the
effective identities of the dependencies are, and `same` holds the visited stages for
which they are. Whether an undeclared standing input is skipped or contributes an `ABSENT`
part makes no difference to that comparison. The wording of refusals (which dependency is missing,
which other route exists) is left out; `portable_fit` only selects between two of them.

### RecalcSession

`Resume`, the two setters, `Plan`, `VisitStages` and then `Run` or `Abandon`.
`execute_with_receipt` takes `&mut RecalcSession`, so no other session step interleaves with a
plan. `Run` is the whole successful remainder: the unbacked check, `score_stages`, `law_stage`,
`decide`, the receipt's verification and the commit. `Abandon` is every early return, before
or between the stages: none of them writes the session. An artifact is the record of what its
computation read, so a stale one is a different value. The receipt's counters are modelled by the stages that
counted work.

### ExternalSession, ExternalCallback and EffectLedger

`ExternalSession` has no variables: `Execute(s, r, ctx)` is the set of answers `execute` may give
for request `r` from session value `s`, each with the session it leaves and whether the provider was
entered. It follows the code's order: refusals at entry, reuse, admission (`KeyConflict`,
`RetryUnsafe`, `AtAttemptLimit`), the record of the attempt, the call, the commit. A request
stands for its digest; the planner comes to comparing the held pair of study and provider
identities, of which a volatile request's carries the session's epoch. `ExternalCallback` makes the
value a variable and adds `export_output`, `resume` and `new`. Its `answer` is the last answer
and `entries` counts provider entries. `origin` is the output the session was resumed from, `returned` what providers
returned in this process and `reproduced` whether the origin's output was among it. No guard reads any of them.

`EffectLedger` is the abstract specification: `sent` grows only by entries its `Allows` permits.
`Scope` says who remembers the keys: the one session for all branches in `ExternalCallback`, each branch
for itself in `CompositeSession`.

### CompositeSession

One step of `ExecuteComposite` is a run: the identities it is planned for, the two branches one after
the other on clones (the second starts only if the first answered), the decision, the receipt,
and then either `Publish` or `Fail`, which keeps the attempts and nothing else. `execute` takes `&mut self`, so runs do not
interleave. The native session is the `StaticResponseSession` of `recalc_static.rs`; here it is the
request it answered, and may fail before any branch runs (`FailNative`). `outcome` records how a run ended, so that a run
lost after its branches answered is visible.

### IndexedMap and ParallelMap

`IndexedMap` answers in one step with an answer of a serial run: all values, or the error of the lowest failing
index. `f` is deterministic in its index until the context is cancelled; from then on any index
may also fail.

`ParallelMap` has the calling thread (`Spawn`, `Collect`, and the serial path `SerialCall`,
`SerialEnd`) and the workers (`Load`, `Call`, `Failed`). Workers run while later ones are
still being spawned. `first_failure` uses `Ordering::Relaxed`: its modification order is
the sequence `order`, a load may return any value not older than the last one its thread saw, and
`fetch_min` reads the newest. A slot belongs to one worker until the join, so it is filled in the step that
ends its index. A panic of `f`, which the scope passes on to the caller, is left out.

### EvidenceLedger

Sources and results are sequences in the order they were added; rows are sets of observations, or
unknown. A declaration is checked against its lineage and made canonical, an update, replacement,
supersession or withdrawal retires its target and reclassifies every result in the same
step (as the code does), and a combination is registered when its kind's rules license it:
independence or a covariance for pooling, disjoint groups for borrowing, and so on.
`RevalidateDownstream` is the explicit call. A refused operation changes nothing and is no step.
The observations a ledger lists, repeats included, are the pairs of a source and one of its known rows
(`Slots`), so that their number is a cardinality; the results a result cites, directly or through others, are the
least set closed under citation (`Citations`), which is what the loop of `result_sources` walks.
Labels are left out, and an identity digests one, so two declarations the model calls equal may be two records of the code: equal
sources and results are admitted side by side. A covariance with cross terms and a range of correlations license the same (`"joint"`).

### CrossfitCache

Each scope (a query of the batch) builds score tables: it leases the propensity slot, then one outcome
slot per column, waits for each slot's mutex and keeps it, fits what is missing, and
publishes or drops. `Panic` poisons the mutexes that are held and leaves the slots
as they were; a later build that locks one of them ends with an error. The short sections of the entries and preparations mutexes are single steps. Keys and columns are
names, equal when the arrays the code compares are. A learner preparation has a cost of its problem
(`ProblemCost`), and an eviction frees the cost of what is evicted.

### Interrupt

Each Python thread makes calls: it builds contexts ahead (or abandons them), enters `run`, whose worker
executes under one of them or builds one itself, and watches for the result or a signal. Only the main
thread sees signals. The tokens queued for the next run are a bag: `run` drains the whole queue and nothing reads
its order. A token is a user's or a context's own, which dies with it. Callback failures
are kept in a stash shared by all threads and taken by the id in the error.

## Runs

| Run | Checks | Shows |
| --- | --- | --- |
| `state_freshness` | `TypeOK`, `ClassMatchesHistory`, `FreshIsCurrent`, `RepublicationMovesLayers` | freshness is exact under four events of every kind, one query, one job and four forms of publication (with and without lineage, snapshot and identity layers) |
| `state_budget` | `StaleIffNotValid`, `BudgetExact`, `SlotsFollowData` | two queries in batches of up to two and diagnostics slots in a budget of 3 and in an unlimited one, with evictions; every kind of statistics slot |
| `state_netzero` | `HonestRecomputationAccepted` | violated, see divergences |
| `plan` | `ReusedIffUnchanged`, `ServedRestsOnServed`, `OriginReallyChanged`, `FreshReusesOnlyPortableScores` | plans in one process under every license and request support, and in a fresh one with every combination of what was supplied |
| `session` | `HeldIsAfresh`, `ExecutablePlanRuns` | any sequence of requests, failures, license changes and restarts |
| `callback` | `TypeOK`, `ReuseIsOfPureRequest`, `IssuesReproduced`, `KeyedRetryIsAdmitted`, `SessionKeepsEffects` | one callback session through all policies, failing and missing providers, restarts |
| `composite` | `PublishedHangsTogether`, `AttemptsSurvive`, `NoRunIsLostLate`, `VolatileBranchesAreEntered`, `SideEffectsKept` | runs published and rolled back while native inputs, studies and branches change |
| `parallel_map` | `TypeOK`, `FailingChunkStops`, `AnswersLikeSerial`, `Returns` | `map_indexed` with up to six indices on up to three workers |
| `ledger` | `TypeOK`, `ValidRestsOnUsable`, `StandingIsCurrent`, `CountedOnce`, `StandingsOnlyWorsen` | every kind of combination over every lineage, with sources retired under the results |
| `crossfit` | `FitOnce`, `ReuseIsExact`, `RetainedIsExact`, `SharingIsReal`, `EveryScopeEnds` | two queries share fits while builds fail, are cancelled and panic |
| `crossfit_columns` | `LeasesCannotDeadlock` | violated, see divergences |
| `interrupt` | `ContextIsLinked`, `AttributionIsOwn`, `InterruptStopsRun` | two threads, a signal, a user's token and a small stash |

Refinements are properties of their runs: `SessionKeepsEffects` and `SideEffectsKept` (`EffectLedger`) and
`AnswersLikeSerial` (`IndexedMap`) are the abstract specifications under an `INSTANCE ... WITH`.

Bounds.

- State: four events (`MaxVersion`) are enough for publish, event, publish, event with an
  eviction at any place, and for two events of different kinds between two publications, which
  is what the deduplication of pending inputs and the worst-of class depend on. A budget of 3 with sizes 1 and 2
  makes batches fit, fit partly and not fit; diagnostics of size 2 make results and slots compete. In the unlimited budget
  `U64Max` is 4, so two results and the diagnostics sum to more than a u64 holds.
- Plan and session: two workflows in sequence are all a plan compares; their differences lie in an
  input of each rank, a standing input that comes and goes and an external branch.
  `MaxBranches` is 1 (8 in the code): branches do not read each other. The session varies graph,
  data, target and utility, one input per derived stage.
- Callback: ten requests cover every policy, keys that two requests share within a branch and across branches, and a key
  without support; two values let a replay differ from the export; an attempt limit of 2 is reached within three calls.
- Composite: three branches, so that the pair changes; a key that meets another study; native requests that
  differ in what branches depend on and in what they do not; two entries per branch, one of them before a rollback.
- Map: six indices on three workers give chunks of two, with failures below, in and above each other.
- Ledger: three sources, three results, five operations and six observations: a source, a
  model derived from it, a result on both and a citation of that result, and the retirement of the first. A model or claim can be
  superseded by an equal one under another label, with results on it.
- Cache: two scopes, two keys and two columns, builds that share both, one or neither, two tasks per scope; a bound of 6,
  which all fits do not leave room in, one preparation kept, and preparations of costs 1 and 3: the newcomer of an eviction may
  be cheaper, dearer, or find no room while the eviction stays.
- Interrupt: two calls of the main thread and one of another, up to two contexts ahead, one
  signal, three callback failures against a stash of two, pruning from the first entry.

Fairness. The state, the plan, the sessions and the ledger model calls of one owner: nothing forces a next
call, so their specifications assume no fairness and their properties are safety properties. `FairSpec` of
`ParallelMap` assumes weak fairness of the calling thread and of each worker: threads
are scheduled by the operating system and `f` returns. Neither cancellation nor timely
visibility of a relaxed store is assumed; `Returns` does not need them. `CrossfitCache` assumes
weak fairness of each scope's steps: threads are scheduled, a fit ends, and since a batch makes finitely many builds a waiting scope gets its mutex. `Interrupt`
assumes it of the watcher (`Poll`), of an engine that polls its cancelled token (`Stop`) and of `Return`; the
work itself is not assumed to end.

The deadlock check is off where the system ends: the event bound of `CausalState`, the operation limit of the
ledger, the returned call of `ParallelMap`, and `Interrupt` when all calls are made.

Every property of a passing run has a mutant in `PROJECT.json`: a variant of a definition, next to
it in its module, such as a plain store for `fetch_min` or an attempt recorded after the call, under which
TLC finds the property violated.

## Divergences

Shown by a run:

1. A constraint added and removed again between two publications leaves the graph layer where it
   was, and the recomputation the error message of `publish_results` asks for is refused (`state_netzero`).
2. A comment in `crossfit_aipw.rs` says that leases cannot deadlock. Two thresholds with no observed outcome between
   them have equal indicator columns and so one outcome slot, and the build waits for a lock it holds (`crossfit_columns`).

Met while modelling, visible in the definitions and not a run of their own:

- `input_identities` says that equal identities mean equal inputs. The graph layer digests evidence and
  constraints as one list and assumptions by their number: constraint `x` replaced by evidence `x` keeps the identities.
- An append drops or announces every slot that depends on the data but the covariances: `invalidate_data_dependents`
  (`state.rs:512-537`) neither clears nor logs them, so a covariance lags the data unannounced.
  `SlotsFollowData` says nothing of it.
- `publish_results` says that a result whose data snapshot was published under an earlier
  data version is refused. Only the last publication is remembered: a snapshot published before it is accepted again.
- The documentation of `recalc.rs` says that the removal of a standing input reaches the law as a withdrawal.
  `by_change` stops at the first changed edge: with a data change in the same request it is a recomputation.
- Branches of a composite remember keys for themselves: the same key and descriptor may be sent for two requests by
  two branches. `EffectLedger` is therefore stated per branch.
- When a ledger result is replaced by its recomputation, results that cite it keep their standing until the
  next reclassification; and a derived source of a retired one is still reported as active, although
  `Usable` looks through the lineage. `StandingIsCurrent` is about combinations for this reason.
- A token linked on the worker after `cancel_all` is not cancelled, and later signals are not looked for; a user's
  token queued by an abandoned call joins the next run; an interrupted run whose callback failed leaves its
  exception in the stash, and a full stash hands out no ids. `InterruptStopsRun` speaks of a run whose context exists
  when the signal arrives.

## Proofs

TLAPS proves, for every value of the constants:

- `CausalStateProofs`: `TypeCorrect`; `ClassCorrect` and `StalenessAgrees` (the class and the two
  freshness questions); `FreshnessSound` (a version-checked fresh result rests on the current inputs).
  None of the three is inductive. `FreshnessInv` relates pending inputs, stamps and
  log entries to the version of the last publication; the class follows because a query's
  pending inputs are exactly the changes logged since. `BasisInv` adds that a job
  that read the current version read the current inputs, and that a version-checked published result
  with no event logged since was computed from them.
  `RepublicationSound` rests on `MovedInv`: a stage input that moved since a query's last publication is among its pending
  inputs. `SlotsSound` is inductive as it stands, given the types: an append and its log entry are one step.
  `BudgetSound` adds that the charge is a number, and that sizes past a u64 are remembered in `overflowed`; it is about sums over maps of any size: `SubsetInduction` proves by
  well-foundedness of strict inclusion on a finite set that the fold is defined, does not depend on the order of
  the keys, and changes by one entry when one entry does; `StagingExists` does the same for the staging of a batch.
- `RecalcProofs`, about the planner: `ReuseExact`, `FreshReuse`, `ServedSound` and `OriginSound`. `PlanShape` says that the decided stages are exactly
  the requested ones below the current rank, and that only they can be in `same`. `ReuseInv` says that a
  reused stage is in `same`, that a recomputed one is in `same` exactly when it was recomputed only because
  the process is fresh, and that decided inputs without a change are in `same`. `BoundaryInv` keeps the
  capabilities well formed and says that a fresh process given data has its snapshot served;
  `PreviousInv` that the previous workflow is empty or one that may be requested. A stage is decided from its
  edges, all of lower rank (lemma `EdgesDescend`), for which the invariant already holds.
  The origin `by_change` names is that of the first changed edge, which exists because a nonempty set of
  positions has a least one (`LeastPosition`).
  About the session: `HeldSound` and `ExecutableRuns`. `SessionPlans` says that a session's steps are planner steps, so the
  planner's invariants hold of it; `SameInv` that stages in `same` have equal effective identities; `SessionInv` that a
  session that holds a study plans in process. A reused artifact then read the same inputs as one computed now
  (`SameReads`), which makes what a run commits the artifacts of the identities it commits.
- `ParallelMapProofs`: `TypeCorrect`, `ChunkStops` and `Implements` (the refinement of `IndexedMap`). `MapInv` says that
  chunks lie one after the other and cover the slots below `start`; that the filled slots
  of a chunk are the ones its worker passed; that every value of `first_failure` is
  `usize::MAX` or an index whose slot holds an error; and that a worker that left early read a lower failure.
  An unfilled slot therefore lies above a failure, which the collection meets first.
  `NeverStuck` and `WorkersRunOut` are the safety part of `Returns`: somebody can always step (stated with the guards, since
  the prover has no `ENABLED`), and every step of a worker lowers the number it has left (`Rest`).
- `ExternalCallbackProofs`: `EffectsKept` (the refinement of `EffectLedger`), `KeyedRetries`, `ReusePure` and
  `ReproducedFirst`. Its first part is about `ExternalSession`, what one execution preserves, for both kinds of session:
  `MemoryInv` says that every attempt is remembered with the binding of its key and that a key is bound once; `Backed`
  that held identities are those of the one claim held and that a volatile request's carry an epoch that has
  passed; `HistoryHeld` that a claim held was returned in this process and, in a resumed session, after the reproduction,
  and that until there is one the portable output is the origin's. `LedgerInv` adds to `MemoryInv` that all that was sent is among the attempts, so that what
  `admit_attempt` compares with is what the ledger counts. `TypeCorrect` rests on `SizeInv`:
  no request was entered more often than the epoch counts, and the epoch is at most `MaxCalls`.
- `CompositeSessionProofs`: `CompositeEffectsKept`, `AttemptsRemembered`, `HangsTogether`, `NoneLostLate` and
  `VolatileEntered`. `RunInv` follows a run branch by branch: untouched branches are as they were, what was entered was
  admitted by the branch's memory before the run and is in its clone's, and while the run is going each branch has an answer to
  its request and did work exactly where the plan says. `CompositeInv` keeps this across runs: the identities the
  composite remembers of a branch are none or the branch's own (hence the two planners agree, lemma
  `PlansAgreeAlways`), and name the branches of the published request (hence a reused decision is about the claims held now).
- `EvidenceLedgerProofs`: `TypeCorrect`, `StandingCurrent`, `ValidRests`, `Counted` and `OnlyWorsen`. `LedgerInv` says that
  lineages and citations point backwards (`SourcesInv`, `ResultsInv`), that standings are current, and that some set of
  results is closed under citation, holds every valid result and rests on usable sources only (`Rests`): the valid results alone are
  not closed, since a cited result may have been replaced. Every operation makes the sources grow in the
  same way (`Succeeds`): declarations stay, losses stay. The lineage closure of a listed source therefore never changes
  (`ClosureKept`), and a standing only worsens. `Reclassified` shows that the recursive
  reclassification is defined, because citations point backwards.
- `CrossfitCacheProofs`: `FitsOnce`, `ReuseExact`, `RetainedExact` and `SharingReal`. `SlotsInv` says that a build past its
  locks holds every slot it leased, that a slot is held by one build, that what a slot
  holds is nothing or the fit of its own inputs, and that a fit being made leaves its slot empty until it is published. `FitsInv`
  equates the counters with the filled slots, `UseInv` each slot's scope counter with the number of scopes that read it, and
  `RetainedInv` the charge with the entries and the preparations, which are of distinct problems and each at its own cost.
  `ScopesDoNotDeadlock` and `DistinctColumnsDoNotDeadlock` are the safety part of `EveryScopeEnds` and what remains true of
  the comment that `crossfit_columns` refutes: scopes never wait for each other in a circle, and where no build has
  equal columns none waits for itself either. `WaitInv` says that every lock is held by one scope, for the build it is in,
  together with the lock of its propensity slot. Only the first lock of a build is therefore contended, and
  whoever holds it is past its own.
- `InterruptProofs`: `ContextLinked`, `AttributionOwn` and `SignalReaches`. `InterruptInv` says in which phase a call has
  which fields (`CallInv`), that the contexts of a call that has not run yet are still queued, whatever was pruned (`QueueInv`),
  that ids are given out once (`StashInv`), and that an interrupted run has its own token and the token it
  runs under cancelled, but for a user's that joined it after the signal (`InterruptedInv`). `SignalReaches` is the safety part of `InterruptStopsRun`: the step that interrupts a
  working run leaves it under a cancelled token, and it stays so until the engine returns.

Assumptions: bounds are natural numbers, the main thread is one of the threads, `Budgets` are within `0..U64Max`, the unlimited one included, `Absent` is no digest, there is at least one
worker, requests belong to branches and have a policy of the code's, the entries of a session (`MaxCalls`) stay
within the epoch's range (`EpochLimit`, `u64::MAX` in the code, where the epoch stops growing), a session's
request declares exactly the four derived stages outside branches (`RequestAssumption`, as `recalc_receipt.rs` builds it), the
keys of the diagnostics slots and the rows a source declares are finite sets, costs are natural numbers, and
(`SnapshotAssumption`) a workflow that declares a score artifact declares its data
snapshot, as every session of the repository does. TLC evaluates all of them in the runs.

Only TLC checks the liveness properties (`Returns`, `EveryScopeEnds`, `InterruptStopsRun`) and the two
violated ones. Liveness under fairness is out of the prover's reach. Induction over data with an
operator as a parameter is too; where a proof needs it (sums, batches, chains of citations), it is stated for a property given as
a set and derived from the well-foundedness of `<` or of strict inclusion.

## Not modelled

- Provider callbacks (`CallbackSession`): a history and a ledger of attempts under one `&mut` owner, with the
  admission rules of `ExternalSession`.
- Statistic store and class envelope memo: tables of pure functions whose entries are
  computed outside the lock. A second computation stores an equal value, so no answer depends on the interleaving.
- Execution attempt observers: thread-local counters that nothing in the modelled parts reads.
- The other recalculation sessions: the shape of `RecalcSession` with other artifacts.
- Estimators, kernels, learners and statistics (floating-point numerics), graph, identification and discovery algorithms,
  design, attribution and validation: pure computations on data a model checker cannot enumerate.
- Artifact encoding and the conversions of the Python bindings.

These are by far most of the repository's lines, so the modelled share is small; what is modelled is
the state that outlives a call and the code that several threads or runs share.

## Plan

1. `CallbackSession` against `EffectLedger`, as a third implementation.
2. `StatisticStore` with its replay-only mode, and the differences of the other recalculation sessions.
