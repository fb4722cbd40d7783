# Transport Offload Scheduler in TLA+

TLA+ models of the Transport Offload Scheduler (`tos`), model-checked with TLC and, for the two
ledgers, proved with TLAPS. Paths below are relative to the repository.

## The system

A `Scheduler` (`src/core/scheduler.cpp`) places transport operations on execution domains. It
*plans* (chooses a domain and binds the plan to the authority it saw), *reserves* capacity,
*dispatches* an envelope over a channel to an executor, and *commits* at most one completion of each
attempt. It holds no lock across two calls: each of its methods is a sequence of critical sections of
its parts, and any number of threads run methods at once.

| Part | State | Operations | Hard behaviour | What makes it correct |
|---|---|---|---|---|
| Reservation ledger `core/reservation.cpp` | reservations, per-domain accounting, per-shard counters | set_capacity, acquire, commit, release, rollback, invalidate_domain, adopt_ids | the same reservation closed by several callers; word arithmetic; identities run out | never overcommitted; accounting equals the records; closed once |
| Attempt ledger `core/attempt.cpp` | attempt records, highest generation per operation, counters | allocate, register, mark_*, commit_completion, prune, restore, adopt_ids | duplicated, late and conflicting completions; two locks | one outcome per attempt, kept for good; generations covered |
| Scheduler `core/scheduler.cpp` | plans of record, retired plans, lifecycle, counters | plan, reserve, dispatch, complete, report_failure, retry, fallback, cancel, fences, publications, shutdown, start, save/load | every interleaving of their steps; stale copies of plans | one send per attempt; capacity follows the attempt; nothing ambiguous is replayed |
| Worker authority `core/authority.cpp` | current and fenced boots | register_boot, fence, fence_boot | replacement racing dispatch; bounded fence set | a fenced boot is never current |
| Domain registry `core/state.cpp` | domain records and their generations | upsert, publish_*, fence, fence_worker_boot, remove, mark stale | publications of old incarnations | generations only grow; a change of authority moves one |
| Planning `core/planner.cpp`, `policy.cpp`, `ranking.cpp` | none | eligibility, ranking, fallback graph | order of tests | hard restrictions before ranking; no cycle |
| Persistence `core/scheduler.cpp`, `persist/` | durable state, epoch | save, load in two phases | crash between steps | nothing in flight is restored as authoritative; epochs grow |
| Coordinator and worker `dist/` | sessions, boots | accept, frames, close, stop; dispatch, execute, answer | lost sessions, reordered frames, stop | a closed session fences its boot; stop ends |
| Local channel and pool `backends/local_channel.cpp`, `util/thread_pool.cpp` | queue, delayed completions | send, deliver, shutdown | full queue, shutdown with work queued | accepted work is executed once; shutdown ends |
| Backends, wire format, utilities, command line | - | - | - | numeric kernels, byte encodings and I/O: out of scope |

Calls go down the table: the coordinator and its channel call the scheduler, which calls the
ledgers, the registry and the worker authority. Completions come back through `complete()`.

## Modules

| Module | Models |
|---|---|
| `ReservationLedger` | `ReservationLedger`, one action per method |
| `CapacityLease` | the abstract promise of the reservation ledger |
| `AttemptLedger` | `AttemptLedger`, one action per critical section |
| `CompletionAuthority` | the abstract promise of the attempt ledger |
| `Scheduler` | the scheduler's execution path, composed of both ledgers (`R`, `A`) |
| `ReservationLedgerProofs`, `AttemptLedgerProofs` | theorems and proofs |
| `MC*` | instances for TLC |

**ReservationLedger.** A shard's mutex is held for a whole method, so a method is an action. A call
that fails without a change is a stuttering step. `DomainAccounting` is split into `capacity`,
`reserved`, `committed` and `count` (the five counters as one function of the state they count).
Arithmetic is modulo `Word`; an identity is a pair of shard and counter. The three generations a
reservation is stamped with are one `Stamp`, since they are only compared together.

**AttemptLedger.** `register_attempt` and `restore_attempt` take two mutexes one after the other and
are two actions each; `calls` holds the calls between them. `prune_history` is a begin, one listing per
shard and one erasure per record, each under its own mutex; `prunes` holds the calls in progress, so
that records may be settled, dropped and registered again between the listing and the erasure. `told`
(history) holds the results that submitters were told are committed; it is forgotten with the record,
so `CompletionAgreement` speaks of retained records. A binding keeps the fields that completion authority compares.
Texts, statistics and sequence numbers are left out.

**Scheduler.** Each thread has a program counter `pc[t]` naming the next critical section, the plan
its caller holds `plan[t]`, and the method's locals `frame[t]`. `wire` is the set of envelopes the
channel accepted; each may be answered any number of times, in any order, with any result, or never,
which covers every fault `local_channel.cpp` injects. The channel may also refuse any envelope.
Eligibility and ranking are abstracted to the choice of any domain that is not fenced and has
capacity; revalidation to the fence and the domain generation, the only bound values the modelled
steps move. The reads of `plan_internal` (records, free capacity, number of plans) are one step, although
their values may change in between; every value the step decides on is tested again when it is used.
`shutdown()` of the channel closes a local channel and does nothing to the coordinator's remote one, so
either may happen. `Reserving` says whether the policy asks for a reservation. Reads of one method that lie
next to each other and whose values do not change in between (a reservation's identity in an attempt
record, say) are one step with their use. `cancelled`, `stranded` and `replaced` (which attempts a
retried one stands for) are history variables.

Not in `Scheduler`: `start()` and its epochs, registration, update and removal of domains,
`fence_worker_boot`, policy changes, a scheduler without a channel, saving after a fence, and a
second concurrent `shutdown()`.

## Runs

| Run | Checks | Bounds |
|---|---|---|
| `reservation_ledger` | types, `NoOvercommit`, `AuditConsistent`, `ClosedExactlyOnce`, `ClosedForever`, refinement of `CapacityLease` | 2 domains in one shard, 2 kinds, 2-bit words with a request of a whole word, 3 identities and then exhaustion; symmetric in domains and stamps |
| `attempt_ledger` | types, `CompletionAgreement`, `AuditConsistent`, `GenerationsCovered`, `TerminalForever` | 3 identities with room for 2 records, 1 operation, 1 allocated generation and a recovered one above it, 2 bindings, 3 results (two that conflict, one too large), 2 recovered records, 1 call between its locks, 1 thread that prunes |
| `attempt_prunes` | refinement of `CompletionAuthority` | 2 threads that prune, keeping none or one; 2 shards with an identity each that may be registered again once dropped, 2 results, a recovered record; symmetric in the threads |
| `scheduler_races` | types, `RegisteredBeforeSend`, `LiveAttemptHoldsCapacity`, `CommittedIsAccountedFor` | a client making two attempts, an operator that cancels, fences, publishes and shuts down, an executor; room for one plan of record and one retired plan; capacity 0 or 1; 2 generations of the domain: a publication, or a fence that may be repeated; a fence after a publication is not reached |
| `scheduler_copies` | `SentAtMostOnce` | two callers with copies of one plan and a reservation each, an executor that also cancels |
| `scheduler_replay` | `ReplayIsSafe` | two domain types with a fallback chain, three plans, two threads that retry and dispatch, one of them also the executor; both retries, or a retry and a fallback, of one attempt may re-plan and send; the policy retries ambiguous failures too, so only the ambiguity test stands in the way |

Each bound is chosen so that the limit it stands for is met: identities run out, a request is as large
as a word, the attempt ledger is full, retired plans are forgotten, a domain is fenced
again. The bounds do not show more than that. For the ledgers the proofs remove them; for
`Scheduler`, behaviours with four threads, four attempts of an operation or three domains are not
explored. In `attempt_ledger` completions name the allocated generation only, so attempts of the
recovered generation are registered and marked but never completed; in `scheduler_races` every
completion is a success, and `scheduler_copies` has failed ones; in `scheduler_replay` failures are
reported. `PlanBound`, `ReserveBound`, `DispatchBound`, `GenerationBound`,
`CounterBound` and `CallBound` only keep the state space finite. Deadlock is not checked because a
caller may stop calling and the bounds end every behaviour.

Two properties are weaker than one would like, because the code is. `LiveAttemptHoldsCapacity` excepts
a domain that was fenced, a scheduler that is stopping, and a `cancel()` that looked for the attempt
before `dispatch()` registered it: that cancellation releases the capacity of an attempt that goes live.
`CommittedIsAccountedFor` excepts attempts whose outcome is unknown, which keep their capacity, and
refused registrations (`scheduler_stranded` below).

### Where the documentation and the code differ

Five runs are expected to find a violation.

* `scheduler_resurrected`: `README.md:309` says a plan is retired when its operation is completed,
  "which bounds the map". `dispatch()` stores the plan after the send; a completion that commits in
  between has already erased it, and the plan is then still there when every call has returned.
* `scheduler_stranded`: a committed reservation is "bound to an authoritative dispatch"
  (`include/tos/core/reservation.hpp:27`). If a newer generation of the operation is planned (a
  fallback, for one) before a dispatch of the older one registers it, registration is refused after the
  commit, and `rollback()` does not close committed reservations. The same happens to the loser of two
  dispatches of copies of one plan.
* `scheduler_cancelled`: retired plans "can never be dispatched again" (`docs/ARCHITECTURE.md:24`).
  `dispatch()` looks at them once, at its start; a `cancel()` after that answers "cancelled before
  dispatch" for an attempt that is sent.
* `scheduler_replayed`: `max_attempts` is the "total attempts including the first, bounded"
  (`include/tos/core/policy.hpp:67`). `retry()` finds the plan of record, plans a new attempt and only
  then retires the old plan, so two retries of one attempt both succeed. With a bound of two the
  operation is sent three times; the second retry is sent while the first may be executing.
  `ReplayIsSafe` still holds: what each of them replaces is a definite failure.
* `attempt_pruned`: `prune_history()` is to "drop historical (terminal) records"
  (`include/tos/core/attempt.hpp:175`). It erases the identities it listed without looking at them again.
  With two calls at once, one that the other call dropped and a caller registered again is erased while it
  is live. Nothing in `src/` calls the method yet.

## Proofs

For every choice of the constants (subject to the named assumptions: domains map to shards, words and
identity spaces are naturals, published capacities and requests are vectors of words; results have
the fields of a result, and a recovered record is terminal and consistent, as `save_state_to()` writes
them):

* `ReservationLedgerProofs!LedgerInvariant`: types, `NoOvercommit`, `AuditConsistent` and
  `ClosedExactlyOnce` always hold. Their conjunction `IInv` is inductive. The accounting invariants need each other: a release
  subtracts without wrapping only because the totals equal the sum over the records, and a commit
  adds without wrapping only because what is held is within a capacity. A total is the cardinality of
  a set of (reservation, unit) pairs, so that adding or removing one reservation is a lemma about finite
  sets (`UnitsAdd`, `UnitsRemove`) and needs no recursion. `MoveStep` covers every method that moves
  one reservation between states, `InvalidateStep` the one that moves many.
* `ReservationLedgerProofs!ClosedStaysClosed`: `ClosedForever`.
* `ReservationLedgerProofs!LedgerImplementsLease`: refinement of `CapacityLease`, with a held
  reservation as a live lease.
* `AttemptLedgerProofs!LedgerInvariant`: types, `CompletionAgreement`, `AuditConsistent` and
  `GenerationsCovered`, whose conjunction is inductive as it stands.
* `AttemptLedgerProofs!TerminalStaysTerminal`: `TerminalForever`.
* `AttemptLedgerProofs!LedgerImplementsAuthority`: refinement of `CompletionAuthority` for any number of
  threads that prune, the identities that `prune_history` calls have listed being the ones picked.
  `StepOfRecords` says what any step may do to a record: leave it alone, and list it only if it is
  terminal; add it; change it; or drop it, if it was listed. That a record is still terminal when it is
  dropped is not promised, because it is not true (`attempt_pruned`).

Only model-checked: everything about `Scheduler`. No liveness property is stated yet and no fairness
assumed. Liveness under fairness and `ENABLED`, induction over data, and modules with `RECURSIVE`
operators are beyond the prover and stay with TLC.

## Plan

1. `WorkerAuthority` and `DomainRegistry`, then `fence_worker_boot`, registration and removal of
   domains in `Scheduler`; abstract specification: an incarnation, once fenced, is never current.
   Run: two workers, three boots, a fence set of two.
2. `Recovery`: save, crash, the two phases of load, epochs over restarts. Run: two restarts with a
   checkpoint before, between and after dispatches.
3. `Sessions`: coordinator and worker sessions, remote channel, `stop()`; liveness of `stop()` under
   weak fairness of each thread, which the operating system's scheduling of runnable threads gives.
4. `LocalChannel` with the thread pool: accepted work is executed, shutdown ends.
5. Eligibility order, ranking and the fallback graph's cycle test as operators, checked against
   declarative definitions over all small inputs, in modules of their own.
6. Theorems: `SentAtMostOnce` and `RegisteredBeforeSend` for `Scheduler`, from an invariant that ties
   each thread past registration to the record it inserted; the invariants of 1 and 2.
