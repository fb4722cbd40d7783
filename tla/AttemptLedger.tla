--------------------------- MODULE AttemptLedger ---------------------------
(***************************************************************************)
(* tos::AttemptLedger (src/core/attempt.cpp).                              *)
(*                                                                         *)
(* Attempts are sharded by identity and generations by operation, each     *)
(* shard under its own mutex.  A method that holds one mutex for its whole *)
(* body is one action.  register_attempt() and restore_attempt() hold two  *)
(* mutexes one after the other and are two actions each; "calls" holds the *)
(* calls that are between the two.  prune_history() takes a mutex for each *)
(* shard it lists and again for each record it erases; "prunes" holds the  *)
(* calls in progress.  A call that is refused without touching the ledger  *)
(* is a stuttering step.                                                   *)
(*                                                                         *)
(* The callers are arbitrary: any identity and any generation that was     *)
(* handed out may be registered, any number of times, with any binding,    *)
(* and any submission may arrive at any time, late, duplicated or altered. *)
(***************************************************************************)
EXTENDS Integers, FiniteSets

CONSTANTS
    Operation,          \* transport operations
    Shard,              \* shards of the ledger
    Binding,            \* [worker, boot, epoch, domain, capability, provenance]
    Dispatch,           \* dispatch identities, 0 being the invalid one
    Result,             \* [success, digest, bytes, failure]
    Recovered,          \* <<id, record>> pairs that durable state may hold
    FailureKind,        \* kinds of failure that may be reported
    IdSpace,            \* 2^kShardShift: the mask on a shard's counter
    MaxBytes,           \* kMaxPayloadBytes
    MaxAttempts,        \* Impl::max_attempts, per shard
    Pruner,             \* threads that call prune_history()
    Keep,               \* retention bounds they ask for
    CounterBound, GenerationBound, CallBound    \* bounds of the model

Failure == FailureKind \union {"None", "AmbiguousOutcome", "Cancelled", "WorkerDeath",
                               "PreDispatchRejection", "ExecutionFailure"}

ASSUME ResultAssumption ==
    Result \subseteq [success: BOOLEAN, digest: Nat, bytes: Nat, failure: Failure]
ASSUME BoundAssumption == IdSpace \in Nat \ {0} /\ CounterBound \in Nat /\ GenerationBound \in Nat
ASSUME KeepAssumption == Keep \subseteq Nat

VARIABLES
    attempts,           \* the shards' maps: id -> ExecutionAttempt
    counter,            \* Shard::counter
    highest_generation, \* OperationShard::highest_generation, 0 if absent
    ids,                \* identities allocate_id has handed out
    calls,              \* calls between their two critical sections
    told,               \* history: id -> results their submitters were told are committed
    prunes              \* prune_history() calls: [keep, unlisted shards, listed ids]

vars == <<attempts, counter, highest_generation, ids, calls, told, prunes>>

Live == {"Dispatching", "Dispatched"}
Terminal == {"Completed", "Failed", "OutcomeUnknown", "Cancelled", "RejectedStale", "Fenced"}
Resolution == {"None", "AuthoritativeSuccess", "AuthoritativeFailure", "Ambiguous",
               "CancelledAmbiguous", "CancelledBeforeDispatch", "FencedMayHaveEffect",
               "FencedNoEffect"}

NoPrune == [keep |-> 0, unlisted |-> {}, listed |-> {}]

NoResult == [success |-> FALSE, digest |-> 0, bytes |-> 0, failure |-> "None"]

Registration == [id: Shard \X Nat, operation: Operation, generation: Nat,
                 binding: Binding, dispatch: Dispatch]

Attempt == [operation: Operation, generation: Nat, binding: Binding, dispatch: Dispatch,
            state: Live \union Terminal, resolution: Resolution, failure: Failure,
            completion_committed: BOOLEAN, result: Result \union {NoResult}]

\* A record save_state_to() writes: terminal, and consistent as audit() has it.
Saved(a) ==
    /\ a.state \in Terminal
    /\ a.completion_committed =>
          /\ a.result \in Result
          /\ a.state = IF a.result.success THEN "Completed" ELSE "Failed"
          /\ a.resolution # "None"

\* The record register_attempt() stores.
NewAttempt(r) ==
    [operation |-> r.operation, generation |-> r.generation, binding |-> r.binding,
     dispatch |-> r.dispatch, state |-> "Dispatching", resolution |-> "None",
     failure |-> "None", completion_committed |-> FALSE, result |-> NoResult]

\* What makes a replayed completion identical: duration, failure and
\* detail are not compared.
Key(r) == <<r.success, r.digest, r.bytes>>

ASSUME RecoveredAssumption ==
    \A p \in Recovered : p[1] \in Shard \X Nat /\ p[2] \in Attempt /\ Saved(p[2])

Insert(f, i, v) == [j \in DOMAIN f \union {i} |-> IF j = i THEN v ELSE f[j]]
Remove(f, S) == [j \in DOMAIN f \ S |-> f[j]]

InShard(s) == {i \in DOMAIN attempts : i[1] = s}

Init ==
    /\ attempts = [i \in {} |-> 0]
    /\ counter = [s \in Shard |-> 0]
    /\ highest_generation = [o \in Operation |-> 0]
    /\ ids = {}
    /\ calls = {}
    /\ told = [i \in {} |-> {}]
    /\ prunes = [p \in Pruner |-> NoPrune]

-----------------------------------------------------------------------------
(* Identities and generations *)

\* allocation_counter only spreads identities over the shards; which shard a
\* call gets depends on the calls it races with, so any shard may be chosen.
allocate_id(s) ==
    /\ counter' = [counter EXCEPT ![s] = @ + 1]
    /\ ids' = ids \union {<<s, (counter[s] + 1) % IdSpace>>}
    /\ UNCHANGED <<attempts, highest_generation, calls, told, prunes>>

allocate_generation(o) ==
    /\ highest_generation' = [highest_generation EXCEPT ![o] = @ + 1]
    /\ UNCHANGED <<attempts, counter, ids, calls, told, prunes>>

-----------------------------------------------------------------------------
(* Registration and recovery *)

\* register_attempt() up to the unlock in highest_generation().
register_check(r) ==
    /\ r.generation >= highest_generation[r.operation]
    /\ calls' = calls \union {[op |-> "register", reg |-> r]}
    /\ UNCHANGED <<attempts, counter, highest_generation, ids, told, prunes>>

\* Variant: an existing record is overwritten.
register_insert_Overwrite(r) ==
    /\ [op |-> "register", reg |-> r] \in calls
    /\ calls' = calls \ {[op |-> "register", reg |-> r]}
    /\ attempts' = Insert(attempts, r.id, NewAttempt(r))
    /\ told' = IF r.id \in DOMAIN told THEN told ELSE Insert(told, r.id, {})
    /\ UNCHANGED <<counter, highest_generation, ids, prunes>>

\* The rest of register_attempt(), under the attempt shard's mutex.
register_insert(r) ==
    /\ [op |-> "register", reg |-> r] \in calls
    /\ calls' = calls \ {[op |-> "register", reg |-> r]}
    /\ IF \/ r.id \in DOMAIN attempts                           \* duplicate_identity
          \/ Cardinality(InShard(r.id[1])) >= MaxAttempts       \* limit_reached
       THEN UNCHANGED <<attempts, told>>
       ELSE /\ attempts' = Insert(attempts, r.id, NewAttempt(r))
            /\ told' = Insert(told, r.id, {})
    /\ UNCHANGED <<counter, highest_generation, ids, prunes>>

\* Variant: the counter is not raised to the restored identity.
restore_insert_NoCounter(i, a) ==
    /\ a.state \in Terminal
    /\ i \notin DOMAIN attempts
    /\ Cardinality(InShard(i[1])) < MaxAttempts
    /\ attempts' = Insert(attempts, i, a)
    /\ told' = Insert(told, i, IF a.completion_committed THEN {Key(a.result)} ELSE {})
    /\ calls' = calls \union {[op |-> "restore", reg |-> [operation |-> a.operation,
                                                          generation |-> a.generation]]}
    /\ ids' = ids \union {i}
    /\ UNCHANGED <<counter, highest_generation, prunes>>

\* restore_attempt() up to the end of its first block.  The identity counts as
\* handed out: the process that saved the record allocated it.
restore_insert(i, a) ==
    /\ a.state \in Terminal
    /\ i \notin DOMAIN attempts
    /\ Cardinality(InShard(i[1])) < MaxAttempts
    /\ attempts' = Insert(attempts, i, a)
    /\ told' = Insert(told, i, IF a.completion_committed THEN {Key(a.result)} ELSE {})
    /\ counter' = [counter EXCEPT ![i[1]] = IF i[2] > @ THEN i[2] ELSE @]
    /\ calls' = calls \union {[op |-> "restore", reg |-> [operation |-> a.operation,
                                                          generation |-> a.generation]]}
    /\ ids' = ids \union {i}
    /\ UNCHANGED <<highest_generation, prunes>>

\* Variant: the restored generation is not taken over.
restore_generation_Dropped(r) ==
    /\ [op |-> "restore", reg |-> r] \in calls
    /\ calls' = calls \ {[op |-> "restore", reg |-> r]}
    /\ UNCHANGED <<attempts, counter, highest_generation, ids, told, prunes>>

\* The rest of restore_attempt(), under the operation shard's mutex.
restore_generation(r) ==
    /\ [op |-> "restore", reg |-> r] \in calls
    /\ calls' = calls \ {[op |-> "restore", reg |-> r]}
    /\ highest_generation' = [highest_generation EXCEPT ![r.operation] =
                                 IF r.generation > @ THEN r.generation ELSE @]
    /\ UNCHANGED <<attempts, counter, ids, told, prunes>>

\* Recovery raises a shard's counter to the identities it found.
adopt_ids(i) ==
    /\ counter' = [counter EXCEPT ![i[1]] = IF i[2] > @ THEN i[2] ELSE @]
    /\ ids' = ids \union {i}
    /\ UNCHANGED <<attempts, highest_generation, calls, told, prunes>>

-----------------------------------------------------------------------------
(* Transitions of one attempt *)

mark_dispatched(id, dispatch) ==
    /\ id \in DOMAIN attempts
    /\ attempts[id].state = "Dispatching"
    /\ attempts' = [attempts EXCEPT ![id].dispatch = dispatch, ![id].state = "Dispatched"]
    /\ UNCHANGED <<counter, highest_generation, ids, calls, told, prunes>>

\* Variant: only the terminal check of require_live protects a record.
transition_OverCommit(id, state, resolution, failure, require_live) ==
    /\ id \in DOMAIN attempts
    /\ require_live => attempts[id].state \notin Terminal
    /\ attempts' = [attempts EXCEPT ![id].state = state, ![id].resolution = resolution,
                       ![id].failure = IF failure = "None" THEN @ ELSE failure]
    /\ UNCHANGED <<counter, highest_generation, ids, calls, told, prunes>>

\* Variant: a marking may be applied to an attempt that is already terminal.
transition_Anytime(id, state, resolution, failure, require_live) ==
    /\ id \in DOMAIN attempts
    /\ ~attempts[id].completion_committed
    /\ attempts' = [attempts EXCEPT ![id].state = state, ![id].resolution = resolution,
                       ![id].failure = IF failure = "None" THEN @ ELSE failure]
    /\ UNCHANGED <<counter, highest_generation, ids, calls, told, prunes>>

transition(id, state, resolution, failure, require_live) ==
    /\ id \in DOMAIN attempts
    /\ ~attempts[id].completion_committed
    /\ require_live => attempts[id].state \notin Terminal
    /\ attempts' = [attempts EXCEPT ![id].state = state, ![id].resolution = resolution,
                       ![id].failure = IF failure = "None" THEN @ ELSE failure]
    /\ UNCHANGED <<counter, highest_generation, ids, calls, told, prunes>>

mark_failed(id, kind) == transition(id, "Failed", "AuthoritativeFailure", kind, TRUE)

mark_ambiguous(id) == transition(id, "OutcomeUnknown", "Ambiguous", "AmbiguousOutcome", TRUE)

mark_cancelled(id, crossed) ==
    transition(id, "Cancelled",
               IF crossed THEN "CancelledAmbiguous" ELSE "CancelledBeforeDispatch",
               "Cancelled", TRUE)

mark_fenced(id, may_have_effect) ==
    transition(id, "Fenced",
               IF may_have_effect THEN "FencedMayHaveEffect" ELSE "FencedNoEffect",
               IF may_have_effect THEN "AmbiguousOutcome" ELSE "WorkerDeath", TRUE)

mark_rejected_stale(id) ==
    transition(id, "RejectedStale", "None", "PreDispatchRejection", FALSE)

-----------------------------------------------------------------------------
(* Completion authority *)

\* The bindings of a submission that commit_completion() compares: worker and
\* capability generation only when both sides name one (0 is unnamed).
BindingAgrees(s, b) ==
    /\ s.worker = 0 \/ b.worker = 0 \/ s.worker = b.worker
    /\ s.boot = b.boot
    /\ s.epoch = b.epoch
    /\ s.domain = b.domain
    /\ s.capability = 0 \/ b.capability = 0 \/ s.capability = b.capability
    /\ s.provenance = b.provenance

Addressed(s) ==
    /\ s.id \in DOMAIN attempts
    /\ LET a == attempts[s.id] IN
          /\ s.generation = a.generation
          /\ a.dispatch = 0 \/ s.dispatch = a.dispatch
          /\ BindingAgrees(s.binding, a.binding)
          /\ s.operation = a.operation

CommitResult(id, r) ==
    attempts' = [attempts EXCEPT
        ![id].state = IF r.success THEN "Completed" ELSE "Failed",
        ![id].resolution = IF r.success THEN "AuthoritativeSuccess" ELSE "AuthoritativeFailure",
        ![id].result = r,
        ![id].completion_committed = TRUE,
        ![id].failure = IF r.success THEN "None"
                        ELSE IF r.failure = "None" THEN "ExecutionFailure" ELSE r.failure]

\* Variant: a second completion of a committed attempt is accepted too.
commit_completion_Again(s) ==
    /\ Addressed(s)
    /\ attempts[s.id].completion_committed \/ attempts[s.id].state \in Live
    /\ s.result.bytes <= MaxBytes
    /\ CommitResult(s.id, s.result)
    /\ told' = [told EXCEPT ![s.id] = @ \union {Key(s.result)}]
    /\ UNCHANGED <<counter, highest_generation, ids, calls, prunes>>

\* Variant: a late completion resurrects an attempt that was closed without one.
commit_completion_Late(s) ==
    /\ Addressed(s)
    /\ ~attempts[s.id].completion_committed
    /\ s.result.bytes <= MaxBytes
    /\ CommitResult(s.id, s.result)
    /\ told' = [told EXCEPT ![s.id] = @ \union {Key(s.result)}]
    /\ UNCHANGED <<counter, highest_generation, ids, calls, prunes>>

\* Accepted, or an identical replay, which is answered with the committed
\* record and changes nothing.  Every other submission is rejected.
commit_completion(s) ==
    /\ Addressed(s)
    /\ LET a == attempts[s.id] IN
       \/ /\ a.completion_committed
          /\ Key(a.result) = Key(s.result)
          /\ told' = [told EXCEPT ![s.id] = @ \union {Key(s.result)}]
          /\ UNCHANGED attempts
       \/ /\ ~a.completion_committed
          /\ a.state \notin Terminal
          /\ s.result.bytes <= MaxBytes
          /\ CommitResult(s.id, s.result)
          /\ told' = [told EXCEPT ![s.id] = @ \union {Key(s.result)}]
    /\ UNCHANGED <<counter, highest_generation, ids, calls, prunes>>

-----------------------------------------------------------------------------
(* Retention *)

Before(i, j) == i[1] < j[1] \/ (i[1] = j[1] /\ i[2] < j[2])

\* A call has nothing left to do once every shard is listed and no more than
\* "keep" of the records it listed remain.
Rest(q) == IF q.unlisted = {} /\ Cardinality(q.listed) <= q.keep THEN NoPrune ELSE q

prune_history(p, keep) ==
    /\ prunes[p] = NoPrune
    /\ prunes' = [prunes EXCEPT ![p] = [keep |-> keep, unlisted |-> Shard, listed |-> {}]]
    /\ UNCHANGED <<attempts, counter, highest_generation, ids, calls, told>>

\* Variant: every record of the shard is listed.
prune_list_Any(p) ==
    LET q == prunes[p] IN
    \E s \in q.unlisted :
        /\ \A u \in q.unlisted : s <= u
        /\ prunes' = [prunes EXCEPT ![p] = Rest([q EXCEPT !.unlisted = @ \ {s},
                                                  !.listed = @ \union InShard(s)])]
        /\ UNCHANGED <<attempts, counter, highest_generation, ids, calls, told>>

\* The terminal records of the next shard, under its mutex.
prune_list(p) ==
    LET q == prunes[p] IN
    \E s \in q.unlisted :
        /\ \A u \in q.unlisted : s <= u
        /\ prunes' = [prunes EXCEPT ![p] = Rest([q EXCEPT !.unlisted = @ \ {s},
                 !.listed = @ \union {i \in InShard(s) : attempts[i].state \in Terminal}])]
        /\ UNCHANGED <<attempts, counter, highest_generation, ids, calls, told>>

\* The lowest identity left is erased, under its shard's mutex, whatever record
\* has it by now.
prune_erase(p) ==
    LET q == prunes[p] IN
    \E i \in q.listed :
        /\ q.unlisted = {}
        /\ \A j \in q.listed : ~Before(j, i)
        /\ attempts' = Remove(attempts, {i})
        /\ told' = Remove(told, {i})
        /\ prunes' = [prunes EXCEPT ![p] = Rest([q EXCEPT !.listed = @ \ {i}])]
        /\ UNCHANGED <<counter, highest_generation, ids, calls>>

-----------------------------------------------------------------------------
Next ==
    \/ \E s \in Shard : counter[s] < CounterBound /\ allocate_id(s)
    \/ \E o \in Operation : highest_generation[o] < GenerationBound /\ allocate_generation(o)
    \/ /\ Cardinality(calls) < CallBound
       /\ \E i \in ids, o \in Operation, b \in Binding, d \in Dispatch :
             \E g \in 1 .. highest_generation[o] :
                register_check([id |-> i, operation |-> o, generation |-> g,
                                binding |-> b, dispatch |-> d])
    \/ \E c \in calls : register_insert(c.reg)
    \/ Cardinality(calls) < CallBound /\ \E p \in Recovered : restore_insert(p[1], p[2])
    \/ \E c \in calls : restore_generation(c.reg)
    \/ \E p \in Recovered : adopt_ids(p[1])
    \/ \E i \in DOMAIN attempts :
          \/ \E d \in Dispatch \ {0} : mark_dispatched(i, d)
          \/ \E k \in FailureKind : mark_failed(i, k)
          \/ mark_ambiguous(i)
          \/ \E crossed \in BOOLEAN : mark_cancelled(i, crossed)
          \/ \E may_have_effect \in BOOLEAN : mark_fenced(i, may_have_effect)
          \/ mark_rejected_stale(i)
    \/ \E i \in ids, g \in 1 .. GenerationBound, d \in Dispatch, b \in Binding,
         o \in Operation, r \in Result :
          commit_completion([id |-> i, generation |-> g, dispatch |-> d, binding |-> b,
                             operation |-> o, result |-> r])
    \/ \E p \in Pruner :
          \/ \E keep \in Keep : prune_history(p, keep)
          \/ prune_list(p)
          \/ prune_erase(p)

Spec == Init /\ [][Next]_vars

-----------------------------------------------------------------------------
(* Properties *)

\* The state has the shape the C++ types give it; every record belongs to an
\* identity that was handed out or recovered, and the counters have passed
\* those identities: a recovered one is not handed out again until a shard's
\* counter has gone through the whole identity space.
TypeOK ==
    /\ ids \subseteq Shard \X Nat
    /\ \A i \in ids : i[2] <= counter[i[1]]
    /\ DOMAIN attempts \subseteq ids
    /\ attempts \in [DOMAIN attempts -> Attempt]
    /\ counter \in [Shard -> Nat]
    /\ highest_generation \in [Operation -> Nat]
    /\ calls \subseteq [op: {"register"}, reg: Registration] \union
                       [op: {"restore"}, reg: [operation: Operation, generation: Nat]]
    /\ \A c \in calls : c.op = "register" => c.reg.id \in ids
    /\ told \in [DOMAIN attempts -> SUBSET {Key(r) : r \in Result}]
    /\ prunes \in [Pruner -> [keep: Nat, unlisted: SUBSET Shard, listed: SUBSET ids]]

\* "At most one authoritative completion may commit per attempt generation"
\* (attempt.hpp): however completions are duplicated, altered, delayed or raced
\* by cancellation and fencing, every submitter that was told its completion is
\* committed was told so of the result the record holds.  What was told of a
\* record is forgotten with it when prune_history() drops it.
CompletionAgreement ==
    \A i \in DOMAIN attempts :
        told[i] \subseteq IF attempts[i].completion_committed THEN {Key(attempts[i].result)} ELSE {}

\* AttemptLedger::audit never finds an inconsistent record, and the kinds of
\* terminal state that carry no result never hold a committed completion.
AuditConsistent ==
    \A i \in DOMAIN attempts :
        attempts[i].completion_committed =>
            /\ attempts[i].state = IF attempts[i].result.success THEN "Completed" ELSE "Failed"
            /\ attempts[i].resolution # "None"

\* No late marking, fence, cancellation or completion changes a terminal record
\* while it is retained.  mark_rejected_stale(), which does not require a live
\* attempt, may still relabel one that has no committed completion.
TerminalForever ==
    [][\A i \in DOMAIN attempts :
          attempts[i].state \in Terminal =>
              \/ i \notin DOMAIN attempts'
              \/ attempts'[i] = attempts[i]
              \/ ~attempts[i].completion_committed /\ attempts'[i].state = "RejectedStale"]_vars

\* allocate_generation() hands out a generation above every registered attempt
\* of the operation, and above every one about to be, although the two live
\* under different mutexes: the only exception is a restore_attempt() call that
\* has not reached its second block.
GenerationsCovered ==
    /\ \A i \in DOMAIN attempts :
          LET a == attempts[i] IN
          \/ a.generation <= highest_generation[a.operation]
          \/ [op |-> "restore", reg |-> [operation |-> a.operation, generation |-> a.generation]] \in calls
    /\ \A c \in calls :
          c.op = "register" => c.reg.generation <= highest_generation[c.reg.operation]

OutcomeView ==
    [i \in DOMAIN attempts |->
        [open |-> attempts[i].state \in Live,
         result |-> IF attempts[i].completion_committed THEN {attempts[i].result} ELSE {}]]
Listed == UNION {prunes[p].listed : p \in Pruner}
Authority == INSTANCE CompletionAuthority WITH outcome <- OutcomeView, picked <- Listed

\* The ledger implements the completion authority it promises, the records that
\* prune_history() has listed being the ones picked: whatever calls interleave,
\* an attempt is settled once, with one result, and the only open attempts that
\* are ever forgotten have an identity that a prune_history() call found settled
\* and that was dropped and registered again before that call erased it.
ImplementsAuthority == Authority!Spec

(* What the documentation says of the ledger and the code does not do. *)

\* prune_history() is to "drop historical (terminal) records" (attempt.hpp): a
\* record that leaves the ledger is terminal when it leaves.
OnlyTerminalDropped ==
    [][\A i \in DOMAIN attempts :
          i \notin DOMAIN attempts' => attempts[i].state \in Terminal]_vars
=============================================================================
