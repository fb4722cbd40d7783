----------------------------- MODULE Scheduler -----------------------------
(***************************************************************************)
(* The execution path of tos::Scheduler (src/core/scheduler.cpp) over its  *)
(* reservation ledger R, its attempt ledger A, the plans of record, the    *)
(* generation and fence of each domain, and a dispatch channel.            *)
(*                                                                         *)
(* The scheduler holds no lock across two calls: a public method is a      *)
(* sequence of critical sections of its parts.  A thread executes one      *)
(* method at a time, one critical section per step, and pc[t] names the    *)
(* next one.  plan[t] is the ExecutionPlan the caller on thread t holds;   *)
(* it is a value, so callers may hold stale copies.  frame[t] holds the    *)
(* method's other local variables.  A call refused by its first test is a  *)
(* stuttering step.                                                        *)
(*                                                                         *)
(* One start() .. shutdown() period is modelled, with one policy, one      *)
(* worker incarnation and a channel installed.                             *)
(***************************************************************************)
EXTENDS Integers, Sequences, FiniteSets

CONSTANTS
    Thread, Role,       \* Role[t]: the methods thread t may call
    Operation,          \* operations whose side effect class is replay-safe
    Domain, TypeOf,     \* ExecutionDomainType of each domain
    Chain,              \* fallback_chain: type -> set of types
    Result,             \* results an executor may report
    FailureKind,        \* failures report_failure() may be given
    Retryable,          \* failures policy.retry.rules allows
    MaxRetryAttempts,   \* policy.retry.max_attempts
    MaxDepth,           \* policy.fallback.max_depth
    MaxPlans,           \* limits.max_pending_plans
    MaxAttempts,        \* of the attempt ledger
    Reserving,          \* policy.reservation is enabled and asks for one slot
    Slots,              \* published capacities of a domain, in slots
    PlanBound,          \* bounds of the model: plans made,
    ReserveBound,       \* reservations acquired,
    DispatchBound,      \* dispatch identities drawn,
    GenerationBound     \* and generations of a domain

VARIABLES
    reservations, res_counter, capacity, reserved, committed, count,
    attempts, att_counter, highest_generation, ids, calls, told, prunes,
    domains,            \* DomainRegistry: [generation, fenced] per domain
    plans,              \* plans of record: attempt id -> plan
    retired_order,      \* retired_plans in the order they were retired
    lifecycle,          \* "running"; "stopping" once shutdown() began
    channel,            \* the channel accepts envelopes
    wire,               \* envelopes the channel accepted
    dispatch_counter,
    pc, plan, frame,
    cancelled,          \* history: attempts reported CancelledBeforeDispatch
    stranded,           \* history: reservations whose registration was refused
    replaced            \* history: attempt of a retry -> the attempts it replaces in turn

rvars == <<reservations, res_counter, capacity, reserved, committed, count>>
avars == <<attempts, att_counter, highest_generation, ids, calls, told, prunes>>
pvars == <<plans, retired_order>>
svars == <<lifecycle, channel, wire, dispatch_counter>>
hvars == <<cancelled, stranded, replaced>>
tvars == <<pc, plan, frame>>
vars == <<rvars, avars, domains, pvars, svars, tvars, hvars>>

Slot == "slot"
Word == 4
Vec(n) == [k \in {Slot} |-> n]
NoId == <<0, 0>>

\* The binding of a plan: the fields completion authority compares, then the
\* domain, the reservation and the retry index.  "domain" is the domain's
\* generation.
Bind(d, g, r, n) ==
    [worker |-> 1, boot |-> 1, epoch |-> 1, domain |-> g, capability |-> 1,
     provenance |-> 1, at |-> d, reservation |-> r, retry_index |-> n]
Binding == {Bind(d, g, r, n) : d \in Domain, g \in 1 .. GenerationBound,
                               r \in {0} \X (0 .. ReserveBound), n \in 0 .. MaxRetryAttempts}

R == INSTANCE ReservationLedger WITH
        Kind <- {Slot}, Shard <- {0}, ShardOf <- [d \in Domain |-> 0],
        Stamp <- 1 .. GenerationBound, Capacities <- {Vec(n) : n \in Slots},
        Requests <- {Vec(1)}, IdSpace <- 64, CounterBound <- 63, counter <- res_counter

\* The scheduler never calls prune_history().
A == INSTANCE AttemptLedger WITH
        Shard <- {0}, Dispatch <- Nat, Recovered <- {}, IdSpace <- 64, MaxBytes <- 1,
        CounterBound <- 63, CallBound <- 2, counter <- att_counter,
        Pruner <- {}, Keep <- {}

NoPlan == [attempt |-> NoId, operation |-> 0, generation |-> 0, binding |-> Bind(0, 0, NoId, 0),
           state |-> "None", depth |-> 0]
NoFrame == [id |-> NoId, reservation |-> NoId, todo |-> {}, next |-> NoPlan,
            retires |-> NoId, dispatch |-> 0]

Retired == {retired_order[i] : i \in DOMAIN retired_order}
LiveOn(D) == {i \in DOMAIN attempts :
                 attempts[i].state \in A!Live /\ attempts[i].binding.at \in D}
Replaced(i) == IF i \in DOMAIN replaced THEN replaced[i] ELSE {}
IsLive(i) == i \in DOMAIN attempts /\ attempts[i].state \in A!Live
IsHeld(r) == r \in DOMAIN reservations /\ reservations[r].state \in R!Held
IsActive(r) == r \in DOMAIN reservations /\ reservations[r].state = "Active"

\* start() and register_domain() have run for every domain.
Init ==
    /\ reservations = [i \in {} |-> 0]
    /\ res_counter = [s \in {0} |-> 0]
    /\ capacity \in [Domain -> {Vec(n) : n \in Slots}]
    /\ reserved = [d \in Domain |-> Vec(0)]
    /\ committed = [d \in Domain |-> Vec(0)]
    /\ count = [d \in Domain |-> [s \in R!ReservationState |-> 0]]
    /\ A!Init
    /\ domains = [d \in Domain |-> [generation |-> 1, fenced |-> FALSE]]
    /\ plans = [i \in {} |-> NoPlan]
    /\ retired_order = <<>>
    /\ lifecycle = "running"
    /\ channel = TRUE
    /\ wire = {}
    /\ dispatch_counter = 0
    /\ pc = [t \in Thread |-> "idle"]
    /\ plan = [t \in Thread |-> NoPlan]
    /\ frame = [t \in Thread |-> NoFrame]
    /\ cancelled = {}
    /\ stranded = {}
    /\ replaced = [i \in {} |-> {}]

-----------------------------------------------------------------------------
(* Steps of a thread *)

Goto(t, label) == pc' = [pc EXCEPT ![t] = label]
Call(t, method, label) == pc[t] = "idle" /\ method \in Role[t] /\ Goto(t, label)
At(t, label, next) == pc[t] = label /\ Goto(t, next)
Local(t, f) == frame' = [frame EXCEPT ![t] = f]
Done(t) == Goto(t, "idle") /\ Local(t, NoFrame)
Return(t, label) == pc[t] = label /\ Done(t)

store_plan(p) == /\ plans' = A!Insert(plans, p.attempt, p)
                 /\ UNCHANGED retired_order
erase_plan(i) == plans' = A!Remove(plans, {i}) /\ UNCHANGED retired_order
\* Variant: the memory of retired plans is not trimmed.
retire_plan_Unbounded(i) ==
    /\ plans' = A!Remove(plans, {i})
    /\ retired_order' = IF i \in Retired THEN retired_order ELSE Append(retired_order, i)
retire_plan(i) ==
    /\ plans' = A!Remove(plans, {i})
    /\ retired_order' = IF i \in Retired THEN retired_order
                        ELSE LET order == Append(retired_order, i)
                             IN  IF Len(order) > MaxPlans THEN Tail(order) ELSE order

\* A ledger call whose refusal the caller ignores.
try_release(r) == IF IsHeld(r) THEN R!release(r) ELSE UNCHANGED rvars
try_rollback(r) == IF IsActive(r) THEN R!rollback(r) ELSE UNCHANGED rvars
try_mark_ambiguous(i) == IF IsLive(i) THEN A!mark_ambiguous(i) ELSE UNCHANGED avars
-----------------------------------------------------------------------------
(* plan_internal(): eligibility and ranking are abstracted to the choice of  *)
(* one domain that is not fenced and has capacity; any of them may win, and  *)
(* the call may find none.                                                   *)

Eligible(d) == ~domains[d].fenced /\ (Reserving => R!has_capacity(d, Vec(1)))

\* Up to the plan_count() test.  The records of the domains, their free capacity
\* and the number of plans are read one after the other, here at once: what the
\* step decides on is stale before it is used in any case, and the later steps
\* test it again.
plan_select(t, o, types, retry_index, depth, retires) ==
    /\ Cardinality(DOMAIN plans) < MaxPlans
    /\ \E d \in Domain :
          /\ TypeOf[d] \in types
          /\ Eligible(d)
          /\ Local(t, [NoFrame EXCEPT
                !.next = [NoPlan EXCEPT !.operation = o, !.state = "Created",
                             !.binding = Bind(d, domains[d].generation, NoId, retry_index),
                             !.depth = depth],
                !.retires = retires])
    /\ att_counter[0] + Cardinality({u \in Thread : pc[u] = "plan_id"}) < PlanBound
    /\ UNCHANGED <<rvars, avars, domains, pvars, svars, plan, hvars>>

plan_id(t) ==
    /\ At(t, "plan_id", "plan_generation")
    /\ A!allocate_id(0)
    /\ Local(t, [frame[t] EXCEPT !.next.attempt = <<0, att_counter[0] + 1>>])
    /\ UNCHANGED <<rvars, domains, pvars, svars, plan, hvars>>

plan_generation(t) ==
    LET o == frame[t].next.operation IN
    /\ At(t, "plan_generation", "plan_store")
    /\ A!allocate_generation(o)
    /\ Local(t, [frame[t] EXCEPT !.next.generation = highest_generation[o] + 1])
    /\ UNCHANGED <<rvars, domains, pvars, svars, plan, hvars>>

\* The plan is returned to the caller, by retry() once the old one is retired.
plan_store(t) ==
    /\ pc[t] = "plan_store"
    /\ store_plan(frame[t].next)
    /\ plan' = [plan EXCEPT ![t] = frame[t].next]
    /\ \/ /\ frame[t].retires = NoId
          /\ Done(t)
          /\ UNCHANGED replaced
       \/ /\ frame[t].retires # NoId
          /\ Goto(t, "retry_retire")
          /\ UNCHANGED frame
          /\ replaced' = A!Insert(replaced, frame[t].next.attempt,
                                 {frame[t].retires} \union Replaced(frame[t].retires))
    /\ UNCHANGED <<rvars, avars, domains, svars, cancelled, stranded>>

plan_begin(t) ==
    /\ Call(t, "plan", "plan_id")
    /\ lifecycle = "running"
    /\ \E o \in Operation : plan_select(t, o, {TypeOf[d] : d \in Domain}, 0, 0, NoId)

\* A caller copies a plan another caller holds.
copy_plan(t, u) ==
    /\ pc[t] = "idle" /\ pc[u] = "idle" /\ "copy" \in Role[t]
    /\ plan' = [plan EXCEPT ![t] = plan[u]]
    /\ UNCHANGED <<rvars, avars, domains, pvars, svars, pc, frame, hvars>>

-----------------------------------------------------------------------------
(* reserve() *)

reserve(t) ==
    /\ Call(t, "reserve", IF Reserving THEN "acquire" ELSE "reserve_store")
    /\ lifecycle = "running"
    /\ plan[t].state = "Created"
    /\ res_counter[0] + Cardinality({u \in Thread : pc[u] = "acquire"}) < ReserveBound
    /\ plan' = IF Reserving THEN plan ELSE [plan EXCEPT ![t].state = "Reserved"]
    /\ UNCHANGED <<rvars, avars, domains, pvars, svars, frame, hvars>>

acquire(t) ==
    LET b == plan[t].binding IN
    /\ pc[t] = "acquire"
    /\ \/ /\ R!acquire(b.at, b.domain, Vec(1))
          /\ Goto(t, "reserve_store")
          /\ plan' = [plan EXCEPT ![t].binding.reservation = R!NewId(b.at), ![t].state = "Reserved"]
       \/ /\ ~R!has_capacity(b.at, Vec(1))
          /\ Goto(t, "idle")
          /\ UNCHANGED <<rvars, plan>>
    /\ UNCHANGED <<avars, domains, pvars, svars, frame, hvars>>

reserve_store(t) ==
    /\ Return(t, "reserve_store")
    /\ store_plan(plan[t])
    /\ UNCHANGED <<rvars, avars, domains, svars, plan, hvars>>

-----------------------------------------------------------------------------
(* dispatch() *)

dispatch(t) ==
    LET p == plan[t] IN
    /\ Call(t, "dispatch", "revalidate")
    /\ lifecycle = "running"
    /\ p.state \in {"Created", "Reserved"}
    /\ p.attempt \notin Retired
    /\ dispatch_counter < DispatchBound
    /\ Reserving => p.binding.reservation # NoId
    /\ UNCHANGED <<rvars, avars, domains, pvars, svars, plan, frame, hvars>>

Valid(p) == LET d == domains[p.binding.at] IN ~d.fenced /\ d.generation = p.binding.domain

revalidate(t) ==
    /\ pc[t] = "revalidate"
    /\ \/ /\ Valid(plan[t])
          /\ Goto(t, IF Reserving THEN "commit" ELSE "register")
          /\ UNCHANGED plan
       \/ /\ ~Valid(plan[t])
          /\ Goto(t, "stale_store")
          /\ plan' = [plan EXCEPT ![t].state = "Rejected"]
    /\ UNCHANGED <<rvars, avars, domains, pvars, svars, frame, hvars>>

stale_store(t) ==
    /\ At(t, "stale_store", "rollback")
    /\ store_plan(plan[t])
    /\ UNCHANGED <<rvars, avars, domains, svars, plan, frame, hvars>>

commit(t) ==
    LET r == plan[t].binding.reservation IN
    /\ pc[t] = "commit"
    /\ \/ /\ R!commit(r, plan[t].binding.domain)
          /\ Goto(t, "register")
          /\ UNCHANGED plan
       \/ /\ ~IsActive(r)
          /\ Goto(t, "rollback")
          /\ plan' = [plan EXCEPT ![t].state = "Rejected"]
          /\ UNCHANGED rvars
    /\ UNCHANGED <<avars, domains, pvars, svars, frame, hvars>>

rollback(t) ==
    /\ Return(t, "rollback")
    /\ try_rollback(plan[t].binding.reservation)
    /\ UNCHANGED <<avars, domains, pvars, svars, plan, hvars>>

Registration(t) ==
    [id |-> plan[t].attempt, operation |-> plan[t].operation,
     generation |-> plan[t].generation, binding |-> plan[t].binding,
     dispatch |-> frame[t].dispatch]

\* register_attempt() refused: dispatch() goes on to roll the reservation back.
Refused(t) == stranded' = (stranded \union {plan[t].binding.reservation}) \ {NoId}

\* Variant: the attempt is not registered before the envelope is sent.
register_Skipped(t) ==
    /\ At(t, "register", "send")
    /\ dispatch_counter' = dispatch_counter + 1
    /\ Local(t, [frame[t] EXCEPT !.dispatch = dispatch_counter + 1])
    /\ UNCHANGED <<rvars, avars, domains, pvars, lifecycle, channel, wire, plan, hvars>>

\* next_dispatch_id() and the generation test of register_attempt().
register(t) ==
    /\ pc[t] = "register"
    /\ dispatch_counter' = dispatch_counter + 1
    /\ LET f == [frame[t] EXCEPT !.dispatch = dispatch_counter + 1] IN
       \/ /\ A!register_check([Registration(t) EXCEPT !.dispatch = f.dispatch])
          /\ Goto(t, "insert")
          /\ Local(t, f)
          /\ UNCHANGED hvars
       \/ /\ plan[t].generation < highest_generation[plan[t].operation]
          /\ Goto(t, "rollback")
          /\ Refused(t)
          /\ UNCHANGED <<avars, frame, cancelled, replaced>>
    /\ UNCHANGED <<rvars, domains, pvars, lifecycle, channel, wire, plan>>

insert(t) ==
    /\ pc[t] = "insert"
    /\ A!register_insert(Registration(t))
    /\ \/ /\ attempts' # attempts
          /\ Goto(t, "send")
          /\ UNCHANGED hvars
       \/ /\ attempts' = attempts
          /\ Goto(t, "rollback")
          /\ Refused(t) /\ UNCHANGED <<cancelled, replaced>>
    /\ UNCHANGED <<rvars, domains, pvars, svars, plan, frame>>

\* The channel may refuse an envelope at any time; a closed one refuses all.
send(t) ==
    /\ pc[t] = "send"
    /\ \/ /\ channel
          /\ Goto(t, "mark_dispatched")
          /\ wire' = wire \union {Registration(t)}
       \/ /\ Goto(t, "mark_failed")
          /\ UNCHANGED wire
    /\ UNCHANGED <<rvars, avars, domains, pvars, lifecycle, channel, dispatch_counter,
                   plan, frame, hvars>>

mark_dispatched(t) ==
    LET i == plan[t].attempt IN
    /\ At(t, "mark_dispatched", "dispatched_store")
    /\ IF attempts[i].state = "Dispatching"
       THEN A!mark_dispatched(i, frame[t].dispatch)
       ELSE UNCHANGED avars                             \* not_dispatching
    /\ plan' = [plan EXCEPT ![t].state = "Dispatched"]
    /\ UNCHANGED <<rvars, domains, pvars, svars, frame, hvars>>

dispatched_store(t) ==
    /\ Return(t, "dispatched_store")
    /\ store_plan(plan[t])
    /\ UNCHANGED <<rvars, avars, domains, svars, plan, hvars>>

\* A refused send.
mark_failed(t) ==
    LET i == plan[t].attempt IN
    /\ At(t, "mark_failed", "failed_release")
    /\ IF IsLive(i) THEN A!mark_failed(i, "TransportFailure") ELSE UNCHANGED avars
    /\ UNCHANGED <<rvars, domains, pvars, svars, plan, frame, hvars>>

\* Variant: a refused send keeps the capacity.
failed_release_Forgotten(t) ==
    /\ At(t, "failed_release", "failed_store")
    /\ plan' = [plan EXCEPT ![t].state = "Rejected"]
    /\ UNCHANGED <<rvars, avars, domains, pvars, svars, frame, hvars>>

failed_release(t) ==
    /\ At(t, "failed_release", "failed_store")
    /\ try_release(plan[t].binding.reservation)
    /\ plan' = [plan EXCEPT ![t].state = "Rejected"]
    /\ UNCHANGED <<avars, domains, pvars, svars, frame, hvars>>

failed_store(t) ==
    /\ Return(t, "failed_store")
    /\ store_plan(plan[t])
    /\ UNCHANGED <<rvars, avars, domains, svars, plan, hvars>>
-----------------------------------------------------------------------------
(* complete() and report_failure() *)

\* A submission that answers an envelope the channel accepted.  A replay or a
\* rejected one ends the call.
complete(t) ==
    \E e \in wire, r \in Result :
        LET s == [id |-> e.id, generation |-> e.generation, dispatch |-> e.dispatch,
                  binding |-> e.binding, operation |-> e.operation, result |-> r] IN
        /\ A!commit_completion(s)
        /\ \/ /\ attempts' # attempts
              /\ Call(t, "complete", "complete_release")
              /\ Local(t, [NoFrame EXCEPT !.id = e.id,
                              !.reservation = attempts[e.id].binding.reservation])
           \/ /\ attempts' = attempts
              /\ Call(t, "complete", "idle")
              /\ UNCHANGED frame
        /\ UNCHANGED <<rvars, domains, pvars, svars, plan, hvars>>

complete_release(t) ==
    /\ At(t, "complete_release", "complete_erase")
    /\ try_release(frame[t].reservation)
    /\ UNCHANGED <<avars, domains, pvars, svars, plan, frame, hvars>>

complete_erase(t) ==
    /\ Return(t, "complete_erase")
    /\ erase_plan(frame[t].id)
    /\ UNCHANGED <<rvars, avars, domains, svars, plan, hvars>>

\* The reservation read with get() never changes, so that read is part of the
\* marking step.  An ambiguous failure keeps the reservation.
report_failure(t) ==
    \E i \in DOMAIN attempts, kind \in FailureKind :
        /\ \/ /\ kind \in {"AmbiguousOutcome", "WorkerDeath"}
              /\ A!mark_ambiguous(i)
              /\ Call(t, "report_failure", "idle")
              /\ UNCHANGED frame
           \/ /\ kind \notin {"AmbiguousOutcome", "WorkerDeath"}
              /\ A!mark_failed(i, kind)
              /\ Call(t, "report_failure", "report_release")
              /\ Local(t, [NoFrame EXCEPT !.reservation = attempts[i].binding.reservation])
        /\ UNCHANGED <<rvars, domains, pvars, svars, plan, hvars>>

report_release(t) ==
    /\ Return(t, "report_release")
    /\ try_release(frame[t].reservation)
    /\ UNCHANGED <<avars, domains, pvars, svars, plan, hvars>>

-----------------------------------------------------------------------------
(* retry() and fallback() *)

Uncertain == {"Ambiguous", "FencedMayHaveEffect", "CancelledAmbiguous"}

\* Everything up to find_plan() looks at one copy of the record.
retry(t) ==
    \E i \in DOMAIN attempts :
        LET a == attempts[i] IN
        /\ Call(t, "retry", "retry_find")
        /\ a.state \in A!Terminal
        /\ a.resolution \notin Uncertain
        /\ a.failure \in Retryable
        /\ a.binding.retry_index + 2 <= MaxRetryAttempts
        /\ Local(t, [NoFrame EXCEPT !.id = i])
        /\ UNCHANGED <<rvars, avars, domains, pvars, svars, plan, hvars>>

retry_find(t) ==
    LET i == frame[t].id IN
    /\ pc[t] = "retry_find"
    /\ IF i \in DOMAIN plans
       THEN Goto(t, "retry_plan") /\ Local(t, [NoFrame EXCEPT !.next = plans[i]])
       ELSE Done(t)
    /\ UNCHANGED <<rvars, avars, domains, pvars, svars, plan, hvars>>

retry_plan(t) ==
    LET p == frame[t].next IN
    \/ /\ At(t, "retry_plan", "plan_id")
       /\ plan_select(t, p.operation, {TypeOf[p.binding.at]},
                      p.binding.retry_index + 1, p.depth, p.attempt)
    \/ /\ Return(t, "retry_plan")                       \* no eligible domain
       /\ UNCHANGED <<rvars, avars, domains, pvars, svars, plan, hvars>>

retry_retire(t) ==
    /\ Return(t, "retry_retire")
    /\ retire_plan(frame[t].retires)
    /\ UNCHANGED <<rvars, avars, domains, svars, plan, hvars>>

\* The new plan replaces the caller's; the original stays a plan of record.  The
\* code also skips the targets that earlier fallbacks of the operation tried.
fallback(t) ==
    LET p == plan[t] IN
    /\ Call(t, "fallback", "plan_id")
    /\ p # NoPlan
    /\ p.depth + 1 <= MaxDepth
    /\ plan_select(t, p.operation, Chain[TypeOf[p.binding.at]] \ {TypeOf[p.binding.at]},
                   p.binding.retry_index, p.depth + 1, NoId)

-----------------------------------------------------------------------------
(* cancel() *)

\* Variant: the capacity is released although the attempt is left live.
cancel_Unmarked(t) ==
    \E i \in ids :
        /\ IsLive(i)
        /\ Call(t, "cancel", "cancel_release")
        /\ Local(t, [NoFrame EXCEPT !.id = i, !.reservation = attempts[i].binding.reservation])
        /\ UNCHANGED <<rvars, avars, domains, pvars, svars, plan, hvars>>

cancel(t) ==
    \E i \in ids :
        /\ \/ /\ IsLive(i)
              /\ Call(t, "cancel", "cancel_mark")
              /\ Local(t, [NoFrame EXCEPT !.id = i,
                              !.reservation = attempts[i].binding.reservation])
           \/ /\ i \notin DOMAIN attempts
              /\ Call(t, "cancel", "cancel_find")
              /\ Local(t, [NoFrame EXCEPT !.id = i])
        /\ UNCHANGED <<rvars, avars, domains, pvars, svars, plan, hvars>>

\* Registered attempts are Dispatching or Dispatched, so "crossed" is true.
cancel_mark(t) ==
    LET i == frame[t].id IN
    /\ pc[t] = "cancel_mark"
    /\ \/ /\ A!mark_cancelled(i, TRUE)
          /\ Goto(t, "cancel_release")
          /\ UNCHANGED frame
       \/ /\ ~IsLive(i)
          /\ Done(t)
          /\ UNCHANGED avars
    /\ UNCHANGED <<rvars, domains, pvars, svars, plan, hvars>>

cancel_release(t) ==
    /\ At(t, "cancel_release", "cancel_erase")
    /\ try_release(frame[t].reservation)
    /\ UNCHANGED <<avars, domains, pvars, svars, plan, frame, hvars>>

cancel_erase(t) ==
    /\ Return(t, "cancel_erase")
    /\ erase_plan(frame[t].id)
    /\ UNCHANGED <<rvars, avars, domains, svars, plan, hvars>>

cancel_find(t) ==
    LET i == frame[t].id
        pending == i \in DOMAIN plans /\ plans[i].state \in {"Created", "Reserved"}
    IN
    /\ pc[t] = "cancel_find"
    /\ \/ /\ pending
          /\ Goto(t, "cancel_rollback")
          /\ Local(t, [frame[t] EXCEPT !.reservation = plans[i].binding.reservation])
       \/ ~pending /\ Done(t)
    /\ UNCHANGED <<rvars, avars, domains, pvars, svars, plan, hvars>>

cancel_rollback(t) ==
    LET r == frame[t].reservation IN
    /\ pc[t] = "cancel_rollback"
    /\ try_rollback(r)
    /\ Goto(t, IF IsActive(r) \/ r = NoId THEN "cancel_retire" ELSE "cancel_close")
    /\ UNCHANGED <<avars, domains, pvars, svars, plan, frame, hvars>>

cancel_close(t) ==
    /\ At(t, "cancel_close", "cancel_retire")
    /\ try_release(frame[t].reservation)
    /\ UNCHANGED <<avars, domains, pvars, svars, plan, frame, hvars>>

cancel_retire(t) ==
    /\ Return(t, "cancel_retire")
    /\ retire_plan(frame[t].id)
    /\ cancelled' = cancelled \union {frame[t].id}
    /\ UNCHANGED <<rvars, avars, domains, svars, plan, stranded, replaced>>

-----------------------------------------------------------------------------
(* fence_domain(), publications and shutdown() *)

\* DomainRegistry::fence: a second fence moves no generation.
fence_domain(t) ==
    \E d \in Domain :
        /\ Call(t, "fence_domain", "fence_invalidate")
        /\ domains[d].fenced \/ domains[d].generation < GenerationBound
        /\ domains' = IF domains[d].fenced THEN domains
                      ELSE [domains EXCEPT ![d] = [generation |-> @.generation + 1, fenced |-> TRUE]]
        /\ Local(t, [NoFrame EXCEPT !.todo = {d}])
        /\ UNCHANGED <<rvars, avars, pvars, svars, plan, hvars>>

fence_invalidate(t) ==
    /\ At(t, "fence_invalidate", "fence_list")
    /\ \E d \in frame[t].todo : R!invalidate_domain(d)
    /\ UNCHANGED <<avars, domains, pvars, svars, plan, frame, hvars>>

fence_list(t) ==
    LET live == LiveOn(frame[t].todo) IN
    /\ pc[t] = "fence_list"
    /\ \/ live = {} /\ Done(t)
       \/ /\ live # {}
          /\ Goto(t, "fence_mark")
          /\ Local(t, [NoFrame EXCEPT !.todo = live])
    /\ UNCHANGED <<rvars, avars, domains, pvars, svars, plan, hvars>>

fence_mark(t) ==
    /\ At(t, "fence_mark", "fence_erase")
    /\ \E i \in frame[t].todo :
          /\ try_mark_ambiguous(i)
          /\ Local(t, [frame[t] EXCEPT !.id = i, !.todo = @ \ {i}])
    /\ UNCHANGED <<rvars, domains, pvars, svars, plan, hvars>>

fence_erase(t) ==
    /\ pc[t] = "fence_erase"
    /\ \/ frame[t].todo = {} /\ Done(t)
       \/ frame[t].todo # {} /\ Goto(t, "fence_mark") /\ UNCHANGED frame
    /\ erase_plan(frame[t].id)
    /\ UNCHANGED <<rvars, avars, domains, svars, plan, hvars>>

\* publish_locality(), publish_topology() and publish_compatibility() end here;
\* publish_capacity() goes on to the ledger, which may refuse what the
\* registry accepted.
publish(t) ==
    \E d \in Domain :
        /\ domains[d].generation < GenerationBound
        /\ domains' = [domains EXCEPT ![d].generation = @ + 1]
        /\ \/ Call(t, "publish", "idle") /\ UNCHANGED frame
           \/ /\ Call(t, "publish", "publish_capacity")
              /\ Local(t, [NoFrame EXCEPT !.todo = {d}])
        /\ UNCHANGED <<rvars, avars, pvars, svars, plan, hvars>>

publish_capacity(t) ==
    /\ Return(t, "publish_capacity")
    /\ \E d \in frame[t].todo, n \in Slots :
          \/ R!set_capacity(d, Vec(n))
          \/ reserved[d][Slot] + committed[d][Slot] > n /\ UNCHANGED rvars
    /\ UNCHANGED <<avars, domains, pvars, svars, plan, hvars>>

shutdown(t) ==
    /\ Call(t, "shutdown", "shutdown_list")
    /\ lifecycle = "running"
    /\ lifecycle' = "stopping"
    /\ UNCHANGED <<rvars, avars, domains, pvars, channel, wire, dispatch_counter, plan, frame, hvars>>

shutdown_list(t) ==
    /\ At(t, "shutdown_list", "shutdown_mark")
    /\ Local(t, [NoFrame EXCEPT !.todo = LiveOn(Domain)])
    /\ UNCHANGED <<rvars, avars, domains, pvars, svars, plan, hvars>>

shutdown_mark(t) ==
    /\ pc[t] = "shutdown_mark"
    /\ \/ /\ frame[t].todo = {}
          /\ Goto(t, "shutdown_invalidate")
          /\ Local(t, [NoFrame EXCEPT !.todo = Domain])
          /\ UNCHANGED avars
       \/ /\ Goto(t, "shutdown_mark")
          /\ \E i \in frame[t].todo :
                /\ try_mark_ambiguous(i)
                /\ Local(t, [frame[t] EXCEPT !.todo = @ \ {i}])
    /\ UNCHANGED <<rvars, domains, pvars, svars, plan, hvars>>

shutdown_invalidate(t) ==
    /\ pc[t] = "shutdown_invalidate"
    /\ \/ /\ frame[t].todo = {}
          /\ Goto(t, "shutdown_channel")
          /\ UNCHANGED <<rvars, frame>>
       \/ /\ Goto(t, "shutdown_invalidate")
          /\ \E d \in frame[t].todo :
                /\ R!invalidate_domain(d)
                /\ Local(t, [frame[t] EXCEPT !.todo = @ \ {d}])
    /\ UNCHANGED <<avars, domains, pvars, svars, plan, hvars>>

\* A local channel closes; the coordinator's remote channel does nothing.
shutdown_channel(t) ==
    /\ At(t, "shutdown_channel", "shutdown_clear")
    /\ channel' \in {channel, FALSE}
    /\ UNCHANGED <<rvars, avars, domains, pvars, lifecycle, wire, dispatch_counter, plan, frame, hvars>>

shutdown_clear(t) ==
    /\ Return(t, "shutdown_clear")
    /\ plans' = [i \in {} |-> NoPlan]
    /\ UNCHANGED <<rvars, avars, domains, retired_order, svars, plan, hvars>>
-----------------------------------------------------------------------------
Step(t) ==
    \/ plan_begin(t) \/ plan_id(t) \/ plan_generation(t) \/ plan_store(t)
    \/ \E u \in Thread \ {t} : copy_plan(t, u)
    \/ reserve(t) \/ acquire(t) \/ reserve_store(t)
    \/ dispatch(t) \/ revalidate(t) \/ stale_store(t) \/ commit(t) \/ rollback(t)
    \/ register(t) \/ insert(t) \/ send(t)
    \/ mark_dispatched(t) \/ dispatched_store(t)
    \/ mark_failed(t) \/ failed_release(t) \/ failed_store(t)
    \/ complete(t) \/ complete_release(t) \/ complete_erase(t)
    \/ report_failure(t) \/ report_release(t)
    \/ retry(t) \/ retry_find(t) \/ retry_plan(t) \/ retry_retire(t) \/ fallback(t)
    \/ cancel(t) \/ cancel_mark(t) \/ cancel_release(t) \/ cancel_erase(t)
    \/ cancel_find(t) \/ cancel_rollback(t) \/ cancel_close(t) \/ cancel_retire(t)
    \/ fence_domain(t) \/ fence_invalidate(t) \/ fence_list(t) \/ fence_mark(t) \/ fence_erase(t)
    \/ publish(t) \/ publish_capacity(t)
    \/ shutdown(t) \/ shutdown_list(t) \/ shutdown_mark(t) \/ shutdown_invalidate(t)
    \/ shutdown_channel(t) \/ shutdown_clear(t)

Next == \E t \in Thread : Step(t)

Spec == Init /\ [][Next]_vars

-----------------------------------------------------------------------------
(* Properties *)

Quiet == \A t \in Thread : pc[t] = "idle"
StateOf(i) == reservations[attempts[i].binding.reservation].state

\* The parts have the shape their C++ types give them, a plan of record is filed
\* under its own attempt, whose identity and generation were handed out, and the
\* memory of retired plans keeps within limits.max_pending_plans.
TypeOK ==
    /\ R!TypeOK
    /\ A!TypeOK
    /\ domains \in [Domain -> [generation: 1 .. GenerationBound, fenced: BOOLEAN]]
    /\ \A i \in DOMAIN plans :
          /\ plans[i].attempt = i /\ i \in ids
          /\ plans[i].generation \in 1 .. highest_generation[plans[i].operation]
          /\ plans[i].state \in {"Created", "Reserved", "Dispatched", "Rejected"}
    /\ Retired \subseteq ids /\ Len(retired_order) <= MaxPlans

\* An attempt crosses the channel at most once, however many copies of its plan
\* are dispatched concurrently and whatever completes, fails or cancels it
\* meanwhile.
SentAtMostOnce == \A e, f \in wire : e.id = f.id => e = f

\* "a fast completion can never arrive before the runtime knows the attempt
\* exists" (attempt.hpp): the record an envelope's completion will be held
\* against is in the ledger, with that envelope's dispatch, generation and
\* binding, from before the send and for as long as it may be answered.
RegisteredBeforeSend ==
    \A e \in wire :
        /\ e.id \in DOMAIN attempts
        /\ attempts[e.id].dispatch = e.dispatch
        /\ attempts[e.id].generation = e.generation
        /\ attempts[e.id].binding = e.binding

\* A live attempt holds the capacity it was admitted with, until its domain is
\* fenced or the scheduler stops: no completion, cancellation, failure report
\* or refused send gives it away.  The exception is a cancel() that looked for
\* the attempt before dispatch() registered it.
LiveAttemptHoldsCapacity ==
    \A i \in DOMAIN attempts :
        IsLive(i) /\ Reserving =>
            \/ StateOf(i) = "Committed"
            \/ /\ StateOf(i) = "Invalidated"
               /\ domains[attempts[i].binding.at].fenced \/ lifecycle = "stopping"
            \/ /\ StateOf(i) = "Released"
               /\ \/ i \in cancelled
                  \/ \E t \in Thread : pc[t] = "cancel_retire" /\ frame[t].id = i

\* retry() never replays an attempt that may have executed: every attempt that a
\* retry in progress, or an envelope a retry led to, replaces is a definite
\* failure and stays one, however many retries and fallbacks of it run at once
\* and whatever completions and reports arrive after retry() read the record.
ReplayIsSafe ==
    LET gone == {frame[t].retires : t \in Thread} \ {NoId}
    IN  \A i \in gone \union UNION {Replaced(e.id) : e \in wire} :
            attempts[i].state = "Failed" /\ attempts[i].resolution \notin Uncertain

\* When no call is running, capacity is still committed only to a live attempt,
\* to one whose outcome was reported ambiguous, or because the registration it
\* was committed for was refused: every other way a dispatch ends releases it.
CommittedIsAccountedFor ==
    Quiet => \A r \in DOMAIN reservations :
        reservations[r].state = "Committed" =>
            \/ r \in stranded
            \/ \E i \in DOMAIN attempts :
                  /\ attempts[i].binding.reservation = r
                  /\ attempts[i].state \in A!Live \union {"OutcomeUnknown"}

(* What the documentation says of the scheduler and the code does not do. *)

\* "The plan is retired when the operation is superseded, cancelled or
\* completed, which bounds the map" (README.md): once every call has returned,
\* no plan of record is left for an attempt whose completion committed.
CompletedPlanIsGone ==
    Quiet => \A i \in DOMAIN plans : i \in DOMAIN attempts => ~attempts[i].completion_committed

\* A committed reservation is "bound to an authoritative dispatch" (README.md):
\* once every call has returned, it is the reservation of a registered attempt.
CommittedIsBound ==
    Quiet => \A r \in DOMAIN reservations :
        reservations[r].state = "Committed" =>
            \E i \in DOMAIN attempts : attempts[i].binding.reservation = r

\* Retired plans "can never be dispatched again" (ARCHITECTURE.md): an attempt
\* that cancel() reported as cancelled before dispatch never crosses the channel.
CancelledNeverSent == \A e \in wire : e.id \notin cancelled

\* RetryPolicy::max_attempts is the "total attempts including the first, bounded"
\* (policy.hpp): an attempt and the retries it led to cross the channel no more
\* often than that.
AttemptsWithinPolicy ==
    \A i \in DOMAIN attempts :
        Cardinality({e \in wire : i \in {e.id} \union Replaced(e.id)}) <= MaxRetryAttempts
=============================================================================
