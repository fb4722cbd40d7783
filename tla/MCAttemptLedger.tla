-------------------------- MODULE MCAttemptLedger --------------------------
(* Three identities in a shard with room for two records, one of them only  *)
(* known from recovery; a worker that was replaced by a new boot;           *)
(* submissions that leave the optional bindings unnamed; results that       *)
(* conflict or are too large; a recovered generation above every other.     *)
(* For the races of two prune_history() calls: one identity in each of two  *)
(* shards, one binding and two results.                                     *)
EXTENDS AttemptLedger, TLC

CONSTANTS p1, p2
Pruners == Permutations({p1, p2})

Bind(worker, boot, capability) ==
    [worker |-> worker, boot |-> boot, epoch |-> 1, domain |-> 1,
     capability |-> capability, provenance |-> 1]
MCBinding == {Bind(1, 1, 1), Bind(0, 2, 0)}
MCOneBinding == {Bind(1, 1, 1)}

Res(success, digest, bytes) ==
    [success |-> success, digest |-> digest, bytes |-> bytes, failure |-> "None"]
MCTwoResults == {Res(TRUE, 1, 1), Res(FALSE, 1, 1)}
MCResult == {Res(TRUE, 1, 1), Res(FALSE, 1, 1), Res(TRUE, 1, 2)}

Rec(generation, state, resolution, committed, result) ==
    [operation |-> 1, generation |-> generation, binding |-> Bind(1, 1, 1), dispatch |-> 1,
     state |-> state, resolution |-> resolution, failure |-> "None",
     completion_committed |-> committed, result |-> result]
MCRecovered ==
    {<<<<0, 3>>, Rec(1, "Completed", "AuthoritativeSuccess", TRUE, Res(TRUE, 1, 1))>>,
     <<<<0, 1>>, Rec(2, "OutcomeUnknown", "Ambiguous", FALSE, NoResult)>>}
MCRecoveredOne ==
    {<<<<1, 1>>, Rec(2, "OutcomeUnknown", "Ambiguous", FALSE, NoResult)>>}
=============================================================================
