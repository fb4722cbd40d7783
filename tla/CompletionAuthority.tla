------------------------ MODULE CompletionAuthority ------------------------
(***************************************************************************)
(* What the attempt ledger promises: every attempt it holds a record of is *)
(* settled at most once.  An attempt is open until it is either decided,   *)
(* with one result, or closed without one; neither can be undone.  The     *)
(* identities to forget are picked among the settled ones, and forgotten   *)
(* later: an identity that was forgotten and has entered again since it    *)
(* was picked may be forgotten while it is open.                           *)
(***************************************************************************)
CONSTANT Result

VARIABLES
    outcome,    \* id -> [open: BOOLEAN, result: at most one Result]
    picked      \* identities that were settled when they were picked

vars == <<outcome, picked>>

Settled == {i \in DOMAIN outcome : ~outcome[i].open}

Init == outcome = [i \in {} |-> 0] /\ picked = {}

\* One attempt is added; the others keep their outcome.
Enter(i, o) ==
    /\ i \notin DOMAIN outcome
    /\ outcome' = [j \in DOMAIN outcome \union {i} |-> IF j = i THEN o ELSE outcome[j]]
    /\ UNCHANGED picked

Begin(i) == Enter(i, [open |-> TRUE, result |-> {}])

\* A settled attempt comes back from durable state.
Recover(i) ==
    \/ Enter(i, [open |-> FALSE, result |-> {}])
    \/ \E r \in Result : Enter(i, [open |-> FALSE, result |-> {r}])

Settle(i, rs) ==
    /\ outcome[i].open
    /\ outcome' = [outcome EXCEPT ![i] = [open |-> FALSE, result |-> rs]]
    /\ UNCHANGED picked

Decide(i) == \E r \in Result : Settle(i, {r})
Close(i) == Settle(i, {})

\* Settled attempts are picked, and picked ones left alone after all.
Pick ==
    /\ picked' \subseteq picked \union Settled
    /\ UNCHANGED outcome

Forget(i) ==
    /\ i \in picked
    /\ outcome' = [j \in DOMAIN outcome \ {i} |-> outcome[j]]
    /\ picked' \subseteq picked

Next ==
    \/ \E i \in DOMAIN outcome' : Begin(i) \/ Recover(i)
    \/ \E i \in DOMAIN outcome : Decide(i) \/ Close(i)
    \/ Pick
    \/ \E i \in picked : Forget(i)

Spec == Init /\ [][Next]_vars
=============================================================================
