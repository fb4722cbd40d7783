---------------------------- MODULE MCScheduler ----------------------------
(* Small schedulers: threads with different roles over one or two domains.   *)
EXTENDS Scheduler, TLC

CONSTANTS t1, t2, t3, d1, d2

MCTypeOf == [d \in {d1, d2} |-> IF d = d1 THEN "Dpu" ELSE "Nic"]
MCChain == [y \in {"Dpu", "Nic"} |-> IF y = "Dpu" THEN {"Nic"} ELSE {}]
Res(success, failure) == [success |-> success, digest |-> 1, bytes |-> 1, failure |-> failure]
MCResult == {Res(TRUE, "None")}
MCResults == {Res(TRUE, "None"), Res(FALSE, "TransportFailure")}

Client == {"plan", "reserve", "dispatch"}
Roles(r1, r2, r3) == [t \in {t1, t2, t3} |-> IF t = t1 THEN r1 ELSE IF t = t2 THEN r2 ELSE r3]

\* A client, an operator and an executor.
RacingRoles == Roles(Client, {"cancel", "fence_domain", "publish", "shutdown"},
                     {"complete", "report_failure"})

\* Two callers that share copies of plans.
CopyRoles == Roles(Client, Client \union {"copy"}, {"complete", "report_failure", "cancel"})

\* A client that falls back, and two threads that may retry what it did and
\* dispatch what they planned.
ReplayRoles == Roles({"plan", "dispatch", "fallback"}, {"retry", "dispatch"},
                     {"complete", "report_failure", "retry", "dispatch"})

\* The original plan of a fallback stays with a caller who dispatches it.
FallbackRoles == Roles({"plan", "reserve", "fallback"}, {"copy", "dispatch"}, {})
=============================================================================
