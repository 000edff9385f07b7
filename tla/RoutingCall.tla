----------------------------- MODULE RoutingCall -----------------------------
(***************************************************************************)
(* What one routing call promises its caller, stated without models,      *)
(* catalogs or policies (design sections 4.1 and 5): a call either fails  *)
(* before reaching any provider or invokes one; a failed invocation is   *)
(* retried at most once, and only when the policy allows escalation; the *)
(* call ends with exactly one result, ok or an error, and it does end     *)
(* as long as every provider invocation returns.                         *)
(***************************************************************************)
EXTENDS Naturals

VARIABLES
    cphase,        \* "idle", "calling" (a provider invocation in flight), "returned"
    invocations,   \* provider invocations the call has made
    retryAllowed,  \* the policy's allow_escalation for this call
    result         \* "none" until the call returns, then "ok" or "error"

cvars == <<cphase, invocations, retryAllowed, result>>

Init ==
    /\ cphase = "idle"
    /\ invocations = 0
    /\ retryAllowed \in BOOLEAN
    /\ result = "none"

\* The call starts: it fails at once, or invokes a first provider.
Begin ==
    /\ cphase = "idle"
    /\ retryAllowed' \in BOOLEAN
    /\ \/ /\ cphase' = "returned" /\ invocations' = 0 /\ result' = "error"
       \/ /\ cphase' = "calling" /\ invocations' = 1 /\ result' = result

\* The provider answers.
Answer ==
    /\ cphase = "calling"
    /\ cphase' = "returned"
    /\ result' = "ok"
    /\ UNCHANGED <<invocations, retryAllowed>>

\* The call ends with an error while or after a provider was invoked.
GiveUp ==
    /\ cphase = "calling"
    /\ cphase' = "returned"
    /\ result' = "error"
    /\ UNCHANGED <<invocations, retryAllowed>>

\* The single retry after a failed first invocation.
Retry ==
    /\ cphase = "calling"
    /\ invocations = 1
    /\ retryAllowed
    /\ invocations' = 2
    /\ UNCHANGED <<cphase, retryAllowed, result>>

Respond == Answer \/ GiveUp \/ Retry

Next == Begin \/ Respond

Spec == Init /\ [][Next]_cvars /\ WF_cvars(Respond)

=============================================================================
