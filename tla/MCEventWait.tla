---------------------------- MODULE MCEventWait ----------------------------
(* Instance of EventWait for TLC: a handler that waits like admin_join, for  *)
(* stop events only, and one that also collects others until its stop event. *)
EXTENDS EventWait

CONSTANTS join, whois

TwoWaiters == {join, whois}
TwoKinds == {"info", "stop"}
MCInterested == [w \in Waiters |-> IF w = join THEN {NoKind} ELSE {"info"}]
MCStops == [w \in Waiters |-> {"stop"}]
============================================================================
