----------------------------- MODULE MCLifecycle -----------------------------
(* A small instance of Lifecycle for TLC.  The periods are scaled down, in  *)
(* their order: a warning comes before the expiry, the last one within the  *)
(* renewal window, and only the daily plan has no grace period.             *)
EXTENDS Lifecycle

CONSTANTS daily, monthly

MCPlans == {daily, monthly}
MCTerm == [p \in MCPlans |-> IF p = daily THEN 2 ELSE 3]
MCThresholds == [p \in MCPlans |-> IF p = daily THEN {1} ELSE {1, 2}]
MCGrace == [p \in MCPlans |-> IF p = daily THEN 0 ELSE 1]
MCSuspends == [p \in MCPlans |-> p # daily]
=============================================================================
