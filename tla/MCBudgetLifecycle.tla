------------------------- MODULE MCBudgetLifecycle --------------------------
(* Instances of BudgetLifecycle for TLC. *)
EXTENDS BudgetLifecycle, TLC

CONSTANTS k1, r1, r2, s1, s2

Fact == [status |-> "calculated", amount |-> 1, reason |-> ""]
Missing == [status |-> "unavailable", amount |-> 0, reason |-> "missing_usage_fact"]
MCFactCosts == {Fact, Missing}
MCCosts == MCFactCosts \cup {AbortZero, NoAttemptZero, CancelZero, CancelUnknown, PriceMismatch}

Resolve(n) == [status |-> "settle", amount |-> n, reason |-> ""]
MCResolutions == {Resolve(1)}

RequestSymmetry == Permutations({r1, r2})

OneKey == [r \in Requests |-> k1]
SameConfig == [s \in Sessions |-> 8]
=============================================================================
