--------------------------- MODULE MCBudgetLedger ---------------------------
(* Instances of BudgetLedger for TLC. *)
EXTENDS BudgetLedger, TLC

CONSTANTS k1, r1, r2, s1, s2

VARIABLE part   \* which side of the ledger this behaviour explores

Charge(n) == [status |-> "calculated", amount |-> n, reason |-> ""]
Zero == [status |-> "not_incurred", amount |-> 0, reason |-> "request_aborted"]
Unknown == [status |-> "unavailable", amount |-> 0, reason |-> "cost_unavailable"]
MCCosts == {Charge(1), Charge(2), Zero, Unknown}

Resolve(n) == [status |-> "settle", amount |-> n, reason |-> ""]
Waive == [status |-> "waive", amount |-> 0, reason |-> ""]
MCResolutions == {Resolve(2), Waive}

OneKey == [r \in Requests |-> k1]

TwoConfigs == (s1 :> 8) @@ (s2 :> 4)

(* One session, every command, updates and a reconciliation; two sessions    *)
(* with different configurations, two commands and no administrator; or one  *)
(* session that lasts, two commands, a reconciliation and two rebuilds.      *)
Kept ==
  /\ part # "owners" => expires'[s2] = None /\ clock' <= Lease
  /\ part # "money" =>
       /\ revision' # revision => tail' # tail \/ audit' # audit
       /\ presence'[k1] # "deleted"
       /\ \A r \in Requests : terminal'[r] \notin {Charge(2), Zero, [Waive EXCEPT !.reason = "o1"]}
  /\ part = "owners" => cpRevision' = cpRevision /\ \A o \in Operations : entries'[o] = None
  /\ IF part = "rebuild"
     THEN clock' = 0 /\ ~stopped'[s1]
     ELSE \A b \in Rebuilds : scan'[b] = None

MCInit == Init /\ part \in {"money", "owners", "rebuild"}

MCSpec ==
  /\ MCInit
  /\ [][Next /\ Kept /\ UNCHANGED part]_<<vars, part>>
  /\ WF_vars(Tick) /\ \A r \in Requests : WF_vars(RecoverStale(r))
=============================================================================
