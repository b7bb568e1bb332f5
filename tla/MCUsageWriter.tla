---------------------------- MODULE MCUsageWriter ----------------------------
(* Instances of UsageWriter for TLC. *)
EXTENDS UsageWriter

CONSTANTS p1, p2, f1, f2, f3, f4

VARIABLE part   \* which facts arise in this behaviour

Homes == [f \in Facts |-> IF f = f4 THEN p2 ELSE p1]

(* Two facts that fit the queue; three for a queue of two, with a database   *)
(* that answers; one fact in each of two processes.                          *)
Arising == CASE part = "batch" -> {f1, f2} [] part = "full" -> {f1, f2, f3} [] part = "pair" -> {f1, f4}

Kept ==
  /\ \A f \in Facts \ Arising : caller'[f] = "idle"
  /\ shutdown'[p2] = "none"
  /\ part = "full" => retries'[p1] = 0 /\ zombie'.phase = "none" /\ snapshot' = None

MCInit == Init /\ part \in {"batch", "full", "pair"}

MCSpec ==
  /\ MCInit
  /\ [][Next /\ Kept /\ UNCHANGED part]_<<vars, part>>
  /\ \A p \in Processes : WF_vars(Run(p)) /\ WF_vars(WindowEnds(p))
=============================================================================
