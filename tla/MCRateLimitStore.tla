------------------------- MODULE MCRateLimitStore -------------------------
(* Small instances of RateLimitStore for TLC. *)
EXTENDS RateLimitStore, TLC

CONSTANTS k1, k2, r1, r2, t1, t2

Cmd(k, r, dur, lr, lt, tok) ==
  [key |-> k, request |-> r, duration |-> dur,
   limits |-> [d \in Dims |-> IF d = "requests" THEN lr ELSE lt],
   reserve |-> [d \in Dims |-> IF d = "requests" THEN 1 ELSE tok]]

Pay(o, req, tok) ==
  [op |-> o, charge |-> [d \in Dims |-> IF d = "requests" THEN req ELSE tok]]

(* One bucket.  r1 and r2 fit the token limit together; r1 with the larger    *)
(* reservation does not, conflicts with the other r1 when it is a replay, and *)
(* can overflow the counter.                                                 *)
OneKeyCommands == {Cmd(k1, r1, 1, 2, 3, 2), Cmd(k1, r1, 1, 2, 3, 3), Cmd(k1, r2, 2, 2, 3, 1)}

(* Two buckets that compete for capacity. *)
TwoKeyCommands == {Cmd(k1, r1, 1, 2, 0, 1), Cmd(k1, r2, 1, 2, 0, 1), Cmd(k2, r2, 1, 1, 0, 1)}

TwoPayloads == {Pay("final", 1, 0), Pay("final", 1, 3)}
OnePayload == {Pay("final", 1, 1)}

ThreadSymmetry == Permutations(Threads)
=============================================================================
