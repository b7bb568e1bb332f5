--------------------------- MODULE ProxyBalancing ---------------------------
(* kong-proxy's load balancer of one upstream and the health checker it asks. *)
(* Balancers are rebuilt when upstreams are refreshed; the checker outlives   *)
(* them.  Requests report what they saw (passive checks), and a background    *)
(* round probes the targets registered when it started (active checks).       *)
(* Picks and reports are atomic: one fetch_add, one write lock.               *)
EXTENDS Integers, Sequences, FiniteSets, SequencesExt

CONSTANTS
  TargetLists,     \* the target lists an upstream is given: [address, weight]
  Algorithms,      \* subset of {"round-robin", "consistent-hashing", "least-connections", "latency"}
  Configs,         \* health check configurations: the four thresholds
  Reports(_),      \* the kinds of passive report that occur under a configuration
  Keys,            \* hash keys
  Slots,           \* the upstream's slots
  HashOf(_),       \* compute_hash
  MaxPicks,        \* bound on the round-robin index
  MaxConnections   \* bound on the open connections to one target

ReportKinds == {"success", "healthy", "unhealthy", "tcp", "timeout", "other"}

\* Thresholds are i32, and decide only above 0; a report is one of the checker's
\* methods, "other" being a status in neither list.
ASSUME BalancingAssumption ==
  \A c \in Configs :
    /\ c.successes \in Int /\ c.http_failures \in Int /\ c.tcp_failures \in Int /\ c.timeouts \in Int
    /\ Reports(c) \subseteq ReportKinds

VARIABLES
  algorithm, targets, rr_index, connection_counts,
  health,          \* address -> TargetHealth, for the registered targets
  config,
  probes,          \* what is left of the running round of active checks
  picks,           \* ghost: picks since the healthy targets last changed
  seen             \* ghost: address -> its reports since registration, newest last

balancingVars == <<algorithm, targets, rr_index, connection_counts, health, config, probes,
                   picks, seen>>

Indices == DOMAIN targets

(***************************************************************************)
(* The health checker.                                                     *)
(***************************************************************************)
FreshHealth == [healthy |-> TRUE, successes |-> 0, tcp_failures |-> 0, timeouts |-> 0,
                http_failures |-> 0]

\* Counters are compared with their threshold only, so they stop there.
Inc(n, threshold) == IF n < threshold THEN n + 1 ELSE n
Reached(n, threshold) == threshold > 0 /\ n >= threshold

Successful(h, c) ==
  LET n == Inc(h.successes, c.successes)
  IN [h EXCEPT !.successes = n, !.healthy = @ \/ Reached(n, c.successes)]

report_success(h, c) ==
  [Successful(h, c) EXCEPT !.tcp_failures = 0, !.timeouts = 0, !.http_failures = 0]

\* Mutant: a failing status does not interrupt a run of successes.
HttpFailed_KeepsSuccesses(h, c) ==
  LET n == Inc(h.http_failures, c.http_failures)
  IN [h EXCEPT !.http_failures = n, !.healthy = @ /\ ~Reached(n, c.http_failures)]

HttpFailed(h, c) ==
  LET n == Inc(h.http_failures, c.http_failures)
  IN [h EXCEPT !.http_failures = n, !.successes = 0, !.healthy = @ /\ ~Reached(n, c.http_failures)]

\* A status that is in neither list changes nothing.
report_http_status(h, c, status) ==
  CASE status = "unhealthy" -> HttpFailed(h, c)
    [] status = "healthy"   -> [Successful(h, c) EXCEPT !.http_failures = 0]
    [] OTHER -> h

report_tcp_failure(h, c) ==
  LET n == Inc(h.tcp_failures, c.tcp_failures)
  IN [h EXCEPT !.tcp_failures = n, !.successes = 0, !.healthy = @ /\ ~Reached(n, c.tcp_failures)]

report_timeout(h, c) ==
  LET n == Inc(h.timeouts, c.timeouts)
  IN [h EXCEPT !.timeouts = n, !.successes = 0, !.healthy = @ /\ ~Reached(n, c.timeouts)]

Reported(h, c, kind) ==
  CASE kind = "success" -> report_success(h, c)
    [] kind = "tcp"     -> report_tcp_failure(h, c)
    [] kind = "timeout" -> report_timeout(h, c)
    [] OTHER -> report_http_status(h, c, kind)

is_healthy(addr) == addr \in DOMAIN health => health[addr].healthy

HealthyIndices == {i \in Indices : is_healthy(targets[i].address)}

\* All targets when none is healthy.
Eligible == IF HealthyIndices = {} THEN Indices ELSE HealthyIndices

\* As many reports as the longest run that decides.
Remembered ==
  LET ns == {config.successes, config.http_failures, config.tcp_failures, config.timeouts}
  IN CHOOSE n \in ns : \A m \in ns : m <= n

Noted(log, kind) ==
  LET longer == Append(log, kind)
  IN IF kind = "other" THEN log ELSE IF Len(longer) > Remembered THEN Tail(longer) ELSE longer

\* A change of the healthy targets starts a new series of picks.
Restarted(before) == IF HealthyIndices' = before THEN picks ELSE <<>>

update_health(addr, kind) ==
  /\ health' = IF addr \in DOMAIN health
               THEN [health EXCEPT ![addr] = Reported(@, config, kind)] ELSE health
  /\ seen' = IF addr \in DOMAIN health THEN [seen EXCEPT ![addr] = Noted(@, kind)] ELSE seen
  /\ UNCHANGED <<algorithm, targets, rr_index, connection_counts, config>>
  /\ picks' = Restarted(HealthyIndices)

PassiveReport ==
  \E i \in Indices, kind \in Reports(config) :
    update_health(targets[i].address, kind) /\ UNCHANGED probes

\* start_active_checks: one round at a time, over the addresses registered at its start.
StartRound ==
  /\ probes = {} /\ config.active /\ DOMAIN health # {}
  /\ probes' = DOMAIN health
  /\ UNCHANGED <<algorithm, targets, rr_index, connection_counts, health, config, picks, seen>>

\* do_http_check answers with a status, fails to connect, or runs into the timeout.
ProbeAnswers ==
  \E addr \in probes, kind \in {"healthy", "unhealthy", "tcp", "timeout"} :
    /\ update_health(addr, kind)
    /\ probes' = probes \ {addr}

register_upstream ==
  \E list \in TargetLists, c \in Configs :
    LET addrs == {list[i].address : i \in DOMAIN list}
    IN /\ health' = [a \in addrs |-> FreshHealth]
       /\ seen' = [a \in addrs |-> <<>>]
       /\ config' = c
       /\ UNCHANGED <<algorithm, targets, rr_index, connection_counts, probes>>
       /\ picks' = Restarted(HealthyIndices)

(***************************************************************************)
(* The balancer.                                                           *)
(***************************************************************************)
Weighted(list) == SelectSeq(list, LAMBDA t : t.weight > 0)

\* LoadBalancer::new, when update_upstreams rebuilds the balancers ...
NewBalancer ==
  \E list \in TargetLists, a \in Algorithms :
    /\ targets' = Weighted(list)
    /\ algorithm' = a
    /\ rr_index' = 0
    /\ connection_counts' = [i \in DOMAIN targets' |-> 0]
    /\ picks' = <<>>
    /\ UNCHANGED <<health, config, probes, seen>>

\* ... and new targets for a balancer, which keeps its round-robin index (and
\* takes 10000 slots for the ring, whatever the upstream's number).
update_targets ==
  \E list \in TargetLists :
    /\ targets' = Weighted(list)
    /\ connection_counts' = [i \in DOMAIN targets' |-> 0]
    /\ picks' = <<>>
    /\ UNCHANGED <<algorithm, rr_index, health, config, probes, seen>>

gcd(ns) ==
  LET divides(d) == \A n \in ns : n % d = 0
      most == CHOOSE n \in ns : \A m \in ns : m <= n
  IN CHOOSE d \in 1..most : divides(d) /\ \A e \in (d + 1)..most : ~divides(e)

\* The indices of a set in order, as healthy_indices lists them.
InOrder(S) == [k \in 1..Cardinality(S) |-> CHOOSE i \in S : Cardinality({j \in S : j < i}) = k - 1]

Reduced(S) ==
  LET g == gcd({targets[i].weight : i \in S})
  IN [i \in S |-> targets[i].weight \div g]

WheelSize(S) == LET r == Reduced(S) IN FoldLeft(+, 0, [k \in 1..Cardinality(S) |-> r[InOrder(S)[k]]])

\* Slots are dealt to the target with most slots left, the last of equals.
Best(remaining, S) ==
  CHOOSE i \in S : \A j \in S : remaining[j] < remaining[i] \/ (remaining[j] = remaining[i] /\ j <= i)

Remaining(S) ==
  LET after[k \in 0..WheelSize(S)] ==
        IF k = 0 THEN Reduced(S)
        ELSE LET r == after[k - 1] IN [r EXCEPT ![Best(r, S)] = @ - 1]
  IN after

WheelAt(S, pos) == Best(Remaining(S)[pos], S)

\* Mutant: the position taken modulo the number of targets, not the wheel.
WeightedPick_ShortWheel(S) == WheelAt(S, rr_index % Cardinality(S))

WeightedPick(S) == WheelAt(S, rr_index % WheelSize(S))

\* build_hash_ring: every target has vnodes in proportion to its weight, at least one.
HashRing ==
  LET total == FoldLeft(+, 0, [i \in Indices |-> targets[i].weight])
      vnodes(i) == LET n == (targets[i].weight * Slots) \div total IN IF n = 0 THEN 1 ELSE n
  IN UNION {{[hash |-> HashOf(<<targets[i].address, v>>), target |-> i] : v \in 1..vnodes(i)}
              : i \in Indices}

\* The first healthy target clockwise of the key; a proxied request passes no
\* key, which hashes as "default".
consistent_hash_select(key, S) ==
  LET h == HashOf(key)
      ring == {n \in HashRing : n.target \in S}
      ahead == {n \in ring : n.hash >= h}
      from == IF ahead = {} THEN ring ELSE ahead
  IN (CHOOSE n \in from : \A m \in from : n.hash <= m.hash).target

Load(i) == (connection_counts[i] * 100) \div targets[i].weight

least_connections_select(S) ==
  CHOOSE i \in S : \A j \in S : Load(i) < Load(j) \/ (Load(i) = Load(j) /\ i <= j)

UsesWheel == algorithm \in {"round-robin", "latency"} \/ HealthyIndices = {}

\* select_with_key, over the eligible targets S.
Chosen(key, S) ==
  IF UsesWheel THEN IF Cardinality(S) = 1 THEN CHOOSE i \in S : TRUE ELSE WeightedPick(S)
  ELSE IF algorithm = "consistent-hashing" THEN consistent_hash_select(key, S)
  ELSE least_connections_select(S)

Select ==
  \E key \in IF algorithm = "consistent-hashing" THEN Keys ELSE {"default"} :
    /\ targets # <<>> /\ rr_index < MaxPicks
    /\ LET i == Chosen(key, Eligible)
       IN picks' = Append(picks, [key |-> key, target |-> i,
                                  least |-> \A j \in Eligible : Load(i) <= Load(j)])
    /\ rr_index' = IF UsesWheel /\ Cardinality(Eligible) > 1 THEN rr_index + 1 ELSE rr_index
    /\ Len(picks) < MaxPicks
    /\ UNCHANGED <<algorithm, targets, connection_counts, health, config, probes, seen>>

increment_connections ==
  \E i \in Indices :
    /\ connection_counts[i] < MaxConnections
    /\ connection_counts' = [connection_counts EXCEPT ![i] = @ + 1]
    /\ UNCHANGED <<algorithm, targets, rr_index, health, config, probes, picks, seen>>

decrement_connections ==
  \E i \in Indices :
    /\ connection_counts' = [connection_counts EXCEPT ![i] = IF @ > 0 THEN @ - 1 ELSE 0]
    /\ UNCHANGED <<algorithm, targets, rr_index, health, config, probes, picks, seen>>

BalancingInit ==
  /\ algorithm \in Algorithms
  /\ targets = <<>> /\ rr_index = 0 /\ connection_counts = <<>>
  /\ health = <<>> /\ seen = <<>> /\ config \in Configs
  /\ probes = {} /\ picks = <<>>

Balancing == NewBalancer \/ update_targets \/ Select \/ increment_connections \/ decrement_connections
HealthChecking == register_upstream \/ PassiveReport \/ StartRound \/ ProbeAnswers

BalancingSpec == BalancingInit /\ [][Balancing \/ HealthChecking]_balancingVars

-----------------------------------------------------------------------------
(* Properties *)

\* The picks follow the algorithm for as long as the healthy targets stay the
\* same, over rebuilds and health changes (balancer.rs).  A pick is eligible.
\* On the wheel, any series of picks as long as the wheel gives every target
\* exactly its share of the weight; hashing sends one key to one target; the
\* least connected target, relative to its weight, is taken.
PicksFollowAlgorithm ==
  LET n == Len(picks)
      size == WheelSize(Eligible)
      window == {k \in 1..n : k > n - size}
  IN picks # <<>> =>
       /\ picks[n].target \in Eligible
       /\ UsesWheel /\ n >= size =>
            \A i \in Eligible : Cardinality({k \in window : picks[k].target = i}) = Reduced(Eligible)[i]
       /\ ~UsesWheel /\ algorithm = "consistent-hashing" =>
            \A k \in 1..n : picks[k].key = picks[n].key => picks[k].target = picks[n].target
       /\ ~UsesWheel /\ algorithm = "least-connections" =>
            picks[n].least

\* A run of consecutive reports of one kind, as long as its threshold, decides
\* (health.rs: "Consecutive successes required to be deemed healthy", and so
\* on), whatever passive and active reports came before it; and the successes
\* a target is credited with were consecutive.
HealthFollowsRuns ==
  \A a \in DOMAIN health :
    LET run(kinds, n) == /\ n > 0 /\ Len(seen[a]) >= n
                         /\ \A k \in (Len(seen[a]) - n + 1)..Len(seen[a]) : seen[a][k] \in kinds
    IN /\ run({"healthy", "success"}, config.successes) => health[a].healthy
       /\ run({"unhealthy"}, config.http_failures) => ~health[a].healthy
       /\ run({"tcp"}, config.tcp_failures) => ~health[a].healthy
       /\ run({"timeout"}, config.timeouts) => ~health[a].healthy
       /\ health[a].successes >= 2 => run({"healthy", "success"}, 2)
=============================================================================
