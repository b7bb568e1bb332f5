----------------------------- MODULE AiRouting -----------------------------
(* The request side of ai-proxy: the body is decoded, a model and its         *)
(* provider are chosen (from the routes of the plugin, from the plugin's own  *)
(* provider, or from a model group of the database that is cached for a short *)
(* while), the upstream is set and, where a policy asks for it, redirected to *)
(* the context compression backend.  Requests run concurrently.               *)
EXTENDS Naturals, Sequences, SequencesExt, FiniteSets, TLC

CONSTANTS
  Nil,
  Clients,        \* connections, each with one request at a time
  Bodies,         \* what they may ask
  ModelRows,      \* the rows an id of ai_models may hold, by id
  ProviderRows,   \* the rows an id of ai_providers may hold, by id
  Refresh,        \* refresh_interval
  HealthTtl,      \* health_ttl of the backend
  MaxRouters,     \* 256 in the code
  MaxWeight,      \* MAX_MODEL_WEIGHT
  MaxLoad,        \* the longest a load of a group may take
  MaxEdits, MaxNow, MaxServed

\* Nil is no outcome of the compression.
ASSUME RoutingAssumption == Nil \notin {<<"applied", "applied">>, <<"rejected", "backend_unhealthy">>}

VARIABLES
  models, providers,   \* the database
  edits,
  changed,             \* ghost: when each row was last changed
  now,
  cached,              \* cache of the resolver: group -> [at, pairs, wheel] or Nil
  refreshing,          \* holder of refresh_lock
  wheels,              \* balancers and routers ever built: [pairs, counter, picks]
  routers,             \* model_routers: rules -> index of a wheel
  probed,              \* HealthSnapshot
  probing,             \* holder of its mutex
  place, req,          \* where the request of each client is, and its locals
  served               \* requests begun

routingVars == <<models, providers, edits, changed, now, cached, refreshing, wheels, routers, probed, probing, place, req, served>>

(***************************************************************************)
(* weighted_round_robin_index                                              *)
(***************************************************************************)
Total(s) == FoldLeft(LAMBDA a, b : a + b, 0, s)
Greatest(S) == CHOOSE x \in S : \A y \in S : y <= x
Divisor(w) == Greatest({d \in 1..Greatest(ToSet(w)) : \A i \in DOMAIN w : w[i] % d = 0})
Scaled(w) == [i \in DOMAIN w |-> w[i] \div Divisor(w)]
SlotsThroughRound(w, round) == Total([i \in DOMAIN w |-> IF w[i] < round THEN w[i] ELSE round])
WeightedIndex(weights, sequence) ==
  LET w == Scaled(weights)
      slot == sequence % Total(w)
      round == CHOOSE r \in 1..Greatest(ToSet(w)) :
                 SlotsThroughRound(w, r) > slot /\ (r = 1 \/ SlotsThroughRound(w, r - 1) <= slot)
      heavy == {i \in DOMAIN w : w[i] >= round}
  IN SetToSortSeq(heavy, <)[slot - SlotsThroughRound(w, round - 1) + 1]

(***************************************************************************)
(* ModelGroupBalancer                                                      *)
(***************************************************************************)
\* ModelGroupBalancer::new sorts by priority, then by id.
Balancer(pairs, history) ==
  [pairs |-> SetToSortSeq(pairs, LAMBDA a, b : \/ a.model.priority > b.model.priority
                                               \/ a.model.priority = b.model.priority /\ a.model.id < b.model.id),
   counter |-> 0, picks |-> history]

FitsTokenBudget(m, prompt) == m.max = Nil \/ m.max <= 0 \/ prompt <= m.max
Usable(w, prompt) == {i \in DOMAIN w.pairs : w.pairs[i].model.enabled /\ FitsTokenBudget(w.pairs[i].model, prompt)}
\* The candidates of the highest priority that has any
Tier(w, prompt) ==
  LET u == Usable(w, prompt)
      top == {i \in u : \A j \in u : w.pairs[j].model.priority <= w.pairs[i].model.priority}
  IN SetToSortSeq(top, <)
\* select_for: one place of the counter per selection, whatever the tier
Pick(w, tier) ==
  LET weights == [i \in DOMAIN tier |-> IF w.pairs[tier[i]].model.weight < 0 THEN 0 ELSE w.pairs[tier[i]].model.weight]
  IN IF ToSet(weights) = {0} THEN tier[(w.counter % Len(tier)) + 1]
     ELSE tier[WeightedIndex(weights, w.counter)]
Picked(w, tier, i) ==
  [w EXCEPT !.counter = @ + 1, !.picks = Append(@, [tier |-> tier, pick |-> i])]

(***************************************************************************)
(* ModelRouter                                                             *)
(***************************************************************************)
ValidRules(rules) ==
  \A i \in DOMAIN rules : rules[i].targets # <<>> /\ \A j \in DOMAIN rules[i].targets : rules[i].targets[j].weight <= MaxWeight
Router(rules) == [pairs |-> rules, counter |-> 0, picks |-> <<>>]
MatchingRules(w, name) == {i \in DOMAIN w.pairs : name \in w.pairs[i].pattern}
\* resolve: one target, or weights of zero, take no place of the counter
NeedsCounter(targets) == Len(targets) > 1 /\ \E j \in DOMAIN targets : targets[j].weight > 0
TargetIndex(w, targets) ==
  IF NeedsCounter(targets) THEN WeightedIndex([j \in DOMAIN targets |-> targets[j].weight], w.counter) ELSE 1

(***************************************************************************)
(* AiProxyConfig                                                           *)
(***************************************************************************)
EffectiveClientProtocol(c) == IF c.client # "openai" THEN c.client ELSE IF c.format # Nil THEN c.format ELSE c.client
EffectiveModelName(c) == IF c.group # "" THEN c.group ELSE c.model
\* The name of the model: of the plugin, unless the request is to say.
ModelName(c, b) ==
  IF c.source = "request" THEN b.model
  ELSE IF EffectiveModelName(c) # "" THEN EffectiveModelName(c) ELSE b.model
InlineProvider(c) == IF c.group # "" THEN Nil ELSE c.inline

(***************************************************************************)
(* access                                                                  *)
(***************************************************************************)
Waiting == [body |-> Nil, name |-> "", began |-> 0, wheel |-> 0, found |-> {}, rows |-> <<>>, todo |-> {},
            loading |-> Nil, model |-> Nil, provider |-> Nil,
            upstream |-> Nil, headers |-> {}, removed |-> {}, tool |-> FALSE, surface |-> Nil, stream |-> FALSE,
            outcome |-> Nil, compression |-> Nil]
Cfg(r) == req[r].body.cfg
At(r, p) == place[r] = p
Go(r, p) == place' = [place EXCEPT ![r] = p]
Set(r, x) == req' = [req EXCEPT ![r] = x]
Ended(r, x, how) == Go(r, "end") /\ Set(r, [x EXCEPT !.outcome = how])
Db == <<models, providers, edits, changed, now>>
Resolver == <<cached, refreshing>>
Backend == <<probed, probing>>

\* Parsing of the request and choice of the model's name
Accept(r) ==
  /\ place[r] \in {"idle", "end"} /\ served < MaxServed
  /\ served' = served + 1
  /\ \E b \in Bodies :
       LET x == [Waiting EXCEPT !.body = b, !.name = ModelName(b.cfg, b), !.began = now] IN
       CASE b.bytes > b.cfg.maxBytes -> Ended(r, x, "413")
         [] b.bytes <= b.cfg.maxBytes /\ ~b.json -> Ended(r, x, "error")
         [] b.bytes <= b.cfg.maxBytes /\ b.json /\ b.cfg.type = "responses" /\ b.background -> Ended(r, x, "400")
         [] OTHER -> IF x.name = "" THEN Ended(r, x, "error") ELSE Go(r, "route") /\ Set(r, x)
  /\ UNCHANGED <<Db, Resolver, Backend, wheels, routers>>

\* model_router: under one mutex, a router for these rules or a new one
RouteByRules(r) ==
  /\ At(r, "route") /\ Cfg(r).rules # <<>>
  /\ LET rules == Cfg(r).rules
         kept == IF Cardinality(DOMAIN routers) >= MaxRouters THEN <<>> ELSE routers
     IN IF rules \in DOMAIN routers
        THEN /\ Set(r, [req[r] EXCEPT !.wheel = routers[rules]]) /\ Go(r, "rule")
             /\ UNCHANGED <<served, wheels, routers>>
        ELSE IF ValidRules(rules)
        THEN /\ wheels' = Append(wheels, Router(rules))
             /\ routers' = (rules :> Len(wheels) + 1) @@ kept
             /\ Set(r, [req[r] EXCEPT !.wheel = Len(wheels) + 1]) /\ Go(r, "rule")
        ELSE /\ routers' = kept
             /\ Ended(r, req[r], "error") /\ UNCHANGED wheels
  /\ UNCHANGED <<served, Db, Resolver, Backend>>

\* resolve: the first rule whose pattern matches
PickTarget(r) ==
  LET w == wheels[req[r].wheel]
      matching == MatchingRules(w, req[r].name)
      rule == CHOOSE i \in matching : \A j \in matching : i <= j
      targets == w.pairs[rule].targets
      t == TargetIndex(w, targets)
  IN
  /\ At(r, "rule")
  /\ IF matching = {} THEN Ended(r, req[r], "error") /\ UNCHANGED wheels
     ELSE /\ wheels' = IF NeedsCounter(targets)
                       THEN [wheels EXCEPT ![req[r].wheel] = Picked(@, <<rule>>, t)] ELSE wheels
          /\ Set(r, [req[r] EXCEPT !.model = [name |-> targets[t].model, max |-> Nil],
                                   !.provider = [type |-> targets[t].provider, standard |-> TRUE]])
          /\ Go(r, "prepare")
  /\ UNCHANGED <<served, Db, Resolver, Backend, routers>>

RouteInline(r) ==
  /\ At(r, "route") /\ Cfg(r).rules = <<>> /\ InlineProvider(Cfg(r)) # Nil
  /\ Set(r, [req[r] EXCEPT !.model = [name |-> req[r].name, max |-> Nil], !.provider = InlineProvider(Cfg(r))])
  /\ Go(r, "prepare")
  /\ UNCHANGED <<served, Db, Resolver, Backend, wheels, routers>>

(***************************************************************************)
(* ModelGroupResolver                                                      *)
(***************************************************************************)
\* Mutant: a cached group is served for ever.
IsFresh_Forever(g) == cached[g] # Nil

IsFresh(g) == cached[g] # Nil /\ now - cached[g].at < Refresh

CachedGroup(r) ==
  /\ At(r, "route") /\ Cfg(r).rules = <<>> /\ InlineProvider(Cfg(r)) = Nil
  /\ IF IsFresh(req[r].name)
     THEN Set(r, [req[r] EXCEPT !.wheel = cached[req[r].name].wheel]) /\ Go(r, "select")
     ELSE Go(r, "lock") /\ UNCHANGED req
  /\ UNCHANGED <<served, Db, Resolver, Backend, wheels, routers>>

\* The lock is taken and the cache looked up again before anything is read.
LockRefresh(r) ==
  /\ At(r, "lock") /\ refreshing = Nil
  /\ IF IsFresh(req[r].name)
     THEN /\ Set(r, [req[r] EXCEPT !.wheel = cached[req[r].name].wheel])
          /\ Go(r, "select") /\ UNCHANGED refreshing
     ELSE /\ refreshing' = r /\ Set(r, [req[r] EXCEPT !.loading = now])
          /\ Go(r, "models")
  /\ UNCHANGED <<served, Db, cached, Backend, wheels, routers>>

ReadFails(r) ==
  /\ place[r] \in {"models", "providers"}
  /\ refreshing' = Nil
  /\ Ended(r, [req[r] EXCEPT !.loading = Nil], "error")
  /\ UNCHANGED <<served, Db, cached, Backend, wheels, routers>>

ReadModels(r) ==
  LET found == {id \in DOMAIN models : models[id] # Nil /\ models[id].enabled /\ models[id].name = req[r].name} IN
  /\ At(r, "models")
  /\ Set(r, [req[r] EXCEPT !.found = {models[id] : id \in found}, !.todo = {models[id].provider : id \in found},
                           !.rows = <<>>])
  /\ Go(r, "providers")
  /\ UNCHANGED <<served, Db, Resolver, Backend, wheels, routers>>

\* One select per distinct provider
ReadProvider(r) ==
  /\ At(r, "providers")
  /\ \E p \in req[r].todo :
       Set(r, [req[r] EXCEPT !.todo = @ \ {p}, !.rows = (p :> providers[p]) @@ @])
  /\ UNCHANGED <<served, Db, Resolver, Backend, wheels, routers, place>>

\* group_signature leaves out timestamps and tags.
Signature(pairs) == {[model |-> [p.model EXCEPT !.tag = Nil], provider |-> [p.provider EXCEPT !.tag = Nil]] : p \in pairs}

\* Mutant: timestamps and tags are part of the signature.
SameGroup_WithTags(c, pairs) == c # Nil /\ c.pairs = pairs

SameGroup(c, pairs) == c # Nil /\ Signature(c.pairs) = Signature(pairs)

\* Ghost: the picks of a group that has not changed go on.
History(c, pairs) ==
  IF c # Nil /\ Signature(c.pairs) = Signature(pairs) THEN wheels[c.wheel].picks ELSE <<>>

StoreGroup(r) ==
  LET x == req[r]
      g == x.name
      pairs == {[model |-> m, provider |-> x.rows[m.provider]] :
                  m \in {n \in x.found : x.rows[n.provider] # Nil /\ x.rows[n.provider].enabled}}
  IN
  /\ At(r, "providers") /\ x.todo = {}
  /\ refreshing' = Nil
  /\ IF pairs = {}
     THEN /\ cached' = [cached EXCEPT ![g] = Nil]
          /\ Ended(r, [x EXCEPT !.loading = Nil], "error") /\ UNCHANGED wheels
     ELSE /\ Go(r, "select")
          /\ IF SameGroup(cached[g], pairs)
             THEN /\ cached' = [cached EXCEPT ![g].at = now]
                  /\ Set(r, [x EXCEPT !.wheel = cached[g].wheel, !.loading = Nil]) /\ UNCHANGED wheels
             ELSE /\ wheels' = Append(wheels, Balancer(pairs, History(cached[g], pairs)))
                  /\ cached' = [cached EXCEPT ![g] = [at |-> now, pairs |-> pairs, wheel |-> Len(wheels) + 1]]
                  /\ Set(r, [x EXCEPT !.wheel = Len(wheels) + 1, !.loading = Nil])
  /\ UNCHANGED <<served, Db, Backend, routers>>

SelectFor(r) ==
  LET w == wheels[req[r].wheel]
      tier == Tier(w, req[r].body.prompt)
      i == Pick(w, tier)
  IN
  /\ At(r, "select")
  /\ IF tier = <<>> THEN Ended(r, req[r], "error") /\ UNCHANGED wheels
     ELSE /\ wheels' = [wheels EXCEPT ![req[r].wheel] = Picked(@, tier, i)]
          /\ Set(r, [req[r] EXCEPT !.model = w.pairs[i].model, !.provider = w.pairs[i].provider])
          /\ Go(r, "prepare")
  /\ UNCHANGED <<served, Db, Resolver, Backend, routers>>

(***************************************************************************)
(* The upstream                                                            *)
(***************************************************************************)
Surface(c, type) ==
  CASE c.type = "responses" /\ type = "openai" -> "responses_raw"
    [] ~(c.type = "responses" /\ type = "openai") /\ EffectiveClientProtocol(c) = "anthropic" /\ type = "anthropic" -> "anthropic_raw"
    [] OTHER -> IF c.type = "responses" THEN "responses" ELSE "chat"
StreamMode(c, asked) == CASE c.streaming = "always" -> TRUE [] c.streaming = "deny" -> FALSE [] OTHER -> asked
Drivers == {"openai", "openai_compat", "anthropic", "gemini"}
Upstream(x, surface, stream) ==
  [x EXCEPT !.surface = surface, !.stream = stream, !.upstream = "provider", !.headers = {"auth"}]

\* The three ways to the provider.  A Responses pass-through streams as the
\* client asks; only a translation can fail on the shape of the request.
ResponsesPassThrough(r, x) == Set(r, Upstream(x, "responses_raw", x.body.stream)) /\ Go(r, "compress")
AnthropicPassThrough(r, x) == Set(r, Upstream(x, "anthropic_raw", StreamMode(Cfg(r), x.body.stream))) /\ Go(r, "compress")
Translate(r, x, surface) ==
  IF x.body.convertible THEN Set(r, Upstream(x, surface, StreamMode(Cfg(r), x.body.stream))) /\ Go(r, "compress")
  ELSE Ended(r, x, "error")

Prepare(r) ==
  LET x == req[r]
      s == Surface(Cfg(r), x.provider.type)
  IN
  /\ At(r, "prepare")
  /\ CASE x.provider.type \notin Drivers -> Ended(r, x, "error")
       [] s = "responses_raw" -> ResponsesPassThrough(r, x)
       [] s = "anthropic_raw" -> AnthropicPassThrough(r, x)
       [] OTHER -> Translate(r, x, s)
  /\ UNCHANGED <<served, Db, Resolver, Backend, wheels, routers>>

(***************************************************************************)
(* apply_context_compression                                               *)
(***************************************************************************)
CompressionProtocol(s, type) ==
  CASE s = "responses_raw" -> "responses"
    [] s # "responses_raw" /\ type = "anthropic" -> "messages"
    [] s # "responses_raw" /\ type \in {"openai", "openai_compat"} -> "openai_chat"
    [] OTHER -> Nil
Bypass(r, x, reason) == Ended(r, [x EXCEPT !.compression = <<"bypassed", reason>>], "upstream")
CompressionUnavailable(r, x, reason) ==
  IF x.body.policy.onUnavailable = "pass_through" THEN Bypass(r, x, reason)
  ELSE Ended(r, [x EXCEPT !.compression = <<"rejected", reason>>], "503")
Scrubbed(x) == [x EXCEPT !.removed = x.body.headroom]

Compress(r) ==
  LET x == Scrubbed(req[r])
      p == x.body.policy
  IN
  /\ At(r, "compress")
  /\ CASE p = Nil -> Ended(r, req[r], "upstream")
       [] p # Nil /\ x.body.bytes > p.maxBytes -> Bypass(r, x, "body_too_large")
       [] p # Nil /\ x.body.bytes <= p.maxBytes /\ x.body.prompt < p.minTokens -> Bypass(r, x, "below_threshold")
       [] OTHER ->
            IF x.stream THEN Bypass(r, x, "streaming")
            ELSE IF CompressionProtocol(x.surface, x.provider.type) = Nil THEN Bypass(r, x, "unsupported_provider")
            ELSE Set(r, x) /\ Go(r, "health")
  /\ UNCHANGED <<served, Db, Resolver, Backend, wheels, routers>>

\* ensure_healthy: the mutex is held while the backend is asked.
EnsureHealthy(r) ==
  /\ At(r, "health") /\ probing = Nil
  /\ IF probed.at # Nil /\ now - probed.at <= HealthTtl
     THEN /\ IF probed.healthy THEN Go(r, "apply") /\ UNCHANGED req
             ELSE CompressionUnavailable(r, req[r], "backend_unhealthy")
          /\ UNCHANGED probing
     ELSE probing' = r /\ Go(r, "probe") /\ UNCHANGED req
  /\ UNCHANGED <<served, Db, Resolver, probed, wheels, routers>>

ProbeAnswered(r) ==
  /\ At(r, "probe")
  /\ \E ok \in BOOLEAN :
       /\ probed' = [at |-> now, healthy |-> ok]
       /\ IF ok THEN Go(r, "apply") /\ UNCHANGED req ELSE CompressionUnavailable(r, req[r], "backend_unhealthy")
  /\ probing' = Nil
  /\ UNCHANGED <<served, Db, Resolver, wheels, routers>>

Redirected(x) == [x EXCEPT !.upstream = "headroom", !.headers = @ \cup {"x-headroom-base-url", "x-headroom-stack"},
                           !.removed = @ \ {"x-headroom-base-url", "x-headroom-stack"},
                           !.compression = <<"applied", "applied">>]

\* Mutant: the upstream is overwritten before the route is known to be complete.
ApplyRoute_Early(r) ==
  LET x == req[r]
      protocol == CompressionProtocol(x.surface, x.provider.type)
      early == [x EXCEPT !.upstream = "headroom"]
  IN CASE protocol = "openai_chat" -> Bypass(r, early, "unsupported_protocol")
       [] protocol = "messages" /\ ~x.provider.standard -> Bypass(r, early, "unsupported_path")
       [] protocol = "responses" /\ ~x.body.toolChoice -> Bypass(r, early, "tool_choice_unsupported")
       [] OTHER -> Ended(r, Redirected([x EXCEPT !.tool = protocol = "responses"]), "upstream")

\* route_for, the tool the backend needs, and the override
ApplyRoute(r) ==
  LET x == req[r]
      protocol == CompressionProtocol(x.surface, x.provider.type)
  IN CASE protocol = "openai_chat" -> Bypass(r, x, "unsupported_protocol")
       [] protocol = "messages" /\ ~x.provider.standard -> Bypass(r, x, "unsupported_path")
       [] protocol = "responses" /\ ~x.body.toolChoice -> Bypass(r, x, "tool_choice_unsupported")
       [] OTHER -> Ended(r, Redirected([x EXCEPT !.tool = protocol = "responses"]), "upstream")

ApplyCompression(r) ==
  /\ At(r, "apply")
  /\ ApplyRoute(r)
  /\ UNCHANGED <<served, Db, Resolver, Backend, wheels, routers>>

(***************************************************************************)
(* The environment                                                         *)
(***************************************************************************)
\* The Admin API writes a row (Nil: deletes it).
EditModel ==
  /\ edits < MaxEdits
  /\ \E id \in DOMAIN models : \E row \in ModelRows[id] \ {models[id]} : models' = [models EXCEPT ![id] = row] /\ changed' = [changed EXCEPT ![id] = now]
  /\ edits' = edits + 1
  /\ UNCHANGED <<served, providers, now, Resolver, Backend, wheels, routers, place, req>>
EditProvider ==
  /\ edits < MaxEdits
  /\ \E id \in DOMAIN providers : \E row \in ProviderRows[id] \ {providers[id]} : providers' = [providers EXCEPT ![id] = row] /\ changed' = [changed EXCEPT ![id] = now]
  /\ edits' = edits + 1
  /\ UNCHANGED <<served, models, now, Resolver, Backend, wheels, routers, place, req>>

Tick ==
  /\ now < MaxNow
  /\ \A r \in Clients : req[r].loading # Nil => now - req[r].loading < MaxLoad
  /\ now' = now + 1
  /\ UNCHANGED <<served, models, providers, edits, changed, Resolver, Backend, wheels, routers, place, req>>

(***************************************************************************)
(* The specification                                                       *)
(***************************************************************************)
RoutingInit ==
  /\ models \in {m \in [DOMAIN ModelRows -> UNION {ModelRows[i] : i \in DOMAIN ModelRows}] : \A i \in DOMAIN m : m[i] \in ModelRows[i]}
  /\ providers \in {p \in [DOMAIN ProviderRows -> UNION {ProviderRows[i] : i \in DOMAIN ProviderRows}] : \A i \in DOMAIN p : p[i] \in ProviderRows[i]}
  /\ edits = 0 /\ changed = [i \in DOMAIN ModelRows \cup DOMAIN ProviderRows |-> 0] /\ now = Refresh + MaxLoad
  /\ cached = [g \in {b.cfg.group : b \in Bodies} \cup {b.cfg.model : b \in Bodies} \cup {b.model : b \in Bodies} |-> Nil]
  /\ refreshing = Nil /\ wheels = <<>> /\ routers = <<>>
  /\ probed = [at |-> Nil, healthy |-> FALSE] /\ probing = Nil
  /\ place = [r \in Clients |-> "idle"] /\ req = [r \in Clients |-> Waiting] /\ served = 0

ClientStep(r) ==
  \/ Accept(r) \/ RouteByRules(r) \/ PickTarget(r) \/ RouteInline(r)
  \/ CachedGroup(r) \/ LockRefresh(r) \/ ReadFails(r) \/ ReadModels(r) \/ ReadProvider(r) \/ StoreGroup(r) \/ SelectFor(r)
  \/ Prepare(r) \/ Compress(r) \/ EnsureHealthy(r) \/ ProbeAnswered(r) \/ ApplyCompression(r)
RoutingNext == (\E r \in Clients : ClientStep(r)) \/ EditModel \/ EditProvider \/ Tick
RoutingSpec == RoutingInit /\ [][RoutingNext]_routingVars

(***************************************************************************)
(* Properties                                                              *)
(***************************************************************************)
\* A model or provider the Admin API changed or disabled no longer serves a
\* request that arrives later than one refresh interval and one load after it:
\* the cached group is replaced, whoever refreshes it and however reads and
\* edits interleave.
EditsReachRequests ==
  \A r \in Clients :
    LET x == req[r] IN
    x.model # Nil /\ x.wheel # 0 /\ Cfg(r).rules = <<>> =>
      /\ models[x.model.id] = x.model \/ changed[x.model.id] + Refresh + MaxLoad > x.began
         \/ (models[x.model.id] # Nil /\ [models[x.model.id] EXCEPT !.tag = x.model.tag] = x.model)
      /\ LET p == x.model.provider IN
         providers[p] = x.provider \/ changed[p] + Refresh + MaxLoad > x.began
         \/ (providers[p] # Nil /\ [providers[p] EXCEPT !.tag = x.provider.tag] = x.provider)

\* While a group keeps its members, any cycle of consecutive selections gives
\* every member its weight's share, however many requests select at once and
\* however often the group is reloaded: a reload that changes nothing does not
\* start the cycle again.
SharesFollowWeights ==
  \A n \in DOMAIN wheels :
    LET w == wheels[n]
        tier == w.picks[1].tier
        weights == [i \in DOMAIN tier |-> w.pairs[tier[i]].model.weight]
        share == Scaled(weights)
        cycle == Total(share)
    IN w.picks # <<>> /\ "model" \in DOMAIN w.pairs[1]
       /\ (\A i \in DOMAIN w.picks : w.picks[i].tier = tier) /\ (\E i \in DOMAIN weights : weights[i] > 0) =>
         \A k \in 1..(Len(w.picks) - cycle + 1), i \in DOMAIN tier :
           Cardinality({j \in k..(k + cycle - 1) : w.picks[j].pick = tier[i]}) = share[i]

\* A request leaves either for its provider, as ai-proxy prepared it, or for the
\* compression backend with everything the backend needs, never half of each;
\* a rejected one does not leave, and none carries a header of the backend that
\* a client sent.
RewrittenWhole ==
  \A r \in Clients :
    LET x == req[r] IN
    place[r] = "end" /\ x.outcome \in {"upstream", "503"} =>
      /\ x.upstream = "headroom" <=> x.compression = <<"applied", "applied">>
      /\ x.upstream = "headroom" <=> "x-headroom-base-url" \in x.headers
      /\ x.tool => x.upstream = "headroom" /\ x.surface = "responses_raw"
      /\ x.upstream = "headroom" => ~x.stream /\ x.provider.type \in {"openai", "anthropic"}
      /\ x.compression # Nil => x.body.headroom \subseteq x.removed \cup x.headers
      /\ x.outcome = "503" <=> x.compression # Nil /\ x.compression[1] = "rejected"

\* response_streaming: "deny" forces an answer that is not streamed.
DenyForcesNonStreaming ==
  \A r \in Clients : place[r] = "end" /\ req[r].outcome = "upstream" /\ Cfg(r).streaming = "deny" => ~req[r].stream
=============================================================================
