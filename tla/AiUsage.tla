------------------------------ MODULE AiUsage ------------------------------
(* What is recorded of an AI request: AiUsageCollector follows it from the    *)
(* resolution of its plugins to its end, merges what the provider reported    *)
(* with what was estimated, prices it from the catalogue or from the price    *)
(* the budget froze before dispatch, and classifies the outcome; the budget   *)
(* finalizer settles the cost it recomputes from that fact.                   *)
EXTENDS AiStream, Integers

CONSTANTS
  Calls,        \* [model, input, output, features, estimate, budgeted, started]
  Catalogs,     \* sequences of price entries
  MaxCost       \* the largest NUMERIC(28,12)

VARIABLES
  call, catalog,
  draft,        \* AiUsageContext
  life,         \* RequestLifecycle: [attempted, answered, completed, transport, hint]
  stage,
  fact,         \* AiUsageFact
  settlement    \* the cost of the settlement command

IsList(s) == s \in Seq({s[k] : k \in DOMAIN s})

ASSUME UsageAssumption ==
  /\ \A k \in Calls : k.started \in Int /\ IsList(k.model)
  /\ \A c \in Catalogs : IsList(c) /\ \A i \in DOMAIN c :
       c[i].from \in Int /\ c[i].to \in Int \cup {None} /\ \A p \in c[i].prefixes : IsList(p)

usageVars == <<call, catalog, draft, life, stage, fact, settlement>>

(***************************************************************************)
(* PriceCatalog                                                            *)
(***************************************************************************)
Active(e, provider, at) == e.provider = provider /\ e.from <= at /\ (e.to = None \/ at < e.to)
Overlap(l, r) == (r.to = None \/ l.from < r.to) /\ (l.to = None \/ r.from < l.to)
Matchers(e) == e.ids \cup e.aliases \cup e.prefixes
\* from_json: validate_matchers and validate_conflicts
ValidCatalog(c) ==
  /\ \A i \in DOMAIN c : Matchers(c[i]) # {} /\ (c[i].to # None => c[i].from < c[i].to)
  /\ \A i, j \in DOMAIN c :
       i # j /\ c[i].provider = c[j].provider /\ Matchers(c[i]) \cap Matchers(c[j]) # {} => ~Overlap(c[i], c[j])
  /\ \A i \in DOMAIN c : Cardinality(Matchers(c[i])) =
       Cardinality(c[i].ids) + Cardinality(c[i].aliases) + Cardinality(c[i].prefixes)

FirstWith(S) == CHOOSE i \in S : \A j \in S : i <= j

\* Mutant: the first matching prefix instead of the longest.
FindEntry_FirstPrefix(c, provider, model, at) ==
  LET active == {i \in DOMAIN c : Active(c[i], provider, at)}
      ids == {i \in active : model \in c[i].ids}
      aliases == {i \in active : model \in c[i].aliases}
      prefixed == {i \in active : \E p \in c[i].prefixes : IsPrefix(p, model)}
  IN CASE ids # {} -> c[FirstWith(ids)]
       [] ids = {} /\ aliases # {} -> c[FirstWith(aliases)]
       [] ids = {} /\ aliases = {} /\ prefixed # {} -> c[FirstWith(prefixed)]
       [] OTHER -> None

\* An exact id, then an alias, then the longest prefix, of the entries in force.
FindEntry(c, provider, model, at) ==
  LET active == {i \in DOMAIN c : Active(c[i], provider, at)}
      ids == {i \in active : model \in c[i].ids}
      aliases == {i \in active : model \in c[i].aliases}
      prefixed == {x \in active \X UNION {c[k].prefixes : k \in active} :
                     x[2] \in c[x[1]].prefixes /\ IsPrefix(x[2], model)}
      longest == {x \in prefixed : \A y \in prefixed : Len(y[2]) <= Len(x[2])}
  IN CASE ids # {} -> c[FirstWith(ids)]
       [] ids = {} /\ aliases # {} -> c[FirstWith(aliases)]
       [] ids = {} /\ aliases = {} /\ prefixed # {} -> c[FirstWith({x[1] : x \in longest})]
       [] OTHER -> None

OrEntry(override, e, f) == IF override # None THEN override ELSE IF e = None THEN None ELSE e[f]
FullOverride(k) == k.input # None /\ k.output # None
Limit(k, provider) ==
  LET e == FindEntry(catalog, provider, k.model, k.started) IN
  IF FullOverride(k) \/ e = None THEN None ELSE e.maxPrompt
Exceeds(limit, prompt) == limit # None /\ prompt # None /\ prompt > limit

\* resolve_snapshot
ResolveSnapshot(k, provider, prompt, features) ==
  LET e == FindEntry(catalog, provider, k.model, k.started)
      input == OrEntry(k.input, e, "input")
      output == OrEntry(k.output, e, "output")
  IN [input |-> input, output |-> output,
      status |-> IF features # {} \/ Exceeds(Limit(k, provider), prompt) THEN "Unsupported"
                 ELSE IF None \notin {input, output} THEN "Matched" ELSE "Unmatched"]
NotApplicable == [input |-> None, output |-> None, status |-> "NotApplicable"]

Cost(status, usd) == [status |-> status, usd |-> usd]
Unavailable == Cost("Unavailable", None)

\* calculate_cost
CalculateCost(pricing, prompt, completion, source, attempted, invalid) ==
  IF ~attempted THEN Cost("NotIncurred", 0)
  ELSE IF \/ invalid \/ pricing.status = "Unsupported"
          \/ None \in {pricing.input, pricing.output} \/ None \in {prompt, completion}
       THEN Unavailable
       ELSE LET usd == prompt * pricing.input + completion * pricing.output IN
            IF usd > MaxCost THEN Unavailable
            ELSE Cost(IF source = "Provider" THEN "Calculated" ELSE "Estimated", usd)

(***************************************************************************)
(* UsageAccumulator                                                        *)
(***************************************************************************)
Field(provider, estimated) ==
  CASE provider # None -> [value |-> provider, source |-> "Provider"]
    [] provider = None /\ estimated # None -> [value |-> estimated, source |-> "Estimated"]
    [] OTHER -> None
OverallSource(fields) ==
  LET sources == {f.source : f \in fields \ {None}} IN
  CASE sources = {} -> "Unavailable" [] Cardinality(sources) = 1 -> CHOOSE s \in sources : TRUE
    [] OTHER -> "Mixed"
NoTokens == [prompt |-> None, completion |-> None, total |-> None, cached |-> None,
             source |-> "Unavailable", invalid |-> FALSE]

\* observe_provider and observe_estimated of the final state, then finish
Normalize(u, promptEstimate, completionEstimate, attempted) ==
  LET bad == u.invalid \/ \E f \in {"prompt", "completion", "total"} : u[f] # None /\ u[f] > MaxI64
      prompt == Field(u.prompt, promptEstimate)
      completion == Field(u.completion, completionEstimate)
      total == CASE u.total # None -> [value |-> u.total, source |-> "Provider"]
                 [] u.total = None /\ None \notin {prompt, completion} ->
                      [value |-> prompt.value + completion.value,
                       source |-> IF prompt.source = completion.source THEN prompt.source ELSE "Mixed"]
                 [] OTHER -> None
  IN CASE bad -> [NoTokens EXCEPT !.invalid = attempted]
       [] ~bad /\ ~attempted -> NoTokens
       [] ~bad /\ attempted /\ total # None /\ total.value > MaxI64 -> [NoTokens EXCEPT !.invalid = TRUE]
       [] OTHER -> [prompt |-> prompt, completion |-> completion, total |-> total,
                    cached |-> u.cached, source |-> OverallSource({prompt, completion, total}), invalid |-> FALSE]
ValueOf(field) == IF field = None THEN None ELSE field.value

(***************************************************************************)
(* AiUsageCollector                                                        *)
(***************************************************************************)
UsageInit ==
  /\ call \in Calls
  /\ catalog \in {c \in Catalogs : ValidCatalog(c)}
  /\ draft = None /\ fact = None /\ settlement = None
  /\ life = [attempted |-> FALSE, answered |-> FALSE, completed |-> FALSE, transport |-> "none", hint |-> "none"]
  /\ stage = "resolved"

Stays == UNCHANGED <<call, catalog, fact, settlement>>
Goto(s) == stage' = s

\* on_plugins_resolved
Begin ==
  /\ stage = "resolved"
  /\ draft' = [stream |-> None, features |-> {}, selected |-> FALSE, frozen |-> None]
  /\ Goto("rewrite")
  /\ UNCHANGED <<life, streamVars>> /\ Stays

\* observe_request_metadata, in the rewrite phase of ai-proxy
ObserveRequest ==
  /\ stage = "rewrite"
  /\ draft' = [draft EXCEPT !.stream = answer.wanted, !.features = call.features]
  /\ Goto("access")
  /\ UNCHANGED <<life, streamVars>> /\ Stays

\* A plugin of a higher priority answers the request.
RejectRequest ==
  /\ stage = "access"
  /\ life' = [life EXCEPT !.hint = "policy", !.completed = TRUE]
  /\ Goto("finalize")
  /\ UNCHANGED <<draft, streamVars>> /\ Stays

\* observe_model_selection
SelectModel ==
  /\ stage = "access"
  /\ draft' = [draft EXCEPT !.selected = TRUE, !.stream = answer.wanted]
  /\ Goto("dispatch")
  /\ UNCHANGED <<life, streamVars>> /\ Stays

\* build_pricing_snapshot and freeze_pricing_snapshot: a request under a budget
\* needs a complete price before it is dispatched.
FreezePrice ==
  /\ stage = "dispatch" /\ call.budgeted /\ draft.frozen = None
  /\ LET p == ResolveSnapshot(call, answer.provider, call.estimate, draft.features) IN
     IF p.status = "Matched"
     THEN /\ draft' = [draft EXCEPT !.frozen = [input |-> p.input, output |-> p.output,
                                                limit |-> Limit(call, answer.provider)]]
          /\ UNCHANGED <<life, stage>>
     ELSE /\ life' = [life EXCEPT !.hint = "policy", !.completed = TRUE]
          /\ Goto("finalize")
          /\ UNCHANGED draft
  /\ UNCHANGED streamVars /\ Stays

Cleared == stage = "dispatch" /\ (call.budgeted => draft.frozen # None)

\* The peer cannot be resolved: the request ends before an upstream is tried.
PeerFails ==
  /\ Cleared
  /\ life' = [life EXCEPT !.transport = "internal", !.completed = TRUE]
  /\ Goto("finalize")
  /\ UNCHANGED <<draft, streamVars>> /\ Stays

ReachUpstream ==
  /\ Cleared
  /\ \/ life' = [life EXCEPT !.attempted = TRUE, !.answered = TRUE] /\ Goto("answer")
     \/ life' = [life EXCEPT !.attempted = TRUE, !.transport = "upstream", !.completed = TRUE] /\ Goto("finalize")
  /\ UNCHANGED <<draft, streamVars>> /\ Stays

Filtering ==
  /\ stage = "answer"
  /\ BodyFilter
  /\ UNCHANGED <<draft, life, stage>> /\ Stays

\* The answer ends, the client leaves, or the upstream breaks off.
EndAnswer ==
  /\ stage = "answer"
  /\ \/ ended /\ life' = [life EXCEPT !.completed = TRUE]
     \/ life' = [life EXCEPT !.transport = "downstream"]
     \/ ~ended /\ life' = [life EXCEPT !.transport = "upstream"]
  /\ Goto("finalize")
  /\ UNCHANGED <<draft, streamVars>> /\ Stays

StreamTerminal == IF ~draft.selected THEN IF draft.stream = TRUE THEN "Pending" ELSE "NotStreaming" ELSE st.term
Hint == IF life.hint # "none" THEN life.hint ELSE st.hint
UpstreamOk == life.answered /\ answer.ok

\* Mutant: the end of the stream is not looked at.
ClassifyOutcome_TrustsEof(streamed, terminal) ==
  CASE life.transport = "downstream" /\ ~life.completed -> "ClientDisconnected"
    [] ~life.attempted /\ Hint = "policy" -> "GatewayRejected"
    [] Hint = "gateway" -> "GatewayError"
    [] life.attempted /\ (~UpstreamOk \/ life.transport = "upstream" \/ Hint = "semantic") -> "UpstreamError"
    [] UpstreamOk /\ life.completed -> "Success"
    [] OTHER -> "GatewayError"

\* classify_outcome: the first that applies
ClassifyOutcome(streamed, terminal) ==
  IF life.transport = "downstream" /\ ~life.completed THEN "ClientDisconnected"
  ELSE IF /\ streamed = TRUE /\ terminal # "Complete"
          /\ st.seen \/ (UpstreamOk /\ life.completed /\ life.transport = "none" /\ Hint = "none")
       THEN "StreamInterrupted"
  ELSE CASE Hint = "policy" /\ ~life.attempted -> "GatewayRejected"
         [] Hint = "gateway" -> "GatewayError"
         [] Hint # "gateway" /\ life.attempted
              /\ (~UpstreamOk \/ life.transport = "upstream" \/ Hint = "semantic") -> "UpstreamError"
         [] Hint = "none" /\ UpstreamOk /\ life.transport # "upstream" /\ life.completed
              /\ (streamed # TRUE \/ terminal = "Complete") -> "Success"
         [] OTHER -> "GatewayError"

CompletionEstimate == IF st.usage.completion = None /\ st.estimate # None THEN Len(st.estimate) ELSE None
Tokens ==
  IF draft.selected THEN Normalize(st.usage, call.estimate, CompletionEstimate, life.attempted)
  ELSE NoTokens
\* Cache reads have no price of their own; a frozen price ignores them.
Features(tokens) == draft.features \cup (IF tokens.cached = None THEN {} ELSE {"provider_cache"})
Pricing(tokens) ==
  LET prompt == ValueOf(tokens.prompt) IN
  CASE ~life.attempted -> NotApplicable
    [] life.attempted /\ draft.frozen # None ->
         [input |-> draft.frozen.input, output |-> draft.frozen.output,
          status |-> IF Exceeds(draft.frozen.limit, prompt) THEN "Unsupported" ELSE "Matched"]
    [] OTHER -> ResolveSnapshot(call, answer.provider, prompt, Features(tokens))

\* on_request_finalizing: one fact, handed to the writer
Finalize ==
  LET p == Pricing(Tokens) IN
  /\ stage = "finalize" /\ fact = None
  /\ fact' = [tokens |-> Tokens, pricing |-> p,
              cost |-> CalculateCost(p, ValueOf(Tokens.prompt), ValueOf(Tokens.completion), Tokens.source,
                                     life.attempted, Tokens.invalid),
              outcome |-> ClassifyOutcome(draft.stream, StreamTerminal)]
  /\ Goto(IF draft.frozen # None THEN "settle" ELSE "closed")
  /\ UNCHANGED <<call, catalog, draft, life, settlement, streamVars>>

\* cost_from_fact: the price of the intent, not the amount of the fact, decides.
CostFromFact ==
  LET p == [input |-> draft.frozen.input, output |-> draft.frozen.output, status |-> "Matched"]
      again == CalculateCost(p, ValueOf(fact.tokens.prompt), ValueOf(fact.tokens.completion),
                             fact.tokens.source, life.attempted, fact.tokens.invalid)
  IN IF \/ Exceeds(draft.frozen.limit, ValueOf(fact.tokens.prompt))
        \/ fact.pricing # p
        \/ fact.cost # again
     THEN Unavailable ELSE again

SettleBudget ==
  /\ stage = "settle"
  /\ settlement' = CostFromFact
  /\ Goto("closed")
  /\ UNCHANGED <<call, catalog, draft, life, fact, streamVars>>

UsageNext ==
  \/ Begin \/ ObserveRequest \/ RejectRequest \/ SelectModel \/ FreezePrice \/ PeerFails
  \/ ReachUpstream \/ Filtering \/ EndAnswer \/ Finalize \/ SettleBudget

UsageSpec == StreamInit /\ UsageInit /\ [][UsageNext]_<<streamVars, usageVars>>

(***************************************************************************)
(* Properties                                                              *)
(***************************************************************************)
Ends(a) == \E i \in DOMAIN a.events :
             \/ a.events[i].kind \in Endings \cup {"done"}
             \/ a.provider = "gemini" /\ a.events[i].kind = "finish"
Reports(f) == {i \in DOMAIN answer.events : answer.events[i].usage # None /\ answer.events[i].usage[f] # None}
Reported(f) == IF Reports(f) = {} THEN None
               ELSE answer.events[CHOOSE i \in Reports(f) : \A j \in Reports(f) : j <= i].usage[f]

\* A request is recorded as a success only if the client received the whole
\* answer, the provider answered 200, reported no failure and, for a stream,
\* sent its end; then the counts attributed to the provider are the last ones
\* it reported, and an estimate stands only where it reported none: whatever
\* the provider sent and wherever the exchange broke off (classify_outcome,
\* UsageAccumulator).
TellsOutcome ==
  fact # None /\ fact.outcome = "Success" =>
    /\ life.completed /\ ended /\ answer.ok /\ life.attempted
    /\ answer.wanted => answer.streaming /\ Ends(answer)
    /\ answer.streaming => \A i \in DOMAIN answer.events : answer.events[i].kind \notin Failures
    /\ \A f \in {"prompt", "completion"} :
         answer.cut = 0 /\ ~Broken(answer) /\ fact.tokens[f] # None =>
           IF fact.tokens[f].source = "Provider" THEN fact.tokens[f].value = Reported(f)
           ELSE Reported(f) = None

\* The entries of the catalogue that price the model of the request, and how
\* specific an entry is: its longest prefix, an alias, the very id.
Applies(e) ==
  /\ Active(e, answer.provider, call.started)
  /\ call.model \in e.ids \cup e.aliases \/ \E p \in e.prefixes : IsPrefix(p, call.model)
Closeness(e) ==
  IF call.model \in e.ids THEN Len(call.model) + 2
  ELSE IF call.model \in e.aliases THEN Len(call.model) + 1
  ELSE CHOOSE n \in 0..Len(call.model) : \E p \in e.prefixes :
         /\ Len(p) = n /\ IsPrefix(p, call.model)
         /\ \A q \in e.prefixes : IsPrefix(q, call.model) => Len(q) <= n
MostSpecific ==
  CHOOSE i \in DOMAIN catalog : /\ Applies(catalog[i])
                               /\ \A j \in DOMAIN catalog : Applies(catalog[j]) =>
                                    Closeness(catalog[j]) <= Closeness(catalog[i])
Rate(own, f) == IF own # None THEN own ELSE catalog[MostSpecific][f]

\* An amount is recorded only from a complete price that was in force when the
\* request began, taken from the most specific matching entry or the model's
\* own prices, and from both token counts; a budget is charged exactly the
\* amount of the fact when an upstream was tried, whatever the provider sent
\* and wherever the exchange broke off (calculate_cost, cost_from_fact).
TellsCost ==
  /\ fact # None /\ fact.cost.status \in {"Calculated", "Estimated"} =>
       /\ life.attempted /\ draft.features = {}
       /\ ~call.budgeted => fact.tokens.cached = None
       /\ fact.cost.usd = fact.tokens.prompt.value * Rate(call.input, "input")
                          + fact.tokens.completion.value * Rate(call.output, "output")
  /\ settlement # None /\ life.attempted => settlement = fact.cost

\* A request whose provider reports tokens read from its cache has no cost.
CacheHasNoPrice ==
  fact # None /\ fact.tokens.cached # None => fact.cost.usd = None

\* A request that fails before an upstream is tried costs nothing: its budget
\* intent is settled at zero.
LocalFailureIsFree ==
  settlement # None /\ ~life.attempted => settlement.status = "NotIncurred"
=============================================================================
