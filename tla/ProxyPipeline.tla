---------------------------- MODULE ProxyPipeline ----------------------------
(* A request through kong-proxy: route, service and plugin chain are read one *)
(* after the other from what the refresher publishes, the plugins run phase   *)
(* by phase, dispatch hooks decide whether the upstream may be contacted,     *)
(* Pingora makes one or more attempts, and whatever happened ends in logging, *)
(* which closes the request.                                                  *)
(*                                                                            *)
(* Plugins, hooks, handlers and finalizers are chosen outcomes; timeouts and  *)
(* panics of hooks count as failures, as the proxy isolates each of them.     *)
EXTENDS Integers, Sequences, FiniteSets

CONSTANTS
  Requests,
  RouteMaps,       \* published routing tables: route -> its service or None
  ServiceMaps,     \* published services: service -> whether it is enabled
  PluginLists,     \* published plugin lists: sequences of plugin entities
  Priority,        \* registered plugin name -> handler priority
  Hooks,           \* dispatch hooks, in order: [name, closed, domain]
  AbortHandlers,   \* [name, domain]
  Finalizers,      \* names of the request finalizers, in order
  Bodies,          \* the request bodies that occur
  MaxUpdates,      \* bound on the updates published
  MaxAttempts,     \* bound on attempts to reach the upstream
  None

\* The causes a request may end for, and who may note one.
Kinds == {"policy", "gateway", "upstream"}
Sources == {"downstream", "upstream", "internal", "unknown"}
Entities == UNION {{list[k] : k \in DOMAIN list} : list \in PluginLists}
Parties == {p.name : p \in Entities}
             \cup {"request_body_preload", "service_lookup", "service_disabled", "request_dispatch_hook"}
Marks == [kind : Kinds, who : Parties]
HookNames == {Hooks[k].name : k \in DOMAIN Hooks}
IsSequence(s) == s \in Seq({s[k] : k \in DOMAIN s})

\* None is nothing else, and no hook answers like the proxy itself.  Registered
\* handlers have priorities of their own, as those of the repository do: of equal
\* ones the order would be that of a hash map.
ASSUME PipelineAssumption ==
  /\ None \notin Sources \cup Marks \cup HookNames /\ "502" \notin HookNames
  /\ \A list \in PluginLists : IsSequence(list)
  /\ \A n \in DOMAIN Priority : Priority[n] \in Int
  /\ \A m, n \in DOMAIN Priority : Priority[m] = Priority[n] => m = n
  /\ IsSequence(Hooks) /\ IsSequence(AbortHandlers) /\ IsSequence(Finalizers)

ASSUME HooksCompensated ==
  \A i \in DOMAIN Hooks : Hooks[i].closed =>
    \E j \in DOMAIN AbortHandlers : AbortHandlers[j].domain = Hooks[i].domain

VARIABLES
  routing, services, plugins, chains,   \* what the locks of KongProxy guard
  stale,           \* the refresher has still to rebuild the chains
  generations,     \* ghost: the plugin lists published so far, oldest first
  updates,         \* updates published so far
  built,           \* ghost: the generation the chains were last built from
  req              \* the requests: KongCtx

published == <<routing, services, plugins, chains, stale, generations, updates, built>>
pipelineVars == <<published, req>>

(***************************************************************************)
(* The plugin chain of a route and service.                                *)
(***************************************************************************)
plugin_matches(p, route, service) ==
  /\ p.route \in {None, route}
  /\ p.service \in {None, service}
  /\ p.consumer = None      \* no consumer is known when chains are resolved

Specificity(p) ==
  (IF p.consumer # None THEN 4 ELSE 0) + (IF p.route # None THEN 2 ELSE 0)
    + (IF p.service # None THEN 1 ELSE 0)

\* Of every enabled, registered plugin the most specific entity, the last of
\* equals; a place in the list stands for the entity there.
KeptPlugins(list, route, service) ==
  LET usable == {i \in DOMAIN list : /\ list[i].enabled /\ plugin_matches(list[i], route, service)
                                     /\ list[i].name \in DOMAIN Priority}
  IN {i \in usable : \A j \in usable : list[j].name = list[i].name =>
        \/ Specificity(list[j]) < Specificity(list[i])
        \/ Specificity(list[j]) = Specificity(list[i]) /\ j <= i}

\* The kept ones that run before the one at i.
Ahead(list, kept, i) == {j \in kept : Priority[list[j].name] > Priority[list[i].name]}

\* By priority, the highest first.
resolve_plugins(list, route, service) ==
  LET kept == KeptPlugins(list, route, service)
  IN [k \in 1..Cardinality(kept) |->
        list[CHOOSE i \in kept : Cardinality(Ahead(list, kept, i)) = k - 1]]

ChainKeys(list) ==
  {<<None, None>>} \cup
    (UNION {{<<list[i].route, list[i].service>>, <<list[i].route, None>>, <<None, list[i].service>>}
              : i \in DOMAIN list})

RebuiltChains(list) == [key \in ChainKeys(list) |-> resolve_plugins(list, key[1], key[2])]

\* Updates come from one refresher, one at a time.
MayPublish == ~stale /\ updates < MaxUpdates

\* update_routes and update_plugins replace their table and then, under
\* another lock, rebuild the chains.
UpdateRoutes ==
  \E m \in RouteMaps :
    /\ MayPublish /\ routing' = m /\ stale' = TRUE /\ updates' = updates + 1
    /\ UNCHANGED <<services, plugins, chains, generations, built, req>>

UpdatePlugins ==
  \E list \in PluginLists :
    /\ MayPublish /\ plugins' = list /\ stale' = TRUE /\ updates' = updates + 1
    /\ generations' = Append(generations, list)
    /\ UNCHANGED <<routing, services, chains, built, req>>

\* Mutant: chains that exist already are kept.
RebuildPluginChains_Merged ==
  /\ stale /\ stale' = FALSE
  /\ chains' = [key \in ChainKeys(plugins) \cup DOMAIN chains |->
                  IF key \in DOMAIN chains THEN chains[key]
                  ELSE resolve_plugins(plugins, key[1], key[2])]
  /\ built' = Len(generations)
  /\ UNCHANGED <<routing, services, plugins, generations, updates, req>>

RebuildPluginChains ==
  /\ stale /\ stale' = FALSE
  /\ chains' = RebuiltChains(plugins)
  /\ built' = Len(generations)
  /\ UNCHANGED <<routing, services, plugins, generations, updates, req>>

UpdateServices ==
  \E m \in ServiceMaps :
    /\ MayPublish /\ services' = m /\ updates' = updates + 1
    /\ UNCHANGED <<routing, plugins, chains, stale, generations, built, req>>

(***************************************************************************)
(* The lifecycle of a request: the strongest cause of its end is kept, the *)
(* first of equals.                                                        *)
(***************************************************************************)
HintPriority(kind) == CASE kind = "policy" -> 3 [] kind = "gateway" -> 2 [] kind = "upstream" -> 1
SourcePriority(source) ==
  CASE source = "downstream" -> 4 [] source = "upstream" -> 3 [] source = "internal" -> 2
    [] source = "unknown" -> 1

set_termination_hint(q, kind, who) ==
  [q EXCEPT !.marks = Append(@, [kind |-> kind, who |-> who]),
            !.hint = IF @ = None \/ HintPriority(kind) > HintPriority(@.kind)
                     THEN [kind |-> kind, who |-> who] ELSE @]

mark_transport_error(q, source) ==
  [q EXCEPT !.transport = IF @ = None \/ SourcePriority(source) > SourcePriority(@)
                          THEN source ELSE @]

NewCtx(body) ==
  [pc |-> "start", at |-> 1, route |-> None, service_id |-> None, service |-> None,
   plugins |-> <<>>, since |-> 0,
   body |-> body, request_body_buf |-> None, retry_buffer |-> None, upstream_body |-> FALSE,
   headers |-> {}, buffering |-> FALSE, deferred |-> FALSE,
   short |-> FALSE, exit |-> None, forbidden |-> FALSE, abort |-> None, root |-> None,
   sent |-> <<>>, response |-> None, failure |-> None, hint |-> None, transport |-> None, finished |-> None,
   ran |-> {}, passed |-> {}, compensated |-> <<>>, resolvedNotices |-> 0, finalNotices |-> 0,
   finalized |-> <<>>, marks |-> <<>>]

At(r, label) == req[r].pc = label
Step(r, q) == req' = [req EXCEPT ![r] = q] /\ UNCHANGED published

Goto(q, label) == [q EXCEPT !.pc = label, !.at = 1]
Fail(q, source) == [Goto(q, "failing") EXCEPT !.failure = source]
Respond(q, what) == [Goto(q, "logging") EXCEPT !.response = what]

\* A request arrives: new_ctx.
Arrive(r) ==
  /\ At(r, "absent")
  /\ \E body \in Bodies : Step(r, NewCtx(body))

(***************************************************************************)
(* request_filter                                                          *)
(***************************************************************************)
FindRoute(r) ==
  /\ At(r, "start")
  /\ \/ Step(r, Respond(req[r], "404"))
     \/ \E route \in DOMAIN routing :
          Step(r, [Goto(req[r], "service") EXCEPT !.route = route, !.service_id = routing[route],
                                                  !.since = built])

LookupService(r) ==
  /\ At(r, "service")
  /\ LET id == req[r].service_id
         found == IF id \in DOMAIN services THEN [enabled |-> services[id]] ELSE None
     IN Step(r, [Goto(req[r], "resolve") EXCEPT !.service = found])

\* The precomputed chain, or the plugin list when there is none for the key.
ResolveChain(r) ==
  /\ At(r, "resolve")
  /\ LET key == <<req[r].route, req[r].service_id>>
         chain == IF key \in DOMAIN chains THEN chains[key]
                  ELSE resolve_plugins(plugins, key[1], key[2])
     IN Step(r, [Goto(req[r], "preload") EXCEPT !.plugins = chain, !.resolvedNotices = @ + 1])

\* Pingora's retry buffer holds 64 KiB: of a larger body with a Content-Length
\* it is made to hold the tail; a larger chunked body is refused.
PreloadBody(r) ==
  /\ At(r, "preload")
  /\ LET q == req[r]
         bad(source) == Respond(set_termination_hint(mark_transport_error(q, source), "gateway",
                                                     "request_body_preload"), "400")
     IN \/ q.body = "none" /\ Step(r, Goto(q, "rewrite"))
        \/ /\ q.body \in {"small", "large"}
           /\ Step(r, [Goto(q, "rewrite") EXCEPT !.request_body_buf = "whole",
                         !.retry_buffer = IF q.body = "small" THEN "whole" ELSE "tail"])
        \/ q.body = "chunked" /\ Step(r, bad("internal"))
        \/ q.body # "none" /\ Step(r, bad("downstream"))

\* execute_phase for one plugin of the rewrite or access phase.  A plugin may
\* pass, end the request or fail; what a passing plugin leaves for later (headers
\* staged, a body of its own, a buffered response, a dispatch forbidden) is
\* chosen for all of them with the last of the access phase.
PluginOutcomes(q, phase, name) ==
  LET ran == [q EXCEPT !.at = @ + 1]
      ok == [ran EXCEPT !.passed = @ \cup {<<phase, name>>}]
  IN {ok, set_termination_hint([ran EXCEPT !.short = TRUE, !.exit = name], "policy", name),
      Respond(set_termination_hint(ran, "gateway", name), "500")}
     \cup (IF phase = "rewrite" \/ q.at < Len(q.plugins) THEN {}
           ELSE {[ok EXCEPT !.headers = @ \cup {name}], [ok EXCEPT !.upstream_body = TRUE],
                 [ok EXCEPT !.buffering = TRUE], [ok EXCEPT !.forbidden = TRUE]})

RunPlugin(r, phase, next) ==
  /\ At(r, phase)
  /\ LET q == req[r]
     IN \/ /\ ~q.short /\ q.at <= Len(q.plugins)
           /\ \E q2 \in PluginOutcomes(q, phase, q.plugins[q.at].name) : Step(r, q2)
        \/ ~q.short /\ q.at > Len(q.plugins) /\ Step(r, Goto(q, next))
        \/ q.short /\ Step(r, Goto(q, "short_circuit"))

RunRewrite(r) == RunPlugin(r, "rewrite", "access")
RunAccess(r) == RunPlugin(r, "access", "upstream")

\* Header filters run until one fails, whatever ended the request; the ones
\* that end it themselves are only noted.
HeaderFiltered(q) ==
  LET name(k) == q.plugins[k].name
      ran == [q EXCEPT !.ran = @ \cup {"header_filter"}]
  IN {ran} \cup {set_termination_hint(ran, "gateway", name(k)) : k \in DOMAIN q.plugins}
     \cup {IF q.short THEN ran ELSE set_termination_hint([ran EXCEPT !.short = TRUE], "policy", name(k))
             : k \in DOMAIN q.plugins}

\* The client may be gone when the response is written.
ShortCircuit(r) ==
  /\ At(r, "short_circuit")
  /\ \E q \in HeaderFiltered(req[r]) :
       \/ Step(r, Respond(q, IF q.exit = None THEN "200" ELSE q.exit))
       \/ Step(r, Fail(q, "downstream"))

ResolveUpstream(r) ==
  /\ At(r, "upstream")
  /\ LET q == req[r]
         unavailable(who) == Respond(set_termination_hint(q, "gateway", who), "503")
     IN Step(r, IF q.service = None THEN unavailable("service_lookup")
                ELSE IF ~q.service.enabled THEN unavailable("service_disabled")
                ELSE Goto(q, "hooks"))

(***************************************************************************)
(* run_dispatch_hooks: all hooks run, also after one failed.               *)
(***************************************************************************)
Failed(q, hook) ==
  IF hook.closed
  THEN [q EXCEPT !.forbidden = TRUE, !.abort = IF @ = None THEN hook.name ELSE @]
  ELSE q

\* A hook that ended the request or forbade the dispatch itself.
Settled(q, hook) ==
  IF q.short \/ q.forbidden
  THEN [q EXCEPT !.forbidden = TRUE, !.abort = IF @ = None THEN hook.name ELSE @]
  ELSE q

RunHook(r) ==
  /\ At(r, "hooks") /\ req[r].at <= Len(Hooks)
  /\ LET hook == Hooks[req[r].at]
         q == [req[r] EXCEPT !.at = @ + 1]
         ok == [q EXCEPT !.passed = @ \cup {<<"hook", hook.name>>}]
     IN \E q2 \in {ok, Failed(q, hook), [ok EXCEPT !.forbidden = TRUE],
                   [ok EXCEPT !.short = TRUE, !.exit = hook.name]} :
          Step(r, Settled(q2, hook))

HooksDone(r) ==
  /\ At(r, "hooks") /\ req[r].at > Len(Hooks)
  /\ LET q == req[r]
         frozen == [q EXCEPT !.forbidden = TRUE, !.short = TRUE,
                             !.exit = IF q.short THEN @ ELSE q.abort]
     IN IF q.abort # None THEN Step(r, [Goto(frozen, "compensate") EXCEPT !.root = frozen.exit])
        ELSE Step(r, Goto(q, IF q.forbidden THEN "short_circuit" ELSE "peer"))

\* A compensation may fail, and may write a response of its own.
Compensate(r) ==
  /\ At(r, "compensate") /\ req[r].at <= Len(AbortHandlers)
  /\ LET name == AbortHandlers[req[r].at].name
     IN \E exit \in {req[r].exit, name} :
          Step(r, [req[r] EXCEPT !.at = @ + 1, !.compensated = Append(@, name), !.exit = exit])

\* Mutant: what a compensation wrote is sent.
RestoredRoot_Dropped(q) == q.exit

RestoredRoot(q) == q.root

\* Mutant: waits for one compensation more than there are.
CompensationDone_OffByOne(r) ==
  /\ At(r, "compensate") /\ req[r].at > Len(AbortHandlers) + 1
  /\ Step(r, Goto(req[r], "short_circuit"))

CompensationDone(r) ==
  /\ At(r, "compensate") /\ req[r].at > Len(AbortHandlers)
  /\ Step(r, [set_termination_hint(Goto(req[r], "short_circuit"), "gateway", "request_dispatch_hook")
                EXCEPT !.short = TRUE, !.exit = RestoredRoot(req[r])])

(***************************************************************************)
(* Attempts.                                                               *)
(***************************************************************************)
\* upstream_peer: resolve the name; DNS may fail.
UpstreamPeer(r) ==
  /\ At(r, "peer")
  /\ \/ Step(r, Goto(req[r], "attempt"))
     \/ Step(r, Fail(mark_transport_error(req[r], "upstream"), "upstream"))

\* request_body_filter: a replaced body, else the retained body, else what
\* Pingora replays from its retry buffer.
BodyOf(q) ==
  IF q.upstream_body THEN "whole"
  ELSE IF q.body = "none" THEN None
  ELSE IF q.request_body_buf # None THEN q.request_body_buf
  ELSE q.retry_buffer

\* upstream_request_filter drains the staged headers, request_body_filter
\* takes the retained body.
SendUpstream(r) ==
  /\ At(r, "attempt")
  /\ LET q == req[r]
     IN Step(r, [Goto(q, "awaiting") EXCEPT
                   !.sent = Append(@, [body |-> BodyOf(q), headers |-> q.headers]),
                   !.headers = {},
                   !.request_body_buf = IF q.upstream_body THEN @ ELSE None])

\* The connection fails before a response: Pingora retries on another one
\* when the first was taken from its pool.
AttemptFails(r) ==
  /\ At(r, "awaiting")
  /\ \/ Len(req[r].sent) < MaxAttempts /\ Step(r, Goto(req[r], "peer"))
     \/ \E source \in {"upstream", "downstream"} : Step(r, Fail(req[r], source))

\* upstream_response_filter
UpstreamResponds(r) ==
  /\ At(r, "awaiting")
  /\ IF req[r].buffering
     THEN Step(r, [Goto(req[r], "body") EXCEPT !.deferred = TRUE, !.response = "upstream"])
     ELSE \E q \in HeaderFiltered(req[r]) : Step(r, [Goto(q, "body") EXCEPT !.response = "upstream"])

\* response_body_filter at the end of the stream; a body filter runs only in a
\* request that no plugin has ended.
BodyFiltered(q) ==
  LET name(k) == q.plugins[k].name
  IN IF q.short THEN {q}
     ELSE {q} \cup {set_termination_hint(q, "gateway", name(k)) : k \in DOMAIN q.plugins}
          \cup {set_termination_hint([q EXCEPT !.short = TRUE], "policy", name(k))
                  : k \in DOMAIN q.plugins}

ResponseEnds(r) ==
  /\ At(r, "body")
  /\ \E q \in IF req[r].deferred THEN HeaderFiltered(req[r]) ELSE {req[r]} :
       \E q2 \in BodyFiltered(q) : Step(r, [Goto(q2, "logging") EXCEPT !.deferred = FALSE])

ResponseBreaks(r) ==
  /\ At(r, "body")
  /\ \E source \in {"upstream", "downstream"} : Step(r, Fail(req[r], source))

\* fail_to_proxy answers 502 or 504, unless a response has begun.
FailToProxy(r) ==
  /\ At(r, "failing")
  /\ LET q == mark_transport_error(req[r], req[r].failure)
         answered == Respond(q, IF q.response = None THEN "502" ELSE q.response)
     IN \/ Step(r, answered)
        \/ Step(r, mark_transport_error(answered, "downstream"))

(***************************************************************************)
(* logging                                                                 *)
(***************************************************************************)
\* lifecycle.finish keeps the first status.
finish(q) == [q EXCEPT !.finished = IF @ = None THEN q.response ELSE @]

Logging(r) ==
  /\ At(r, "logging")
  /\ Step(r, [Goto(finish(req[r]), "finalizers") EXCEPT !.finalNotices = @ + 1])

\* Mutant: a finalizer that fails ends the loop.
AfterFinalizer_Stops(q, ok) == IF ok THEN q.at + 1 ELSE Len(Finalizers) + 1

AfterFinalizer(q, ok) == q.at + 1

RunFinalizer(r) ==
  /\ At(r, "finalizers")
  /\ LET q == req[r]
     IN IF q.at > Len(Finalizers) THEN Step(r, Goto(q, "log"))
        ELSE \E ok \in BOOLEAN :
               Step(r, [q EXCEPT !.at = AfterFinalizer(q, ok), !.finalized = Append(@, Finalizers[q.at])])

\* The log phase of the plugins, which stops at the first that fails.
RunLog(r) ==
  /\ At(r, "log")
  /\ Step(r, [Goto(req[r], "done") EXCEPT !.ran = @ \cup {"log"}])

RequestStep(r) ==
  \/ FindRoute(r) \/ LookupService(r) \/ ResolveChain(r) \/ PreloadBody(r) \/ RunRewrite(r)
  \/ RunAccess(r) \/ ShortCircuit(r) \/ ResolveUpstream(r) \/ RunHook(r) \/ HooksDone(r)
  \/ Compensate(r) \/ CompensationDone(r) \/ UpstreamPeer(r) \/ SendUpstream(r) \/ AttemptFails(r)
  \/ UpstreamResponds(r) \/ ResponseEnds(r) \/ ResponseBreaks(r) \/ FailToProxy(r) \/ Logging(r)
  \/ RunFinalizer(r) \/ RunLog(r)

Publish == UpdateRoutes \/ UpdatePlugins \/ RebuildPluginChains \/ UpdateServices

PipelineInit ==
  /\ routing \in RouteMaps /\ services \in ServiceMaps /\ plugins \in PluginLists
  /\ chains = RebuiltChains(plugins)
  /\ stale = FALSE /\ generations = <<plugins>> /\ updates = 0 /\ built = 1
  /\ req = [r \in Requests |-> [NewCtx("none") EXCEPT !.pc = "absent"]]

PipelineNext == Publish \/ \E r \in Requests : Arrive(r) \/ RequestStep(r)

PipelineSpec == PipelineInit /\ [][PipelineNext]_pipelineVars

\* A request's task is scheduled until it ends: hooks, compensations and
\* finalizers have timeouts, connections have the timeouts of the service.
PipelineFairness == \A r \in Requests : WF_req(RequestStep(r))

-----------------------------------------------------------------------------
(* Properties *)

Ended(r) == req[r].pc \in {"logging", "finalizers", "log", "done"}

\* The upstream is contacted only when nothing objected: every plugin of the
\* request's chain passed rewrite and access, every critical dispatch hook
\* passed, and no one forbade the dispatch.  The chain is the one that the
\* plugin list in force gives the request's route and service: a list no
\* older than the chains were when the request was routed (request_filter and
\* the refresher interleave at every lock).
DispatchGate ==
  \A r \in Requests :
    LET q == req[r]
        fresh(g) == q.plugins = resolve_plugins(generations[g], q.route, q.service_id)
    IN /\ q.resolvedNotices > 0 => \E g \in q.since..Len(generations) : fresh(g)
       /\ q.sent # <<>> =>
            /\ \A k \in DOMAIN q.plugins, phase \in {"rewrite", "access"} :
                 <<phase, q.plugins[k].name>> \in q.passed
            /\ \A k \in DOMAIN Hooks : Hooks[k].closed => <<"hook", Hooks[k].name>> \in q.passed
            /\ ~q.forbidden

\* However a request ends, it is closed once and in order: its plugins were
\* announced at most once, the observers are told of its end once, every
\* finalizer runs once although others failed, header filters run on an aborted
\* dispatch too, and the cause recorded for its end is the first of the
\* strongest that occurred (logging, RequestLifecycle).  A dispatch that was
\* aborted never reaches the upstream, every compensation runs exactly once
\* whichever hook failed, and the client is told what the hooks decided and not
\* what a compensation wrote (run_dispatch_hooks).
ClosedOnce ==
  \A r \in Requests :
    LET q == req[r]
        strongest(m) == \A k \in DOMAIN q.marks : HintPriority(q.marks[k].kind) <= HintPriority(m.kind)
        firsts == {k \in DOMAIN q.marks : /\ strongest(q.marks[k])
                                          /\ \A j \in 1..(k - 1) : ~strongest(q.marks[j])}
    IN /\ q.pc = "done" =>
            /\ q.resolvedNotices <= 1 /\ q.finalNotices = 1
            /\ q.finalized = Finalizers
            /\ q.finished = q.response
            /\ "log" \in q.ran /\ (q.abort # None => "header_filter" \in q.ran)
            /\ q.hint = IF firsts = {} THEN None ELSE q.marks[CHOOSE k \in firsts : TRUE]
       /\ Ended(r) /\ q.abort # None =>
            /\ q.sent = <<>>
            /\ q.compensated = [k \in DOMAIN AbortHandlers |-> AbortHandlers[k].name]
            /\ q.response \in {q.root, "502"}
            /\ q.response = "502" => q.transport = "downstream"

\* Every request that arrives is closed.
RequestsClose == \A r \in Requests : (req[r].pc # "absent") ~> (req[r].pc = "done")

\* What the proxy forwards in every attempt is the whole request: the body it
\* retained and the headers the plugins staged.
ForwardsWholeRequest ==
  \A r \in Requests : \A k \in DOMAIN req[r].sent :
    /\ req[r].sent[k].body \in {None, "whole"}
    /\ req[r].sent[k].headers = req[r].sent[1].headers

-----------------------------------------------------------------------------
(* Strengthening of DispatchGate and ClosedOnce to an inductive invariant *)
(* (ProxyPipelineProofs).                                                 *)

Body == {None, "whole", "tail"}
Attempts == [body : Body, headers : SUBSET Parties]
Reading == {"absent", "start", "service", "resolve"}
Phases == {"preload", "rewrite", "access", "upstream"}
Sending == {"peer", "attempt", "awaiting", "body"}
Closing == {"finalizers", "log", "done"}

CtxTypeOK(q) ==
  /\ DOMAIN q = DOMAIN NewCtx(None)
  /\ q.at \in Nat \ {0} /\ q.plugins \in Seq(Entities)
  /\ q.short \in BOOLEAN /\ q.forbidden \in BOOLEAN /\ q.abort \in HookNames \cup {None}
  /\ q.request_body_buf \in Body /\ q.retry_buffer \in Body /\ q.headers \in SUBSET Parties
  /\ q.sent \in Seq(Attempts)
  /\ q.transport \in Sources \cup {None} /\ (q.pc = "failing" => q.failure \in Sources)
  /\ q.marks \in Seq(Marks)

\* The chain of a request is that of a list published no earlier than the
\* chains it may have read.
ChainFresh(q) ==
  /\ q.pc \in Reading => q.resolvedNotices = 0
  /\ q.pc \in {"service", "resolve"} => q.since \in 1..built
  /\ q.resolvedNotices \in {0, 1}
  /\ q.resolvedNotices = 1 =>
       /\ q.since \in Nat \ {0}
       /\ \E g \in q.since..Len(generations) :
            q.plugins = resolve_plugins(generations[g], q.route, q.service_id)

\* The first n plugins of the chain passed a phase; the first n hooks passed.
Cleared(q, phase, n) == \A k \in 1..n : <<phase, q.plugins[k].name>> \in q.passed
HooksPassed(q, n) == \A k \in 1..n : Hooks[k].closed => <<"hook", Hooks[k].name>> \in q.passed

Gate(q) ==
  /\ Cleared(q, "rewrite", Len(q.plugins)) /\ Cleared(q, "access", Len(q.plugins))
  /\ HooksPassed(q, Len(Hooks)) /\ ~q.forbidden /\ q.abort = None

\* The gate closes step by step, and nothing is sent before it has.
Gated(q) ==
  /\ q.pc = "rewrite" /\ ~q.short => Cleared(q, "rewrite", q.at - 1)
  /\ q.pc = "access" /\ ~q.short =>
       Cleared(q, "rewrite", Len(q.plugins)) /\ Cleared(q, "access", q.at - 1)
  /\ q.pc \in {"upstream", "hooks"} =>
       Cleared(q, "rewrite", Len(q.plugins)) /\ Cleared(q, "access", Len(q.plugins))
  /\ q.pc = "hooks" /\ q.abort = None => HooksPassed(q, q.at - 1)
  /\ q.pc \in Sending => Gate(q)
  /\ q.sent # <<>> => Gate(q) /\ q.pc \in Sending \cup {"failing", "logging"} \cup Closing

Compensated(n) == [k \in 1..n |-> AbortHandlers[k].name]

\* What an aborted dispatch has at each place.
AbortInv(q) ==
  /\ q.pc \in Reading \cup Phases => q.abort = None
  /\ q.pc = "upstream" => ~q.short
  /\ q.pc \in Reading \cup Phases \cup {"hooks", "compensate", "short_circuit"} => q.response = None
  /\ q.pc \in Reading \cup Phases \cup {"hooks"} => q.compensated = <<>>
  /\ q.pc = "hooks" /\ q.short => q.exit \in HookNames
  /\ q.pc = "compensate" => /\ q.abort # None /\ q.root \in HookNames
                            /\ q.at <= Len(AbortHandlers) + 1 /\ q.compensated = Compensated(q.at - 1)
  /\ q.abort # None /\ q.pc \in {"short_circuit", "failing", "logging"} \cup Closing =>
       /\ q.root \in HookNames /\ q.compensated = Compensated(Len(AbortHandlers))
       /\ q.pc = "short_circuit" => q.exit = q.root
       /\ q.pc # "short_circuit" => "header_filter" \in q.ran
       /\ q.pc = "failing" => q.response = None /\ q.failure = "downstream"
       /\ q.pc \in {"logging"} \cup Closing =>
            q.response \in {q.root, "502"} /\ (q.response = "502" => q.transport = "downstream")

\* The end is announced once, and finalizers run in their order.
CloseInv(q) ==
  /\ q.finalNotices = IF q.pc \in Closing THEN 1 ELSE 0
  /\ q.pc \notin Closing => q.finished = None /\ q.finalized = <<>>
  /\ q.pc \in Closing => q.finished = q.response
  /\ q.pc = "finalizers" => /\ q.at <= Len(Finalizers) + 1
                            /\ q.finalized = SubSeq(Finalizers, 1, q.at - 1)
  /\ q.pc \in {"log", "done"} => q.finalized = Finalizers
  /\ q.pc = "done" => "log" \in q.ran

\* The hint is the first of the strongest marks.
HintInv(q) ==
  IF q.marks = <<>> THEN q.hint = None
  ELSE \E k \in DOMAIN q.marks :
         /\ q.hint = q.marks[k]
         /\ \A j \in DOMAIN q.marks : HintPriority(q.marks[j].kind) <= HintPriority(q.hint.kind)
         /\ \A j \in 1..(k - 1) : HintPriority(q.marks[j].kind) < HintPriority(q.hint.kind)

CtxInv(q) ==
  CtxTypeOK(q) /\ ChainFresh(q) /\ Gated(q) /\ AbortInv(q) /\ CloseInv(q) /\ HintInv(q)

PublishInv ==
  /\ generations \in Seq(PluginLists) /\ built \in 1..Len(generations)
  /\ plugins = generations[Len(generations)] /\ chains = RebuiltChains(generations[built])

PipelineInv ==
  PublishInv /\ DOMAIN req = Requests /\ \A r \in Requests : CtxInv(req[r])
=============================================================================
