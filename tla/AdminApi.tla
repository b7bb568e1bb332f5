------------------------------- MODULE AdminApi -------------------------------
(* The Admin API of kong-rust (crates/kong-admin): its handlers, each a       *)
(* sequence of statements against the database, the channel of refresh        *)
(* signals, the debounced refresher that rebuilds the caches of the proxy and *)
(* the index of AI policy coverage, and, in DB-less mode, POST /config and    *)
(* the readers of the in-memory store with its three read-write locks.        *)
(*                                                                            *)
(* A worker is a task of the HTTP server that runs one handler.  A handler    *)
(* answers an error by going idle; the text of answers is left out.  What a   *)
(* schema refuses before any statement is in the module AdminSchema: here a   *)
(* request has passed it.                                                     *)
EXTENDS EntityStore

CONSTANTS
  Workers,      \* tasks of the HTTP server
  Workloads,    \* sets of requests; the clients of a behaviour draw from one
  Seed,         \* the database it starts from
  Document,     \* the declarative configuration POST /config loads
  MaxCalls,     \* requests in a behaviour
  MaxErrors,    \* reads of the refresher that fail
  PageSize      \* rows of a page (10000 in the refresher)

VARIABLES
  mode,         \* "postgres" or "off" (DB-less)
  requests,     \* the workload of this behaviour
  db,           \* the tables; in DB-less mode the map `data` of the store
  index,        \* DB-less: the rows the endpoint and foreign key indexes hold
  lock,         \* DB-less: the three RwLocks of the store
  worker,       \* the handler every task runs
  signals,      \* the channel refresh_tx of entity types, first in first out
  refresher,    \* run_cache_refresher
  cache,        \* what the proxy serves from
  coverage,     \* AiPolicyCoverageIndex
  targetHealth, \* statuses set by an administrator, by upstream and address
  unread,       \* entity types whose last refresh failed to read; "coverage"
                \* also before the first one of the DB-less mode
  torn,         \* a configuration failed half-way through its load
  calls, errors

vars == <<mode, requests, db, index, lock, worker, signals, refresher, cache, coverage,
          targetHealth, unread, torn, calls, errors>>

\* A request: its handler, table, the id in its path, its body, the row the
\* path is nested under with the column that refers to it, and its SNI names.
Request(h, t, i, row, parent, scope, snis) ==
  [h |-> h, t |-> t, id |-> i, row |-> row, parent |-> parent, scope |-> scope, snis |-> snis]

NoRow == Row(0, NoName, NoName, "none", NoRefs)
Idle  == [pc |-> "idle", r |-> Request("none", "services", 0, NoRow, 0, "none", <<>>),
          row |-> NoRow, del |-> {}, sig |-> <<>>]

\* The handlers that are written for one table, and those that may insert the
\* row of their body.
TableOf(h) ==
  CASE h \in {"create_certificate", "update_certificate", "upsert_certificate",
              "delete_certificate"} -> {"certificates"}
    [] h = "delete_ca_certificate" -> {"ca_certificates"}
    [] h = "delete_scoped_plugin" -> {"plugins"}
    [] OTHER -> Tables
Inserts(h) ==
  h \in {"create", "upsert", "create_route", "create_nested_route", "create_certificate_sni",
         "create_nested_target", "create_nested_key", "create_scoped_plugin",
         "upsert_route_service", "upsert_nested_target", "create_certificate"}

IsRequest(r) ==
  /\ r = Request(r.h, r.t, r.id, r.row, r.parent, r.scope, r.snis)
  /\ r.t \in TableOf(r.h)
  /\ IsBody(r.row)
  /\ Inserts(r.h) => r.row.id # 0
  /\ r.h \in {"upsert_scoped_plugin", "upsert_certificate"} => r.id \in Nat \ {0}

\* What the router of the API and the schemas establish before a handler runs.
ASSUME RequestsAssumption == \A rs \in Workloads : \A r \in rs : IsRequest(r)
ASSUME StoreAssumption == IsStore(Seed) /\ IsStore(Document)
ASSUME PageAssumption == PageSize \in Nat \ {0}

Cached == {"services", "routes", "plugins", "upstreams", "targets",
           "certificates", "snis", "ca_certificates"}

SignalOf_NoTargets(t) == IF t \in Cached \ {"targets"} THEN <<t>> ELSE <<>>

\* The signal the handlers of a table send: consumers, vaults, key sets and
\* keys are generated with an empty entity name and send none.
SignalOf(t) == IF t \in Cached THEN <<t>> ELSE <<>>

-----------------------------------------------------------------------------
(* AiPolicyCoverageIndex.                                                     *)

AiKinds == {"ai-key-auth", "ai-proxy", "ai-rate-limit"}
RefOr0(r, c) == IF c \in DOMAIN r.refs THEN r.refs[c] ELSE 0

\* The plugins that may apply to a route: of an AI kind, without a consumer,
\* bound to rows that exist and, when bound to both, to the route's service.
ScopedPlugins(routes, services, plugins) ==
  {p \in plugins :
     LET ro == RefOr0(p, "route")
         se == RefOr0(p, "service")
     IN /\ p.val \in AiKinds
        /\ "consumer" \notin DOMAIN p.refs
        /\ ro # 0 => ro \in IdsOf(routes)
        /\ se # 0 => se \in IdsOf(services)
        /\ (ro # 0 /\ se # 0) => \A q \in routes : q.id = ro => RefOr0(q, "service") = se}

\* A plugin bound to a route and to a service that is missing, or not the
\* route's own, makes the route an error.
InvalidRoutes(routes, services, plugins) ==
  {q.id : q \in {q \in routes : \E p \in plugins :
     /\ p.val \in AiKinds /\ "consumer" \notin DOMAIN p.refs
     /\ Refers(p, "route", q.id) /\ "service" \in DOMAIN p.refs
     /\ \/ p.refs["service"] \notin IdsOf(services)
        \/ p.refs["service"] # RefOr0(q, "service")}}

\* effective_plugin: global < service < route < route and service.
EffectivePlugin(scoped, q, kind) ==
  LET se == RefOr0(q, "service")
      at(ro, s) == {p \in scoped : p.val = kind /\ RefOr0(p, "route") = ro
                                                /\ RefOr0(p, "service") = s}
      both == IF se = 0 THEN {} ELSE at(q.id, se)
      own  == at(q.id, 0)
      serv == IF se = 0 THEN {} ELSE at(0, se)
  IN IF both # {} THEN both ELSE IF own # {} THEN own
     ELSE IF serv # {} THEN serv ELSE at(0, 0)

\* AiPolicyCoverageIndex::build: of the routes that can be called, how many
\* authenticate virtual keys, how many enforce their limits, and how many ask
\* for limits without the plugins that make them work.
BuildCoverage(routes, services, plugins) ==
  LET scoped == ScopedPlugins(routes, services, plugins)
      has(q, k) == EffectivePlugin(scoped, q, k) # {}
      service(q) == {s \in services : s.id = RefOr0(q, "service")}
      lost(q) == RefOr0(q, "service") # 0 /\ service(q) = {}
      off(q)  == \E s \in service(q) : s.val = "off"
      bad(q)  == \/ lost(q)
                 \/ /\ ~off(q)
                    /\ \/ q.id \in InvalidRoutes(routes, services, plugins)
                       \/ /\ has(q, "ai-rate-limit")
                          /\ ~(has(q, "ai-key-auth") /\ has(q, "ai-proxy"))
      live == {q \in routes : ~lost(q) /\ ~off(q)
                 /\ q.id \notin InvalidRoutes(routes, services, plugins)}
  IN [available |-> TRUE,
      auth     |-> Cardinality({q \in live : has(q, "ai-key-auth")}),
      enforced |-> Cardinality({q \in live : \A k \in AiKinds : has(q, k)}),
      errors   |-> Cardinality({q \in routes : bad(q)})]

CoverageOf(d) == BuildCoverage(d["routes"], d["services"], d["plugins"])

\* AiPolicyCoverageIndex::unavailable: no generation was built yet.
Unavailable == [available |-> FALSE, auth |-> 0, enforced |-> 0, errors |-> 0]

-----------------------------------------------------------------------------
Free == [readers |-> {}, writer |-> {}]

\* refresh_proxy_cache reads one page of a table, of at most 10000 rows.
FirstPage(rows) == Page(rows, 0, PageSize).data

\* What the proxy starts with: every page of the tables of PostgreSQL
\* (load_all_entities), one page of those of the DB-less store.
Loaded(m, rows) == IF m = "off" THEN FirstPage(rows) ELSE LoadAll(rows, PageSize)

Init ==
  /\ mode \in {"postgres", "off"}
  /\ requests \in Workloads
  /\ db = Seed
  /\ index = Seed
  /\ lock = [l \in {"data", "names", "foreign"} |-> Free]
  /\ worker = [w \in Workers |-> Idle]
  /\ signals = <<>>
  /\ refresher = [pc |-> "wait", pending |-> {}, type |-> "none", read |-> <<>>]
  /\ cache = [t \in Cached |-> Loaded(mode, Seed[t])]
  /\ coverage = IF mode = "off" THEN Unavailable ELSE CoverageOf(Seed)
  /\ targetHealth = [k \in {} |-> "HEALTHY"]
  /\ unread = IF mode = "off" THEN {"coverage"} ELSE {}
  /\ torn = FALSE
  /\ calls = 0
  /\ errors = 0

-----------------------------------------------------------------------------
(* Steps that handlers share.                                                 *)

Unmoved == UNCHANGED <<mode, requests, index, lock, refresher, cache, coverage, unread, torn, errors>>

\* A task takes a request.
Arrives(w, r, h) ==
  /\ mode = "postgres"
  /\ worker[w].pc = "idle"
  /\ calls < MaxCalls
  /\ r.h = h
  /\ calls' = calls + 1

At(w, pc) == worker[w].pc = pc /\ UNCHANGED calls

\* Where the task of w continues.
Becomes(w, k) == worker' = [worker EXCEPT ![w] = k]
Goto(w, r, pc, row) == [pc |-> pc, r |-> r, row |-> row, del |-> {}, sig |-> <<>>]

\* The end of a handler: signals are sent after the last statement, or none.
Signalling(w, r, sig) ==
  Becomes(w, IF sig = <<>> THEN Idle ELSE [Goto(w, r, "signal", NoRow) EXCEPT !.sig = sig])

\* One statement, and the signals for either answer.
Finish(w, r, res, sigOk, sigErr) ==
  /\ db' = res.d
  /\ Signalling(w, r, IF res.ok THEN sigOk ELSE sigErr)

\* The send to refresh_tx; a handler with statements left goes on to them.
SendSignal(w) ==
  /\ At(w, "signal")
  /\ signals' = signals \o worker[w].sig
  /\ Becomes(w, CASE worker[w].r.h = "delete_scoped_plugin" -> [worker[w] EXCEPT !.pc = "delete"]
                  [] worker[w].r.h = "upsert_route_service" /\ worker[w].del # {} ->
                       [worker[w] EXCEPT !.pc = "link"]
                  [] OTHER -> Idle)
  /\ UNCHANGED <<db, targetHealth>> /\ Unmoved

-----------------------------------------------------------------------------
(* do_create, do_update, do_upsert, do_delete and the handlers the macro      *)
(* entity_handlers generates from them.                                       *)

\* generate_plugin_cache_key, populate_key_cache_key and the key of a target:
\* the computed column a handler derives from the others.
ComputedKey(t, row) ==
  CASE t = "plugins" -> <<row.val, RefOr0(row, "route"), RefOr0(row, "service"), RefOr0(row, "consumer")>>
    [] t = "targets" -> <<RefOr0(row, "upstream"), row.name>>
    [] t = "keys"    -> <<row.val, RefOr0(row, "set")>>
    [] OTHER -> NoName

\* create_* of entity_handlers, and do_create: one INSERT.
CreateEntity(w, r) ==
  /\ Arrives(w, r, "create")
  /\ Finish(w, r, Insert(db, r.t, [r.row EXCEPT !.key = ComputedKey(r.t, r.row)]), SignalOf(r.t), <<>>)
  /\ UNCHANGED <<signals, targetHealth>> /\ Unmoved

\* The merge of do_update: the columns of the body over the row that was read.
\* The row carries every column to the UPDATE.  Keys are the one table whose
\* handler computes cache_key again.
Merged(t, old, patch) ==
  LET new == [old EXCEPT !.val  = IF patch.val = "none" THEN @ ELSE patch.val,
                         !.name = IF patch.name = NoName THEN @ ELSE patch.name,
                         !.refs = Over(patch.refs, @)]
  IN IF t = "keys" THEN [new EXCEPT !.key = ComputedKey(t, new)] ELSE new

\* do_update, first half: SELECT and merge, or 404.
UpdateRead(w, r) ==
  /\ Arrives(w, r, "update")
  /\ \/ /\ Select(db, r.t, r.id) = {}
        /\ Becomes(w, Idle)
     \/ \E old \in Select(db, r.t, r.id) :
          Becomes(w, Goto(w, r, "update", Merged(r.t, old, r.row)))
  /\ UNCHANGED <<db, signals, targetHealth>> /\ Unmoved

\* do_update, second half: UPDATE of the whole merged row.
UpdateWrite(w) ==
  LET k == worker[w] IN
  /\ At(w, "update")
  /\ LET res == Update(db, k.r.t, k.row.id, k.row)
         always == IF k.r.h \in {"update_scoped_plugin", "update_route_service"}
                   THEN SignalOf(k.r.t) ELSE <<>>
     IN IF k.r.h = "update_certificate" /\ res.ok
        THEN /\ db' = res.d
             /\ Becomes(w, [k EXCEPT !.pc = "snis"])
        ELSE Finish(w, k.r, res, SignalOf(k.r.t), always)
  /\ UNCHANGED <<signals, targetHealth>> /\ Unmoved

\* do_upsert: the id of the body, or of the row with the name in the path.
UpsertLookup(w, r) ==
  /\ Arrives(w, r, "upsert")
  /\ Becomes(w, Goto(w, r, "upsert",
                     [r.row EXCEPT !.id = UpsertId(db, r.t, r.row, r.row.name # NoName),
                                   !.key = IF r.t = "keys" THEN ComputedKey(r.t, r.row) ELSE @]))
  /\ UNCHANGED <<db, signals, targetHealth>> /\ Unmoved

UpsertWrite(w) ==
  LET k == worker[w] IN
  /\ At(w, "upsert")
  /\ LET res == Upsert(db, k.r.t, k.row)
         always == IF k.r.h \in {"upsert_scoped_plugin", "upsert_nested_target", "upsert_route_service"}
                   THEN SignalOf(k.r.t) ELSE <<>>
     IN IF k.r.h = "upsert_certificate" /\ res.ok
        THEN /\ db' = res.d
             /\ Becomes(w, [k EXCEPT !.pc = "snis"])
        ELSE Finish(w, k.r, res, SignalOf(k.r.t), always)
  /\ UNCHANGED <<signals, targetHealth>> /\ Unmoved

\* delete_* of entity_handlers: the signal follows any answer.
DeleteEntity(w, r) ==
  /\ Arrives(w, r, "delete")
  /\ Finish(w, r, Delete(db, r.t, r.id), SignalOf(r.t), SignalOf(r.t))
  /\ UNCHANGED <<signals, targetHealth>> /\ Unmoved

-----------------------------------------------------------------------------
(* Handlers that resolve another row first, then create with its id.          *)

\* The INSERT they end with; nested SNIs and scoped plugins signal any answer.
InsertStep(w) ==
  LET k == worker[w] IN
  /\ At(w, "insert")
  /\ Finish(w, k.r, Insert(db, k.r.t, [k.row EXCEPT !.key = ComputedKey(k.r.t, k.row)]),
            SignalOf(k.r.t),
            IF k.r.h \in {"create_certificate_sni", "create_scoped_plugin"} THEN SignalOf(k.r.t) ELSE <<>>)
  /\ UNCHANGED <<signals, targetHealth>> /\ Unmoved

\* The parent in the path is read; its id becomes a foreign key of the body.
WithParent(w, r, owner, column) ==
  /\ Becomes(w, IF Select(db, owner, r.parent) = {} THEN Idle
                ELSE Goto(w, r, "insert", [r.row EXCEPT !.refs = With(column, r.parent, @)]))
  /\ UNCHANGED <<db, signals, targetHealth>> /\ Unmoved

\* create_route with service.name: resolve_service_name_ref.
CreateRoute(w, r) ==
  /\ Arrives(w, r, "create_route")
  /\ LET found == SelectByName(db, "services", r.parent)
     IN Becomes(w, IF found = {} THEN Idle
                   ELSE Goto(w, r, "insert", [r.row EXCEPT !.refs =
                          With("service", (CHOOSE s \in found : TRUE).id, @)]))
  /\ UNCHANGED <<db, signals, targetHealth>> /\ Unmoved

CreateNestedRoute(w, r) ==
  Arrives(w, r, "create_nested_route") /\ WithParent(w, r, "services", "service")

CreateCertificateSni(w, r) ==
  Arrives(w, r, "create_certificate_sni") /\ WithParent(w, r, "certificates", "certificate")

CreateNestedTarget(w, r) ==
  Arrives(w, r, "create_nested_target") /\ WithParent(w, r, "upstreams", "upstream")

CreateNestedKey(w, r) ==
  Arrives(w, r, "create_nested_key") /\ WithParent(w, r, "key_sets", "set")

\* create_{service,route,consumer}_plugin; the scope is the column of the body.
Owner(scope) == CASE scope = "service" -> "services" [] scope = "route" -> "routes"
                  [] scope = "consumer" -> "consumers"

CreateScopedPlugin(w, r, scope) ==
  Arrives(w, r, "create_scoped_plugin") /\ WithParent(w, r, Owner(scope), scope)

\* get_scoped_plugin: the plugin exists and belongs to the row in the path.
InScope(r, scope) == \E p \in Select(db, "plugins", r.id) : Refers(p, scope, r.parent)

\* update_scoped_plugin without upsert: a check, then do_update with the scope.
\* The signal is sent for a plugin that is not found too.
UpdateScopedPlugin(w, r, scope) ==
  /\ Arrives(w, r, "update_scoped_plugin")
  /\ IF Select(db, Owner(scope), r.parent) = {} THEN Becomes(w, Idle)
     ELSE IF ~InScope(r, scope) THEN Signalling(w, r, <<"plugins">>)
     ELSE Becomes(w, Goto(w, r, "merge", [r.row EXCEPT !.refs = With(scope, r.parent, @)]))
  /\ UNCHANGED <<db, signals, targetHealth>> /\ Unmoved

\* update_route_service: the service of the route, then do_update.
UpdateRouteService(w, r) ==
  /\ Arrives(w, r, "update_route_service")
  /\ \/ /\ \A q \in Select(db, "routes", r.parent) : "service" \notin DOMAIN q.refs
        /\ Becomes(w, Idle)
     \/ \E q \in Select(db, "routes", r.parent) :
          /\ "service" \in DOMAIN q.refs
          /\ Becomes(w, Goto(w, [r EXCEPT !.id = q.refs["service"]], "merge", r.row))
  /\ UNCHANGED <<db, signals, targetHealth>> /\ Unmoved

\* The SELECT and merge of a do_update that follows such a check.
MergeRead(w) ==
  LET k == worker[w] IN
  /\ At(w, "merge")
  /\ \/ /\ Select(db, k.r.t, k.r.id) = {}
        /\ Signalling(w, k.r, SignalOf(k.r.t))
     \/ \E old \in Select(db, k.r.t, k.r.id) :
          Becomes(w, [k EXCEPT !.pc = "update", !.row = Merged(k.r.t, old, k.row)])
  /\ UNCHANGED <<db, signals, targetHealth>> /\ Unmoved

\* update_scoped_plugin with upsert: no check of the plugin's scope, and no
\* cache_key: the row keeps none.
UpsertScopedPlugin(w, r, scope) ==
  /\ Arrives(w, r, "upsert_scoped_plugin")
  /\ Becomes(w, IF Select(db, Owner(scope), r.parent) = {} THEN Idle
                ELSE Goto(w, r, "upsert", [r.row EXCEPT !.id = r.id,
                                             !.refs = With(scope, r.parent, @)]))
  /\ UNCHANGED <<db, signals, targetHealth>> /\ Unmoved

\* delete_{service,route,consumer}_plugin: the signal is sent first.
DeleteScopedPlugin(w, r, scope) ==
  /\ Arrives(w, r, "delete_scoped_plugin")
  /\ IF Select(db, Owner(scope), r.parent) = {} THEN Becomes(w, Idle)
     ELSE Signalling(w, r, <<"plugins">>)
  /\ UNCHANGED <<db, signals, targetHealth>> /\ Unmoved

\* delete_scoped_plugin after the signal; deletes of certificates end here too.
DeleteStep(w) ==
  LET k   == worker[w]
      sig == CASE k.r.h = "delete_scoped_plugin" -> <<>>
               [] k.r.h = "delete_certificate" -> <<"certificates", "snis">>
               [] OTHER -> <<"ca_certificates">>
  IN /\ At(w, "delete")
     /\ IF k.r.h = "delete_scoped_plugin" /\ ~InScope(k.r, k.r.scope)
        THEN db' = db /\ Becomes(w, Idle)
        ELSE Finish(w, k.r, Delete(db, k.r.t, k.r.id), sig, sig)
     /\ UNCHANGED <<signals, targetHealth>> /\ Unmoved

\* The plugin handlers of a service, a route and a consumer: the row in the
\* path is resolved, its id is the scope of the plugin.
ScopedPlugin(w, r, scope) ==
  /\ r.scope = scope
  /\ \/ CreateScopedPlugin(w, r, scope) \/ UpdateScopedPlugin(w, r, scope)
     \/ UpsertScopedPlugin(w, r, scope) \/ DeleteScopedPlugin(w, r, scope)

ServicePlugins(w, r)  == ScopedPlugin(w, r, "service")
RoutePlugins(w, r)    == ScopedPlugin(w, r, "route")
ConsumerPlugins(w, r) == ScopedPlugin(w, r, "consumer")

\* upsert_route_service: the route's service is replaced, or created and then
\* linked by a do_update of the route whose answer is ignored.
UpsertRouteService(w, r) ==
  /\ Arrives(w, r, "upsert_route_service")
  /\ \/ /\ Select(db, "routes", r.parent) = {}
        /\ Becomes(w, Idle) /\ db' = db
     \/ \E q \in Select(db, "routes", r.parent) :
          IF "service" \in DOMAIN q.refs
          THEN /\ db' = db
               /\ Becomes(w, Goto(w, r, "upsert", [r.row EXCEPT !.id = q.refs["service"]]))
          ELSE LET res == Insert(db, "services", r.row)
               IN /\ db' = res.d
                  /\ Becomes(w, [Goto(w, r, "signal", NoRow) EXCEPT
                                   !.sig = <<"services">>, !.del = IF res.ok THEN {r.row.id} ELSE {}])
  /\ UNCHANGED <<signals, targetHealth>> /\ Unmoved

LinkRead(w) ==
  LET k == worker[w] IN
  /\ At(w, "link")
  /\ \/ /\ Select(db, "routes", k.r.parent) = {}
        /\ Signalling(w, k.r, <<"routes">>)
     \/ \E q \in Select(db, "routes", k.r.parent), s \in k.del :
          Becomes(w, [k EXCEPT !.pc = "link_write",
                               !.row = [q EXCEPT !.refs = With("service", s, @)]])
  /\ UNCHANGED <<db, signals, targetHealth>> /\ Unmoved

LinkWrite(w) ==
  LET k == worker[w] IN
  /\ At(w, "link_write")
  /\ Finish(w, k.r, Update(db, "routes", k.row.id, k.row), <<"routes">>, <<"routes">>)
  /\ UNCHANGED <<signals, targetHealth>> /\ Unmoved

-----------------------------------------------------------------------------
(* Targets of an upstream.                                                    *)

\* find_target_in_upstream, by id or by address.
TargetIn(r) ==
  {x \in db["targets"] : Refers(x, "upstream", r.parent)
                         /\ (x.id = r.id \/ (r.id = 0 /\ x.name = r.row.name))}

\* update_nested_target: dao.update with the columns of the body alone.
UpdateNestedTarget(w, r) ==
  /\ Arrives(w, r, "update_nested_target")
  /\ \/ TargetIn(r) = {} /\ Becomes(w, Idle)
     \/ \E x \in TargetIn(r) : Becomes(w, Goto(w, [r EXCEPT !.id = x.id], "patch_target", r.row))
  /\ UNCHANGED <<db, signals, targetHealth>> /\ Unmoved

PatchTarget(w) ==
  LET k == worker[w] IN
  /\ At(w, "patch_target")
  /\ LET now == Select(db, "targets", k.r.id)
         new == [val |-> k.row.val, name |-> k.row.name]
     IN Finish(w, k.r,
          IF now = {} THEN Refused(db, "not_found")
          ELSE LET x == CHOOSE x \in now : TRUE
               IN Update(db, "targets", x.id,
                    [x EXCEPT !.val = IF new.val = "none" THEN @ ELSE new.val,
                              !.name = IF new.name = NoName THEN @ ELSE new.name,
                              !.key = IF new.name = NoName THEN @ ELSE <<k.r.parent, new.name>>]),
          <<"targets">>, <<>>)
  /\ UNCHANGED <<signals, targetHealth>> /\ Unmoved

\* delete_nested_target signals only when a row went.
DeleteNestedTarget(w, r) ==
  /\ Arrives(w, r, "delete_nested_target")
  /\ \/ TargetIn(r) = {} /\ Becomes(w, Idle)
     \/ \E x \in TargetIn(r) : Becomes(w, Goto(w, [r EXCEPT !.id = x.id], "drop_target", r.row))
  /\ UNCHANGED <<db, signals, targetHealth>> /\ Unmoved

DropTarget(w) ==
  LET k == worker[w] IN
  /\ At(w, "drop_target")
  /\ Finish(w, k.r, Delete(db, "targets", k.r.id), <<"targets">>, <<>>)
  /\ UNCHANGED <<signals, targetHealth>> /\ Unmoved

\* upsert_nested_target: looked up in the upstream of the path; when it is not
\* there the address itself goes to PgDao::upsert, whose lookup by endpoint key
\* ("target") knows nothing of upstreams.
UpsertNestedTarget(w, r) ==
  /\ Arrives(w, r, "upsert_nested_target")
  /\ LET row == [r.row EXCEPT !.refs = With("upstream", r.parent, @)]
     IN IF Select(db, "upstreams", r.parent) = {} THEN Becomes(w, Idle)
        ELSE \/ \E x \in TargetIn(r) :
                  Becomes(w, Goto(w, r, "upsert", [row EXCEPT !.id = x.id, !.key = x.key]))
             \/ /\ TargetIn(r) = {}
                /\ Becomes(w, Goto(w, r, "upsert_target", [row EXCEPT !.key = <<r.parent, r.row.name>>]))
  /\ UNCHANGED <<db, signals, targetHealth>> /\ Unmoved

UpsertTargetLookup(w) ==
  LET k == worker[w] IN
  /\ At(w, "upsert_target")
  /\ Becomes(w, [k EXCEPT !.pc = "upsert", !.row.id = UpsertId(db, "targets", k.row, TRUE)])
  /\ UNCHANGED <<db, signals, targetHealth>> /\ Unmoved

\* set_target_health: kept in memory under upstream and address.
SetTargetHealth(w, r) ==
  /\ Arrives(w, r, "set_target_health")
  /\ \/ TargetIn(r) = {} /\ UNCHANGED targetHealth
     \/ \E x \in TargetIn(r) :
          targetHealth' = With(<<r.parent, x.name>>, r.row.val, targetHealth)
  /\ UNCHANGED <<db, signals, worker>> /\ Unmoved

-----------------------------------------------------------------------------
(* Certificates and their SNIs.                                               *)

\* validate_sni_names_for_create: no name is listed twice or used by another
\* certificate.
SniNamesFree(r, cert) ==
  /\ IsInjective(r.snis)
  /\ \A s \in db["snis"] : s.name \in ToSet(r.snis) => Refers(s, "certificate", cert)

\* create_certificate: names are checked, the certificate is inserted, then
\* every SNI by a statement of its own.
CreateCertificate(w, r) ==
  /\ Arrives(w, r, "create_certificate")
  /\ Becomes(w, IF SniNamesFree(r, 0) THEN Goto(w, r, "insert_certificate", r.row) ELSE Idle)
  /\ UNCHANGED <<db, signals, targetHealth>> /\ Unmoved

InsertCertificate(w) ==
  LET k == worker[w]
      res == Insert(db, "certificates", k.row)
  IN /\ At(w, "insert_certificate")
     /\ db' = res.d
     /\ Becomes(w, IF res.ok THEN [k EXCEPT !.pc = "sni_add"] ELSE Idle)
     /\ UNCHANGED <<signals, targetHealth>> /\ Unmoved

UpdateCertificate(w, r) ==
  /\ Arrives(w, r, "update_certificate")
  /\ \/ ~SniNamesFree(r, r.id) /\ Becomes(w, Idle)
     \/ SniNamesFree(r, r.id) /\ Becomes(w, Goto(w, r, "merge_certificate", r.row))
  /\ UNCHANGED <<db, signals, targetHealth>> /\ Unmoved

MergeCertificate(w) ==
  LET k == worker[w] IN
  /\ At(w, "merge_certificate")
  /\ \/ Select(db, "certificates", k.r.id) = {} /\ Becomes(w, Idle)
     \/ \E old \in Select(db, "certificates", k.r.id) :
          Becomes(w, [k EXCEPT !.pc = "update", !.row = Merged("certificates", old, k.row)])
  /\ UNCHANGED <<db, signals, targetHealth>> /\ Unmoved

\* upsert_certificate does not check the names it will insert.
UpsertCertificate(w, r) ==
  /\ Arrives(w, r, "upsert_certificate")
  /\ Becomes(w, Goto(w, r, "upsert", [r.row EXCEPT !.id = r.id]))
  /\ UNCHANGED <<db, signals, targetHealth>> /\ Unmoved

\* replace_snis_for_cert: the names in use are read, ...
ReadSnis(w) ==
  LET k == worker[w] IN
  /\ At(w, "snis")
  /\ Becomes(w, [k EXCEPT !.pc = "sni_del",
                          !.del = {s.name : s \in {s \in db["snis"] : Refers(s, "certificate", k.row.id)}}])
  /\ UNCHANGED <<db, signals, targetHealth>> /\ Unmoved

\* ... deleted one by one, whatever the answers, ...
DeleteSni(w) ==
  LET k == worker[w] IN
  /\ At(w, "sni_del")
  /\ \/ /\ k.del = {}
        /\ Becomes(w, [k EXCEPT !.pc = IF k.r.h = "delete_certificate" THEN "delete" ELSE "sni_add"])
        /\ db' = db
     \/ \E n \in k.del :
          /\ Becomes(w, [k EXCEPT !.del = @ \ {n}])
          /\ db' = [db EXCEPT !["snis"] = {s \in @ : s.name # n}]
  /\ UNCHANGED <<signals, targetHealth>> /\ Unmoved

\* ... and create_snis_for_cert inserts the new ones: the first that fails ends
\* the handler without a signal.
AddSni(w) ==
  LET k == worker[w]
      free == CHOOSE i \in 1..(Cardinality(db["snis"]) + 1) : i \notin IdsOf(db["snis"])
  IN /\ At(w, "sni_add")
     /\ \/ /\ k.r.snis = <<>>
           /\ Signalling(w, k.r, <<"certificates", "snis">>) /\ db' = db
        \/ /\ k.r.snis # <<>>
           /\ LET res == Insert(db, "snis", Row(free, Head(k.r.snis), NoName, "sni",
                                                 With("certificate", k.row.id, NoRefs)))
              IN /\ db' = res.d
                 /\ Becomes(w, IF res.ok THEN [k EXCEPT !.r.snis = Tail(@)] ELSE Idle)
     /\ UNCHANGED <<signals, targetHealth>> /\ Unmoved

\* delete_certificate: its SNIs first, then the row.
DeleteCertificate(w, r) ==
  /\ Arrives(w, r, "delete_certificate")
  /\ Becomes(w, [Goto(w, r, "sni_del", r.row) EXCEPT
                   !.del = {s.name : s \in {s \in db["snis"] : Refers(s, "certificate", r.id)}}])
  /\ UNCHANGED <<db, signals, targetHealth>> /\ Unmoved

\* delete_ca_certificate: a scan of the services, then the DELETE.
DeleteCaCertificate(w, r) ==
  /\ Arrives(w, r, "delete_ca_certificate")
  /\ Becomes(w, IF \E s \in Page(db["services"], 0, PageSize).data : Refers(s, "ca_certificate", r.id)
                THEN Idle ELSE Goto(w, r, "delete", NoRow))
  /\ UNCHANGED <<db, signals, targetHealth>> /\ Unmoved

-----------------------------------------------------------------------------
(* run_cache_refresher.                                                       *)

Rest == UNCHANGED <<mode, requests, db, index, lock, worker, targetHealth, torn, calls>>

\* The first signal opens the window of 100 ms, ...
FirstSignal ==
  /\ refresher.pc = "wait"
  /\ signals # <<>>
  /\ signals' = Tail(signals)
  /\ refresher' = [refresher EXCEPT !.pc = "collect", !.pending = {Head(signals)}]
  /\ Rest /\ UNCHANGED <<cache, coverage, unread, errors>>

\* ... others join it, ...
CollectSignal ==
  /\ refresher.pc = "collect"
  /\ signals # <<>>
  /\ signals' = Tail(signals)
  /\ refresher' = [refresher EXCEPT !.pending = @ \cup {Head(signals)}]
  /\ Rest /\ UNCHANGED <<cache, coverage, unread, errors>>

\* ... and the deadline closes it.
Deadline ==
  /\ refresher.pc = "collect"
  /\ refresher' = [refresher EXCEPT !.pc = "refresh"]
  /\ Rest /\ UNCHANGED <<signals, cache, coverage, unread, errors>>

\* The tables an entity type is refreshed from, in the order they are read.
Sources(t) ==
  CASE t \in {"upstreams", "targets"} -> <<"upstreams", "targets">>
    [] t \in {"certificates", "snis"} -> <<"certificates", "snis">>
    [] OTHER -> <<t>>

\* In DB-less mode a page needs the read lock of `data`.
Readable == mode = "postgres" \/ lock["data"].writer = {}

Refreshed_NotForServices(t) ==
  IF t \in {"routes", "plugins"}
  THEN [refresher EXCEPT !.pc = "coverage", !.type = t, !.read = <<>>]
  ELSE [refresher EXCEPT !.pc = "refresh", !.pending = @ \ {t}, !.type = "none", !.read = <<>>]

\* After an entity type: coverage for the three it depends on, else the next.
Refreshed(t) ==
  IF t \in {"services", "routes", "plugins"}
  THEN [refresher EXCEPT !.pc = "coverage", !.type = t, !.read = <<>>]
  ELSE [refresher EXCEPT !.pc = "refresh", !.pending = @ \ {t}, !.type = "none", !.read = <<>>]

\* refresh_proxy_cache: a page of every source; with the last one the proxy
\* gets the new rows.
ReadSource ==
  /\ refresher.pc = "refresh" /\ refresher.pending # {} /\ Readable
  /\ \E t \in (IF refresher.type = "none" THEN refresher.pending ELSE {refresher.type}) :
       LET n    == Len(refresher.read) + 1
           read == Append(refresher.read, FirstPage(db[Sources(t)[n]]))
       IN IF n < Len(Sources(t))
          THEN /\ refresher' = [refresher EXCEPT !.type = t, !.read = read]
               /\ UNCHANGED <<cache, unread>>
          ELSE /\ cache' = [u \in Cached |-> IF u \in ToSet(Sources(t))
                              THEN read[CHOOSE i \in DOMAIN read : Sources(t)[i] = u] ELSE cache[u]]
               /\ unread' = unread \ ToSet(Sources(t))
               /\ refresher' = Refreshed(t)
  /\ Rest /\ UNCHANGED <<signals, coverage, errors>>

\* A read that fails keeps the old cache; the signal is spent.
ReadFails ==
  /\ refresher.pc = "refresh" /\ refresher.pending # {} /\ errors < MaxErrors
  /\ mode = "postgres"
  /\ \E t \in (IF refresher.type = "none" THEN refresher.pending ELSE {refresher.type}) :
       /\ unread' = unread \cup ToSet(Sources(t))
       /\ refresher' = Refreshed(t)
  /\ errors' = errors + 1
  /\ Rest /\ UNCHANGED <<signals, cache, coverage>>

\* refresh_ai_policy_coverage: three reads that run concurrently; `read` maps
\* the tables already read to their rows.
CoverageTables == {"routes", "services", "plugins"}

CoverageRead ==
  /\ refresher.pc = "coverage" /\ Readable
  /\ \E t \in CoverageTables \ DOMAIN refresher.read :
       refresher' = [refresher EXCEPT !.read = With(t, LoadAll(db[t], PageSize), @)]
  /\ Rest /\ UNCHANGED <<signals, cache, coverage, unread, errors>>

CoverageBuild_StaysPending ==
  /\ refresher.pc = "coverage"
  /\ DOMAIN refresher.read = CoverageTables
  /\ coverage' = BuildCoverage(refresher.read["routes"], refresher.read["services"],
                               refresher.read["plugins"])
  /\ unread' = unread \ {"coverage"}
  /\ refresher' = [refresher EXCEPT !.pc = "refresh", !.type = "none", !.read = <<>>]
  /\ Rest /\ UNCHANGED <<signals, cache, errors>>

CoverageBuild ==
  /\ refresher.pc = "coverage"
  /\ DOMAIN refresher.read = CoverageTables
  /\ coverage' = BuildCoverage(refresher.read["routes"], refresher.read["services"],
                               refresher.read["plugins"])
  /\ unread' = unread \ {"coverage"}
  /\ refresher' = [refresher EXCEPT !.pc = "refresh", !.pending = @ \ {refresher.type},
                                    !.type = "none", !.read = <<>>]
  /\ Rest /\ UNCHANGED <<signals, cache, errors>>

\* One of the three fails: the index of before stays.
CoverageFails ==
  /\ refresher.pc = "coverage" /\ errors < MaxErrors /\ mode = "postgres"
  /\ errors' = errors + 1
  /\ unread' = unread \cup {"coverage"}
  /\ refresher' = [refresher EXCEPT !.pc = "refresh", !.pending = @ \ {refresher.type},
                                    !.type = "none", !.read = <<>>]
  /\ Rest /\ UNCHANGED <<signals, cache, coverage>>

\* Every entity type is done; a control plane now pushes (module Cluster).
RefreshDone ==
  /\ refresher.pc = "refresh" /\ refresher.pending = {}
  /\ refresher' = [refresher EXCEPT !.pc = "wait"]
  /\ Rest /\ UNCHANGED <<signals, cache, coverage, unread, errors>>

-----------------------------------------------------------------------------
(* DB-less mode: DblessStore behind three RwLocks.                            *)

OffRest == UNCHANGED <<mode, requests, signals, refresher, cache, coverage, targetHealth, unread, errors>>

ArrivesOff(w, r, h) ==
  /\ mode = "off"
  /\ worker[w].pc = "idle"
  /\ calls < MaxCalls
  /\ r.h = h
  /\ calls' = calls + 1

CanRead(l)  == lock[l].writer = {}
CanWrite(l) == lock[l] = Free
ReadLock(l, w)  == [lock EXCEPT ![l].readers = @ \cup {w}]
Released(w) == [l \in DOMAIN lock |-> [readers |-> lock[l].readers \ {w},
                                       writer  |-> lock[l].writer \ {w}]]

\* Writes of DblessDao are refused.
WriteRefused(w, r) ==
  /\ mode = "off"
  /\ worker[w].pc = "idle" /\ calls < MaxCalls
  /\ r.h \in {"create", "update", "upsert", "delete"}
  /\ calls' = calls + 1
  /\ UNCHANGED <<db, index, lock, worker, torn>> /\ OffRest

\* post_config of a document with _format_version: load_from_json takes the
\* write locks of data, names and foreign keys, in this order, ...
PostConfig(w, r) ==
  /\ ArrivesOff(w, r, "post_config")
  /\ Becomes(w, Goto(w, r, "load_data", r.row))
  /\ UNCHANGED <<db, index, lock, torn>> /\ OffRest

LoadLock(w, pc, l, next) ==
  /\ At(w, pc) /\ CanWrite(l)
  /\ lock' = [lock EXCEPT ![l].writer = {w}]
  /\ Becomes(w, [worker[w] EXCEPT !.pc = next])
  /\ UNCHANGED <<db, index, torn>> /\ OffRest

LoadData(w)    == LoadLock(w, "load_data", "data", "load_names")
LoadNames(w)   == LoadLock(w, "load_names", "names", "load_foreign")
LoadForeign(w) == LoadLock(w, "load_foreign", "foreign", "load")

\* ... clears the store, loads table after table, and stops at the first one
\* that is not an array (here: after the services): what was loaded stays.
Load(w) ==
  LET whole == worker[w].row.val # "malformed"
      new   == [t \in Tables |-> IF whole \/ t = "services" THEN Document[t] ELSE {}]
  IN /\ At(w, "load")
     /\ db' = new /\ index' = new
     /\ torn' = ~whole
     /\ lock' = Released(w)
     /\ Becomes(w, IF whole THEN [worker[w] EXCEPT !.pc = "signal",
                      !.sig = <<"services", "routes", "plugins", "upstreams", "certificates", "ca_certificates">>]
                   ELSE Idle)
     /\ OffRest

\* get_entity: by id, under the read lock of data alone.
GetById(w, r) ==
  /\ ArrivesOff(w, r, "get") /\ CanRead("data")
  /\ UNCHANGED <<db, index, lock, worker, torn>> /\ OffRest

\* get_entity_by_endpoint_key and list_by_foreign_key: the read lock of an
\* index is held while the one of data is taken.
LookupIndex(w, r, l) ==
  /\ ArrivesOff(w, r, IF l = "names" THEN "get_by_name" ELSE "list_nested")
  /\ CanRead(l)
  /\ LET hits == {x \in index[r.t] : IF l = "names" THEN x.name = r.row.name ELSE x.refs = r.row.refs}
     IN IF hits = {} THEN lock' = lock /\ Becomes(w, Idle)
        ELSE /\ lock' = ReadLock(l, w)
             /\ Becomes(w, [Goto(w, r, "lookup", r.row) EXCEPT !.del = IdsOf(hits)])
  /\ UNCHANGED <<db, index, torn>> /\ OffRest

LookupData(w) ==
  /\ At(w, "lookup") /\ CanRead("data")
  /\ lock' = Released(w)
  /\ Becomes(w, Idle)
  /\ UNCHANGED <<db, index, torn>> /\ OffRest

-----------------------------------------------------------------------------
Handler(w, r) ==
  \/ CreateEntity(w, r) \/ UpdateRead(w, r) \/ UpsertLookup(w, r) \/ DeleteEntity(w, r)
  \/ CreateRoute(w, r) \/ CreateNestedRoute(w, r) \/ CreateCertificateSni(w, r)
  \/ CreateNestedTarget(w, r) \/ CreateNestedKey(w, r)
  \/ ServicePlugins(w, r) \/ RoutePlugins(w, r) \/ ConsumerPlugins(w, r)
  \/ UpdateRouteService(w, r) \/ UpsertRouteService(w, r)
  \/ UpdateNestedTarget(w, r) \/ DeleteNestedTarget(w, r) \/ UpsertNestedTarget(w, r)
  \/ SetTargetHealth(w, r)
  \/ CreateCertificate(w, r) \/ UpdateCertificate(w, r) \/ UpsertCertificate(w, r)
  \/ DeleteCertificate(w, r) \/ DeleteCaCertificate(w, r)
  \/ WriteRefused(w, r) \/ PostConfig(w, r) \/ GetById(w, r)
  \/ \E l \in {"names", "foreign"} : LookupIndex(w, r, l)

Step(w) ==
  \/ SendSignal(w) \/ UpdateWrite(w) \/ UpsertWrite(w) \/ InsertStep(w) \/ MergeRead(w)
  \/ DeleteStep(w) \/ LinkRead(w) \/ LinkWrite(w) \/ PatchTarget(w) \/ DropTarget(w)
  \/ UpsertTargetLookup(w) \/ InsertCertificate(w) \/ MergeCertificate(w) \/ ReadSnis(w)
  \/ DeleteSni(w) \/ AddSni(w)
  \/ LoadData(w) \/ LoadNames(w) \/ LoadForeign(w) \/ Load(w) \/ LookupData(w)

Refresher ==
  \/ FirstSignal \/ CollectSignal \/ Deadline \/ ReadSource \/ ReadFails
  \/ CoverageRead \/ CoverageBuild \/ CoverageFails \/ RefreshDone

Next == (\E w \in Workers : Step(w) \/ \E r \in requests : Handler(w, r)) \/ Refresher

\* Tasks and the refresher are scheduled by tokio and never wait for a client.
Fairness == (\A w \in Workers : WF_vars(Step(w))) /\ WF_vars(Refresher)

Spec == Init /\ [][Next]_vars /\ Fairness

-----------------------------------------------------------------------------
(* Properties.                                                                *)

\* No request, no signal and no refresh is under way.
Quiet == /\ \A w \in Workers : worker[w].pc = "idle"
         /\ signals = <<>>
         /\ refresher.pc = "wait"

\* The rows the proxy may serve of a table: all of them, or one page of a table
\* that outgrew a page and was refreshed since the start.
Shown(rows) == {rows, FirstPage(rows)}

\* Every write of the handlers reaches the proxy: when nothing is under way,
\* the rows it serves are those of the database (of a table that outgrew a page,
\* its first page), whatever the order in which writes, signals and the reads
\* of the refresher fell.  Two reasons make the claim weaker for plugins,
\* certificates and SNIs in PostgreSQL mode: rows go by a cascade or by a
\* handler that signals first, and a failed SNI ends a handler without a signal.
\* A read that failed, or a configuration refused half-way, leaves the cache
\* behind until the next signal of its type.  The index of AI policy coverage is
\* built from three reads that need not be of one generation; it still counts
\* what the database holds once the plugins served are those of the database
\* and fewer than a page, so that none was cut off.
SettledCache ==
  Quiet /\ ~torn =>
    /\ \A t \in (IF mode = "off" THEN Cached
                 ELSE Cached \ {"plugins", "certificates", "snis"}) \ unread :
         cache[t] \in Shown(db[t])
    /\ unread = {} /\ cache["plugins"] = db["plugins"] /\ Cardinality(db["plugins"]) < PageSize
         => coverage = CoverageOf(db)

\* load_from_json waits for an index lock that a lookup holds while the lookup
\* waits for data, which the load holds: neither ever returns.
Stuck == \E w, v \in Workers :
           /\ worker[v].pc = "lookup"
           /\ \/ worker[w].pc = "load_names" /\ v \in lock["names"].readers
              \/ worker[w].pc = "load_foreign" /\ v \in lock["foreign"].readers

\* When requests stop coming, every handler returns and every signal is
\* consumed by a refresh that ends; the one exception is a reload of the
\* DB-less store that meets a lookup by name or by foreign key.
Settles == <>[](Quiet \/ Stuck)

\* PUT of a target under one upstream leaves the targets of the others alone:
\* the handler looks for the target "scoped to this upstream".
TargetsStay ==
  [][\A w \in Workers :
       worker[w].pc = "upsert" /\ worker[w].r.h = "upsert_nested_target" /\ worker'[w] # worker[w]
         => \A x \in db["targets"] : Refers(x, "upstream", worker[w].r.parent) \/ x \in db'["targets"]]_vars
==============================================================================
