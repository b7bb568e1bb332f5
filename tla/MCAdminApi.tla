----------------------------- MODULE MCAdminApi -----------------------------
(* Instances of AdminApi: a database with one or two rows in every table, and *)
(* requests that touch all of them.                                           *)
EXTENDS AdminApi, AdminSchema, TLC

R(i, n, v, refs) == Row(i, n, NoName, v, refs)
RK(t, i, n, v, refs) == [Row(i, n, NoName, v, refs) EXCEPT !.key = ComputedKey(t, R(i, n, v, refs))]
Refs1(c, i) == c :> i

MCSeed ==
  [t \in Tables |->
     CASE t = "services" -> {R(1, "s1", "on", NoRefs)}
       [] t = "routes"   -> {R(1, "r1", "path", Refs1("service", 1)),
                             R(2, "r0", "path", NoRefs)}
       [] t = "consumers" -> {R(1, "c1", "user", NoRefs)}
       [] t = "plugins"  -> {RK("plugins", 1, NoName, "ai-key-auth", Refs1("service", 1)),
                             RK("plugins", 2, NoName, "ai-proxy", NoRefs)}
       [] t = "upstreams" -> {R(1, "u1", "lb", NoRefs), R(2, "u2", "lb", NoRefs)}
       [] t = "targets"  -> {RK("targets", 1, "a", "w1", Refs1("upstream", 1))}
       [] t = "certificates" -> {R(1, NoName, "pem", NoRefs)}
       [] t = "snis"     -> {R(1, "n1", "sni", Refs1("certificate", 1))}
       [] t = "ca_certificates" -> {R(1, NoName, "ca", NoRefs)}
       [] t = "key_sets" -> {R(1, "k", "set", NoRefs)}
       [] t = "keys"     -> {RK("keys", 1, "key", "kid", Refs1("set", 1))}
       [] OTHER -> {}]

MCDocument ==
  [MCSeed EXCEPT !["services"] = {R(1, "s1", "off", NoRefs), R(2, "s2", "on", NoRefs)},
                 !["routes"] = {R(2, "r1", "path", Refs1("service", 2))},
                 !["plugins"] = {}]

Req(h, t, i, row) == Request(h, t, i, row, 0, "none", <<>>)
Nested(h, t, i, row, parent, scope) == Request(h, t, i, row, parent, scope, <<>>)
Cert(h, i, row, snis) == Request(h, "certificates", i, row, 0, "none", snis)

\* Requests on services and routes, ...
Topology ==
  { Req("create", "services", 0, R(2, "s2", "on", NoRefs)),
    Req("update", "services", 1, R(0, "sx", "none", Refs1("ca_certificate", 1))),
    Req("delete", "services", 1, NoRow),
    Req("delete_ca_certificate", "ca_certificates", 1, NoRow),
    Request("create_route", "routes", 0, R(3, "r2", "path", NoRefs), "s1", "none", <<>>),
    Nested("create_nested_route", "routes", 0, R(3, "r3", "path", NoRefs), 1, "none"),
    Nested("update_route_service", "services", 0, R(0, NoName, "off", NoRefs), 1, "none"),
    Nested("upsert_route_service", "services", 0, R(3, "s3", "on", NoRefs), 1, "none"),
    Nested("upsert_route_service", "services", 0, R(3, "s3", "on", NoRefs), 2, "none") }

\* ... on plugins and what they are bound to, ...
Plugins ==
  { Req("create", "plugins", 0, R(3, NoName, "ai-rate-limit", NoRefs)),
    Req("delete", "services", 1, NoRow),
    Req("delete", "routes", 1, NoRow),
    Req("delete", "consumers", 1, NoRow),
    Nested("create_scoped_plugin", "plugins", 0, R(3, NoName, "ai-proxy", NoRefs), 1, "route"),
    Nested("create_scoped_plugin", "plugins", 0, R(4, NoName, "acl", NoRefs), 1, "consumer"),
    Nested("update_scoped_plugin", "plugins", 1, R(0, NoName, "acl", NoRefs), 1, "service"),
    Nested("upsert_scoped_plugin", "plugins", 2, R(2, NoName, "ai-proxy", NoRefs), 1, "service"),
    Nested("delete_scoped_plugin", "plugins", 1, NoRow, 1, "service") }

\* ... on upstreams and targets, ...
Balancing ==
  { Req("upsert", "upstreams", 0, R(3, "u2", "lb2", NoRefs)),
    Req("delete", "upstreams", 1, NoRow),
    Nested("create_nested_target", "targets", 0, R(2, "b", "w1", NoRefs), 1, "none"),
    Nested("update_nested_target", "targets", 1, R(0, "b", "none", NoRefs), 1, "none"),
    Nested("update_nested_target", "targets", 1, R(0, NoName, "w0", NoRefs), 1, "none"),
    Nested("delete_nested_target", "targets", 1, NoRow, 1, "none"),
    Nested("upsert_nested_target", "targets", 0, R(3, "a", "w2", NoRefs), 1, "none"),
    Nested("upsert_nested_target", "targets", 0, R(3, "a", "w3", NoRefs), 2, "none"),
    Nested("set_target_health", "targets", 1, R(0, NoName, "UNHEALTHY", NoRefs), 1, "none") }

\* ... on certificates, SNIs and keys, ...
Secrets ==
  { Cert("create_certificate", 0, R(2, NoName, "pem", NoRefs), <<"n2", "n3">>),
    Cert("update_certificate", 1, R(0, NoName, "pem2", NoRefs), <<"n2">>),
    Cert("upsert_certificate", 1, R(1, NoName, "pem3", NoRefs), <<"n3">>),
    Cert("delete_certificate", 1, NoRow, <<>>),
    Nested("create_certificate_sni", "snis", 0, R(9, "n2", "sni", NoRefs), 1, "certificate"),
    Nested("create_nested_key", "keys", 0, R(2, "key2", "kid", NoRefs), 1, "set"),
    Req("update", "keys", 1, R(0, NoName, "kid2", NoRefs)) }

\* ... and of DB-less mode.
Declarative ==
  { Req("post_config", "services", 0, R(0, NoName, "whole", NoRefs)),
    Req("post_config", "services", 0, R(0, NoName, "malformed", NoRefs)),
    Req("create", "services", 0, R(2, "s2", "on", NoRefs)),
    Req("get", "services", 1, NoRow),
    Req("get_by_name", "services", 0, R(0, "s1", "none", NoRefs)),
    Req("list_nested", "routes", 0, R(0, NoName, "none", Refs1("service", 1))) }

MCWorkloads == {Topology, Plugins, Balancing, Secrets, Declarative, {}}

MCInit == Init /\ SchemaInit

\* Behaviours without requests to the handlers write one entity through the
\* checks of AdminSchema; the others leave it alone.
MCSpec ==
  /\ MCInit
  /\ [][\/ Next /\ UNCHANGED entity
        \/ requests = {} /\ mode = "postgres" /\ SchemaNext /\ UNCHANGED vars]_<<vars, entity>>
  /\ Fairness
=============================================================================
