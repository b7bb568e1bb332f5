------------------------------ MODULE MCProxy ------------------------------
(* Instances of the modules of the proxy.  Each part is explored on its own:  *)
(* the parts interact through the snapshots ProxyPipeline takes of them.      *)
EXTENDS ProxyForward, ProxyStream, ProxyBalancing, ProxyPipeline, TLC

Plain(h) == [kind |-> "plain", matches |-> {h}]
Wild(hs) == [kind |-> "wildcard", matches |-> hs]
Prefix(p) == [kind |-> "prefix", segments |-> p]
Regex(us) == [kind |-> "regex", matches |-> us]

AnyRoute ==
  [id |-> 0, service |-> 1, hosts |-> {}, paths |-> {}, methods |-> {}, headers |-> <<>>,
   snis |-> {}, protocols |-> {"http", "https"}, regex_priority |-> 0, created_at |-> 0,
   expression |-> {}, priority |-> 0]

R1 == [AnyRoute EXCEPT !.id = 1, !.paths = {Prefix(<<"a">>)}, !.created_at = 1]
R2 == [AnyRoute EXCEPT !.id = 2, !.paths = {Prefix(<<"a", "">>), Prefix(<<"">>)}, !.created_at = 2,
                       !.service = 2]
R3 == [AnyRoute EXCEPT !.id = 3, !.paths = {Regex({<<"a", "b">>})}, !.regex_priority = 1, !.created_at = 5]
R4 == [AnyRoute EXCEPT !.id = 4, !.hosts = {Wild({"x", "y"})}, !.methods = {"GET"}]
R5 == [AnyRoute EXCEPT !.id = 5, !.hosts = {Plain("x")}, !.paths = {Prefix(<<"a">>)}]
R6 == [AnyRoute EXCEPT !.id = 6, !.headers = [h |-> {"v"}], !.paths = {Prefix(<<"a">>)}]
R7 == [AnyRoute EXCEPT !.id = 7, !.paths = {Prefix(<<"a">>)}, !.protocols = {"https"}, !.created_at = 0]
R8 == [AnyRoute EXCEPT !.id = 8, !.protocols = {"tcp"}]
R9 == [AnyRoute EXCEPT !.id = 9, !.hosts = {Wild({"x", "y"})}, !.paths = {Prefix(<<"">>)}, !.snis = {"s"}]

E1 == [AnyRoute EXCEPT !.id = 11, !.priority = 1,
         !.expression = {{[field |-> "http.path", op |-> "~", values |-> {<<"a">>, <<"a", "b">>}]}}]
E2 == [AnyRoute EXCEPT !.id = 12, !.priority = 3,
         !.expression = {{[field |-> "http.headers.h", op |-> "==", values |-> {"v"}],
                          [field |-> "http.method", op |-> "!=", values |-> {"POST"}]},
                         {[field |-> "tls.sni", op |-> "in", values |-> {"s"}]}}]
E3 == [AnyRoute EXCEPT !.id = 13, !.priority = 5,
         !.expression = {{[field |-> "http.method", op |-> "not in", values |-> {"POST"}]}}]
E4 == [AnyRoute EXCEPT !.id = 14, !.priority = 5,
         !.expression = {{[field |-> "net.protocol", op |-> "==", values |-> {"https"}],
                          [field |-> "http.host", op |-> "==", values |-> {"x"}]}}]

MCRouteTables ==
  { <<R1, R2, R3>>, <<R2, R4, R5, R6>>, <<R7, R1, R8>>, <<R9, R3, R4, R2>>,
    <<R6, R1, R5, R9>>, <<E1, E2, E3, E4>>, <<E4, E1>>, <<>> }

Ctx(m, host, uri, hdrs, scheme, sni) ==
  [method |-> m, host |-> host, host_no_port |-> host, uri |-> uri, headers |-> hdrs,
   scheme |-> scheme, sni |-> sni]

MCContexts ==
  { Ctx("GET", "x", <<"a">>, <<>>, "http", NoValue),
    Ctx("GET", "x", <<"a">>, <<>>, "https", "s"),
    Ctx("GET", "x", <<"a">>, [h |-> "v"], "http", NoValue),
    Ctx("GET", "y", <<"a", "b">>, <<>>, "http", NoValue),
    Ctx("POST", "y", <<"a", "">>, <<>>, "https", NoValue),
    Ctx("POST", "z", <<"b">>, [h |-> "v"], "http", NoValue),
    [Ctx("GET", "x:8000", <<"b">>, <<>>, "http", NoValue) EXCEPT !.host_no_port = "x"] }

S(i, snis, srcs, dsts, at) ==
  [id |-> i, protocols |-> {"tcp", "tls"}, snis |-> snis, sources |-> srcs,
   destinations |-> dsts, created_at |-> at]
End(net, port) == [network |-> net, port |-> port]
Net(ip, p) == [ip |-> ip, prefix |-> p]

S1 == S(1, {}, {}, {End(NoValue, 80)}, 1)
S2 == S(2, {<<"*", "b">>}, {}, {End(NoValue, 80)}, 3)
S3 == S(3, {<<"a", "b">>}, {}, {}, 2)
S4 == S(4, {}, {End(Net(2, 1), NoValue), End(Net(0, 2), 7)}, {}, 0)
S5 == [S(5, {}, {}, {}, 0) EXCEPT !.protocols = {"http"}]
S6 == S(6, {}, {End(Net(0, 0), NoValue)}, {End(Net(1, 2), NoValue)}, 4)

MCStreamTables == {<<S1, S2, S3>>, <<S4, S1, S5, S6>>, <<S5>>, <<S3, S6, S2, S4>>}

MCConnections ==
  [sni : {<<>>, <<"a", "b">>, <<"c", "b">>, <<"b">>}, source_ip : {NoValue, 0, 3}, source_port : {NoValue, 7},
   dest_ip : {0, 1}, dest_port : {80, 81}]

T(a, w) == [address |-> a, weight |-> w]
MCTargetLists == {<<T("a", 4), T("b", 2)>>, <<T("a", 1), T("c", 0), T("b", 1), T("d", 2)>>, <<T("b", 1)>>}

Thresholds(n, m, k, active) ==
  [successes |-> n, http_failures |-> m, tcp_failures |-> k, timeouts |-> k, active |-> active]
MCConfigs == {Thresholds(1, 1, 0, FALSE), Thresholds(2, 2, 1, TRUE), Thresholds(2, 1, 2, TRUE)}

\* The configuration without active checks belongs to the series of picks.
MCReports(c) == IF c.active THEN {"success", "healthy", "unhealthy", "tcp", "timeout", "other"}
                            ELSE {"healthy", "unhealthy"}

MCHashOf(k) ==
  CASE k = "default" -> 5 [] k = "k" -> 9
    [] OTHER -> (IF k[1] = "a" THEN 0 ELSE IF k[1] = "b" THEN 4 ELSE 7) + 3 * k[2]

\* Plugins "guard" and "log" on a route, a service or everywhere.
Bound(name, route, service) ==
  [name |-> name, route |-> route, service |-> service, consumer |-> None, enabled |-> TRUE]

MCPluginLists ==
  { <<Bound("guard", 1, None), Bound("guard", None, None), Bound("guard", 1, None)>>,
    <<Bound("log", None, 1), Bound("guard", 1, 1), [Bound("guard", None, None) EXCEPT !.enabled = FALSE]>>,
    <<Bound("gone", None, None), [Bound("log", None, None) EXCEPT !.consumer = 1]>> }
MCPriority == [guard |-> 10, log |-> 1]

MCRouteMaps == {1 :> 1, 1 :> None}
MCServiceMaps == {1 :> TRUE, 1 :> FALSE, <<>>}

Hook(name, closed, domain) == [name |-> name, closed |-> closed, domain |-> domain]
MCHooks == <<Hook("budget", TRUE, "ai"), Hook("notify", FALSE, "log")>>
MCAbortHandlers == <<[name |-> "refund", domain |-> "ai"], [name |-> "release", domain |-> "quota"]>>
MCFinalizers == <<"settle", "usage">>

Client(path, host, claims, hops, ip) ==
  [path |-> path, host |-> host, authority |-> "h", claims |-> claims, hops |-> hops, ip |-> ip,
   upgrade |-> hops # <<>>, grpc |-> host = NoValue]
MCClients ==
  { Client(<<"a">>, "h", {"x-real-ip", "x-forwarded-prefix", "x-forwarded-host"}, <<9>>, 1),
    Client(<<"a", "b", "">>, NoValue, {"x-forwarded-proto", "x-forwarded-host"}, <<>>, 2),
    Client(<<"a", "">>, "h", Claimable, <<9>>, NoValue), Client(Root, "h", {}, <<>>, 2) }
MCMatches ==
  {m \in [strip_path : BOOLEAN, preserve_host : BOOLEAN, regex : BOOLEAN,
          matched : {NoValue, Root, <<"a">>, <<"a", "">>, <<"b">>}] : m.regex => m.matched = <<"b">>}
Upstream(path, tls, addresses, header) ==
  [host |-> "s", port |-> 8000, path |-> path, tls |-> tls, grpc |-> ~tls, targets |-> addresses,
   host_header |-> header]
MCUpstreams ==
  {Upstream(NoValue, FALSE, {}, NoValue), Upstream(<<"v", "">>, TRUE, {<<"t", 1>>, <<"u", 2>>}, NoValue),
   Upstream(Root, TRUE, {<<"t", 1>>}, "v")}
Plugged(host, scheme, path) == [host |-> host, scheme |-> scheme, path |-> path, http1 |-> path # NoValue]
MCOverrides == {Plugged(NoValue, NoValue, NoValue), Plugged("o", "https", <<"c">>), Plugged(NoValue, "http", NoValue)}

Handshake(sni, tls, port) ==
  [ctx |-> [sni |-> sni, source_ip |-> 0, source_port |-> 7, dest_ip |-> 1, dest_port |-> port], tls |-> tls]
MCHandshakes ==
  {Handshake(sni, TRUE, 80) : sni \in {<<"A", "b", "c">>, <<"x", "b", "c">>, <<"a", "b", "y">>, <<"b", "c">>}}
    \cup {Handshake(<<>>, FALSE, 80), Handshake(<<"b", "c">>, TRUE, 81)}
MCLower == [l \in {"a", "b", "c", "x", "y"} |-> l] @@ ("A" :> "a")
S7 == [S(7, {<<"a", "b", "y">>}, {}, {}, 0) EXCEPT !.protocols = {"tls_passthrough", "tls"}]
MCL4Table == <<S1, S7>>
MCServiceOf == (1 :> 1) @@ (7 :> 1)
MCL4Services == {1 :> [enabled |-> TRUE], 1 :> [enabled |-> FALSE]}
MCCertLoads ==
  { [certs |-> (1 :> "one") @@ (2 :> "two"), snis |-> (<<"a", "b", "c">> :> 1) @@ (<<"*", "b", "c">> :> 2)],
    [certs |-> (1 :> "new") @@ (3 :> "any"), snis |-> (<<"*", "b", "c">> :> 1) @@ (<<"*">> :> 3)
                                                    @@ (<<"*", "c">> :> 1) @@ (<<"x", "b", "c">> :> 2)],
    [certs |-> 1 :> "one", snis |-> (<<"b", "*">> :> 1) @@ (<<"a", "b", "*">> :> 1)] }

VARIABLE part   \* the part a behaviour is about

MCInit == /\ part \in {"http", "stream", "picks", "health", "forward", "layer4", "request"}
          /\ RoutingInit /\ BalancingInit /\ PipelineInit /\ ForwardInit /\ StreamInit
          /\ part # "layer4" => l4services[1].enabled
          /\ part \in {"http", "stream"} \/ flavor = "traditional"
          /\ part = "picks" \/ algorithm = "round-robin"
          /\ config = IF part = "health" THEN Thresholds(2, 2, 1, TRUE) ELSE Thresholds(1, 1, 0, FALSE)
          /\ routing = 1 :> 1 /\ services = 1 :> TRUE
          /\ part # "request" => plugins[1].name = "gone"

\* A request reads what is published until its chain is resolved; an update
\* after that cannot touch it and is left out.
Request ==
  /\ PipelineNext
  /\ published' # published => \E r \in Requests : req[r].pc \in {"absent", "start", "service", "resolve"}

\* Layer-4 connections arrive with one table of routes.
Layer4 ==
  \/ streamTable = <<>> /\ streamTable' = MCL4Table /\ UNCHANGED streamVars
  \/ streamTable = MCL4Table /\ Streaming /\ UNCHANGED streamTable

MCNext ==
  /\ UNCHANGED part
  /\ part # "forward" => UNCHANGED forwardVars
  /\ part # "layer4" => UNCHANGED streamVars
  /\ \/ part = "http" /\ HttpRouting /\ UNCHANGED <<balancingVars, pipelineVars>>
     \/ part = "stream" /\ StreamRouting /\ UNCHANGED <<balancingVars, pipelineVars>>
     \/ /\ part = "picks" /\ (Balancing \/ HealthChecking) /\ UNCHANGED <<routingVars, pipelineVars>>
        /\ ~config'.active
        /\ algorithm' # "least-connections" => \A i \in Indices' : connection_counts'[i] = 0
     \/ /\ part = "health" /\ (HealthChecking \/ update_targets)
        /\ UNCHANGED <<routingVars, pipelineVars>>
        /\ Len(targets') <= 1 /\ Cardinality(DOMAIN health') <= 1 /\ config'.active
     \/ part = "forward" /\ Forwarding /\ UNCHANGED <<routingVars, balancingVars, pipelineVars>>
     \/ /\ part = "layer4" /\ Layer4 /\ UNCHANGED <<flavor, table, cache, answer, streamAnswer>>
        /\ UNCHANGED <<balancingVars, pipelineVars>>
     \/ part = "request" /\ Request /\ UNCHANGED <<routingVars, balancingVars>>

MCSpec ==
  /\ MCInit /\ PipelineFairness
  /\ [][MCNext]_<<part, routingVars, balancingVars, pipelineVars, forwardVars, streamVars>>
=============================================================================
