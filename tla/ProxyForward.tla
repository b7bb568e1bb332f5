---------------------------- MODULE ProxyForward ----------------------------
(* What the upstream is sent: the address and server name of                  *)
(* resolve_upstream and the plugins' overrides, and the header of             *)
(* upstream_request_filter, which Pingora runs anew for every attempt on a    *)
(* copy of the client's header.                                               *)
(*                                                                            *)
(* A forwarded header holds who vouches for it: "client" when the value came  *)
(* with the request, "proxy" when the proxy wrote what it saw itself.         *)
EXTENDS ProxyRouting

CONSTANTS
  Clients,         \* requests: [path, host, authority, claims, hops, ip, upgrade, grpc]
  Matches,         \* route matches: [strip_path, preserve_host, matched, regex]
  Upstreams,       \* services: [host, port, path, tls, grpc, targets, host_header]
  Overrides,       \* what plugins set: [host, scheme, path, http1]
  Injected,        \* proxy_real_ip_headers: the headers that are configured
  Trusted,         \* trusted_ips: the addresses they contain
  MaxForwards      \* bound on the attempts

VARIABLES
  client, match, upstream, override,   \* the request under way
  forwarded,       \* the header of each attempt
  injected         \* injected_real_ip_headers, for the access log

ASSUME ForwardAssumption ==
  /\ NoValue # "client"
  /\ \A c \in Clients : IsList(c.path) /\ IsList(c.hops)
  /\ \A m \in Matches : m.matched # NoValue => IsList(m.matched)
  /\ \A s \in Upstreams : s.path # NoValue => IsList(s.path)

forwardVars == <<client, match, upstream, override, forwarded, injected>>

Claimable == {"x-real-ip", "x-forwarded-proto", "x-forwarded-host", "x-forwarded-port",
              "x-forwarded-path", "x-forwarded-prefix"}

(***************************************************************************)
(* The peer: balancer target or the service itself, then the plugins'.     *)
(***************************************************************************)
resolve_upstream(s) ==
  IF s.targets # {}
  THEN {[addr |-> t, tls |-> s.tls, sni |-> IF s.host_header # NoValue THEN s.host_header ELSE t[1]]
          : t \in s.targets}
  ELSE {[addr |-> <<s.host, s.port>>, tls |-> s.tls, sni |-> s.host]}

DefaultPort(tls) == IF tls THEN 443 ELSE 80

\* The port of an overridden host is the default of the service's scheme: the
\* scheme is overridden after it.
apply_plugin_upstream_overrides(peer, o) ==
  LET moved == IF o.host = NoValue THEN peer
               ELSE [peer EXCEPT !.addr = <<o.host, DefaultPort(peer.tls)>>, !.sni = o.host]
  IN IF o.scheme = NoValue THEN moved
     ELSE [moved EXCEPT !.tls = o.scheme \in {"https", "grpcs", "tls"}]

\* ALPN: the versions upstream_peer lets the connection speak.
HttpVersions(peer, s, o) ==
  IF o.http1 THEN {"h1"} ELSE IF peer.tls THEN {"h2", "h1"} ELSE IF s.grpc THEN {"h2"} ELSE {"h1"}

(***************************************************************************)
(* The path.                                                               *)
(***************************************************************************)
Root == <<Blank>>

Stripped(path, matched) ==
  LET cut == TrimSlash(matched)
      rest == IF IsPrefix(cut, path) THEN SubSeq(path, Len(cut) + 1, Len(path)) ELSE path
  IN IF rest = <<>> THEN Root ELSE rest

UpstreamPath(path, m, s, o) ==
  IF o.path # NoValue THEN o.path
  ELSE IF ~m.strip_path \/ m.matched = NoValue THEN path
  ELSE (IF s.path = NoValue THEN <<>> ELSE TrimSlash(s.path)) \o Stripped(path, m.matched)

UpstreamHost(c, m, peer) ==
  IF ~m.preserve_host THEN peer.sni ELSE IF c.host # NoValue THEN c.host ELSE c.authority

(***************************************************************************)
(* The headers that tell the upstream about the client.                    *)
(***************************************************************************)
IsTrusted(c) == c.ip \in Trusted

\* A configured header: a trusted client's value is kept, else the proxy's.
ForwardedHeader(c, h) ==
  IF h \notin Injected THEN (IF h \in c.claims THEN "client" ELSE NoValue)
  ELSE IF IsTrusted(c) /\ h \in c.claims THEN "client" ELSE "proxy"

\* X-Real-IP is left alone when the address of the client is unknown.
RealIp(c) ==
  IF c.ip = NoValue THEN (IF "x-real-ip" \in c.claims THEN "client" ELSE NoValue)
  ELSE ForwardedHeader(c, "x-real-ip")

\* X-Forwarded-Host repeats the Host header, when there is one.
ForwardedHost(c) ==
  IF c.host = NoValue THEN (IF "x-forwarded-host" \in c.claims THEN "client" ELSE NoValue)
  ELSE ForwardedHeader(c, "x-forwarded-host")

\* The prefix is what strip_path removed; without stripping there is none.
ForwardedPrefix(c, m) ==
  LET own == IF "x-forwarded-prefix" \in c.claims THEN "client" ELSE NoValue
  IN IF "x-forwarded-prefix" \notin Injected \/ IsTrusted(c) THEN own
     ELSE IF ~m.strip_path THEN NoValue
     ELSE IF m.matched = NoValue THEN own
     ELSE IF m.matched = Root THEN NoValue ELSE "proxy"

\* Mutant: appends to what the attempt before it sent.
ForwardedFor_Grows(c) ==
  (IF forwarded = <<>> THEN c.hops ELSE forwarded[Len(forwarded)].hops) \o <<c.ip>>

\* The client's address is appended to the hops the request came with.
ForwardedFor(c) ==
  IF "x-forwarded-for" \in Injected /\ c.ip # NoValue THEN Append(c.hops, c.ip) ELSE c.hops

\* Hop-by-hop headers go no further, except those of a protocol upgrade and
\* gRPC's trailers.
HopByHop(c) ==
  (IF c.upgrade THEN {"upgrade", "connection", "sec-websocket-key"} ELSE {})
    \cup (IF c.grpc THEN {"trailer"} ELSE {})

UpstreamRequest(c, m, s, o, peer) ==
  [path |-> UpstreamPath(c.path, m, s, o), host |-> UpstreamHost(c, m, peer),
   hops |-> ForwardedFor(c), hop_by_hop |-> HopByHop(c), peer |-> peer,
   versions |-> HttpVersions(peer, s, o),
   claims |-> [h \in Claimable |-> CASE h = "x-real-ip" -> RealIp(c)
                                     [] h = "x-forwarded-host" -> ForwardedHost(c)
                                     [] h = "x-forwarded-prefix" -> ForwardedPrefix(c, m)
                                     [] OTHER -> ForwardedHeader(c, h)]]

\* Every attempt notes the headers it injected, also those it injected before.
NotedHeaders(c, m) ==
  LET named == {h \in Injected : /\ h \in {"x-real-ip", "x-forwarded-for"} => c.ip # NoValue
                                 /\ h = "x-forwarded-host" => c.host # NoValue
                                 /\ h = "x-forwarded-prefix" => ForwardedPrefix(c, m) = "proxy"}
  IN SetToSeq(named)

\* The router matched a prefix of the path, or text that a regular expression
\* found elsewhere in it.
PathGiven(c, m) == m.matched \notin {NoValue, Root} /\ ~m.regex => PrefixMatches(m.matched, c.path)

AcceptRequest ==
  /\ client = NoValue
  /\ client' \in Clients /\ match' \in Matches /\ upstream' \in Upstreams /\ override' \in Overrides
  /\ PathGiven(client', match')
  /\ UNCHANGED <<forwarded, injected>>

\* The peer of the request is resolved once; an attempt only resolves its name.
Attempt ==
  /\ client # NoValue /\ Len(forwarded) < MaxForwards
  /\ \E target \in resolve_upstream(upstream) :
       LET peer == IF forwarded = <<>> THEN apply_plugin_upstream_overrides(target, override)
                   ELSE forwarded[1].peer
       IN forwarded' = Append(forwarded, UpstreamRequest(client, match, upstream, override, peer))
  /\ injected' = injected \o NotedHeaders(client, match)
  /\ UNCHANGED <<client, match, upstream, override>>

ForwardInit ==
  /\ client = NoValue /\ match = NoValue /\ upstream = NoValue /\ override = NoValue
  /\ forwarded = <<>> /\ injected = <<>>

Forwarding == AcceptRequest \/ Attempt

ForwardSpec == ForwardInit /\ [][Forwarding]_forwardVars

-----------------------------------------------------------------------------
(* Properties *)

\* Every attempt forwards the same request: each hop is recorded once however
\* often Pingora retries; what the service's path and the stripped prefix hide
\* can be put together again to the path the client asked for; and unless the
\* client is trusted, the configured headers are the proxy's own word wherever
\* the proxy has a word of its own: an address, a Host header, a matched path
\* (upstream_request_filter).
ForwardedOnce ==
  \A k \in DOMAIN forwarded :
    LET sent == forwarded[k]
        base == IF upstream.path = NoValue THEN <<>> ELSE TrimSlash(upstream.path)
        rest == SubSeq(sent.path, Len(base) + 1, Len(sent.path))
    IN /\ sent = forwarded[1]
       /\ IsPrefix(client.hops, sent.hops) /\ Len(sent.hops) <= Len(client.hops) + 1
       /\ match.strip_path /\ match.matched # NoValue /\ override.path = NoValue =>
            /\ IsPrefix(base, sent.path)
            /\ TrimSlash(client.path) \in {TrimSlash(TrimSlash(match.matched) \o rest)}
                 \cup (IF match.regex THEN {TrimSlash(rest)} ELSE {})
       /\ ~IsTrusted(client) =>
            \A h \in Injected \cap Claimable : sent.claims[h] = "client" =>
              \/ h = "x-real-ip" /\ client.ip = NoValue
              \/ h = "x-forwarded-host" /\ client.host = NoValue
              \/ h = "x-forwarded-prefix" /\ match.matched = NoValue
=============================================================================
