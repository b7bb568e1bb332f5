---------------------------- MODULE ProxyStream ----------------------------
(* A layer-4 connection of KongStreamProxy and the certificates of            *)
(* CertificateManager.  The connection peeks at the ClientHello, is routed,   *)
(* looks up its service, and is passed through, terminated with the           *)
(* certificate of its server name, or copied.  Routes, services and           *)
(* certificates are replaced meanwhile, certificates under two locks.         *)
EXTENDS ProxyRouting

CONSTANTS
  Handshakes,      \* connections: [ctx, tls]: the addresses and the client's SNI
  L4Services,      \* published services: service -> [enabled]
  CertLoads,       \* [certs: id -> pair, snis: name -> certificate id]
  Lower,           \* to_lowercase of a label
  ServiceOf,       \* stream route -> its service or NoValue
  DefaultCert,     \* the certificate of kong.conf, or NoValue
  MaxLoads         \* bound on what is published during a run

\* A server name is a list of labels; NoValue is no name, service or status.
ASSUME StreamAssumption ==
  /\ NoValue # "OK"
  /\ \A h \in Handshakes : "sni" \in DOMAIN h.ctx /\ IsList(h.ctx.sni)
  /\ \A load \in CertLoads : \A n \in DOMAIN load.snis : n # NoValue /\ IsList(n)
  /\ \A published \in L4Services : NoValue \notin DOMAIN published

VARIABLES
  cert_cache, sni_map,     \* what CertificateManager serves
  loading,                 \* the load whose sni_map is still to be stored
  l4services,
  loads,                   \* ghost: the loads published, the last one first
  conn                     \* the connection

streamVars == <<cert_cache, sni_map, loading, l4services, loads, conn>>

(***************************************************************************)
(* CertificateManager                                                      *)
(***************************************************************************)
\* Mutant: names are bound to the certificates of the load before.
SniMap_Stale(load) ==
  [n \in {m \in DOMAIN load.snis : load.snis[m] \in DOMAIN cert_cache} |-> cert_cache[load.snis[n]]]

\* Names whose certificate is missing from the load are left out.
SniMap(load) ==
  [n \in {m \in DOMAIN load.snis : load.snis[m] \in DOMAIN load.certs} |-> load.certs[load.snis[n]]]

\* load_certificates: both maps are built first and stored one after the other.
LoadCertificates ==
  \E load \in CertLoads :
    /\ loading = NoValue /\ Len(loads) < MaxLoads
    /\ cert_cache' = load.certs
    /\ loading' = [map |-> SniMap(load), load |-> load]
    /\ UNCHANGED <<sni_map, l4services, loads, conn>>

StoreSniMap ==
  /\ loading # NoValue
  /\ sni_map' = loading.map
  /\ loads' = <<loading.load>> \o loads
  /\ loading' = NoValue
  /\ UNCHANGED <<cert_cache, l4services, conn>>

UpdateL4Services ==
  /\ l4services' \in L4Services
  /\ conn.pc \in {"route", "service"}
  /\ UNCHANGED <<cert_cache, sni_map, loading, loads, conn>>

\* *.b.c for a.b.c; a name of two labels has none.
produce_wild_prefix(sni) == IF Len(sni) > 2 THEN <<"*">> \o Tail(sni) ELSE NoValue
produce_wild_suffix(sni) == IF Len(sni) > 1 THEN Append(Front(sni), "*") ELSE NoValue

find_certificate(sni) ==
  LET name == [i \in DOMAIN sni |-> Lower[sni[i]]]
      tried == <<name, produce_wild_prefix(name), produce_wild_suffix(name), <<"*">>>>
      hit == FirstMatch(tried, LAMBDA n : n \in DOMAIN sni_map)
  IN IF sni = <<>> \/ hit = 0 THEN DefaultCert ELSE sni_map[tried[hit]]

(***************************************************************************)
(* The connection: handle_connection and do_proxy.                         *)
(***************************************************************************)
Idle == [pc |-> "idle", ctx |-> NoValue, tls |-> FALSE, table |-> <<>>, route |-> NoValue,
         service |-> NoValue, mode |-> NoValue, cert |-> NoValue,
         since |-> 0, status |-> NoValue]

Closed(c, status) == [c EXCEPT !.pc = "closed", !.status = status]

\* A ClientHello that is incomplete, or longer than what is peeked at, has no SNI.
parse_sni_from_client_hello(h) == IF h.tls THEN {h.ctx.sni, <<>>} ELSE {<<>>}

Peek ==
  \E h \in Handshakes :
    /\ conn.pc = "idle"
    /\ \E seen \in parse_sni_from_client_hello(h) :
         conn' = [conn EXCEPT !.pc = "route", !.ctx = [h.ctx EXCEPT !.sni = seen], !.tls = h.tls,
                              !.since = Len(loads)]
    /\ UNCHANGED <<cert_cache, sni_map, loading, l4services, loads>>

RouteStream ==
  /\ conn.pc = "route"
  /\ LET found == StreamFind(streamTable, conn.ctx)
     IN conn' = IF found = NoRoute THEN Closed(conn, "NO_ROUTE")
                ELSE [conn EXCEPT !.pc = "service", !.table = streamTable, !.route = found]
  /\ UNCHANGED <<cert_cache, sni_map, loading, l4services, loads>>

RouteOf(c) == CHOOSE r \in Range(c.table) : r.id = c.route

\* Passed through as it is, terminated, or copied: the route's protocols decide.
Mode(r, tls) ==
  IF "tls_passthrough" \in r.protocols THEN "passthrough"
  ELSE IF tls /\ "tls" \in r.protocols THEN "terminate"
  ELSE "copy"

LookupL4Service ==
  /\ conn.pc = "service"
  /\ LET id == ServiceOf[conn.route]
         mode == Mode(RouteOf(conn), conn.tls)
     IN conn' = IF id \notin DOMAIN l4services \/ ~l4services[id].enabled THEN Closed(conn, "NO_SVC")
                ELSE [conn EXCEPT !.pc = IF mode = "terminate" THEN "handshake" ELSE "connect",
                                  !.service = id, !.mode = mode]
  /\ UNCHANGED <<cert_cache, sni_map, loading, l4services, loads>>

\* A pair may not parse, or its key may not fit.
BuildTlsAcceptor(cert) == IF cert = NoValue THEN {FALSE} ELSE BOOLEAN

\* proxy_tls_terminate: no certificate, one that does not fit its key, and a
\* failed handshake end the connection before the upstream is contacted.
Terminate ==
  /\ conn.pc = "handshake"
  /\ LET cert == find_certificate(conn.ctx.sni)
     IN \E ok \in BuildTlsAcceptor(cert) :
          conn' = IF ok THEN [conn EXCEPT !.pc = "connect", !.cert = cert] ELSE Closed(conn, "ERR")
  /\ UNCHANGED <<cert_cache, sni_map, loading, l4services, loads>>

\* The name may not resolve, the upstream may not accept.
ConnectUpstream ==
  /\ conn.pc = "connect"
  /\ conn' \in {[conn EXCEPT !.pc = "copy"], Closed(conn, "ERR")}
  /\ UNCHANGED <<cert_cache, sni_map, loading, l4services, loads>>

\* The copy in both directions; a reset is a normal end.
BidirectionalCopy ==
  /\ conn.pc = "copy"
  /\ \E status \in {"OK", "ERR"} : conn' = Closed(conn, status)
  /\ UNCHANGED <<cert_cache, sni_map, loading, l4services, loads>>

StreamInit ==
  /\ cert_cache = <<>> /\ sni_map = <<>> /\ loading = NoValue /\ loads = <<>>
  /\ l4services \in L4Services /\ conn = Idle

Streaming ==
  \/ LoadCertificates \/ StoreSniMap \/ UpdateL4Services \/ Peek \/ RouteStream
  \/ LookupL4Service \/ Terminate \/ ConnectUpstream \/ BidirectionalCopy

\* The table of routes may be replaced in any step.
StreamSpec == StreamInit /\ [][Streaming]_streamVars

-----------------------------------------------------------------------------
(* Properties *)

\* How well a bound name fits a server name: 4 exactly, 3 with a leading
\* wildcard, 2 with a trailing one, 1 as the default name, 0 not at all.
Fit(pattern, sni) ==
  IF pattern = sni THEN 4
  ELSE IF pattern = <<"*">> THEN 1
  ELSE IF Len(pattern) # Len(sni) THEN 0
  ELSE IF pattern[1] = "*" /\ Tail(pattern) = Tail(sni) /\ Len(sni) > 2 THEN 3
  ELSE IF Last(pattern) = "*" /\ Front(pattern) = Front(sni) /\ Len(sni) > 1 THEN 2 ELSE 0

\* The certificate of the best-fitting name that one load binds.
CertificateIn(load, sni) ==
  LET name == [i \in DOMAIN sni |-> Lower[sni[i]]]
      bound == {n \in DOMAIN load.snis : load.snis[n] \in DOMAIN load.certs /\ Fit(n, name) > 0}
      best == {n \in bound : \A m \in bound : Fit(m, name) <= Fit(n, name)}
  IN IF sni = <<>> \/ bound = {} THEN DefaultCert
     ELSE load.certs[load.snis[CHOOSE n \in best : TRUE]]

\* A client is shown the certificate that one published load binds best to its
\* server name, a load no older than its connection although certificates and
\* names are stored under different locks; a connection that is passed through
\* or has no service is never decrypted (find_certificate, do_proxy).
StreamServed ==
  LET recent == {loads[k] : k \in {j \in DOMAIN loads : j <= Len(loads) - conn.since + 1}}
      none == [certs |-> <<>>, snis |-> <<>>]
      inForce == IF conn.since = 0 THEN recent \cup {none} ELSE recent
  IN /\ conn.cert # NoValue =>
          /\ conn.tls /\ conn.mode = "terminate"
          /\ "tls" \in RouteOf(conn).protocols /\ "tls_passthrough" \notin RouteOf(conn).protocols
          /\ \E load \in inForce : conn.cert = CertificateIn(load, conn.ctx.sni)
     /\ conn.status = "OK" => conn.service # NoValue /\ (conn.mode = "terminate" => conn.cert # NoValue)
=============================================================================
