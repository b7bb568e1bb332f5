---------------------------- MODULE ProxyRouting ----------------------------
(* The routers of kong-router: the traditional router (categories of routes   *)
(* by the kinds of condition they state), the expressions router, the LRU     *)
(* cache both put in front of the match, and the layer-4 stream router.  A    *)
(* table is a sequence of routes; update_routes replaces router and cache.    *)
(*                                                                            *)
(* A URI and a prefix path are sequences of path segments ("/" is <<"">>,     *)
(* "/a/" is <<"a", "">>); a regular expression is the set it matches.         *)
EXTENDS Integers, Sequences, FiniteSets, SequencesExt

CONSTANTS
  RouteTables,     \* the tables the administrator publishes
  Contexts,        \* the HTTP requests asked for
  StreamTables,    \* tables of layer-4 routes
  Connections,     \* the layer-4 connections asked for
  Flavors,         \* router_flavor: subset of {"traditional", "expressions"}
  MaxAsked,        \* bound on the answers cached for one table
  NoValue             \* an absent value

VARIABLES
  flavor,          \* the router the process was started with
  table,           \* the routes the router was built from
  cache,           \* cache key -> the answer and the request that stored it
  answer,          \* the last request and the route it was given
  streamTable, streamAnswer

routingVars == <<flavor, table, cache, answer, streamTable, streamAnswer>>

NoRoute == NoValue

IsList(s) == s \in Seq({s[k] : k \in DOMAIN s})

(***************************************************************************)
(* Sorting: a stable sort of a sequence by a strict order.                 *)
(***************************************************************************)
Sorted(s, Less(_, _)) ==
  LET Before(i, j) == Less(s[i], s[j]) \/ (~Less(s[j], s[i]) /\ i < j)
      At(k) == CHOOSE i \in DOMAIN s : Cardinality({j \in DOMAIN s : Before(j, i)}) = k - 1
  IN [k \in DOMAIN s |-> s[At(k)]]

\* The first difference of two equally long tuples of numbers decides.
Lexicographic(a, b) ==
  \E i \in DOMAIN a : a[i] > b[i] /\ \A j \in 1..(i - 1) : a[j] = b[j]

HttpProtocols == {"http", "https", "grpc", "grpcs", "ws", "wss"}

(***************************************************************************)
(* The traditional router.                                                 *)
(***************************************************************************)
Bit(cond, value) == IF cond THEN value ELSE 0

\* HOST 0x40, HEADER 0x20, URI 0x10, METHOD 0x08, SNI 0x04.
MatchRules(r) ==
  Bit(r.hosts # {}, 64) + Bit(DOMAIN r.headers # {}, 32) + Bit(r.paths # {}, 16)
    + Bit(r.methods # {}, 8) + Bit(r.snis # {}, 4)

MatchWeight(r) ==
  Bit(r.hosts # {}, 1) + Bit(DOMAIN r.headers # {}, 1) + Bit(r.paths # {}, 1)
    + Bit(r.methods # {}, 1) + Bit(r.snis # {}, 1)

HasRegex(r) == \E p \in r.paths : p.kind = "regex"

SubmatchWeight(r) ==
  Bit(r.hosts # {} /\ \A h \in r.hosts : h.kind = "plain", 2) + Bit(HasRegex(r), 1)

\* Characters of a path whose segments have one character each.
PathLength(p) == Len(p) + Cardinality({i \in DOMAIN p : p[i] # ""})

MaxUriLength(r) ==
  LET lengths == {PathLength(p.segments) : p \in {q \in r.paths : q.kind = "prefix"}}
  IN IF lengths = {} THEN 0 ELSE CHOOSE n \in lengths : \A m \in lengths : m <= n

process_route(r) ==
  [route |-> r, match_rules |-> MatchRules(r), match_weight |-> MatchWeight(r),
   submatch_weight |-> SubmatchWeight(r), header_count |-> Cardinality(DOMAIN r.headers),
   max_uri_length |-> MaxUriLength(r)]

\* Ordering of two processed routes: true when a goes before b.
sort_routes(a, b) ==
  Lexicographic(
    <<a.submatch_weight, a.header_count, Bit(HasRegex(a.route), a.route.regex_priority),
      a.max_uri_length, -a.route.created_at>>,
    <<b.submatch_weight, b.header_count, Bit(HasRegex(b.route), b.route.regex_priority),
      b.max_uri_length, -b.route.created_at>>)

\* What follows a "/" that ends a path.
Blank == ""

TrimSlash(p) ==
  LET kept == {n \in 0..Len(p) : \A i \in (n + 1)..Len(p) : p[i] = Blank}
  IN SubSeq(p, 1, CHOOSE n \in kept : \A m \in kept : n <= m)

PrefixMatches(p, uri) == uri = p \/ IsStrictPrefix(TrimSlash(p), uri)

match_uri(r, uri) ==
  \E p \in r.paths : IF p.kind = "regex" THEN uri \in p.matches
                                         ELSE PrefixMatches(p.segments, uri)

\* Host patterns are tried on the host as sent and on the host without its port.
match_host(r, ctx) ==
  \E h \in r.hosts : ctx.host \in h.matches \/ ctx.host_no_port \in h.matches

match_headers(r, ctx) ==
  \A n \in DOMAIN r.headers : n \in DOMAIN ctx.headers /\ ctx.headers[n] \in r.headers[n]

SchemeMatches(protocol, scheme) ==
  \/ protocol = scheme
  \/ protocol \in {"grpc", "ws"} /\ scheme = "http"
  \/ protocol \in {"grpcs", "wss"} /\ scheme = "https"

match_route(r, ctx) ==
  /\ r.hosts = {} \/ match_host(r, ctx)
  /\ match_headers(r, ctx)
  /\ r.paths = {} \/ match_uri(r, ctx.uri)
  /\ r.methods = {} \/ ctx.method \in r.methods
  /\ r.snis = {} \/ ctx.scheme \in {"http", "https"} \/ ctx.sni \in r.snis
  /\ r.protocols = {} \/ \E p \in r.protocols : SchemeMatches(p, ctx.scheme)

\* The text strip_path removes: a regular expression's match, else the longest prefix.
MatchedPath(r, uri) ==
  LET hits == {p.segments : p \in {q \in r.paths : /\ q.kind = "prefix"
                                                   /\ PrefixMatches(q.segments, uri)}}
  IN IF \E p \in r.paths : p.kind = "regex" /\ uri \in p.matches THEN uri
     ELSE IF hits = {} THEN <<>>
     ELSE CHOOSE p \in hits : \A q \in hits : PathLength(q) <= PathLength(p)

RouteMatch(r, ctx) == [route_id |-> r.id, service_id |-> r.service, matched |-> MatchedPath(r, ctx.uri)]

HttpRoutes(routes) == SelectSeq(routes, LAMBDA r : r.protocols \cap HttpProtocols # {})

\* TraditionalRouter::new: process, sort, group by match_rules, sort the groups.
Categories(routes) ==
  LET http == HttpRoutes(routes)
      processed == Sorted([i \in DOMAIN http |-> process_route(http[i])], sort_routes)
      rules == {processed[i].match_rules : i \in DOMAIN processed}
      category(m) == [match_rules |-> m,
                      match_weight |-> MatchWeight((CHOOSE p \in Range(processed) :
                                                      p.match_rules = m).route),
                      routes |-> SelectSeq(processed, LAMBDA p : p.match_rules = m)]
      heavier(a, b) == Lexicographic(<<a.match_weight, a.match_rules>>,
                                     <<b.match_weight, b.match_rules>>)
  IN Sorted([i \in 1..Cardinality(rules) |->
               category(CHOOSE m \in rules : Cardinality({k \in rules : k < m}) = i - 1)],
            heavier)

FirstMatch(routes, Hit(_)) ==
  LET hits == {i \in DOMAIN routes : Hit(routes[i])}
  IN IF hits = {} THEN 0 ELSE CHOOSE i \in hits : \A j \in hits : i <= j

TraditionalFind(routes, ctx) ==
  LET cats == Categories(routes)
      hit(c) == FirstMatch(c.routes, LAMBDA p : match_route(p.route, ctx))
      at == FirstMatch(cats, LAMBDA c : hit(c) # 0)
  IN IF at = 0 THEN NoRoute ELSE RouteMatch(cats[at].routes[hit(cats[at])].route, ctx)

(***************************************************************************)
(* The expressions router.  An expression is a disjunction (a set) of      *)
(* conjunctions (sets) of comparisons; the empty expression is {{}}.       *)
(***************************************************************************)
Fields == {"http.method", "http.host", "http.path", "http.headers.h", "net.protocol", "tls.sni"}

\* parse_comparison tries " in " before " not in ", so a "not in" comparison
\* is read as "in" on a field whose name ends in "not", which no field does.
Parses(c) == c.field \in Fields /\ c.op # "not in"

parse_expression(r) == \A conj \in r.expression : \A c \in conj : Parses(c)

get_field_value(field, ctx) ==
  CASE field = "http.method"  -> ctx.method
    [] field = "http.host"    -> ctx.host
    [] field = "http.path"    -> ctx.uri
    [] field = "net.protocol" -> ctx.scheme
    [] field = "tls.sni"      -> ctx.sni
    [] OTHER -> IF "h" \in DOMAIN ctx.headers THEN ctx.headers["h"] ELSE NoValue

evaluate(expression, ctx) ==
  \E conj \in expression : \A c \in conj :
    LET v == get_field_value(c.field, ctx)
    IN CASE c.op = "==" -> v \in c.values
         [] c.op = "!=" -> v \notin c.values
         [] c.op \in {"~", "in"} -> v # NoValue /\ v \in c.values

ExpressionRoutes(routes) ==
  Sorted(SelectSeq(HttpRoutes(routes), LAMBDA r : r.expression # {} /\ parse_expression(r)),
         LAMBDA a, b : a.priority > b.priority)

ExpressionsFind(routes, ctx) ==
  LET rs == ExpressionRoutes(routes)
      at == FirstMatch(rs, LAMBDA r : evaluate(r.expression, ctx))
  IN IF at = 0 THEN NoRoute
     ELSE [route_id |-> rs[at].id, service_id |-> rs[at].service, matched |-> <<>>]

(***************************************************************************)
(* The cache in front of both routers.                                     *)
(***************************************************************************)
CacheKey(ctx) ==
  IF flavor = "expressions" THEN <<ctx.method, ctx.host_no_port, ctx.uri>>
                            ELSE <<ctx.method, ctx.host_no_port, ctx.uri, ctx.headers>>

FindUncached(routes, ctx) ==
  IF flavor = "expressions" THEN ExpressionsFind(routes, ctx) ELSE TraditionalFind(routes, ctx)

EmptyCache == <<>>

\* Mutant: a rebuild that leaves the answers cached for the old table.
RebuiltCache_Kept(routes) == cache

\* Router::rebuild: a new router with an empty cache (update_routes holds the
\* write lock, so no request sees the one without the other).
RebuiltCache(routes) == EmptyCache

RebuildRouter ==
  \E routes \in RouteTables :
    /\ table' = routes
    /\ cache' = RebuiltCache(routes)
    /\ answer' = [ctx |-> NoValue, found |-> NoRoute, stored |-> NoValue]
    /\ UNCHANGED <<flavor, streamTable, streamAnswer>>

RouteRequest ==
  \E ctx \in Contexts :
    LET key == CacheKey(ctx)
        hit == key \in DOMAIN cache
        entry == IF hit THEN cache[key] ELSE [found |-> FindUncached(table, ctx), stored |-> ctx]
    IN /\ Cardinality(DOMAIN cache) < MaxAsked
       /\ cache' = IF hit THEN cache
                   ELSE [k \in DOMAIN cache \cup {key} |-> IF k = key THEN entry ELSE cache[k]]
       /\ answer' = [ctx |-> ctx, found |-> entry.found, stored |-> entry.stored]
       /\ UNCHANGED <<flavor, table, streamTable, streamAnswer>>

\* moka evicts an entry when the cache is over its capacity.
Evict ==
  \E key \in DOMAIN cache :
    /\ cache' = [k \in DOMAIN cache \ {key} |-> cache[k]]
    /\ UNCHANGED <<flavor, table, answer, streamTable, streamAnswer>>

(***************************************************************************)
(* The stream router: SNI, source and destination.  Addresses are numbers  *)
(* of Width bits; an address pattern that does not parse matches any one.  *)
(***************************************************************************)
Width == 2

ip_in_cidr(ip, net) ==
  \/ net.prefix = 0
  \/ net.prefix <= Width /\ ip \div 2 ^ (Width - net.prefix) = net.ip \div 2 ^ (Width - net.prefix)

CidrPortMatches(m, ip, port) ==
  /\ m.network # NoValue => ip # NoValue /\ ip_in_cidr(ip, m.network)
  /\ m.port # NoValue => port = m.port

\* A name is a sequence of labels; a wildcard stands for one leading label.
match_sni(patterns, sni) ==
  \E p \in patterns : p = sni \/ (p[1] = "*" /\ Len(sni) > 1 /\ Tail(p) = Tail(sni))

is_stream_route(r) == r.protocols \cap {"tcp", "tls", "tls_passthrough"} # {}

StreamWeight(r) == Bit(r.snis # {}, 1) + Bit(r.sources # {}, 1) + Bit(r.destinations # {}, 1)

\* Mutant: age decides before specificity.
StreamRoutes_ByAge(routes) ==
  Sorted(SelectSeq(routes, is_stream_route), LAMBDA a, b : a.created_at < b.created_at)

StreamRoutes(routes) ==
  Sorted(SelectSeq(routes, is_stream_route),
         LAMBDA a, b : Lexicographic(<<StreamWeight(a), -a.created_at>>,
                                     <<StreamWeight(b), -b.created_at>>))

stream_match_route(r, conn) ==
  /\ r.snis # {} => conn.sni # <<>> /\ match_sni(r.snis, conn.sni)
  /\ r.sources # {} => \E m \in r.sources : CidrPortMatches(m, conn.source_ip, conn.source_port)
  /\ r.destinations # {} => \E m \in r.destinations : CidrPortMatches(m, conn.dest_ip, conn.dest_port)

StreamFind(routes, conn) ==
  LET rs == StreamRoutes(routes)
      at == FirstMatch(rs, LAMBDA r : stream_match_route(r, conn))
  IN IF at = 0 THEN NoRoute ELSE rs[at].id

UpdateStreamRoutes ==
  \E routes \in StreamTables :
    /\ streamTable' = routes
    /\ streamAnswer' = [conn |-> NoValue, found |-> NoRoute]
    /\ UNCHANGED <<flavor, table, cache, answer>>

FindStreamRoute ==
  \E conn \in Connections :
    /\ streamAnswer' = [conn |-> conn, found |-> StreamFind(streamTable, conn)]
    /\ UNCHANGED <<flavor, table, cache, answer, streamTable>>

RoutingInit ==
  /\ flavor \in Flavors
  /\ table = <<>>
  /\ cache = EmptyCache
  /\ answer = [ctx |-> NoValue, found |-> NoRoute, stored |-> NoValue]
  /\ streamTable = <<>>
  /\ streamAnswer = [conn |-> NoValue, found |-> NoRoute]

HttpRouting == RebuildRouter \/ RouteRequest \/ Evict
StreamRouting == UpdateStreamRoutes \/ FindStreamRoute

-----------------------------------------------------------------------------
(* Properties *)

\* The order traditional.rs documents: the number of kinds of condition, then
\* HOST > HEADER > URI > METHOD > SNI, then submatch weight, header count,
\* regex_priority, length of the longest prefix and age.
DocumentedRank(r) ==
  <<MatchWeight(r), MatchRules(r), SubmatchWeight(r), Cardinality(DOMAIN r.headers),
    IF HasRegex(r) THEN r.regex_priority ELSE 0, MaxUriLength(r), -r.created_at>>

Matching(ctx) ==
  {i \in DOMAIN table : IF flavor = "expressions"
                        THEN /\ table[i].expression # {} /\ parse_expression(table[i])
                             /\ evaluate(table[i].expression, ctx)
                        ELSE match_route(table[i], ctx)}

\* A request is given the best route of the table published last: one that
\* matches it and that no other matching route outranks, and none only when
\* nothing matches.  Sorting, grouping and the cache across rebuilds and
\* evictions (kong-router) must not change that.  Left out are answers the
\* cache gives to a request that differs from the one that stored it, which
\* CacheTransparent is about.  A stream connection gets a matching route with
\* as many kinds of condition as any, and the oldest of those (stream.rs).
BestRoute ==
  /\ answer.ctx # NoValue /\ answer.ctx = answer.stored =>
       LET hits == Matching(answer.ctx)
           rank(i) == IF flavor = "expressions" THEN <<table[i].priority>> ELSE DocumentedRank(table[i])
       IN IF answer.found = NoRoute THEN hits = {}
          ELSE \E i \in hits : /\ table[i].id = answer.found.route_id
                               /\ \A j \in hits : ~Lexicographic(rank(j), rank(i))
  /\ streamAnswer.conn # NoValue =>
       LET hits == {i \in DOMAIN streamTable : /\ is_stream_route(streamTable[i])
                                               /\ stream_match_route(streamTable[i], streamAnswer.conn)}
           rank(i) == <<StreamWeight(streamTable[i]), -streamTable[i].created_at>>
       IN IF streamAnswer.found = NoRoute THEN hits = {}
          ELSE \E i \in hits : /\ streamTable[i].id = streamAnswer.found
                               /\ \A j \in hits : ~Lexicographic(rank(j), rank(i))

\* What the cache answers is what the match would answer: the route that
\* find_route returns is the one find_route_uncached finds for this request.
CacheTransparent ==
  answer.ctx # NoValue => answer.found = FindUncached(table, answer.ctx)
=============================================================================
