----------------------------- MODULE AdminSchema -----------------------------
(* What the generic handlers of the Admin API check and fill in before any    *)
(* statement reaches the database (crates/kong-admin/src/handlers/mod.rs:     *)
(* do_create, do_update, do_upsert and their validators), and the rules for   *)
(* plugin configurations that the Admin API shares with the data plane        *)
(* (crates/kong-plugin-system/src/config_validation.rs).                      *)
(*                                                                            *)
(* A body, and a configuration, is a function from the fields that are        *)
(* present to values.  Values stand for what the checks tell apart; the words *)
(* of error messages are left out.                                            *)
EXTENDS Naturals, TLC

VARIABLE entity   \* one entity: its table and the row the database holds

Null == "null"

Has(b, f)  == f \in DOMAIN b /\ b[f] # Null
Get(b, f)  == IF f \in DOMAIN b THEN b[f] ELSE "absent"
Set(b, f, v) == (f :> v) @@ b
Without(b, fs) == [f \in DOMAIN b \ fs |-> b[f]]

Refuse     == [ok |-> FALSE, row |-> <<>>]
Accept(b)  == [ok |-> TRUE, row |-> b]

\* A step of a handler that goes on only while nothing has been refused.
Then(verdict, Op(_)) == IF verdict.ok THEN Op(verdict.row) ELSE Refuse
Require(b, cond)     == IF cond THEN Accept(b) ELSE Refuse

ValidProtocols == {"grpc", "grpcs", "http", "https", "tcp", "tls", "tls_passthrough", "udp"}

\* The enum Protocol knows two more.
Protocols == ValidProtocols \cup {"ws", "wss"}

-----------------------------------------------------------------------------
(* Checks shared by the tables.                                               *)

IntegerFields(t) == CASE t = "services"  -> {"port", "retries"}
                      [] t = "upstreams" -> {"slots"}
                      [] t = "routes"    -> {"regex_priority"}
                      [] OTHER -> {}

\* validate_integer_fields_ext: a string where an integer belongs.  The missing
\* host is only added to the words of an answer that is an error already.
ValidateIntegerFields(t, b) == Require(b, \A f \in IntegerFields(t) : Get(b, f) # "text")

ArrayFields == {"protocols", "methods", "hosts", "paths", "tags"}

\* normalize_empty_objects_to_arrays.
Normalize(b) == [f \in DOMAIN b |-> IF f \in ArrayFields /\ b[f] = "{}" THEN "[]" ELSE b[f]]

\* expand_url_shorthand: url is taken from the body and gives protocol, host,
\* port and path, never over a field that is present, except that a url
\* without a path clears the path.
ExpandUrlShorthand(b) ==
  IF ~Has(b, "url") THEN Accept(Without(b, {"url"}))
  ELSE IF b["url"] \in {"", "unparsable", "hostless", "ftp://h"} THEN Refuse
  ELSE LET parsed == ("protocol" :> "https") @@ ("host" :> "h") @@ ("port" :> "443")
           rest   == Without(b, {"url"}) @@ parsed
       IN Accept(IF b["url"] = "https://h" THEN Set(rest, "path", Null)
                 ELSE rest @@ ("path" :> "/p"))

\* do_create has the same expansion in its own words.
CreateUrl(b) == ExpandUrlShorthand(b)

\* validate_upstream_name: a hostname, and no address.
ValidateUpstreamName(n) == n \notin {"10.0.0.1", "two words"}

\* is_valid_cookie_name: not empty, no control character, no separator.
IsValidCookieName(c) == c \notin {"", "a;b"}

HeaderNameOk(h) == h \notin {"absent", Null, "", "a:b"}

\* validate_upstream_hash_fields; without hash_on nothing is checked, not even
\* the fallback.
ValidateUpstreamHashFields(b) ==
  LET on       == Get(b, "hash_on")
      fallback == Get(b, "hash_fallback")
      given(f) == Has(b, f)
      cookieOk == given("hash_on_cookie") => IsValidCookieName(b["hash_on_cookie"])
  IN Has(b, "hash_on") =>
       /\ on \in {"none", "consumer", "ip", "header", "cookie"}
       /\ on = "header" => HeaderNameOk(Get(b, "hash_on_header"))
       /\ on = "cookie" => cookieOk
       /\ Has(b, "hash_fallback") =>
            /\ on = "cookie" => fallback = "none"
            /\ fallback \in {"none", "consumer", "ip", "header", "cookie"}
            /\ ~(on = "consumer" /\ fallback = "consumer")
            /\ fallback = "header" => HeaderNameOk(Get(b, "hash_fallback_header"))
            /\ (on = "header" /\ fallback = "header") => b["hash_on_header"] # b["hash_fallback_header"]
            /\ fallback = "cookie" => cookieOk

-----------------------------------------------------------------------------
(* Plugin configurations.                                                     *)

Periods == {"second", "minute"}

\* apply_plugin_config_defaults: an absent field is filled, a present one kept.
\* Of every plugin the fields its validator reads are here.
PluginDefaults(name) ==
  CASE name = "rate-limiting" -> [p \in Periods |-> Null] @@ ("policy" :> "local")
    [] name = "request-transformer" -> [s \in {"add", "rename"} |-> "a:b"]
    [] OTHER -> <<>>

\* apply_ai_rate_limit_config_defaults.
AiRateLimitDefaults ==
  ("limit_by" :> "consumer") @@ ("tpm_limit" :> Null) @@ ("rpm_limit" :> Null)

\* apply_ai_context_compression_config_defaults.
AiContextCompressionDefaults ==
  ("min_input_tokens" :> "one") @@ ("max_input_bytes" :> "one")
    @@ ("on_unavailable" :> "pass_through") @@ ("streaming" :> "bypass")

WithDefaults(name, c) ==
  c @@ (CASE name = "ai-rate-limit" -> AiRateLimitDefaults
          [] name = "ai-context-compression" -> AiContextCompressionDefaults
          [] OTHER -> PluginDefaults(name))

\* is_valid_plugin_name: bundled, or known to the tests.
IsValidPluginName(name) == name # "unheard-of"

\* validate_rate_limiting_config: at least one period.
ValidateRateLimiting(c) == \E p \in Periods : Has(c, p)

\* is_valid_header_name, of the two halves of an entry "old:new".
IsValidHeaderPair(h) == h # "a:b,c"

\* validate_response_transformer_config: no list that is null, a colon in every
\* entry, and in rename two header names.
ValidateResponseTransformer(c) ==
  /\ \A s \in {"add", "rename"} : Get(c, s) # Null
  /\ \A s \in {"add", "rename"} : Get(c, s) # "ab"
  /\ "rename" \in DOMAIN c => IsValidHeaderPair(c["rename"])

\* validate_request_transformer_config: entries of rename are not looked at.
ValidateRequestTransformer(c) ==
  /\ \A s \in {"add", "rename"} : Get(c, s) # Null
  /\ Get(c, "add") # "ab"

\* validate_optional_limit: absent, null, or in 1 .. i32::MAX.
ValidateOptionalLimit(c, f) == Get(c, f) \in {"absent", Null, "one", "max"}

\* validate_ai_rate_limit_config: the mode, the limits, and that the mode
\* virtual_key has no limits of its own and every other mode at least one.
ValidateAiRateLimit(c) ==
  LET by == IF "limit_by" \in DOMAIN c THEN c["limit_by"] ELSE "consumer"
  IN /\ DOMAIN c \subseteq {"limit_by", "tpm_limit", "rpm_limit"}
     /\ by \in {"global", "route", "consumer", "virtual_key"}
     /\ ValidateOptionalLimit(c, "tpm_limit")
     /\ ValidateOptionalLimit(c, "rpm_limit")
     /\ IF by = "virtual_key" THEN ~Has(c, "tpm_limit") /\ ~Has(c, "rpm_limit")
        ELSE Has(c, "tpm_limit") \/ Has(c, "rpm_limit")

\* validate_ai_context_compression_config.
ValidateAiContextCompression(c) ==
  /\ DOMAIN c \subseteq {"min_input_tokens", "max_input_bytes", "on_unavailable", "streaming"}
  /\ Get(c, "min_input_tokens") \in {"absent", "zero", "one", "max"}
  /\ Get(c, "max_input_bytes") \in {"absent", "one"}
  /\ Get(c, "on_unavailable") \in {"absent", "pass_through", "reject"}
  /\ Get(c, "streaming") \in {"absent", "bypass"}

ValidatePluginConfig_NotAi(name, c) ==
  CASE name = "response-transformer" -> ValidateResponseTransformer(c)
    [] name = "request-transformer" -> ValidateRequestTransformer(c)
    [] name = "rate-limiting" -> ValidateRateLimiting(c)
    [] OTHER -> TRUE

\* validate_plugin_config_for_admin.
ValidatePluginConfig(name, c) ==
  CASE name = "response-transformer" -> ValidateResponseTransformer(c)
    [] name = "request-transformer" -> ValidateRequestTransformer(c)
    [] name = "rate-limiting" -> ValidateRateLimiting(c)
    [] name = "ai-rate-limit" -> ValidateAiRateLimit(c)
    [] name = "ai-context-compression" -> ValidateAiContextCompression(c)
    [] OTHER -> TRUE

\* validate_plugin_config, the rules the data plane applies when it runs the
\* plugin: the same ones, for the plugins written in Rust.
DataPlaneAccepts(name, c) ==
  /\ name = "ai-rate-limit" => ValidateAiRateLimit(c)
  /\ name = "ai-context-compression" => ValidateAiContextCompression(c)

-----------------------------------------------------------------------------
(* do_create: the checks of POST, by table.                                   *)

\* A configuration that is null is one that is absent.
HasConfig(b) == "config" \in DOMAIN b

HostMissing(b) == ~Has(b, "host") \/ b["host"] = ""

\* A plugin: the name, the defaults, the configuration.
CreatePlugin(b) ==
  LET c == IF HasConfig(b) THEN b["config"] ELSE <<>>
      full == WithDefaults(b["name"], c)
  IN Require(Set(b, "config", full),
             IsValidPluginName(b["name"]) /\ ValidatePluginConfig(b["name"], full))

CreateService(b) ==
  Require(b, (Has(b, "protocol") => b["protocol"] \in ValidProtocols) /\ ~HostMissing(b))

\* At least one of username and custom_id.
CreateConsumer(b) == Require(b, \E f \in {"username", "custom_id"} : Has(b, f) /\ b[f] # "")

CreateUpstream(b) ==
  Require(b, /\ Has(b, "name") /\ b["name"] # "" /\ ValidateUpstreamName(b["name"])
             /\ Get(b, "slots") \notin {"9", "65537"}
             /\ ValidateUpstreamHashFields(b))

\* A field that routes: a list or map that is not empty.
Routes(b) == \E f \in {"methods", "hosts", "paths"} : Get(b, f) \notin {"absent", Null, "[]", "{}"}
IsGrpc(b) == Get(b, "protocols") \in {"grpc", "grpcs"}

\* A route: protocols, a field that routes, and for gRPC no strip_path and no
\* methods; then the id of its service.
CreateRouteBody(b) ==
  LET checked ==
        Require(b, /\ Get(b, "protocols") \in ValidProtocols \cup {"absent", Null, "[]"}
                   /\ Routes(b)
                   /\ IsGrpc(b) => Get(b, "strip_path") # "true" /\ Get(b, "methods") \in {"absent", Null, "[]"})
      forced(x) == Accept(IF IsGrpc(x) THEN Set(x, "strip_path", "false") ELSE x)
  IN Then(Then(checked, forced), LAMBDA x : Require(x, Get(x, "service") # "{}"))

\* serde: an enum it does not know, a null for a plain column, an object for a
\* list are refused; what is absent takes the default of the entity.
EntityDefaults(t) ==
  CASE t = "services"  -> ("protocol" :> "http") @@ ("host" :> "") @@ ("port" :> "80") @@ ("path" :> Null)
    [] t = "routes"    -> ("protocols" :> "http") @@ ("strip_path" :> "true") @@ ("methods" :> Null)
                          @@ ("hosts" :> Null) @@ ("paths" :> Null) @@ ("service" :> Null)
    [] t = "upstreams" -> ("slots" :> "10000") @@ ("hash_on" :> "none") @@ ("hash_fallback" :> "none")
    [] OTHER -> <<>>

Deserialize(t, b) ==
  Require(b @@ EntityDefaults(t),
    CASE t = "services"  -> /\ Get(b, "protocol") \in Protocols \cup {"absent"}
                            /\ \A f \in {"host", "port"} : Get(b, f) # Null
      [] t = "routes"    -> /\ Get(b, "protocols") \in Protocols \cup {"absent", "[]"}
                            /\ \A f \in {"methods", "hosts", "paths", "service"} : Get(b, f) # "{}"
      [] t = "upstreams" -> \A f \in {"hash_on", "hash_fallback"} :
                              Get(b, f) \in {"absent", "none", "consumer", "ip", "header", "cookie"}
      [] OTHER -> TRUE)

CreateChecks(t, b) ==
  CASE t = "plugins" -> CreatePlugin(b)     [] t = "services" -> CreateService(b)
    [] t = "consumers" -> CreateConsumer(b) [] t = "upstreams" -> CreateUpstream(b)
    [] t = "routes" -> CreateRouteBody(b)

\* POST: normalize, integers, url, the table's checks, serde.
Create(t, b) ==
  Then(Then(Then(ValidateIntegerFields(t, Normalize(b)), CreateUrl),
            LAMBDA x : CreateChecks(t, x)),
       LAMBDA x : Deserialize(t, x))

-----------------------------------------------------------------------------
(* do_upsert: the checks of PUT.  Empty objects stay; services have none of   *)
(* POST's checks; routes neither those of gRPC nor the one of service.id.     *)

UpsertPlugin(b)   == CreatePlugin(b)
UpsertConsumer(b) == CreateConsumer(b)
UpsertUpstream(b) == CreateUpstream(b)

UpsertRoute_KeepsStripPath(b) ==
  Require(b, Get(b, "protocols") \in ValidProtocols \cup {"absent", Null, "[]", "{}"} /\ Routes(b))

UpsertRoute(b) ==
  Then(Require(b, /\ Get(b, "protocols") \in ValidProtocols \cup {"absent", Null, "[]", "{}"}
                  /\ Routes(b)),
       LAMBDA x : Accept(IF IsGrpc(x) THEN Set(x, "strip_path", "false") ELSE x))

UpsertChecks(t, b) ==
  CASE t = "plugins" -> UpsertPlugin(b)     [] t = "services" -> Accept(b)
    [] t = "consumers" -> UpsertConsumer(b) [] t = "upstreams" -> UpsertUpstream(b)
    [] t = "routes" -> UpsertRoute(b)

Put(t, b) ==
  Then(Then(Then(ExpandUrlShorthand(b), LAMBDA x : ValidateIntegerFields(t, x)),
            LAMBDA x : UpsertChecks(t, x)),
       LAMBDA x : Deserialize(t, x))

-----------------------------------------------------------------------------
(* do_update: the checks of PATCH, on the body and, for plugins, on the merge *)
(* with the row that was read.                                                *)

\* Fields override, config is merged one level deep.
Merge(old, b) ==
  IF HasConfig(old) /\ HasConfig(b)
  THEN Set(b @@ old, "config", b["config"] @@ old["config"])
  ELSE b @@ old

\* Before the read: known fields and the name.
PatchPluginFields(b) == Require(b, /\ "colour" \notin DOMAIN b
                                   /\ Has(b, "name") => IsValidPluginName(b["name"]))

\* After the merge: defaults for the two AI plugins, then the configuration.
PatchPluginConfig(m) ==
  LET ai   == m["name"] \in {"ai-rate-limit", "ai-context-compression"}
      base == IF ai /\ ~HasConfig(m) THEN Set(m, "config", <<>>) ELSE m
      full == IF ai THEN Set(base, "config", WithDefaults(m["name"], base["config"])) ELSE base
  IN Require(full, HasConfig(full) => ValidatePluginConfig(m["name"], full["config"]))

PatchPlugin(old, b) ==
  Then(PatchPluginFields(Normalize(b)), LAMBDA x : PatchPluginConfig(Merge(old, x)))

-----------------------------------------------------------------------------
(* Bodies to try, by table.                                                   *)

Trim(g) == [f \in {x \in DOMAIN g : g[x] # "absent"} |-> g[f]]
OneOf(values) == {"absent", Null} \cup values

Configs(name) ==
  CASE name = "rate-limiting" -> {Trim([second |-> v]) : v \in OneOf({"one"})}
    [] name = "response-transformer" ->
         {Trim([add |-> a, rename |-> r]) : a, r \in OneOf({"a:b", "ab", "a:b,c"})}
    [] name = "request-transformer" -> {Trim([add |-> a, rename |-> "ab"]) : a \in OneOf({"a:b", "ab"})}
    [] name = "ai-rate-limit" ->
         {Trim([limit_by |-> l, tpm_limit |-> t, rpm_limit |-> r]) :
            l \in OneOf({"route", "virtual_key", "service"}), t, r \in OneOf({"zero", "one", "max", "over"})}
    [] name = "ai-context-compression" ->
         {Trim([min_input_tokens |-> n, max_input_bytes |-> m, streaming |-> s]) :
            n, m \in OneOf({"zero", "one", "over"}), s \in {"absent", "bypass", "stream"}}
    [] OTHER -> {<<>>}

PluginNames == {"rate-limiting", "response-transformer", "request-transformer", "ai-rate-limit",
                "ai-context-compression", "key-auth", "unheard-of"}

Bodies(t) ==
  CASE t = "services" ->
         {Trim([url |-> u, protocol |-> p, host |-> h, port |-> n, path |-> q]) :
            u \in OneOf({"", "unparsable", "hostless", "ftp://h", "https://h", "https://h/p"}),
            p \in {"absent", "http", "ws", "carrier"}, h \in OneOf({"", "g"}),
            n \in OneOf({"80", "text"}), q \in OneOf({"/q"})}
    [] t = "routes" ->
         {Trim([protocols |-> p, hosts |-> h, methods |-> m, strip_path |-> s, service |-> r]) :
            p \in OneOf({"http", "grpc", "ws", "carrier", "{}"}), h, m \in OneOf({"list", "{}"}),
            s \in {"absent", "true", "false"}, r \in OneOf({"id", "{}"})}
    [] t = "consumers" -> {Trim([username |-> u, custom_id |-> c]) : u, c \in OneOf({"", "x"})}
    [] t = "upstreams" ->
         {Trim([name |-> n, slots |-> s, hash_on |-> o, hash_fallback |-> f, hash_on_header |-> a,
                hash_fallback_header |-> b, hash_on_cookie |-> c]) :
            n \in OneOf({"", "up", "10.0.0.1"}), s \in {"absent", "9", "10", "text"},
            o, f \in {"absent", "none", "consumer", "header", "cookie", "odd"},
            a, b \in {"absent", "x", "a:b"}, c \in {"absent", "c", "a;b"}}
    [] t = "plugins" ->
         UNION {{("name" :> n) @@ ("config" :> c) : c \in Configs(n)} : n \in PluginNames}

SchemaTables == {"services", "routes", "consumers", "upstreams", "plugins"}

SchemaInit == entity = [t |-> "services", stored |-> Refuse]

\* A POST or a PUT (which does not depend on what it replaces), a PUT of what
\* was read, a PATCH of a plugin.  A refusal changes nothing.
Stores(t, v) == v.ok /\ entity' = [t |-> t, stored |-> v]

Post(t)  == ~entity.stored.ok /\ \E b \in Bodies(t) : Stores(t, Create(t, b))
PutBody(t) == ~entity.stored.ok /\ \E b \in Bodies(t) : Stores(t, Put(t, b))
PutBack  == entity.stored.ok /\ Stores(entity.t, Put(entity.t, entity.stored.row))
PatchBody == /\ entity.stored.ok /\ entity.t = "plugins"
             /\ \E c \in Configs(entity.stored.row["name"]) :
                  Stores("plugins", PatchPlugin(entity.stored.row, "config" :> c))

SchemaNext == PutBack \/ PatchBody \/ \E t \in SchemaTables : Post(t) \/ PutBody(t)

-----------------------------------------------------------------------------
(* Properties.                                                                *)

\* The checks of POST and PUT settle: what either stored, PUT stores again as
\* it is, so that writing back what was read changes nothing; and no gRPC
\* route is ever stored that strips its path.  Upstreams whose fallback hashes
\* are left out: without hash_on in the body the fallback is not checked until
\* hash_on has been filled in.  The Admin API and the data plane "must call the
\* same rules": whatever chain of POST, PUT and PATCH wrote a plugin, the data
\* plane accepts its configuration.
StoredIsStable ==
  LET r == entity.stored.row IN
  entity.stored.ok =>
    /\ \/ entity.t = "upstreams" /\ r["hash_fallback"] # "none"
       \/ Put(entity.t, r) = entity.stored
    /\ entity.t = "routes" /\ IsGrpc(r) => r["strip_path"] = "false"
    /\ entity.t = "plugins" => DataPlaneAccepts(r["name"], r["config"])

==============================================================================
