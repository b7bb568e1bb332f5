-------------------------------- MODULE MCAi --------------------------------
EXTENDS AiUsage, AiRouting

CONSTANTS c1, c2

VARIABLE part      \* which side of the AI gateway this behaviour explores

U(p, c) == [NoUsage EXCEPT !.prompt = p, !.completion = c]
Cached == [U(1, 1) EXCEPT !.cached = 1]
BadUsage == [NoUsage EXCEPT !.invalid = TRUE]
Ev(k) == [kind |-> k, usage |-> None]
EvU(k, u) == [kind |-> k, usage |-> u]

AnthropicEvents == {Ev("text"), Ev("tool"), Ev("args"), EvU("start", U(1, None)),
                    EvU("finish", U(None, 1)), Ev("stop"), Ev("error"), Ev("ping")}
OpenAiEvents == {Ev("text"), Ev("tool"), Ev("args"), EvU("usage", U(MaxI64, 1)), Ev("done"), Ev("error"), Ev("garbage")}
GeminiEvents == {Ev("text"), Ev("tool"), EvU("finish", U(1, 1)), EvU("usage", BadUsage), Ev("error")}
ResponsesEvents == {Ev("text"), EvU("completed", U(1, 1)), Ev("failed"), Ev("garbage"), Ev("broken")}

\* Arguments follow the tool call they belong to, and nothing follows the end.
Sensible(s) ==
  /\ \A i \in DOMAIN s : s[i].kind = "args" => i > 1 /\ s[i - 1].kind \in {"tool", "args"}
  /\ \A i \in 1..(Len(s) - 1) : s[i].kind \notin {"done", "stop", "completed"}
  /\ \A i \in 2..Len(s) : s[i].kind # "start"
  /\ \A i \in 1..(Len(s) - 1) : s[i].kind = "error" => s[i + 1].kind = "done"
StreamsOf(evs, n) == {s \in UNION {[1..k -> evs] : k \in 1..n} : Sensible(s)}

Answer(x, wanted, streaming, ok, events, cut) ==
  [path |-> x[1], provider |-> x[2], client |-> x[3], wanted |-> wanted, streaming |-> streaming,
   ok |-> ok, events |-> events, cut |-> cut]
AnthropicRaw == <<"anthropic_raw", "anthropic", "anthropic">>
OpenAiChat == <<"chat", "openai", "openai">>
Surfaces == {AnthropicRaw, OpenAiChat, <<"responses", "anthropic", "openai">>,
             <<"chat", "anthropic", "openai">>, <<"responses", "gemini", "openai">>,
             <<"chat", "gemini", "anthropic">>,
             <<"chat", "openai", "anthropic">>, <<"responses", "openai_compat", "openai">>,
             <<"responses_raw", "openai", "openai">>}
EventsOf(x) == CASE x[1] = "responses_raw" -> ResponsesEvents
                 [] x[2] = "anthropic" -> AnthropicEvents
                 [] x[2] = "gemini" -> GeminiEvents
                 [] OTHER -> OpenAiEvents \cup {Ev("broken")}
MCAnswers ==
  (UNION {{Answer(x, TRUE, TRUE, TRUE, s, c) : s \in StreamsOf(EventsOf(x), 3), c \in {0, 1, 3}}
            : x \in Surfaces}) \cup
  {Answer(x, FALSE, FALSE, ok, <<e>>, 0) :
     x \in Surfaces, e \in {Ev("whole"), EvU("whole", U(1, 1)), Ev("garbage")}, ok \in BOOLEAN}

\* Answers to follow to the fact
FactAnswers ==
  {Answer(OpenAiChat, TRUE, TRUE, TRUE, s, c) : c \in {0, 3},
     s \in {t \in StreamsOf({Ev("text"), EvU("usage", U(MaxI64, 1)), EvU("usage", U(1, 1)), Ev("done"), Ev("error")}, 3) :
              Len(t) = 3 => t[3].kind = "done"}} \cup
  {Answer(AnthropicRaw, TRUE, TRUE, TRUE, s, 0) :
     s \in {t \in StreamsOf({EvU("start", U(1, None)), EvU("finish", U(None, 2)), Ev("stop"), Ev("error")}, 3) :
              Len(t) > 1}} \cup
  {Answer(x, wanted, FALSE, ok, <<e>>, 0) : x \in {OpenAiChat, AnthropicRaw}, wanted \in BOOLEAN,
     e \in {Ev("whole"), EvU("whole", U(1, 1)), EvU("whole", Cached), EvU("whole", BadUsage), Ev("garbage")}, ok \in BOOLEAN}

Entry(ids, aliases, prefixes, from, to, max, in, out) ==
  [provider |-> "openai", ids |-> ids, aliases |-> aliases, prefixes |-> prefixes, from |-> from, to |-> to,
   maxPrompt |-> max, input |-> in, output |-> out]
MCCatalogs ==
  {<<Entry({}, {}, {<<"a">>}, 0, None, None, 1, 1), Entry({}, {}, {<<"a", "b">>}, 0, None, 1, 2, 3)>>,
   <<Entry({<<"a", "b">>}, {}, {}, 0, 1, None, 1, 1), Entry({}, {<<"a", "b">>}, {<<"c">>}, 1, None, None, 2, 3)>>,
   <<Entry({<<"a", "b">>}, {<<"a", "b">>}, {}, 0, None, None, 1, 1)>>}
MCCalls ==
  {[model |-> m, input |-> o[1], output |-> o[2], features |-> f, estimate |-> 1, budgeted |-> b, started |-> t] :
     m \in {<<"a", "b">>}, o \in {<<None, None>>, <<4, None>>}, f \in {{}}, b \in BOOLEAN, t \in {0, 1}} \cup
  {[model |-> <<"c">>, input |-> o, output |-> o, features |-> f, estimate |-> 1, budgeted |-> TRUE, started |-> 0] :
     o \in {None, 4}, f \in {{}, {"built_in_tools"}}}

(***************************************************************************)
(* Requests on their way to a provider                                     *)
(***************************************************************************)
M(id, p, prio, w, max, on, tag) ==
  [id |-> id, name |-> "g", provider |-> p, priority |-> prio, weight |-> w, max |-> max, enabled |-> on, tag |-> tag]
MCModelRows == (1 :> {M(1, 11, 1, 2, Nil, TRUE, "t"), M(1, 11, 1, 2, Nil, TRUE, "u"), M(1, 11, 1, 2, Nil, FALSE, "t")}) @@
               (2 :> {M(2, 12, 1, 2, 1, TRUE, "t"), M(2, 12, 0, 2, 1, TRUE, "t"), Nil})
P(type, on, std, tag) == [type |-> type, enabled |-> on, standard |-> std, tag |-> tag]
MCProviderRows == (11 :> {P("openai", TRUE, TRUE, "t"), P("openai", FALSE, TRUE, "t")}) @@ (12 :> {P("anthropic", TRUE, TRUE, "t")})

Rule(pattern, targets) == [pattern |-> pattern, targets |-> targets]
T(m, p, w) == [model |-> m, provider |-> p, weight |-> w]
Plain == [type |-> "chat", client |-> "openai", format |-> Nil, source |-> "config", model |-> "", group |-> "",
          inline |-> Nil, rules |-> <<>>, streaming |-> "allow", maxBytes |-> 2]
GroupCfg == [Plain EXCEPT !.group = "g"]
RequestCfg == [Plain EXCEPT !.source = "request", !.client = "anthropic"]
RulesCfg == [Plain EXCEPT !.rules = <<Rule({"m"}, <<T("a", "openai", 3), T("b", "gemini", 1)>>), Rule({"m", "g"}, <<T("c", "other", 1)>>)>>, !.source = "request"]
OtherRules == [Plain EXCEPT !.rules = <<Rule({"m"}, <<T("a", "openai", 0), T("b", "openai", 0)>>)>>, !.source = "request"]
BadRules == [Plain EXCEPT !.rules = <<Rule({"m"}, <<>>)>>, !.source = "request"]
InlineCfg(type, p) == [Plain EXCEPT !.type = type, !.inline = p, !.model = "m", !.streaming = "deny"]

Ask(cfg) == [cfg |-> cfg, bytes |-> 2, json |-> TRUE, background |-> FALSE, model |-> "m", stream |-> FALSE, prompt |-> 1,
             convertible |-> TRUE, policy |-> Nil, headroom |-> {}, toolChoice |-> TRUE]
Policy(on) == [maxBytes |-> 2, minTokens |-> 1, onUnavailable |-> on]
Squeeze(cfg, on) == [Ask(cfg) EXCEPT !.policy = Policy(on), !.headroom = {"x-headroom-base-url", "x-headroom-mode"}]
Inline == {InlineCfg("responses", P("openai", TRUE, TRUE, "t")), InlineCfg("chat", P("anthropic", TRUE, TRUE, "t")),
           InlineCfg("chat", P("anthropic", TRUE, FALSE, "t")), InlineCfg("chat", P("openai", TRUE, TRUE, "t")),
           InlineCfg("chat", P("gemini", TRUE, TRUE, "t"))}
GroupBodies == {Ask(GroupCfg)}
SizeBodies == {Ask(GroupCfg), [Ask(GroupCfg) EXCEPT !.prompt = 2]}
RuleBodies == {Ask(RulesCfg), [Ask(RulesCfg) EXCEPT !.model = "g"], Ask(OtherRules), Ask(BadRules), [Ask(RulesCfg) EXCEPT !.model = "z"]}
SqueezeBodies ==
  {Squeeze(c, on) : c \in Inline, on \in {"pass_through", "reject"}} \cup
  {[Squeeze(c, "reject") EXCEPT !.stream = TRUE] : c \in Inline} \cup
  UNION {{[Squeeze(c, "reject") EXCEPT !.toolChoice = FALSE], [Squeeze(c, "reject") EXCEPT !.prompt = 0],
          [Squeeze(c, "reject") EXCEPT !.policy.maxBytes = 1], Ask(c)} : c \in Inline}
BadBodies == {[Ask(GroupCfg) EXCEPT !.bytes = 3], [Ask(GroupCfg) EXCEPT !.json = FALSE], [Ask(RequestCfg) EXCEPT !.model = ""],
              [Ask([Plain EXCEPT !.type = "responses"]) EXCEPT !.background = TRUE], Ask(RequestCfg),
              [Ask(InlineCfg("chat", P("openai", TRUE, TRUE, "t"))) EXCEPT !.convertible = FALSE]}
MCBodies == SizeBodies \cup RuleBodies \cup SqueezeBodies \cup BadBodies


BodiesOf(p) == CASE p = "group" -> GroupBodies [] p = "sizes" -> SizeBodies [] p = "rules" -> RuleBodies
                 [] p = "compress" -> SqueezeBodies [] OTHER -> BadBodies
RoutingParts == {"group", "sizes", "rules", "compress", "other"}
\* Where the tables and the time matter less, fewer edits and ticks are made.
Kept ==
  /\ \A r \in Clients : req'[r].body # Nil => req'[r].body \in BodiesOf(part)
  /\ part # "group" => edits' = 0 /\ now' <= Refresh + MaxLoad + (IF part = "compress" THEN 1 ELSE 0)
  /\ part \in {"compress", "other"} => served' <= 2
Base == models = (1 :> M(1, 11, 1, 2, Nil, TRUE, "t")) @@ (2 :> M(2, 12, 1, 2, 1, TRUE, "t")) /\ providers[11].enabled
Symmetric == Permutations(Clients)

Quiet == call = None /\ catalog = None /\ draft = None /\ fact = None /\ settlement = None /\ life = None /\ stage = "none"
Unread == pos = 0 /\ bytes = <<>> /\ buffer = <<>> /\ ended = FALSE /\ split = FALSE /\ st = Fresh(answer)
MCInit ==
  /\ RoutingInit /\ Base
  /\ \/ part = "stream" /\ StreamInit /\ Quiet
     \/ part = "fact" /\ UsageInit /\ answer \in FactAnswers /\ Unread
     \/ part \in RoutingParts /\ answer = (CHOOSE a \in FactAnswers : TRUE) /\ Unread /\ Quiet
MCNext ==
  /\ \/ part = "stream" /\ BodyFilter /\ UNCHANGED <<usageVars, routingVars>>
     \/ part = "fact" /\ UsageNext /\ UNCHANGED routingVars
     \/ part \in RoutingParts /\ RoutingNext /\ Kept /\ UNCHANGED <<streamVars, usageVars>>
  /\ UNCHANGED part
MCSpec == MCInit /\ [][MCNext]_<<part, streamVars, usageVars, routingVars>>
=============================================================================
