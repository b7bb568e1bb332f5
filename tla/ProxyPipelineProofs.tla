------------------------- MODULE ProxyPipelineProofs -------------------------
(***************************************************************************)
(* Proofs about the life of a request in the proxy, for any number of      *)
(* requests, published updates, plugins, hooks, handlers and attempts;     *)
(* about the health checker, for any targets, thresholds and reports;      *)
(* about layer-4 connections, for any certificates and routes; and about   *)
(* what the upstream is sent, for any paths, routes, headers and retries.  *)
(***************************************************************************)
EXTENDS ProxyForward, ProxyStream, ProxyBalancing, ProxyPipeline, FiniteSetTheorems, SequenceTheorems,
  WellFoundedInduction, NaturalsInduction, TLAPS

-----------------------------------------------------------------------------
(* Plugin chains *)

(* A published list is finite. *)
LEMMA ListIs ==
  ASSUME NEW list \in PluginLists
  PROVE  Len(list) \in Nat /\ DOMAIN list = 1..Len(list) /\ IsFiniteSet(DOMAIN list)
<1>1. list \in Seq({list[k] : k \in DOMAIN list}) BY PipelineAssumption DEF IsSequence
<1>2. Len(list) \in Nat /\ DOMAIN list = 1..Len(list) BY <1>1
<1> QED BY <1>2, FS_Interval

(* Of one name, one entity is kept. *)
LEMMA KeptOnce ==
  ASSUME NEW list \in PluginLists, NEW route, NEW service,
         NEW i \in KeptPlugins(list, route, service), NEW j \in KeptPlugins(list, route, service),
         list[i].name = list[j].name
  PROVE  i = j
<1>1. i \in Int /\ j \in Int BY ListIs DEF KeptPlugins
<1>2. \A p : Specificity(p) \in Int BY DEF Specificity
<1>3. /\ \/ Specificity(list[j]) < Specificity(list[i])
         \/ Specificity(list[j]) = Specificity(list[i]) /\ j <= i
      /\ \/ Specificity(list[i]) < Specificity(list[j])
         \/ Specificity(list[i]) = Specificity(list[j]) /\ i <= j
  BY DEF KeptPlugins
<1> QED BY <1>1, <1>2, <1>3

(* In a finite set of places whose entities have priorities of their own,     *)
(* every rank up to its size is that of a member.                             *)
LEMMA RankTaken ==
  ASSUME NEW list, NEW S, IsFiniteSet(S), \A p \in S : Priority[list[p].name] \in Int,
         \A p, q \in S : Priority[list[p].name] = Priority[list[q].name] => p = q
  PROVE  /\ Cardinality(S) \in Nat
         /\ \A k \in 1..Cardinality(S) : \E p \in S : Cardinality(Ahead(list, S, p)) = k - 1
<1> DEFINE n == Cardinality(S)
           f == [p \in S |-> Cardinality(Ahead(list, S, p))]
<1>1. n \in Nat BY FS_CardinalityType
<1>2. ASSUME NEW p \in S
      PROVE  /\ IsFiniteSet(Ahead(list, S, p)) /\ Cardinality(Ahead(list, S, p)) \in Nat
             /\ Cardinality(Ahead(list, S, p)) < n
  <2>1. Ahead(list, S, p) \subseteq S /\ p \in S \ Ahead(list, S, p) BY DEF Ahead
  <2>2. IsFiniteSet(Ahead(list, S, p)) /\ Cardinality(Ahead(list, S, p)) <= n
        /\ (Cardinality(Ahead(list, S, p)) = n => Ahead(list, S, p) = S)
    BY <2>1, FS_Subset
  <2>3. Cardinality(Ahead(list, S, p)) \in Nat BY <2>2, FS_CardinalityType
  <2> QED BY <2>1, <2>2, <2>3, <1>1
<1>3. ASSUME NEW p \in S, NEW q \in S, Priority[list[p].name] > Priority[list[q].name]
      PROVE  Cardinality(Ahead(list, S, p)) < Cardinality(Ahead(list, S, q))
  <2>0. \A x \in S : Priority[list[x].name] \in Int OBVIOUS
  <2>1. Ahead(list, S, p) \subseteq Ahead(list, S, q) BY <1>3, <2>0 DEF Ahead
  <2>2. p \in Ahead(list, S, q) /\ p \notin Ahead(list, S, p) BY <1>3, <2>0 DEF Ahead
  <2>3. /\ Cardinality(Ahead(list, S, p)) <= Cardinality(Ahead(list, S, q))
        /\ Cardinality(Ahead(list, S, p)) = Cardinality(Ahead(list, S, q)) => Ahead(list, S, p) = Ahead(list, S, q)
    BY <2>1, <1>2, FS_Subset
  <2> QED BY <2>2, <2>3, <1>2
<1>4. f \in [S -> 0..(n - 1)] BY <1>1, <1>2
<1>5. \A p, q \in S : f[p] = f[q] => p = q
  <2> SUFFICES ASSUME NEW p \in S, NEW q \in S, f[p] = f[q] PROVE p = q
    OBVIOUS
  <2>1. CASE Priority[list[p].name] = Priority[list[q].name] BY <2>1
  <2>2. CASE Priority[list[p].name] > Priority[list[q].name] BY <2>2, <1>3, <1>2
  <2>3. CASE Priority[list[q].name] > Priority[list[p].name] BY <2>3, <1>3, <1>2
  <2> QED BY <2>1, <2>2, <2>3
<1>6. f \in Injection(S, 0..(n - 1)) BY <1>4, <1>5 DEF Injection, IsInjective
<1>7. IsFiniteSet(0..(n - 1)) /\ Cardinality(0..(n - 1)) = n
  BY <1>1, FS_Interval
<1>8. f \in Surjection(S, 0..(n - 1)) BY <1>6, <1>7, FS_Injection
<1>9. \A k \in 0..(n - 1) : \E p \in S : f[p] = k BY <1>8 DEF Surjection
<1>10. ASSUME NEW k \in 1..n PROVE \E p \in S : Cardinality(Ahead(list, S, p)) = k - 1
  <2>1. k - 1 \in 0..(n - 1) BY <1>1
  <2> QED BY <2>1, <1>9
<1> QED BY <1>1, <1>10

(* A chain has each plugin that is kept for its route and service once, the  *)
(* higher priority first: the choice that resolve_plugins makes for a place  *)
(* always has a candidate, and no two places have the same.                  *)
LEMMA ChainIs ==
  ASSUME NEW list \in PluginLists, NEW route, NEW service
  PROVE  LET chain == resolve_plugins(list, route, service)
             kept == KeptPlugins(list, route, service)
         IN /\ chain \in Seq(Entities) /\ Len(chain) = Cardinality(kept)
            /\ \A k \in 1..Len(chain) :
                 \E i \in kept : chain[k] = list[i] /\ Cardinality(Ahead(list, kept, i)) = k - 1
<1> DEFINE chain == resolve_plugins(list, route, service)
           kept == KeptPlugins(list, route, service)
           at(k) == CHOOSE i \in kept : Cardinality(Ahead(list, kept, i)) = k - 1
<1>1. kept \subseteq DOMAIN list BY DEF KeptPlugins
<1>2. IsFiniteSet(kept) BY <1>1, ListIs, FS_Subset
<1>3. \A p \in kept : list[p].name \in DOMAIN Priority /\ Priority[list[p].name] \in Int
  BY PipelineAssumption DEF KeptPlugins
<1>4. \A p, q \in kept : Priority[list[p].name] = Priority[list[q].name] => p = q
  <2> SUFFICES ASSUME NEW p \in kept, NEW q \in kept, Priority[list[p].name] = Priority[list[q].name]
               PROVE  p = q
    OBVIOUS
  <2>1. list[p].name = list[q].name BY <1>3, PipelineAssumption
  <2> QED BY <2>1, KeptOnce
<1>5. /\ Cardinality(kept) \in Nat
      /\ \A k \in 1..Cardinality(kept) : \E p \in kept : Cardinality(Ahead(list, kept, p)) = k - 1
  <2> HIDE DEF kept
  <2> QED BY <1>2, <1>3, <1>4, RankTaken
<1>6. chain = [k \in 1..Cardinality(kept) |-> list[at(k)]] BY DEF resolve_plugins
<1>7. \A i \in kept : list[i] \in Entities BY <1>1 DEF Entities
<1> HIDE DEF kept, chain
<1>8. \A k \in 1..Cardinality(kept) : at(k) \in kept /\ Cardinality(Ahead(list, kept, at(k))) = k - 1
  BY <1>5
<1> HIDE DEF at
<1>9. chain \in [1..Cardinality(kept) -> Entities] BY <1>6, <1>7, <1>8
<1>10. chain \in Seq(Entities) /\ Len(chain) = Cardinality(kept) BY <1>5, <1>9
<1> QED BY <1>6, <1>8, <1>10 DEF kept, chain

-----------------------------------------------------------------------------
(* Records of requests *)

ContextFields == {"pc", "at", "route", "service_id", "service", "plugins", "since", "body",
           "request_body_buf", "retry_buffer", "upstream_body", "headers", "buffering", "deferred",
           "short", "exit", "forbidden", "abort", "root", "sent", "response", "failure", "hint",
           "transport", "finished", "ran", "passed", "compensated", "resolvedNotices",
           "finalNotices", "finalized", "marks"}

(* The fields of a request. *)
LEMMA CtxFields == \A body : DOMAIN NewCtx(body) = ContextFields
  BY DEF NewCtx, ContextFields

(* What a sequence holds. *)
LEMMA SeqElements ==
  ASSUME NEW S, NEW s \in Seq(S)
  PROVE  Len(s) \in Nat /\ DOMAIN s = 1..Len(s) /\ \A k \in 1..Len(s) : s[k] \in S
  OBVIOUS

(* None is no source, no mark and no hook; hooks do not answer 502. *)
LEMMA NotNone ==
  /\ \A x \in Sources \cup Marks \cup HookNames : x # None
  /\ \A x \in HookNames : x # "502"
  BY PipelineAssumption, Zenon

(* Hooks, handlers and finalizers are sequences. *)
LEMMA SequencesAre ==
  /\ Len(Hooks) \in Nat /\ DOMAIN Hooks = 1..Len(Hooks) /\ \A k \in 1..Len(Hooks) : Hooks[k].name \in HookNames
  /\ Len(AbortHandlers) \in Nat /\ DOMAIN AbortHandlers = 1..Len(AbortHandlers)
  /\ Len(Finalizers) \in Nat /\ DOMAIN Finalizers = 1..Len(Finalizers)
<1>1. IsSequence(Hooks) /\ IsSequence(AbortHandlers) /\ IsSequence(Finalizers) BY PipelineAssumption
<1>2. Len(Hooks) \in Nat /\ DOMAIN Hooks = 1..Len(Hooks) BY <1>1, SeqElements, Zenon DEF IsSequence
<1>3. Len(AbortHandlers) \in Nat /\ DOMAIN AbortHandlers = 1..Len(AbortHandlers)
  BY <1>1, SeqElements, Zenon DEF IsSequence
<1>4. Len(Finalizers) \in Nat /\ DOMAIN Finalizers = 1..Len(Finalizers)
  BY <1>1, SeqElements, Zenon DEF IsSequence
<1> QED BY <1>2, <1>3, <1>4 DEF HookNames

(* The plugins of a chain have names. *)
LEMMA PluginsNamed ==
  ASSUME NEW q, CtxTypeOK(q)
  PROVE  /\ Len(q.plugins) \in Nat /\ DOMAIN q.plugins = 1..Len(q.plugins)
         /\ \A k \in DOMAIN q.plugins : q.plugins[k].name \in Parties
<1>1. /\ Len(q.plugins) \in Nat /\ DOMAIN q.plugins = 1..Len(q.plugins)
      /\ \A k \in 1..Len(q.plugins) : q.plugins[k] \in Entities
  BY SeqElements, Zenon DEF CtxTypeOK
<1> QED BY <1>1 DEF Parties

(* What a label stands for. *)
USE DEF Reading, Phases, Sending, Closing

(* A new mark: the hint stays the first of the strongest. *)
LEMMA HintKeeps ==
  ASSUME NEW q, NEW kind \in Kinds, NEW who \in Parties, CtxInv(q)
  PROVE  LET q2 == set_termination_hint(q, kind, who)
         IN /\ CtxInv(q2) /\ DOMAIN q2 = ContextFields
            /\ \A f \in ContextFields \ {"marks", "hint"} : q2[f] = q[f]
<1> DEFINE q2 == set_termination_hint(q, kind, who)
           m == [kind |-> kind, who |-> who]
<1>1. DOMAIN q = ContextFields /\ q.marks \in Seq(Marks)
  BY CtxFields DEF CtxInv, CtxTypeOK
<1>2. /\ DOMAIN q2 = ContextFields /\ q2.marks = Append(q.marks, m)
      /\ q2.hint = IF q.hint = None \/ HintPriority(kind) > HintPriority(q.hint.kind) THEN m ELSE q.hint
      /\ \A f \in ContextFields \ {"marks", "hint"} : q2[f] = q[f]
  BY <1>1 DEF set_termination_hint, ContextFields
<1> HIDE DEF q2
<1>3. /\ q2.pc = q.pc /\ q2.at = q.at /\ q2.route = q.route /\ q2.service_id = q.service_id
      /\ q2.plugins = q.plugins /\ q2.since = q.since /\ q2.request_body_buf = q.request_body_buf
      /\ q2.retry_buffer = q.retry_buffer /\ q2.headers = q.headers /\ q2.short = q.short
      /\ q2.exit = q.exit /\ q2.forbidden = q.forbidden /\ q2.abort = q.abort /\ q2.root = q.root
      /\ q2.sent = q.sent /\ q2.response = q.response /\ q2.failure = q.failure
      /\ q2.transport = q.transport /\ q2.finished = q.finished /\ q2.ran = q.ran
      /\ q2.passed = q.passed /\ q2.compensated = q.compensated
      /\ q2.resolvedNotices = q.resolvedNotices /\ q2.finalNotices = q.finalNotices
      /\ q2.finalized = q.finalized
  BY <1>2 DEF ContextFields
<1>4. CtxTypeOK(q2)
  <2>1. m \in Marks BY DEF Marks
  <2>2. q2.marks \in Seq(Marks) BY <1>1, <1>2, <2>1
  <2> QED BY <1>2, <1>3, <2>2, CtxFields DEF CtxInv, CtxTypeOK
<1>5. ChainFresh(q2) BY <1>3 DEF CtxInv, ChainFresh
<1>6. Gated(q2) BY <1>3 DEF CtxInv, Gated, Gate, Cleared, HooksPassed
<1>7. AbortInv(q2) BY <1>3 DEF CtxInv, AbortInv
<1>8. CloseInv(q2) BY <1>3 DEF CtxInv, CloseInv
<1>9. HintInv(q2)
  <2> DEFINE n == Len(q.marks)
  <2>1. n \in Nat /\ DOMAIN q.marks = 1..n /\ \A k \in 1..n : q.marks[k] \in Marks
    BY <1>1, SeqElements, Zenon
  <2>2. /\ DOMAIN q2.marks = 1..(n + 1) /\ q2.marks[n + 1] = m /\ q2.marks # <<>>
        /\ \A k \in 1..n : q2.marks[k] = q.marks[k]
    BY <1>1, <1>2
  <2>3. m.kind = kind OBVIOUS
  <2>4. \A k \in Kinds : HintPriority(k) \in Nat
    BY DEF HintPriority, Kinds
  <2>5. CASE q.marks = <<>>
    <3>1. q.hint = None BY <2>5 DEF CtxInv, HintInv
    <3>2. q2.hint = m /\ n = 0 BY <3>1, <2>5, <1>2
    <3> QED BY <2>2, <2>3, <2>4, <3>2 DEF HintInv
  <2>6. CASE q.marks # <<>>
    <3>1. PICK k \in 1..n :
            /\ q.hint = q.marks[k]
            /\ \A j \in 1..n : HintPriority(q.marks[j].kind) <= HintPriority(q.hint.kind)
            /\ \A j \in 1..(k - 1) : HintPriority(q.marks[j].kind) < HintPriority(q.hint.kind)
      BY <2>1, <2>6 DEF CtxInv, HintInv
    <3>2. q.hint \in Marks /\ q.hint # None BY <2>1, <3>1, NotNone
    <3>3. HintPriority(q.hint.kind) \in Nat /\ HintPriority(kind) \in Nat BY <2>4, <3>2 DEF Marks
    <3>4. \A j \in 1..n : HintPriority(q.marks[j].kind) \in Nat BY <2>1, <2>4 DEF Marks
    <3> HIDE DEF n, m
    <3>5. CASE HintPriority(kind) > HintPriority(q.hint.kind)
      <4>1. q2.hint = m BY <1>2, <3>5
      <4>2. \A j \in 1..n : HintPriority(q.marks[j].kind) < HintPriority(kind)
        BY <3>1, <3>3, <3>4, <3>5
      <4>3. \A j \in 1..(n + 1) : HintPriority(q2.marks[j].kind) <= HintPriority(q2.hint.kind)
        <5> SUFFICES ASSUME NEW j \in 1..(n + 1)
                     PROVE  HintPriority(q2.marks[j].kind) <= HintPriority(kind)
          BY <4>1, <2>3
        <5>1. CASE j \in 1..n BY <5>1, <4>2, <2>2, <3>3, <3>4
        <5>2. CASE j = n + 1 BY <5>2, <2>2, <2>3, <3>3
        <5> QED BY <5>1, <5>2, <2>1
      <4>4. \A j \in 1..((n + 1) - 1) : HintPriority(q2.marks[j].kind) < HintPriority(q2.hint.kind)
        BY <4>1, <4>2, <2>1, <2>2, <2>3
      <4>5. n + 1 \in DOMAIN q2.marks /\ q2.hint = q2.marks[n + 1] BY <2>1, <2>2, <4>1
      <4> QED BY <4>3, <4>4, <4>5, <2>2 DEF HintInv
    <3>6. CASE ~(HintPriority(kind) > HintPriority(q.hint.kind))
      <4>1. q2.hint = q.hint BY <1>2, <3>2, <3>6
      <4>2. \A j \in 1..(n + 1) : HintPriority(q2.marks[j].kind) <= HintPriority(q2.hint.kind)
        <5> SUFFICES ASSUME NEW j \in 1..(n + 1)
                     PROVE  HintPriority(q2.marks[j].kind) <= HintPriority(q.hint.kind)
          BY <4>1
        <5>1. CASE j \in 1..n BY <5>1, <3>1, <2>2
        <5>2. CASE j = n + 1 BY <5>2, <2>2, <2>3, <3>3, <3>6
        <5> QED BY <5>1, <5>2, <2>1
      <4>3. k \in DOMAIN q2.marks /\ q2.hint = q2.marks[k] BY <2>1, <2>2, <3>1, <4>1
      <4>4. \A j \in 1..(k - 1) : HintPriority(q2.marks[j].kind) < HintPriority(q2.hint.kind)
        BY <2>1, <2>2, <3>1, <4>1
      <4> QED BY <4>2, <4>3, <4>4, <2>2 DEF HintInv
    <3> QED BY <3>5, <3>6
  <2> QED BY <2>5, <2>6
<1> QED BY <1>2, <1>4, <1>5, <1>6, <1>7, <1>8, <1>9 DEF CtxInv, q2

(* Two records agree in all fields but those of C. *)
Agree(q2, q, C) ==
  /\ "pc" \notin C => q2.pc = q.pc
  /\ "at" \notin C => q2.at = q.at
  /\ "route" \notin C => q2.route = q.route
  /\ "service_id" \notin C => q2.service_id = q.service_id
  /\ "service" \notin C => q2.service = q.service
  /\ "plugins" \notin C => q2.plugins = q.plugins
  /\ "since" \notin C => q2.since = q.since
  /\ "body" \notin C => q2.body = q.body
  /\ "request_body_buf" \notin C => q2.request_body_buf = q.request_body_buf
  /\ "retry_buffer" \notin C => q2.retry_buffer = q.retry_buffer
  /\ "headers" \notin C => q2.headers = q.headers
  /\ "short" \notin C => q2.short = q.short
  /\ "exit" \notin C => q2.exit = q.exit
  /\ "forbidden" \notin C => q2.forbidden = q.forbidden
  /\ "abort" \notin C => q2.abort = q.abort
  /\ "root" \notin C => q2.root = q.root
  /\ "sent" \notin C => q2.sent = q.sent
  /\ "response" \notin C => q2.response = q.response
  /\ "failure" \notin C => q2.failure = q.failure
  /\ "hint" \notin C => q2.hint = q.hint
  /\ "transport" \notin C => q2.transport = q.transport
  /\ "finished" \notin C => q2.finished = q.finished
  /\ "ran" \notin C => q2.ran = q.ran
  /\ "passed" \notin C => q2.passed = q.passed
  /\ "compensated" \notin C => q2.compensated = q.compensated
  /\ "resolvedNotices" \notin C => q2.resolvedNotices = q.resolvedNotices
  /\ "finalNotices" \notin C => q2.finalNotices = q.finalNotices
  /\ "finalized" \notin C => q2.finalized = q.finalized
  /\ "marks" \notin C => q2.marks = q.marks

(* Agreement, from the functions that records are. *)
LEMMA SameFields ==
  ASSUME NEW q, NEW q2, NEW C, \A f \in ContextFields \ C : q2[f] = q[f]
  PROVE  Agree(q2, q, C)
  BY DEF ContextFields, Agree

(* A request goes to another place. *)
LEMMA GotoIs ==
  ASSUME NEW q, NEW label, DOMAIN q = ContextFields
  PROVE  /\ DOMAIN Goto(q, label) = ContextFields /\ Goto(q, label).pc = label /\ Goto(q, label).at = 1
         /\ \A f \in ContextFields \ {"pc", "at"} : Goto(q, label)[f] = q[f]
  BY DEF Goto, ContextFields

(* The transport error that is kept is never a weaker one. *)
LEMMA TransportKeeps ==
  ASSUME NEW q, NEW source \in Sources, CtxInv(q)
  PROVE  LET q2 == mark_transport_error(q, source)
         IN /\ CtxInv(q2) /\ DOMAIN q2 = ContextFields
            /\ \A f \in ContextFields \ {"transport"} : q2[f] = q[f]
            /\ source = "downstream" => q2.transport = "downstream"
<1> DEFINE q2 == mark_transport_error(q, source)
<1>1. DOMAIN q = ContextFields BY CtxFields DEF CtxInv, CtxTypeOK
<1>2. /\ DOMAIN q2 = ContextFields
      /\ q2.transport = IF q.transport = None \/ SourcePriority(source) > SourcePriority(q.transport)
                        THEN source ELSE q.transport
      /\ \A f \in ContextFields \ {"transport"} : q2[f] = q[f]
  BY <1>1 DEF mark_transport_error, ContextFields
<1> HIDE DEF q2
<1>0. Agree(q2, q, {"transport"}) BY <1>2, SameFields
<1>3. /\ q2.transport \in Sources \cup {None}
      /\ source = "downstream" => q2.transport = "downstream"
      /\ q.transport = "downstream" => q2.transport = "downstream"
  <2>1. q.transport \in Sources \cup {None} BY DEF CtxInv, CtxTypeOK
  <2>2. "downstream" \in Sources BY DEF Sources
  <2>3. "downstream" # None BY <2>2, NotNone
  <2> QED BY <1>2, <2>1, <2>3 DEF Sources, SourcePriority
<1>4. CtxTypeOK(q2) BY <1>0, <1>2, <1>3, CtxFields DEF Agree, CtxInv, CtxTypeOK
<1>5. ChainFresh(q2) BY <1>0, <1>2 DEF Agree, CtxInv, ChainFresh
<1>6. Gated(q2) BY <1>0, <1>2 DEF Agree, CtxInv, Gated, Gate, Cleared, HooksPassed
<1>7. AbortInv(q2) BY <1>0, <1>2, <1>3 DEF Agree, CtxInv, AbortInv
<1>8. CloseInv(q2) BY <1>0, <1>2 DEF Agree, CtxInv, CloseInv
<1>9. HintInv(q2) BY <1>0, <1>2 DEF Agree, CtxInv, HintInv
<1> QED BY <1>2, <1>3, <1>4, <1>5, <1>6, <1>7, <1>8, <1>9 DEF CtxInv, q2

(* A request that ends before its dispatch was decided. *)
LEMMA RespondEarly ==
  ASSUME NEW q, NEW what, CtxInv(q), q.pc \in Reading \cup Phases
  PROVE  CtxInv(Respond(q, what))
<1> DEFINE q2 == Respond(q, what)
<1>1. DOMAIN q = ContextFields BY CtxFields DEF CtxInv, CtxTypeOK
<1>2. /\ DOMAIN q2 = ContextFields /\ q2.pc = "logging" /\ q2.at = 1 /\ q2.response = what
      /\ \A f \in ContextFields \ {"pc", "at", "response"} : q2[f] = q[f]
  BY <1>1 DEF Respond, Goto, ContextFields
<1> HIDE DEF q2
<1>0. Agree(q2, q, {"pc", "at", "response"}) BY <1>2, SameFields
<1>3. q.abort = None /\ q.sent = <<>> BY DEF CtxInv, AbortInv, Gated
<1>4. CtxTypeOK(q2) BY <1>0, <1>2, CtxFields DEF Agree, CtxInv, CtxTypeOK
<1>5. ChainFresh(q2) BY <1>0, <1>2 DEF Agree, CtxInv, ChainFresh
<1>6. Gated(q2) BY <1>0, <1>2, <1>3 DEF Agree, CtxInv, Gated
<1>7. AbortInv(q2) BY <1>0, <1>2, <1>3 DEF Agree, CtxInv, AbortInv
<1>8. CloseInv(q2) BY <1>0, <1>2 DEF Agree, CtxInv, CloseInv
<1>9. HintInv(q2) BY <1>0, <1>2 DEF Agree, CtxInv, HintInv
<1> QED BY <1>4, <1>5, <1>6, <1>7, <1>8, <1>9 DEF CtxInv, q2

-----------------------------------------------------------------------------
(* request_filter *)

(* A route is found: the chains are at least as new as they are now. *)
LEMMA RouteFound ==
  ASSUME NEW q, NEW route, NEW service, PublishInv, CtxInv(q), q.pc = "start"
  PROVE  CtxInv([Goto(q, "service") EXCEPT !.route = route, !.service_id = service, !.since = built])
<1> DEFINE q2 == [Goto(q, "service") EXCEPT !.route = route, !.service_id = service, !.since = built]
<1>1. DOMAIN q = ContextFields BY CtxFields DEF CtxInv, CtxTypeOK
<1>2. /\ DOMAIN q2 = ContextFields /\ q2.pc = "service" /\ q2.at = 1 /\ q2.since = built
      /\ \A f \in ContextFields \ {"pc", "at", "route", "service_id", "since"} : q2[f] = q[f]
  BY <1>1 DEF Goto, ContextFields
<1> HIDE DEF q2
<1>3. Agree(q2, q, {"pc", "at", "route", "service_id", "since"}) BY <1>2, SameFields
<1>4. CtxTypeOK(q2) BY <1>2, <1>3, CtxFields DEF Agree, CtxInv, CtxTypeOK
<1>5. ChainFresh(q2) BY <1>2, <1>3 DEF Agree, CtxInv, ChainFresh, PublishInv
<1>6. Gated(q2) BY <1>2, <1>3 DEF Agree, CtxInv, Gated
<1>7. AbortInv(q2) BY <1>2, <1>3 DEF Agree, CtxInv, AbortInv
<1>8. CloseInv(q2) BY <1>2, <1>3 DEF Agree, CtxInv, CloseInv
<1>9. HintInv(q2) BY <1>2, <1>3 DEF Agree, CtxInv, HintInv
<1> QED BY <1>4, <1>5, <1>6, <1>7, <1>8, <1>9 DEF CtxInv, q2

(* The service is looked up. *)
LEMMA ServiceFound ==
  ASSUME NEW q, NEW found, CtxInv(q), q.pc = "service"
  PROVE  CtxInv([Goto(q, "resolve") EXCEPT !.service = found])
<1> DEFINE q2 == [Goto(q, "resolve") EXCEPT !.service = found]
<1>1. DOMAIN q = ContextFields BY CtxFields DEF CtxInv, CtxTypeOK
<1>2. /\ DOMAIN q2 = ContextFields /\ q2.pc = "resolve" /\ q2.at = 1
      /\ \A f \in ContextFields \ {"pc", "at", "service"} : q2[f] = q[f]
  BY <1>1 DEF Goto, ContextFields
<1> HIDE DEF q2
<1>3. Agree(q2, q, {"pc", "at", "service"}) BY <1>2, SameFields
<1>4. CtxTypeOK(q2) BY <1>2, <1>3, CtxFields DEF Agree, CtxInv, CtxTypeOK
<1>5. ChainFresh(q2) BY <1>2, <1>3 DEF Agree, CtxInv, ChainFresh
<1>6. Gated(q2) BY <1>2, <1>3 DEF Agree, CtxInv, Gated
<1>7. AbortInv(q2) BY <1>2, <1>3 DEF Agree, CtxInv, AbortInv
<1>8. CloseInv(q2) BY <1>2, <1>3 DEF Agree, CtxInv, CloseInv
<1>9. HintInv(q2) BY <1>2, <1>3 DEF Agree, CtxInv, HintInv
<1> QED BY <1>4, <1>5, <1>6, <1>7, <1>8, <1>9 DEF CtxInv, q2

(* The chain is that of the last list, or of the one the chains were built *)
(* from, which is no older than when the request was routed.               *)
LEMMA ChainFound ==
  ASSUME NEW q, PublishInv, CtxInv(q), q.pc = "resolve"
  PROVE  LET key == <<q.route, q.service_id>>
             chain == IF key \in DOMAIN chains THEN chains[key]
                      ELSE resolve_plugins(plugins, key[1], key[2])
         IN CtxInv([Goto(q, "preload") EXCEPT !.plugins = chain, !.resolvedNotices = @ + 1])
<1> DEFINE key == <<q.route, q.service_id>>
           chain == IF key \in DOMAIN chains THEN chains[key]
                    ELSE resolve_plugins(plugins, key[1], key[2])
           q2 == [Goto(q, "preload") EXCEPT !.plugins = chain, !.resolvedNotices = @ + 1]
<1>0. q.since \in 1..built /\ q.resolvedNotices = 0 BY DEF CtxInv, ChainFresh
<1>a. /\ Len(generations) \in Nat /\ built \in 1..Len(generations)
      /\ \A g \in 1..Len(generations) : generations[g] \in PluginLists
  BY DEF PublishInv
<1>b. \E g \in q.since..Len(generations) : chain = resolve_plugins(generations[g], q.route, q.service_id)
  <2>1. key[1] = q.route /\ key[2] = q.service_id OBVIOUS
  <2>2. CASE key \in DOMAIN chains
    <3>1. chains[key] = resolve_plugins(generations[built], key[1], key[2])
      BY <2>2 DEF PublishInv, RebuiltChains
    <3>2. built \in q.since..Len(generations) BY <1>0, <1>a
    <3> QED BY <2>1, <2>2, <3>1, <3>2
  <2>3. CASE key \notin DOMAIN chains
    <3>1. chain = resolve_plugins(generations[Len(generations)], key[1], key[2]) BY <2>3 DEF PublishInv
    <3>2. Len(generations) \in q.since..Len(generations) BY <1>0, <1>a
    <3> QED BY <2>1, <3>1, <3>2
  <2> QED BY <2>2, <2>3
<1>c. chain \in Seq(Entities)
  <2>1. PICK g \in q.since..Len(generations) : chain = resolve_plugins(generations[g], q.route, q.service_id)
    BY <1>b
  <2>2. generations[g] \in PluginLists BY <1>0, <1>a
  <2> QED BY <2>1, <2>2, ChainIs
<1> HIDE DEF chain
<1>1. DOMAIN q = ContextFields BY CtxFields DEF CtxInv, CtxTypeOK
<1>2. /\ DOMAIN q2 = ContextFields /\ q2.pc = "preload" /\ q2.at = 1 /\ q2.plugins = chain /\ q2.resolvedNotices = 1
      /\ \A f \in ContextFields \ {"pc", "at", "plugins", "resolvedNotices"} : q2[f] = q[f]
  <2> DEFINE g == Goto(q, "preload")
  <2>1. /\ DOMAIN g = ContextFields /\ g.pc = "preload" /\ g.at = 1
        /\ \A f \in ContextFields \ {"pc", "at"} : g[f] = q[f]
    BY <1>1, GotoIs
  <2>2. g.resolvedNotices + 1 = 1 BY <1>0, <2>1 DEF ContextFields
  <2>3. q2 = [g EXCEPT !.plugins = chain, !.resolvedNotices = 1] BY <2>2
  <2> HIDE DEF g, q2
  <2> QED BY <2>1, <2>3 DEF ContextFields
<1> HIDE DEF q2
<1>3. Agree(q2, q, {"pc", "at", "plugins", "resolvedNotices"}) BY <1>2, SameFields
<1>4. CtxTypeOK(q2) BY <1>2, <1>3, <1>c, CtxFields DEF Agree, CtxInv, CtxTypeOK
<1>5. ChainFresh(q2) BY <1>2, <1>3, <1>0, <1>b DEF Agree, ChainFresh
<1>6. Gated(q2) BY <1>2, <1>3 DEF Agree, CtxInv, Gated
<1>7. AbortInv(q2) BY <1>2, <1>3 DEF Agree, CtxInv, AbortInv
<1>8. CloseInv(q2) BY <1>2, <1>3 DEF Agree, CtxInv, CloseInv
<1>9. HintInv(q2) BY <1>2, <1>3 DEF Agree, CtxInv, HintInv
<1> QED BY <1>4, <1>5, <1>6, <1>7, <1>8, <1>9 DEF CtxInv, q2, chain

(* There is no body or it is retained, and the rewrite phase begins. *)
LEMMA BodyPreloaded ==
  ASSUME NEW q, NEW buf \in Body, NEW retry \in Body, CtxInv(q), q.pc = "preload",
         NEW q2 \in {Goto(q, "rewrite"),
                     [Goto(q, "rewrite") EXCEPT !.request_body_buf = buf, !.retry_buffer = retry]}
  PROVE  CtxInv(q2)
<1>1. DOMAIN q = ContextFields /\ q.request_body_buf \in Body /\ q.retry_buffer \in Body
  BY CtxFields DEF CtxInv, CtxTypeOK
<1>2. /\ DOMAIN q2 = ContextFields /\ q2.pc = "rewrite" /\ q2.at = 1
      /\ q2.request_body_buf \in Body /\ q2.retry_buffer \in Body
      /\ \A f \in ContextFields \ {"pc", "at", "request_body_buf", "retry_buffer"} : q2[f] = q[f]
  <2>1. CASE q2 = Goto(q, "rewrite") BY <1>1, <2>1 DEF Goto, ContextFields
  <2>2. CASE q2 = [Goto(q, "rewrite") EXCEPT !.request_body_buf = buf, !.retry_buffer = retry]
    BY <1>1, <2>2 DEF Goto, ContextFields
  <2> QED BY <2>1, <2>2
<1>3. Agree(q2, q, {"pc", "at", "request_body_buf", "retry_buffer"}) BY <1>2, SameFields
<1>4. CtxTypeOK(q2) BY <1>2, <1>3, CtxFields DEF Agree, CtxInv, CtxTypeOK
<1>5. ChainFresh(q2) BY <1>2, <1>3 DEF Agree, CtxInv, ChainFresh
<1>6. Gated(q2) BY <1>2, <1>3 DEF Agree, CtxInv, Gated, Cleared
<1>7. AbortInv(q2) BY <1>2, <1>3 DEF Agree, CtxInv, AbortInv
<1>8. CloseInv(q2) BY <1>2, <1>3 DEF Agree, CtxInv, CloseInv
<1>9. HintInv(q2) BY <1>2, <1>3 DEF Agree, CtxInv, HintInv
<1> QED BY <1>4, <1>5, <1>6, <1>7, <1>8, <1>9 DEF CtxInv

-----------------------------------------------------------------------------
(* The phases of the plugins *)

(* A plugin passes its phase. *)
LEMMA PluginPasses ==
  ASSUME NEW q, NEW phase \in {"rewrite", "access"}, CtxInv(q), q.pc = phase, ~q.short, q.at <= Len(q.plugins)
  PROVE  CtxInv([[q EXCEPT !.at = @ + 1] EXCEPT !.passed = @ \cup {<<phase, q.plugins[q.at].name>>}])
<1> DEFINE q2 == [[q EXCEPT !.at = @ + 1] EXCEPT !.passed = @ \cup {<<phase, q.plugins[q.at].name>>}]
<1>1. DOMAIN q = ContextFields BY CtxFields DEF CtxInv, CtxTypeOK
<1>2. /\ DOMAIN q2 = ContextFields /\ q2.at = q.at + 1 /\ q2.passed = q.passed \cup {<<phase, q.plugins[q.at].name>>}
      /\ \A f \in ContextFields \ {"at", "passed"} : q2[f] = q[f]
  BY <1>1 DEF ContextFields
<1> HIDE DEF q2
<1>3. Agree(q2, q, {"at", "passed"}) BY <1>2, SameFields
<1>a. q.at \in Nat \ {0} /\ (q2.at - 1) = q.at BY <1>2 DEF CtxInv, CtxTypeOK
<1>b. q.sent = <<>> BY DEF CtxInv, Gated
<1>4. CtxTypeOK(q2) BY <1>2, <1>3, CtxFields, <1>a DEF Agree, CtxInv, CtxTypeOK
<1>5. ChainFresh(q2) BY <1>2, <1>3 DEF Agree, CtxInv, ChainFresh
<1>6. Gated(q2)
  <2>1. ASSUME NEW other, NEW n, Cleared(q, other, n) PROVE Cleared(q2, other, n)
    BY <1>2, <1>3, <2>1 DEF Agree, Cleared
  <2>2. ASSUME Cleared(q, phase, q.at - 1) PROVE Cleared(q2, phase, q2.at - 1)
    <3> SUFFICES ASSUME NEW k \in 1..(q2.at - 1) PROVE <<phase, q2.plugins[k].name>> \in q2.passed
      BY DEF Cleared
    <3>1. CASE k = q.at BY <3>1, <1>2, <1>3 DEF Agree
    <3>2. CASE k # q.at
      <4>1. k \in 1..(q.at - 1) BY <3>2, <1>a
      <4> QED BY <4>1, <2>2, <1>2, <1>3 DEF Agree, Cleared
    <3> QED BY <3>1, <3>2
  <2>3. q2.plugins = q.plugins /\ q2.pc = phase /\ q2.sent = <<>> BY <1>3, <1>b DEF Agree
  <2>4. CASE phase = "rewrite"
    <3>1. Cleared(q, "rewrite", q.at - 1) BY <2>4 DEF CtxInv, Gated
    <3> QED BY <2>2, <2>3, <2>4, <3>1 DEF Gated
  <2>5. CASE phase = "access"
    <3>1. Cleared(q, "rewrite", Len(q.plugins)) /\ Cleared(q, "access", q.at - 1) BY <2>5 DEF CtxInv, Gated
    <3>2. Cleared(q2, "rewrite", Len(q2.plugins)) BY <2>1, <2>3, <3>1
    <3> QED BY <2>2, <2>3, <2>5, <3>1, <3>2 DEF Gated
  <2> QED BY <2>4, <2>5
<1>7. AbortInv(q2) BY <1>2, <1>3 DEF Agree, CtxInv, AbortInv
<1>8. CloseInv(q2) BY <1>2, <1>3 DEF Agree, CtxInv, CloseInv
<1>9. HintInv(q2) BY <1>2, <1>3 DEF Agree, CtxInv, HintInv
<1> QED BY <1>4, <1>5, <1>6, <1>7, <1>8, <1>9 DEF CtxInv, q2

(* A plugin ends the request. *)
LEMMA PluginExits ==
  ASSUME NEW q, NEW name, CtxInv(q), q.pc \in {"rewrite", "access"}
  PROVE  CtxInv([[q EXCEPT !.at = @ + 1] EXCEPT !.short = TRUE, !.exit = name])
<1> DEFINE q2 == [[q EXCEPT !.at = @ + 1] EXCEPT !.short = TRUE, !.exit = name]
<1>1. DOMAIN q = ContextFields BY CtxFields DEF CtxInv, CtxTypeOK
<1>2. /\ DOMAIN q2 = ContextFields /\ q2.at = q.at + 1 /\ q2.short = TRUE /\ q2.exit = name
      /\ \A f \in ContextFields \ {"at", "short", "exit"} : q2[f] = q[f]
  BY <1>1 DEF ContextFields
<1> HIDE DEF q2
<1>3. Agree(q2, q, {"at", "short", "exit"}) BY <1>2, SameFields
<1>a. q.at + 1 \in Nat \ {0} BY DEF CtxInv, CtxTypeOK
<1>b. q.sent = <<>> BY DEF CtxInv, Gated
<1>4. CtxTypeOK(q2) BY <1>2, <1>3, CtxFields, <1>a DEF Agree, CtxInv, CtxTypeOK
<1>5. ChainFresh(q2) BY <1>2, <1>3 DEF Agree, CtxInv, ChainFresh
<1>6. Gated(q2) BY <1>2, <1>3, <1>b DEF Agree, CtxInv, Gated
<1>7. AbortInv(q2) BY <1>2, <1>3 DEF Agree, CtxInv, AbortInv
<1>8. CloseInv(q2) BY <1>2, <1>3 DEF Agree, CtxInv, CloseInv
<1>9. HintInv(q2) BY <1>2, <1>3 DEF Agree, CtxInv, HintInv
<1> QED BY <1>4, <1>5, <1>6, <1>7, <1>8, <1>9 DEF CtxInv, q2

(* A plugin fails: where it was in its chain does not matter any more. *)
LEMMA PluginFails ==
  ASSUME NEW q, NEW name \in Parties, CtxInv(q), q.pc \in {"rewrite", "access"}
  PROVE  CtxInv(Respond(set_termination_hint([q EXCEPT !.at = @ + 1], "gateway", name), "500"))
<1> DEFINE h == set_termination_hint(q, "gateway", name)
<1>1. DOMAIN q = ContextFields BY CtxFields DEF CtxInv, CtxTypeOK
<1>2. Respond(set_termination_hint([q EXCEPT !.at = @ + 1], "gateway", name), "500") = Respond(h, "500")
  BY <1>1 DEF Respond, Goto, set_termination_hint, ContextFields
<1>3. CtxInv(h) /\ h.pc = q.pc
  BY HintKeeps DEF Kinds, ContextFields
<1> HIDE DEF h
<1> QED BY <1>2, <1>3, RespondEarly

(* A plugin stages a header, ... *)
LEMMA StagesHeaders ==
  ASSUME NEW q, NEW name \in Parties, CtxInv(q), q.pc = "access"
  PROVE  CtxInv([q EXCEPT !.headers = @ \cup {name}])
<1> DEFINE q2 == [q EXCEPT !.headers = @ \cup {name}]
<1>1. DOMAIN q = ContextFields BY CtxFields DEF CtxInv, CtxTypeOK
<1>2. /\ DOMAIN q2 = ContextFields /\ q2.headers = q.headers \cup {name}
      /\ \A f \in ContextFields \ {"headers"} : q2[f] = q[f]
  BY <1>1 DEF ContextFields
<1> HIDE DEF q2
<1>3. Agree(q2, q, {"headers"}) BY <1>2, SameFields
<1>b. q.sent = <<>> BY DEF CtxInv, Gated
<1>4. CtxTypeOK(q2) BY <1>2, <1>3, CtxFields DEF Agree, CtxInv, CtxTypeOK
<1>5. ChainFresh(q2) BY <1>2, <1>3 DEF Agree, CtxInv, ChainFresh
<1>6. Gated(q2) BY <1>2, <1>3, <1>b DEF Agree, CtxInv, Gated, Cleared
<1>7. AbortInv(q2) BY <1>2, <1>3 DEF Agree, CtxInv, AbortInv
<1>8. CloseInv(q2) BY <1>2, <1>3 DEF Agree, CtxInv, CloseInv
<1>9. HintInv(q2) BY <1>2, <1>3 DEF Agree, CtxInv, HintInv
<1> QED BY <1>4, <1>5, <1>6, <1>7, <1>8, <1>9 DEF CtxInv, q2

(* ... replaces the body, ... *)
LEMMA ReplacesBody ==
  ASSUME NEW q, CtxInv(q), q.pc = "access"
  PROVE  CtxInv([q EXCEPT !.upstream_body = TRUE])
<1> DEFINE q2 == [q EXCEPT !.upstream_body = TRUE]
<1>1. DOMAIN q = ContextFields BY CtxFields DEF CtxInv, CtxTypeOK
<1>2. /\ DOMAIN q2 = ContextFields 
      /\ \A f \in ContextFields \ {"upstream_body"} : q2[f] = q[f]
  BY <1>1 DEF ContextFields
<1> HIDE DEF q2
<1>3. Agree(q2, q, {"upstream_body"}) BY <1>2, SameFields
<1>b. q.sent = <<>> BY DEF CtxInv, Gated
<1>4. CtxTypeOK(q2) BY <1>2, <1>3, CtxFields DEF Agree, CtxInv, CtxTypeOK
<1>5. ChainFresh(q2) BY <1>2, <1>3 DEF Agree, CtxInv, ChainFresh
<1>6. Gated(q2) BY <1>2, <1>3, <1>b DEF Agree, CtxInv, Gated, Cleared
<1>7. AbortInv(q2) BY <1>2, <1>3 DEF Agree, CtxInv, AbortInv
<1>8. CloseInv(q2) BY <1>2, <1>3 DEF Agree, CtxInv, CloseInv
<1>9. HintInv(q2) BY <1>2, <1>3 DEF Agree, CtxInv, HintInv
<1> QED BY <1>4, <1>5, <1>6, <1>7, <1>8, <1>9 DEF CtxInv, q2

(* ... asks for the whole response, ... *)
LEMMA BuffersResponse ==
  ASSUME NEW q, CtxInv(q), q.pc = "access"
  PROVE  CtxInv([q EXCEPT !.buffering = TRUE])
<1> DEFINE q2 == [q EXCEPT !.buffering = TRUE]
<1>1. DOMAIN q = ContextFields BY CtxFields DEF CtxInv, CtxTypeOK
<1>2. /\ DOMAIN q2 = ContextFields 
      /\ \A f \in ContextFields \ {"buffering"} : q2[f] = q[f]
  BY <1>1 DEF ContextFields
<1> HIDE DEF q2
<1>3. Agree(q2, q, {"buffering"}) BY <1>2, SameFields
<1>b. q.sent = <<>> BY DEF CtxInv, Gated
<1>4. CtxTypeOK(q2) BY <1>2, <1>3, CtxFields DEF Agree, CtxInv, CtxTypeOK
<1>5. ChainFresh(q2) BY <1>2, <1>3 DEF Agree, CtxInv, ChainFresh
<1>6. Gated(q2) BY <1>2, <1>3, <1>b DEF Agree, CtxInv, Gated, Cleared
<1>7. AbortInv(q2) BY <1>2, <1>3 DEF Agree, CtxInv, AbortInv
<1>8. CloseInv(q2) BY <1>2, <1>3 DEF Agree, CtxInv, CloseInv
<1>9. HintInv(q2) BY <1>2, <1>3 DEF Agree, CtxInv, HintInv
<1> QED BY <1>4, <1>5, <1>6, <1>7, <1>8, <1>9 DEF CtxInv, q2

(* ... or forbids the dispatch. *)
LEMMA Forbids ==
  ASSUME NEW q, CtxInv(q), q.pc = "access"
  PROVE  CtxInv([q EXCEPT !.forbidden = TRUE])
<1> DEFINE q2 == [q EXCEPT !.forbidden = TRUE]
<1>1. DOMAIN q = ContextFields BY CtxFields DEF CtxInv, CtxTypeOK
<1>2. /\ DOMAIN q2 = ContextFields /\ q2.forbidden = TRUE
      /\ \A f \in ContextFields \ {"forbidden"} : q2[f] = q[f]
  BY <1>1 DEF ContextFields
<1> HIDE DEF q2
<1>3. Agree(q2, q, {"forbidden"}) BY <1>2, SameFields
<1>b. q.sent = <<>> BY DEF CtxInv, Gated
<1>4. CtxTypeOK(q2) BY <1>2, <1>3, CtxFields DEF Agree, CtxInv, CtxTypeOK
<1>5. ChainFresh(q2) BY <1>2, <1>3 DEF Agree, CtxInv, ChainFresh
<1>6. Gated(q2) BY <1>2, <1>3, <1>b DEF Agree, CtxInv, Gated, Cleared
<1>7. AbortInv(q2) BY <1>2, <1>3 DEF Agree, CtxInv, AbortInv
<1>8. CloseInv(q2) BY <1>2, <1>3 DEF Agree, CtxInv, CloseInv
<1>9. HintInv(q2) BY <1>2, <1>3 DEF Agree, CtxInv, HintInv
<1> QED BY <1>4, <1>5, <1>6, <1>7, <1>8, <1>9 DEF CtxInv, q2

(* A phase ends when all plugins have passed it. *)
LEMMA PhaseEnds ==
  ASSUME NEW q, CtxInv(q), ~q.short, q.at > Len(q.plugins),
         NEW next, <<q.pc, next>> \in {<<"rewrite", "access">>, <<"access", "upstream">>}
  PROVE  CtxInv(Goto(q, next))
<1> DEFINE q2 == Goto(q, next)
<1>1. DOMAIN q = ContextFields BY CtxFields DEF CtxInv, CtxTypeOK
<1>2. /\ DOMAIN q2 = ContextFields /\ q2.pc = next /\ q2.at = 1
      /\ \A f \in ContextFields \ {"pc", "at"} : q2[f] = q[f]
  BY <1>1, GotoIs
<1> HIDE DEF q2
<1>3. Agree(q2, q, {"pc", "at"}) BY <1>2, SameFields
<1>a. q.sent = <<>> /\ q.at \in Nat /\ Len(q.plugins) \in Nat
  BY PluginsNamed DEF CtxInv, CtxTypeOK, Gated
<1>b. 1..Len(q.plugins) \subseteq 1..(q.at - 1) BY <1>a
<1>4. CtxTypeOK(q2) BY <1>2, <1>3, CtxFields DEF Agree, CtxInv, CtxTypeOK
<1>5. ChainFresh(q2) BY <1>2, <1>3 DEF Agree, CtxInv, ChainFresh
<1>6. Gated(q2) BY <1>2, <1>3, <1>a, <1>b DEF Agree, CtxInv, Gated, Cleared
<1>7. AbortInv(q2) BY <1>2, <1>3 DEF Agree, CtxInv, AbortInv
<1>8. CloseInv(q2) BY <1>2, <1>3 DEF Agree, CtxInv, CloseInv
<1>9. HintInv(q2) BY <1>2, <1>3 DEF Agree, CtxInv, HintInv
<1> QED BY <1>4, <1>5, <1>6, <1>7, <1>8, <1>9 DEF CtxInv, q2

(* A request that was ended goes to its answer. *)
LEMMA CutShort ==
  ASSUME NEW q, CtxInv(q), q.pc \in {"rewrite", "access"}
  PROVE  CtxInv(Goto(q, "short_circuit"))
<1> DEFINE q2 == Goto(q, "short_circuit")
<1>1. DOMAIN q = ContextFields BY CtxFields DEF CtxInv, CtxTypeOK
<1>2. /\ DOMAIN q2 = ContextFields /\ q2.pc = "short_circuit" /\ q2.at = 1
      /\ \A f \in ContextFields \ {"pc", "at"} : q2[f] = q[f]
  BY <1>1, GotoIs
<1> HIDE DEF q2
<1>3. Agree(q2, q, {"pc", "at"}) BY <1>2, SameFields
<1>a. q.sent = <<>> BY DEF CtxInv, Gated
<1>4. CtxTypeOK(q2) BY <1>2, <1>3, CtxFields DEF Agree, CtxInv, CtxTypeOK
<1>5. ChainFresh(q2) BY <1>2, <1>3 DEF Agree, CtxInv, ChainFresh
<1>6. Gated(q2) BY <1>2, <1>3, <1>a DEF Agree, CtxInv, Gated
<1>7. AbortInv(q2) BY <1>2, <1>3 DEF Agree, CtxInv, AbortInv
<1>8. CloseInv(q2) BY <1>2, <1>3 DEF Agree, CtxInv, CloseInv
<1>9. HintInv(q2) BY <1>2, <1>3 DEF Agree, CtxInv, HintInv
<1> QED BY <1>4, <1>5, <1>6, <1>7, <1>8, <1>9 DEF CtxInv, q2

(* The upstream is known: the hooks are next. *)
LEMMA ToHooks ==
  ASSUME NEW q, CtxInv(q), q.pc = "upstream"
  PROVE  CtxInv(Goto(q, "hooks"))
<1> DEFINE q2 == Goto(q, "hooks")
<1>1. DOMAIN q = ContextFields BY CtxFields DEF CtxInv, CtxTypeOK
<1>2. /\ DOMAIN q2 = ContextFields /\ q2.pc = "hooks" /\ q2.at = 1
      /\ \A f \in ContextFields \ {"pc", "at"} : q2[f] = q[f]
  BY <1>1, GotoIs
<1> HIDE DEF q2
<1>3. Agree(q2, q, {"pc", "at"}) BY <1>2, SameFields
<1>a. q.sent = <<>> BY DEF CtxInv, Gated
<1>4. CtxTypeOK(q2) BY <1>2, <1>3, CtxFields DEF Agree, CtxInv, CtxTypeOK
<1>5. ChainFresh(q2) BY <1>2, <1>3 DEF Agree, CtxInv, ChainFresh
<1>6. Gated(q2) BY <1>2, <1>3, <1>a DEF Agree, CtxInv, Gated, Cleared, HooksPassed
<1>7. AbortInv(q2) BY <1>2, <1>3 DEF Agree, CtxInv, AbortInv
<1>8. CloseInv(q2) BY <1>2, <1>3 DEF Agree, CtxInv, CloseInv
<1>9. HintInv(q2) BY <1>2, <1>3 DEF Agree, CtxInv, HintInv
<1> QED BY <1>4, <1>5, <1>6, <1>7, <1>8, <1>9 DEF CtxInv, q2

-----------------------------------------------------------------------------
(* Dispatch hooks and their compensation *)

(* What a hook leaves: a hook that must not fail and did not pass has aborted *)
(* the dispatch, and so has one that ended or forbade it.                     *)
LEMMA HookRuns ==
  ASSUME NEW q, CtxInv(q), q.pc = "hooks", q.at <= Len(Hooks), NEW q2,
         DOMAIN q2 = ContextFields, \A f \in ContextFields \ {"at", "passed", "forbidden", "short", "exit", "abort"} : q2[f] = q[f],
         q2.at = q.at + 1, q2.passed \in {q.passed, q.passed \cup {<<"hook", Hooks[q.at].name>>}},
         q2.forbidden \in BOOLEAN, q2.short \in BOOLEAN,
         q2.short => q2.exit \in HookNames,
         q2.abort \in HookNames \cup {None}, q.abort # None => q2.abort # None,
         q2.abort = None /\ Hooks[q.at].closed => <<"hook", Hooks[q.at].name>> \in q2.passed
  PROVE  CtxInv(q2)
<1>3. Agree(q2, q, {"at", "passed", "forbidden", "short", "exit", "abort"}) BY SameFields
<1>a. q.sent = <<>> /\ q.at \in Nat \ {0} /\ q.at + 1 \in Nat \ {0} /\ (q.at + 1) - 1 = q.at
  BY DEF CtxInv, Gated, CtxTypeOK
<1>4. CtxTypeOK(q2) BY <1>3, <1>a, CtxFields DEF Agree, CtxInv, CtxTypeOK
<1>5. ChainFresh(q2) BY <1>3 DEF Agree, CtxInv, ChainFresh
<1>6. Gated(q2)
  <2>1. /\ q2.pc = "hooks" /\ q2.plugins = q.plugins /\ q2.sent = <<>> /\ q.passed \subseteq q2.passed
    BY <1>3, <1>a DEF Agree
  <2>2. Cleared(q2, "rewrite", Len(q2.plugins)) /\ Cleared(q2, "access", Len(q2.plugins))
    BY <2>1 DEF CtxInv, Gated, Cleared
  <2>3. ASSUME q2.abort = None PROVE HooksPassed(q2, q2.at - 1)
    <3>1. HooksPassed(q, q.at - 1) BY <2>3 DEF CtxInv, Gated
    <3> SUFFICES ASSUME NEW k \in 1..(q2.at - 1), Hooks[k].closed
                 PROVE  <<"hook", Hooks[k].name>> \in q2.passed
      BY DEF HooksPassed
    <3>2. CASE k = q.at BY <3>2, <2>3
    <3>3. CASE k # q.at
      <4>1. k \in 1..(q.at - 1) BY <3>3, <1>a
      <4> QED BY <4>1, <3>1, <2>1 DEF HooksPassed
    <3> QED BY <3>2, <3>3
  <2> QED BY <2>1, <2>2, <2>3 DEF Gated
<1>7. AbortInv(q2) BY <1>3 DEF Agree, CtxInv, AbortInv
<1>8. CloseInv(q2) BY <1>3 DEF Agree, CtxInv, CloseInv
<1>9. HintInv(q2) BY <1>3 DEF Agree, CtxInv, HintInv
<1> QED BY <1>4, <1>5, <1>6, <1>7, <1>8, <1>9 DEF CtxInv

(* Each of the outcomes of a hook is such a step. *)
LEMMA HookOutcome ==
  ASSUME NEW q, CtxInv(q), q.pc = "hooks", q.at <= Len(Hooks)
  PROVE  LET hook == Hooks[q.at]
             ran == [q EXCEPT !.at = @ + 1]
             ok == [ran EXCEPT !.passed = @ \cup {<<"hook", hook.name>>}]
         IN \A q2 \in {ok, Failed(ran, hook), [ok EXCEPT !.forbidden = TRUE],
                       [ok EXCEPT !.short = TRUE, !.exit = hook.name]} : CtxInv(Settled(q2, hook))
<1> DEFINE hook == Hooks[q.at]
           ran == [q EXCEPT !.at = @ + 1]
           ok == [ran EXCEPT !.passed = @ \cup {<<"hook", hook.name>>}]
<1>1. DOMAIN q = ContextFields /\ q.forbidden \in BOOLEAN /\ q.short \in BOOLEAN /\ q.abort \in HookNames \cup {None}
  BY CtxFields DEF CtxInv, CtxTypeOK
<1>2. hook.name \in HookNames /\ hook.name # None /\ (q.short => q.exit \in HookNames)
  BY SequencesAre, NotNone DEF CtxInv, CtxTypeOK, AbortInv
<1>3. /\ DOMAIN ok = ContextFields /\ ok.at = q.at + 1 /\ ok.passed = q.passed \cup {<<"hook", hook.name>>}
      /\ \A f \in ContextFields \ {"at", "passed"} : ok[f] = q[f]
  BY <1>1 DEF ContextFields
<1>4. /\ DOMAIN ran = ContextFields /\ ran.at = q.at + 1
      /\ \A f \in ContextFields \ {"at"} : ran[f] = q[f]
  BY <1>1 DEF ContextFields
<1> HIDE DEF ok, ran
<1> DEFINE Changed == {"at", "passed", "forbidden", "short", "exit", "abort"}
           Good(x) == /\ DOMAIN x = ContextFields /\ \A f \in ContextFields \ Changed : x[f] = q[f]
                      /\ x.at = q.at + 1 /\ x.forbidden \in BOOLEAN /\ x.short \in BOOLEAN
                      /\ x.passed \in {q.passed, q.passed \cup {<<"hook", hook.name>>}}
                      /\ x.short => x.exit \in HookNames
                      /\ x.abort \in HookNames \cup {None} /\ (q.abort # None => x.abort # None)
                      /\ x.abort = None /\ hook.closed => <<"hook", hook.name>> \in x.passed
<1>5. ASSUME NEW x, Good(x) PROVE CtxInv(x)
  <2> HIDE DEF hook
  <2> QED BY <1>5, HookRuns DEF hook
<1>6. ASSUME NEW x, Good(x) PROVE Good(Settled(x, hook))
  <2> DEFINE y == [x EXCEPT !.forbidden = TRUE, !.abort = IF @ = None THEN hook.name ELSE @]
  <2>1. /\ DOMAIN y = ContextFields /\ y.forbidden = TRUE /\ y.abort = IF x.abort = None THEN hook.name ELSE x.abort
        /\ \A f \in ContextFields \ {"forbidden", "abort"} : y[f] = x[f]
    BY <1>6 DEF ContextFields
  <2>2. Settled(x, hook) = IF x.short \/ x.forbidden THEN y ELSE x BY DEF Settled
  <2>3. Agree(y, x, {"forbidden", "abort"}) BY <2>1, SameFields
  <2> HIDE DEF y, hook
  <2>4. Good(y)
    <3>1. \A f \in ContextFields \ Changed : y[f] = q[f] BY <1>6, <2>1
    <3>2. /\ y.at = q.at + 1 /\ y.short \in BOOLEAN /\ (y.short => y.exit \in HookNames)
          /\ y.passed \in {q.passed, q.passed \cup {<<"hook", hook.name>>}}
      BY <1>6, <2>3 DEF Agree
    <3>3. y.abort \in HookNames /\ y.abort # None BY <1>6, <2>1, <1>2, NotNone
    <3> HIDE DEF Changed
    <3> QED BY <3>1, <3>2, <3>3, <2>1
  <2> HIDE DEF Good
  <2> QED BY <2>2, <2>4, <1>6
<1>7. Good(ok)
  <2>1. Agree(ok, q, {"at", "passed"}) BY <1>3, SameFields
  <2> QED BY <1>1, <1>2, <1>3, <2>1 DEF Agree
<1>8. Good([ok EXCEPT !.forbidden = TRUE])
  <2> DEFINE y == [ok EXCEPT !.forbidden = TRUE]
  <2>1. DOMAIN y = ContextFields /\ y.forbidden = TRUE /\ \A f \in ContextFields \ {"forbidden"} : y[f] = ok[f]
    BY <1>3 DEF ContextFields
  <2>2. Agree(y, ok, {"forbidden"}) BY <2>1, SameFields
  <2> HIDE DEF y, hook
  <2> QED BY <1>7, <2>1, <2>2 DEF Agree, y
<1>9. Good([ok EXCEPT !.short = TRUE, !.exit = hook.name])
  <2> DEFINE y == [ok EXCEPT !.short = TRUE, !.exit = hook.name]
  <2>1. /\ DOMAIN y = ContextFields /\ y.short = TRUE /\ y.exit = hook.name
        /\ \A f \in ContextFields \ {"short", "exit"} : y[f] = ok[f]
    BY <1>3 DEF ContextFields
  <2>2. Agree(y, ok, {"short", "exit"}) BY <2>1, SameFields
  <2> HIDE DEF y, hook
  <2> QED BY <1>2, <1>7, <2>1, <2>2 DEF Agree, y
<1>10. Good(Failed(ran, hook))
  <2> DEFINE y == [ran EXCEPT !.forbidden = TRUE, !.abort = IF @ = None THEN hook.name ELSE @]
  <2>0. Agree(ran, q, {"at"}) BY <1>4, SameFields
  <2>1. /\ DOMAIN y = ContextFields /\ y.forbidden = TRUE /\ y.abort = IF ran.abort = None THEN hook.name ELSE ran.abort
        /\ \A f \in ContextFields \ {"forbidden", "abort"} : y[f] = ran[f]
    BY <1>4 DEF ContextFields
  <2>2. Agree(y, ran, {"forbidden", "abort"}) BY <2>1, SameFields
  <2>3. Failed(ran, hook) = IF hook.closed THEN y ELSE ran BY DEF Failed
  <2> HIDE DEF y, hook
  <2>4. CASE hook.closed
    <3>1. Good(y)
      <4>1. \A f \in ContextFields \ Changed : y[f] = q[f] BY <1>4, <2>1
      <4>2. /\ y.at = q.at + 1 /\ y.short \in BOOLEAN /\ (y.short => y.exit \in HookNames)
            /\ y.passed = q.passed
        BY <1>1, <1>2, <1>4, <2>0, <2>2 DEF Agree
      <4>3. y.abort \in HookNames /\ y.abort # None BY <1>1, <1>2, <2>0, <2>1, NotNone DEF Agree
      <4> HIDE DEF Changed
      <4> QED BY <2>1, <4>1, <4>2, <4>3
    <3> HIDE DEF Good
    <3> QED BY <2>3, <2>4, <3>1
  <2>5. CASE ~hook.closed
    <3>1. Good(ran)
      <4>1. \A f \in ContextFields \ Changed : ran[f] = q[f] BY <1>4
      <4>2. /\ ran.at = q.at + 1 /\ ran.short = q.short /\ ran.exit = q.exit /\ ran.passed = q.passed
            /\ ran.forbidden = q.forbidden /\ ran.abort = q.abort
        BY <1>4, <2>0 DEF Agree
      <4> HIDE DEF Changed
      <4> QED BY <1>1, <1>2, <1>4, <2>5, <4>1, <4>2
    <3> HIDE DEF Good
    <3> QED BY <2>3, <2>5, <3>1
  <2> QED BY <2>4, <2>5
<1> HIDE DEF Good, hook
<1>11. \A x \in {ok, Failed(ran, hook), [ok EXCEPT !.forbidden = TRUE],
                  [ok EXCEPT !.short = TRUE, !.exit = hook.name]} : Good(x)
  BY <1>7, <1>8, <1>9, <1>10
<1> QED BY <1>5, <1>6, <1>11 DEF ok, ran, hook

(* All hooks have run and one aborted the dispatch: its answer is kept. *)
LEMMA ToCompensate ==
  ASSUME NEW q, CtxInv(q), q.pc = "hooks", q.abort # None
  PROVE  CtxInv([Goto([q EXCEPT !.forbidden = TRUE, !.short = TRUE,
                                !.exit = IF q.short THEN @ ELSE q.abort], "compensate")
              EXCEPT !.root = IF q.short THEN q.exit ELSE q.abort])
<1> DEFINE q2 == [Goto([q EXCEPT !.forbidden = TRUE, !.short = TRUE,
                                 !.exit = IF q.short THEN @ ELSE q.abort], "compensate")
              EXCEPT !.root = IF q.short THEN q.exit ELSE q.abort]
<1>1. DOMAIN q = ContextFields BY CtxFields DEF CtxInv, CtxTypeOK
<1>2. /\ DOMAIN q2 = ContextFields /\ q2.pc = "compensate" /\ q2.at = 1 /\ q2.short = TRUE /\ q2.forbidden = TRUE
      /\ q2.root = IF q.short THEN q.exit ELSE q.abort
      /\ \A f \in ContextFields \ {"pc", "at", "forbidden", "short", "exit", "root"} : q2[f] = q[f]
  <2> DEFINE z == [q EXCEPT !.forbidden = TRUE, !.short = TRUE, !.exit = IF q.short THEN @ ELSE q.abort]
             g == Goto(z, "compensate")
  <2>1. /\ DOMAIN z = ContextFields /\ z.forbidden = TRUE /\ z.short = TRUE
        /\ \A f \in ContextFields \ {"forbidden", "short", "exit"} : z[f] = q[f]
    BY <1>1 DEF ContextFields
  <2> HIDE DEF z
  <2>2. /\ DOMAIN g = ContextFields /\ g.pc = "compensate" /\ g.at = 1 /\ \A f \in ContextFields \ {"pc", "at"} : g[f] = z[f]
    BY <2>1, GotoIs
  <2>3. q2 = [g EXCEPT !.root = IF q.short THEN q.exit ELSE q.abort] BY DEF z
  <2> HIDE DEF g, q2
  <2> QED BY <2>1, <2>2, <2>3 DEF ContextFields
<1> HIDE DEF q2
<1>3. Agree(q2, q, {"pc", "at", "forbidden", "short", "exit", "root"}) BY <1>2, SameFields
<1>a. q.sent = <<>> BY DEF CtxInv, Gated
<1>t. q2.short \in BOOLEAN /\ q2.forbidden \in BOOLEAN BY <1>2, Zenon
<1>b. q2.root \in HookNames BY <1>2 DEF CtxInv, CtxTypeOK, AbortInv
<1>c. q.compensated = <<>> /\ Compensated(1 - 1) = <<>> /\ 1 <= Len(AbortHandlers) + 1
  BY SequencesAre DEF CtxInv, AbortInv, Compensated
<1>4. CtxTypeOK(q2) BY <1>2, <1>3, CtxFields, <1>t DEF Agree, CtxInv, CtxTypeOK
<1>5. ChainFresh(q2) BY <1>2, <1>3 DEF Agree, CtxInv, ChainFresh
<1>6. Gated(q2) BY <1>2, <1>3, <1>a DEF Agree, CtxInv, Gated
<1>7. AbortInv(q2) BY <1>2, <1>3, <1>b, <1>c DEF Agree, CtxInv, AbortInv
<1>8. CloseInv(q2) BY <1>2, <1>3 DEF Agree, CtxInv, CloseInv
<1>9. HintInv(q2) BY <1>2, <1>3 DEF Agree, CtxInv, HintInv
<1> QED BY <1>4, <1>5, <1>6, <1>7, <1>8, <1>9 DEF CtxInv, q2

(* No hook aborted, but the dispatch was forbidden before. *)
LEMMA ToShortCircuit ==
  ASSUME NEW q, CtxInv(q), q.pc = "hooks", q.abort = None
  PROVE  CtxInv(Goto(q, "short_circuit"))
<1> DEFINE q2 == Goto(q, "short_circuit")
<1>1. DOMAIN q = ContextFields BY CtxFields DEF CtxInv, CtxTypeOK
<1>2. /\ DOMAIN q2 = ContextFields /\ q2.pc = "short_circuit" /\ q2.at = 1
      /\ \A f \in ContextFields \ {"pc", "at"} : q2[f] = q[f]
  BY <1>1, GotoIs
<1> HIDE DEF q2
<1>3. Agree(q2, q, {"pc", "at"}) BY <1>2, SameFields
<1>a. q.sent = <<>> BY DEF CtxInv, Gated
<1>4. CtxTypeOK(q2) BY <1>2, <1>3, CtxFields DEF Agree, CtxInv, CtxTypeOK
<1>5. ChainFresh(q2) BY <1>2, <1>3 DEF Agree, CtxInv, ChainFresh
<1>6. Gated(q2) BY <1>2, <1>3, <1>a DEF Agree, CtxInv, Gated
<1>7. AbortInv(q2) BY <1>2, <1>3 DEF Agree, CtxInv, AbortInv
<1>8. CloseInv(q2) BY <1>2, <1>3 DEF Agree, CtxInv, CloseInv
<1>9. HintInv(q2) BY <1>2, <1>3 DEF Agree, CtxInv, HintInv
<1> QED BY <1>4, <1>5, <1>6, <1>7, <1>8, <1>9 DEF CtxInv, q2

(* All hooks have passed and nobody objected. *)
LEMMA ToPeer ==
  ASSUME NEW q, CtxInv(q), q.pc = "hooks", q.at > Len(Hooks), q.abort = None, ~q.forbidden
  PROVE  CtxInv(Goto(q, "peer"))
<1> DEFINE q2 == Goto(q, "peer")
<1>1. DOMAIN q = ContextFields BY CtxFields DEF CtxInv, CtxTypeOK
<1>2. /\ DOMAIN q2 = ContextFields /\ q2.pc = "peer" /\ q2.at = 1
      /\ \A f \in ContextFields \ {"pc", "at"} : q2[f] = q[f]
  BY <1>1, GotoIs
<1> HIDE DEF q2
<1>3. Agree(q2, q, {"pc", "at"}) BY <1>2, SameFields
<1>a. q.at \in Nat /\ Len(Hooks) \in Nat BY SequencesAre DEF CtxInv, CtxTypeOK
<1>b. 1..Len(Hooks) \subseteq 1..(q.at - 1) BY <1>a
<1>4. CtxTypeOK(q2) BY <1>2, <1>3, CtxFields DEF Agree, CtxInv, CtxTypeOK
<1>5. ChainFresh(q2) BY <1>2, <1>3 DEF Agree, CtxInv, ChainFresh
<1>6. Gated(q2) BY <1>2, <1>3, <1>a, <1>b DEF Agree, CtxInv, Gated, Gate, Cleared, HooksPassed
<1>7. AbortInv(q2) BY <1>2, <1>3 DEF Agree, CtxInv, AbortInv
<1>8. CloseInv(q2) BY <1>2, <1>3 DEF Agree, CtxInv, CloseInv
<1>9. HintInv(q2) BY <1>2, <1>3 DEF Agree, CtxInv, HintInv
<1> QED BY <1>4, <1>5, <1>6, <1>7, <1>8, <1>9 DEF CtxInv, q2

(* One compensation more. *)
LEMMA CompensatedMore ==
  ASSUME NEW n \in Nat
  PROVE  Append(Compensated(n), AbortHandlers[n + 1].name) = Compensated(n + 1)
<1> DEFINE S == {AbortHandlers[k].name : k \in 1..(n + 1)}
<1>1. Compensated(n) \in Seq(S) /\ Len(Compensated(n)) = n BY DEF Compensated
<1>2. Compensated(n + 1) \in Seq(S) /\ Len(Compensated(n + 1)) = n + 1 BY DEF Compensated
<1>3. \A k \in 1..(n + 1) : Append(Compensated(n), AbortHandlers[n + 1].name)[k] = Compensated(n + 1)[k]
  BY <1>1 DEF Compensated
<1>4. Append(Compensated(n), AbortHandlers[n + 1].name) \in Seq(S) BY <1>1
<1>5. Len(Append(Compensated(n), AbortHandlers[n + 1].name)) = n + 1 BY <1>1
<1> HIDE DEF S
<1> QED BY <1>2, <1>3, <1>4, <1>5

(* A compensation runs, whatever it answers. *)
LEMMA Compensates ==
  ASSUME NEW q, NEW exit, CtxInv(q), q.pc = "compensate", q.at <= Len(AbortHandlers)
  PROVE  CtxInv([q EXCEPT !.at = @ + 1, !.compensated = Append(@, AbortHandlers[q.at].name), !.exit = exit])
<1> DEFINE q2 == [q EXCEPT !.at = @ + 1, !.compensated = Append(@, AbortHandlers[q.at].name), !.exit = exit]
<1>1. DOMAIN q = ContextFields BY CtxFields DEF CtxInv, CtxTypeOK
<1>2. /\ DOMAIN q2 = ContextFields /\ q2.at = q.at + 1
      /\ q2.compensated = Append(q.compensated, AbortHandlers[q.at].name)
      /\ \A f \in ContextFields \ {"at", "compensated", "exit"} : q2[f] = q[f]
  BY <1>1 DEF ContextFields
<1> HIDE DEF q2
<1>3. Agree(q2, q, {"at", "compensated", "exit"}) BY <1>2, SameFields
<1>a. q.sent = <<>> /\ q.at \in Nat \ {0} BY DEF CtxInv, CtxTypeOK, Gated
<1>b. q2.compensated = Compensated(q.at)
  <2>1. q.compensated = Compensated(q.at - 1) BY DEF CtxInv, AbortInv
  <2>2. (q.at - 1) \in Nat /\ (q.at - 1) + 1 = q.at BY <1>a
  <2> QED BY <1>2, <2>1, <2>2, CompensatedMore
<1>c. (q.at + 1) - 1 = q.at /\ q.at + 1 \in Nat \ {0} /\ q.at + 1 <= Len(AbortHandlers) + 1
  BY <1>a, SequencesAre
<1>4. CtxTypeOK(q2) BY <1>2, <1>3, CtxFields, <1>c DEF Agree, CtxInv, CtxTypeOK
<1>5. ChainFresh(q2) BY <1>2, <1>3 DEF Agree, CtxInv, ChainFresh
<1>6. Gated(q2) BY <1>2, <1>3, <1>a DEF Agree, CtxInv, Gated
<1>7. AbortInv(q2) BY <1>2, <1>3, <1>b, <1>c DEF Agree, CtxInv, AbortInv
<1>8. CloseInv(q2) BY <1>2, <1>3 DEF Agree, CtxInv, CloseInv
<1>9. HintInv(q2) BY <1>2, <1>3 DEF Agree, CtxInv, HintInv
<1> QED BY <1>4, <1>5, <1>6, <1>7, <1>8, <1>9 DEF CtxInv, q2

(* The answer of the hooks is restored after the last compensation. *)
LEMMA RootRestored ==
  ASSUME NEW q, CtxInv(q), q.pc = "compensate", q.at > Len(AbortHandlers)
  PROVE  CtxInv([Goto(q, "short_circuit") EXCEPT !.short = TRUE, !.exit = q.root])
<1> DEFINE q2 == [Goto(q, "short_circuit") EXCEPT !.short = TRUE, !.exit = q.root]
<1>1. DOMAIN q = ContextFields BY CtxFields DEF CtxInv, CtxTypeOK
<1>2. /\ DOMAIN q2 = ContextFields /\ q2.pc = "short_circuit" /\ q2.at = 1 /\ q2.short = TRUE /\ q2.exit = q.root
      /\ \A f \in ContextFields \ {"pc", "at", "short", "exit"} : q2[f] = q[f]
  BY <1>1 DEF Goto, ContextFields
<1> HIDE DEF q2
<1>3. Agree(q2, q, {"pc", "at", "short", "exit"}) BY <1>2, SameFields
<1>t. q2.short \in BOOLEAN BY <1>2, Zenon
<1>a. q.sent = <<>> /\ q.at \in Nat \ {0} BY DEF CtxInv, CtxTypeOK, Gated
<1>b. q.at - 1 = Len(AbortHandlers) BY <1>a, SequencesAre DEF CtxInv, AbortInv
<1>4. CtxTypeOK(q2) BY <1>2, <1>3, CtxFields, <1>t DEF Agree, CtxInv, CtxTypeOK
<1>5. ChainFresh(q2) BY <1>2, <1>3 DEF Agree, CtxInv, ChainFresh
<1>6. Gated(q2) BY <1>2, <1>3, <1>a DEF Agree, CtxInv, Gated
<1>7. AbortInv(q2) BY <1>2, <1>3, <1>b DEF Agree, CtxInv, AbortInv
<1>8. CloseInv(q2) BY <1>2, <1>3 DEF Agree, CtxInv, CloseInv
<1>9. HintInv(q2) BY <1>2, <1>3 DEF Agree, CtxInv, HintInv
<1> QED BY <1>4, <1>5, <1>6, <1>7, <1>8, <1>9 DEF CtxInv, q2

(* The cause is noted with it. *)
LEMMA Restored ==
  ASSUME NEW q, CtxInv(q), q.pc = "compensate", q.at > Len(AbortHandlers)
  PROVE  CtxInv([set_termination_hint(Goto(q, "short_circuit"), "gateway", "request_dispatch_hook")
                   EXCEPT !.short = TRUE, !.exit = RestoredRoot(q)])
<1> DEFINE g == Goto(q, "short_circuit")
           z == [g EXCEPT !.short = TRUE, !.exit = q.root]
<1>1. DOMAIN q = ContextFields BY CtxFields DEF CtxInv, CtxTypeOK
<1>2. DOMAIN g = ContextFields BY <1>1, GotoIs
<1>3. CtxInv(z) BY RootRestored
<1> HIDE DEF g
<1>4. [set_termination_hint(g, "gateway", "request_dispatch_hook") EXCEPT !.short = TRUE, !.exit = q.root]
        = set_termination_hint(z, "gateway", "request_dispatch_hook")
  BY <1>2 DEF set_termination_hint, ContextFields
<1>5. CtxInv(set_termination_hint(z, "gateway", "request_dispatch_hook"))
  <2> HIDE DEF z
  <2> QED BY <1>3, HintKeeps DEF Kinds, Parties
<1> QED BY <1>4, <1>5 DEF RestoredRoot, g

-----------------------------------------------------------------------------
(* Filters, attempts and failures *)

(* Header filters ran ... *)
LEMMA FilterRan ==
  ASSUME NEW q, CtxInv(q)
  PROVE  CtxInv([q EXCEPT !.ran = @ \cup {"header_filter"}])
<1> DEFINE q2 == [q EXCEPT !.ran = @ \cup {"header_filter"}]
<1>1. DOMAIN q = ContextFields BY CtxFields DEF CtxInv, CtxTypeOK
<1>2. /\ DOMAIN q2 = ContextFields /\ q2.ran = q.ran \cup {"header_filter"}
      /\ \A f \in ContextFields \ {"ran"} : q2[f] = q[f]
  BY <1>1 DEF ContextFields
<1> HIDE DEF q2
<1>3. Agree(q2, q, {"ran"}) BY <1>2, SameFields
<1>4. CtxTypeOK(q2) BY <1>2, <1>3, CtxFields DEF Agree, CtxInv, CtxTypeOK
<1>5. ChainFresh(q2) BY <1>2, <1>3 DEF Agree, CtxInv, ChainFresh
<1>6. Gated(q2) BY <1>2, <1>3 DEF Agree, CtxInv, Gated, Gate, Cleared, HooksPassed
<1>7. AbortInv(q2) BY <1>2, <1>3 DEF Agree, CtxInv, AbortInv
<1>8. CloseInv(q2) BY <1>2, <1>3 DEF Agree, CtxInv, CloseInv
<1>9. HintInv(q2) BY <1>2, <1>3 DEF Agree, CtxInv, HintInv
<1> QED BY <1>4, <1>5, <1>6, <1>7, <1>8, <1>9 DEF CtxInv, q2

(* ... and a filter may end a request that has been decided. *)
LEMMA FilterEnds ==
  ASSUME NEW q, CtxInv(q), q.pc \in {"short_circuit"} \cup Sending
  PROVE  CtxInv([q EXCEPT !.short = TRUE])
<1> DEFINE q2 == [q EXCEPT !.short = TRUE]
<1>1. DOMAIN q = ContextFields BY CtxFields DEF CtxInv, CtxTypeOK
<1>2. /\ DOMAIN q2 = ContextFields /\ q2.short = TRUE
      /\ \A f \in ContextFields \ {"short"} : q2[f] = q[f]
  BY <1>1 DEF ContextFields
<1> HIDE DEF q2
<1>3. Agree(q2, q, {"short"}) BY <1>2, SameFields
<1>t. q2.short \in BOOLEAN BY <1>2, Zenon
<1>4. CtxTypeOK(q2) BY <1>2, <1>3, CtxFields, <1>t DEF Agree, CtxInv, CtxTypeOK
<1>5. ChainFresh(q2) BY <1>2, <1>3 DEF Agree, CtxInv, ChainFresh
<1>6. Gated(q2) BY <1>2, <1>3 DEF Agree, CtxInv, Gated, Gate, Cleared, HooksPassed
<1>7. AbortInv(q2) BY <1>2, <1>3 DEF Agree, CtxInv, AbortInv
<1>8. CloseInv(q2) BY <1>2, <1>3 DEF Agree, CtxInv, CloseInv
<1>9. HintInv(q2) BY <1>2, <1>3 DEF Agree, CtxInv, HintInv
<1> QED BY <1>4, <1>5, <1>6, <1>7, <1>8, <1>9 DEF CtxInv, q2

(* What header filters leave behind. *)
LEMMA FiltersKeep ==
  ASSUME NEW q, CtxInv(q), q.pc \in {"short_circuit"} \cup Sending, NEW x \in HeaderFiltered(q)
  PROVE  /\ CtxInv(x) /\ "header_filter" \in x.ran /\ DOMAIN x = ContextFields
         /\ \A f \in ContextFields \ {"ran", "short", "marks", "hint"} : x[f] = q[f]
<1> DEFINE ran == [q EXCEPT !.ran = @ \cup {"header_filter"}]
           short == [ran EXCEPT !.short = TRUE]
<1>1. DOMAIN q = ContextFields BY CtxFields DEF CtxInv, CtxTypeOK
<1>2. /\ DOMAIN ran = ContextFields /\ ran.ran = q.ran \cup {"header_filter"}
      /\ \A f \in ContextFields \ {"ran"} : ran[f] = q[f]
  BY <1>1 DEF ContextFields
<1>3. CtxInv(ran) BY FilterRan
<1>4. ran.pc = q.pc BY <1>2 DEF ContextFields
<1> HIDE DEF ran
<1>5. /\ DOMAIN short = ContextFields /\ short.ran = q.ran \cup {"header_filter"}
      /\ \A f \in ContextFields \ {"ran", "short"} : short[f] = q[f]
  BY <1>2 DEF ContextFields
<1>6. CtxInv(short) BY <1>3, <1>4, FilterEnds
<1> HIDE DEF short
<1> DEFINE Good(y) == /\ CtxInv(y) /\ "header_filter" \in y.ran /\ DOMAIN y = ContextFields
                      /\ \A f \in ContextFields \ {"ran", "short", "marks", "hint"} : y[f] = q[f]
<1>7. Good(ran) /\ Good(short) BY <1>2, <1>3, <1>5, <1>6
<1>8. ASSUME NEW y, Good(y), NEW kind \in Kinds, NEW who \in Parties
      PROVE  Good(set_termination_hint(y, kind, who))
  <2> DEFINE z == set_termination_hint(y, kind, who)
  <2>1. CtxInv(z) /\ DOMAIN z = ContextFields /\ \A f \in ContextFields \ {"marks", "hint"} : z[f] = y[f]
    BY <1>8, HintKeeps
  <2> HIDE DEF z
  <2>2. z.ran = y.ran BY <2>1 DEF ContextFields
  <2>3. \A f \in ContextFields \ {"ran", "short", "marks", "hint"} : z[f] = q[f] BY <1>8, <2>1
  <2> QED BY <1>8, <2>1, <2>2, <2>3 DEF z
<1>9. \A k \in DOMAIN q.plugins : q.plugins[k].name \in Parties BY PluginsNamed DEF CtxInv
<1>10. "gateway" \in Kinds /\ "policy" \in Kinds BY DEF Kinds
<1>11. \/ x = ran
       \/ \E k \in DOMAIN q.plugins : x = set_termination_hint(ran, "gateway", q.plugins[k].name)
       \/ \E k \in DOMAIN q.plugins : x = set_termination_hint(short, "policy", q.plugins[k].name)
  BY DEF HeaderFiltered, ran, short
<1> HIDE DEF Good
<1>12. Good(x) BY <1>7, <1>8, <1>9, <1>10, <1>11
<1> QED BY <1>12 DEF Good

(* A request that was cut short is answered; an aborted one with the answer of its hooks. *)
LEMMA Answers ==
  ASSUME NEW q, CtxInv(q), q.pc = "short_circuit", "header_filter" \in q.ran
  PROVE  CtxInv(Respond(q, IF q.exit = None THEN "200" ELSE q.exit))
<1> DEFINE q2 == Respond(q, IF q.exit = None THEN "200" ELSE q.exit)
<1>1. DOMAIN q = ContextFields BY CtxFields DEF CtxInv, CtxTypeOK
<1>2. /\ DOMAIN q2 = ContextFields /\ q2.pc = "logging" /\ q2.at = 1
      /\ q2.response = IF q.exit = None THEN "200" ELSE q.exit
      /\ \A f \in ContextFields \ {"pc", "at", "response"} : q2[f] = q[f]
  BY <1>1 DEF Respond, Goto, ContextFields
<1> HIDE DEF q2
<1>3. Agree(q2, q, {"pc", "at", "response"}) BY <1>2, SameFields
<1>a. q.sent = <<>> BY DEF CtxInv, Gated
<1>b. q.abort # None => q.root \in HookNames /\ q.exit = q.root /\ q.root # None /\ q.root # "502"
  BY NotNone DEF CtxInv, AbortInv
<1>4. CtxTypeOK(q2) BY <1>2, <1>3, CtxFields DEF Agree, CtxInv, CtxTypeOK
<1>5. ChainFresh(q2) BY <1>2, <1>3 DEF Agree, CtxInv, ChainFresh
<1>6. Gated(q2) BY <1>2, <1>3, <1>a DEF Agree, CtxInv, Gated
<1>7. AbortInv(q2) BY <1>2, <1>3, <1>b DEF Agree, CtxInv, AbortInv
<1>8. CloseInv(q2) BY <1>2, <1>3 DEF Agree, CtxInv, CloseInv
<1>9. HintInv(q2) BY <1>2, <1>3 DEF Agree, CtxInv, HintInv
<1> QED BY <1>4, <1>5, <1>6, <1>7, <1>8, <1>9 DEF CtxInv, q2

(* The client is gone when it is written. *)
LEMMA AnswerLost ==
  ASSUME NEW q, CtxInv(q), q.pc = "short_circuit", "header_filter" \in q.ran
  PROVE  CtxInv(Fail(q, "downstream"))
<1> DEFINE q2 == Fail(q, "downstream")
<1>1. DOMAIN q = ContextFields BY CtxFields DEF CtxInv, CtxTypeOK
<1>2. /\ DOMAIN q2 = ContextFields /\ q2.pc = "failing" /\ q2.at = 1 /\ q2.failure = "downstream"
      /\ \A f \in ContextFields \ {"pc", "at", "failure"} : q2[f] = q[f]
  BY <1>1 DEF Fail, Goto, ContextFields
<1> HIDE DEF q2
<1>3. Agree(q2, q, {"pc", "at", "failure"}) BY <1>2, SameFields
<1>a. q.sent = <<>> BY DEF CtxInv, Gated
<1>b. "downstream" \in Sources BY DEF Sources
<1>4. CtxTypeOK(q2) BY <1>2, <1>3, CtxFields, <1>b DEF Agree, CtxInv, CtxTypeOK
<1>5. ChainFresh(q2) BY <1>2, <1>3 DEF Agree, CtxInv, ChainFresh
<1>6. Gated(q2) BY <1>2, <1>3, <1>a DEF Agree, CtxInv, Gated
<1>7. AbortInv(q2) BY <1>2, <1>3 DEF Agree, CtxInv, AbortInv
<1>8. CloseInv(q2) BY <1>2, <1>3 DEF Agree, CtxInv, CloseInv
<1>9. HintInv(q2) BY <1>2, <1>3 DEF Agree, CtxInv, HintInv
<1> QED BY <1>4, <1>5, <1>6, <1>7, <1>8, <1>9 DEF CtxInv, q2

(* An attempt, or the response to it, fails. *)
LEMMA Fails ==
  ASSUME NEW q, NEW source \in Sources, CtxInv(q), q.pc \in Sending
  PROVE  CtxInv(Fail(q, source))
<1> DEFINE q2 == Fail(q, source)
<1>1. DOMAIN q = ContextFields BY CtxFields DEF CtxInv, CtxTypeOK
<1>2. /\ DOMAIN q2 = ContextFields /\ q2.pc = "failing" /\ q2.at = 1 /\ q2.failure = source
      /\ \A f \in ContextFields \ {"pc", "at", "failure"} : q2[f] = q[f]
  BY <1>1 DEF Fail, Goto, ContextFields
<1> HIDE DEF q2
<1>3. Agree(q2, q, {"pc", "at", "failure"}) BY <1>2, SameFields
<1>a. q.abort = None BY DEF CtxInv, Gated, Gate
<1>4. CtxTypeOK(q2) BY <1>2, <1>3, CtxFields DEF Agree, CtxInv, CtxTypeOK
<1>5. ChainFresh(q2) BY <1>2, <1>3 DEF Agree, CtxInv, ChainFresh
<1>6. Gated(q2) BY <1>2, <1>3 DEF Agree, CtxInv, Gated, Gate, Cleared, HooksPassed
<1>7. AbortInv(q2) BY <1>2, <1>3, <1>a DEF Agree, CtxInv, AbortInv
<1>8. CloseInv(q2) BY <1>2, <1>3 DEF Agree, CtxInv, CloseInv
<1>9. HintInv(q2) BY <1>2, <1>3 DEF Agree, CtxInv, HintInv
<1> QED BY <1>4, <1>5, <1>6, <1>7, <1>8, <1>9 DEF CtxInv, q2

(* One attempt follows another, within the gate. *)
LEMMA GoesOn ==
  ASSUME NEW q, NEW label \in {"peer", "attempt"}, CtxInv(q), q.pc \in Sending
  PROVE  CtxInv(Goto(q, label))
<1> DEFINE q2 == Goto(q, label)
<1>1. DOMAIN q = ContextFields BY CtxFields DEF CtxInv, CtxTypeOK
<1>2. /\ DOMAIN q2 = ContextFields /\ q2.pc = label /\ q2.at = 1
      /\ \A f \in ContextFields \ {"pc", "at"} : q2[f] = q[f]
  BY <1>1, GotoIs
<1> HIDE DEF q2
<1>3. Agree(q2, q, {"pc", "at"}) BY <1>2, SameFields
<1>a. q.abort = None BY DEF CtxInv, Gated, Gate
<1>4. CtxTypeOK(q2) BY <1>2, <1>3, CtxFields DEF Agree, CtxInv, CtxTypeOK
<1>5. ChainFresh(q2) BY <1>2, <1>3 DEF Agree, CtxInv, ChainFresh
<1>6. Gated(q2) BY <1>2, <1>3 DEF Agree, CtxInv, Gated, Gate, Cleared, HooksPassed
<1>7. AbortInv(q2) BY <1>2, <1>3, <1>a DEF Agree, CtxInv, AbortInv
<1>8. CloseInv(q2) BY <1>2, <1>3 DEF Agree, CtxInv, CloseInv
<1>9. HintInv(q2) BY <1>2, <1>3 DEF Agree, CtxInv, HintInv
<1> QED BY <1>4, <1>5, <1>6, <1>7, <1>8, <1>9 DEF CtxInv, q2

(* The request is sent. *)
LEMMA Sends ==
  ASSUME NEW q, NEW a \in Attempts, NEW buf \in Body, CtxInv(q), q.pc = "attempt"
  PROVE  CtxInv([Goto(q, "awaiting") EXCEPT !.sent = Append(@, a), !.headers = {}, !.request_body_buf = buf])
<1> DEFINE q2 == [Goto(q, "awaiting") EXCEPT !.sent = Append(@, a), !.headers = {}, !.request_body_buf = buf]
<1>1. DOMAIN q = ContextFields BY CtxFields DEF CtxInv, CtxTypeOK
<1>2. /\ DOMAIN q2 = ContextFields /\ q2.pc = "awaiting" /\ q2.at = 1 /\ q2.sent = Append(q.sent, a)
      /\ q2.headers = {} /\ q2.request_body_buf = buf
      /\ \A f \in ContextFields \ {"pc", "at", "sent", "headers", "request_body_buf"} : q2[f] = q[f]
  BY <1>1 DEF Goto, ContextFields
<1> HIDE DEF q2
<1>3. Agree(q2, q, {"pc", "at", "sent", "headers", "request_body_buf"}) BY <1>2, SameFields
<1>a. q.abort = None BY DEF CtxInv, Gated, Gate
<1>b. Append(q.sent, a) \in Seq(Attempts) BY DEF CtxInv, CtxTypeOK
<1>c. Gate(q2) BY <1>2, <1>3 DEF Agree, CtxInv, Gated, Gate, Cleared, HooksPassed
<1>4. CtxTypeOK(q2) BY <1>2, <1>3, CtxFields, <1>b DEF Agree, CtxInv, CtxTypeOK
<1>5. ChainFresh(q2) BY <1>2, <1>3 DEF Agree, CtxInv, ChainFresh
<1>6. Gated(q2) BY <1>2, <1>3, <1>c DEF Agree, CtxInv, Gated
<1>7. AbortInv(q2) BY <1>2, <1>3, <1>a DEF Agree, CtxInv, AbortInv
<1>8. CloseInv(q2) BY <1>2, <1>3 DEF Agree, CtxInv, CloseInv
<1>9. HintInv(q2) BY <1>2, <1>3 DEF Agree, CtxInv, HintInv
<1> QED BY <1>4, <1>5, <1>6, <1>7, <1>8, <1>9 DEF CtxInv, q2

(* The upstream responds. *)
LEMMA Responds ==
  ASSUME NEW q, CtxInv(q), q.pc = "awaiting",
         NEW q2 \in {[Goto(q, "body") EXCEPT !.response = "upstream"],
                     [Goto(q, "body") EXCEPT !.deferred = TRUE, !.response = "upstream"]}
  PROVE  CtxInv(q2)
<1>1. DOMAIN q = ContextFields BY CtxFields DEF CtxInv, CtxTypeOK
<1>2. /\ DOMAIN q2 = ContextFields /\ q2.pc = "body" /\ q2.at = 1
      /\ \A f \in ContextFields \ {"pc", "at", "deferred", "response"} : q2[f] = q[f]
  BY <1>1 DEF Goto, ContextFields
<1>3. Agree(q2, q, {"pc", "at", "deferred", "response"}) BY <1>2, SameFields
<1>a. q.abort = None BY DEF CtxInv, Gated, Gate
<1>4. CtxTypeOK(q2) BY <1>2, <1>3, CtxFields DEF Agree, CtxInv, CtxTypeOK
<1>5. ChainFresh(q2) BY <1>2, <1>3 DEF Agree, CtxInv, ChainFresh
<1>6. Gated(q2) BY <1>2, <1>3 DEF Agree, CtxInv, Gated, Gate, Cleared, HooksPassed
<1>7. AbortInv(q2) BY <1>2, <1>3, <1>a DEF Agree, CtxInv, AbortInv
<1>8. CloseInv(q2) BY <1>2, <1>3 DEF Agree, CtxInv, CloseInv
<1>9. HintInv(q2) BY <1>2, <1>3 DEF Agree, CtxInv, HintInv
<1> QED BY <1>4, <1>5, <1>6, <1>7, <1>8, <1>9 DEF CtxInv

(* What body filters leave behind. *)
LEMMA BodyKeeps ==
  ASSUME NEW q, CtxInv(q), q.pc = "body", NEW x \in BodyFiltered(q)
  PROVE  CtxInv(x) /\ x.pc = "body"
<1> DEFINE short == [q EXCEPT !.short = TRUE]
<1>1. DOMAIN q = ContextFields BY CtxFields DEF CtxInv, CtxTypeOK
<1>2. CtxInv(short) BY FilterEnds
<1>3. short.pc = q.pc BY <1>1 DEF ContextFields
<1>4. \A k \in DOMAIN q.plugins : q.plugins[k].name \in Parties BY PluginsNamed DEF CtxInv
<1>5. "gateway" \in Kinds /\ "policy" \in Kinds BY DEF Kinds
<1>6. \/ x = q
      \/ \E k \in DOMAIN q.plugins : x = set_termination_hint(q, "gateway", q.plugins[k].name)
      \/ \E k \in DOMAIN q.plugins : x = set_termination_hint(short, "policy", q.plugins[k].name)
  BY DEF BodyFiltered
<1> HIDE DEF short
<1>7. ASSUME NEW y \in {q, short}, NEW kind \in Kinds, NEW who \in Parties
      PROVE  CtxInv(set_termination_hint(y, kind, who)) /\ set_termination_hint(y, kind, who).pc = "body"
  <2> DEFINE z == set_termination_hint(y, kind, who)
  <2>1. CtxInv(z) /\ \A f \in ContextFields \ {"marks", "hint"} : z[f] = y[f] BY <1>2, HintKeeps
  <2>2. y.pc = "body" BY <1>3
  <2> HIDE DEF z
  <2>3. z.pc = y.pc BY <2>1 DEF ContextFields
  <2> QED BY <2>1, <2>2, <2>3 DEF z
<1> QED BY <1>4, <1>5, <1>6, <1>7

(* The response is complete. *)
LEMMA ResponseSent ==
  ASSUME NEW q, CtxInv(q), q.pc = "body"
  PROVE  CtxInv([Goto(q, "logging") EXCEPT !.deferred = FALSE])
<1> DEFINE q2 == [Goto(q, "logging") EXCEPT !.deferred = FALSE]
<1>1. DOMAIN q = ContextFields BY CtxFields DEF CtxInv, CtxTypeOK
<1>2. /\ DOMAIN q2 = ContextFields /\ q2.pc = "logging" /\ q2.at = 1
      /\ \A f \in ContextFields \ {"pc", "at", "deferred"} : q2[f] = q[f]
  BY <1>1 DEF Goto, ContextFields
<1> HIDE DEF q2
<1>3. Agree(q2, q, {"pc", "at", "deferred"}) BY <1>2, SameFields
<1>a. q.abort = None BY DEF CtxInv, Gated, Gate
<1>4. CtxTypeOK(q2) BY <1>2, <1>3, CtxFields DEF Agree, CtxInv, CtxTypeOK
<1>5. ChainFresh(q2) BY <1>2, <1>3 DEF Agree, CtxInv, ChainFresh
<1>6. Gated(q2) BY <1>2, <1>3 DEF Agree, CtxInv, Gated, Gate, Cleared, HooksPassed
<1>7. AbortInv(q2) BY <1>2, <1>3, <1>a DEF Agree, CtxInv, AbortInv
<1>8. CloseInv(q2) BY <1>2, <1>3 DEF Agree, CtxInv, CloseInv
<1>9. HintInv(q2) BY <1>2, <1>3 DEF Agree, CtxInv, HintInv
<1> QED BY <1>4, <1>5, <1>6, <1>7, <1>8, <1>9 DEF CtxInv, q2

(* A failure is answered, unless a response has begun. *)
LEMMA FailureAnswered ==
  ASSUME NEW q, CtxInv(q), q.pc = "failing", q.failure = "downstream" => q.transport = "downstream"
  PROVE  CtxInv(Respond(q, IF q.response = None THEN "502" ELSE q.response))
<1> DEFINE q2 == Respond(q, IF q.response = None THEN "502" ELSE q.response)
<1>1. DOMAIN q = ContextFields BY CtxFields DEF CtxInv, CtxTypeOK
<1>2. /\ DOMAIN q2 = ContextFields /\ q2.pc = "logging" /\ q2.at = 1
      /\ q2.response = IF q.response = None THEN "502" ELSE q.response
      /\ \A f \in ContextFields \ {"pc", "at", "response"} : q2[f] = q[f]
  BY <1>1 DEF Respond, Goto, ContextFields
<1> HIDE DEF q2
<1>3. Agree(q2, q, {"pc", "at", "response"}) BY <1>2, SameFields
<1>4. CtxTypeOK(q2) BY <1>2, <1>3, CtxFields DEF Agree, CtxInv, CtxTypeOK
<1>5. ChainFresh(q2) BY <1>2, <1>3 DEF Agree, CtxInv, ChainFresh
<1>6. Gated(q2) BY <1>2, <1>3 DEF Agree, CtxInv, Gated, Gate, Cleared, HooksPassed
<1>7. AbortInv(q2) BY <1>2, <1>3 DEF Agree, CtxInv, AbortInv
<1>8. CloseInv(q2) BY <1>2, <1>3 DEF Agree, CtxInv, CloseInv
<1>9. HintInv(q2) BY <1>2, <1>3 DEF Agree, CtxInv, HintInv
<1> QED BY <1>4, <1>5, <1>6, <1>7, <1>8, <1>9 DEF CtxInv, q2

-----------------------------------------------------------------------------
(* logging *)

(* The finalizers that have run. *)
LEMMA FinalizedMore ==
  /\ SubSeq(Finalizers, 1, 0) = <<>> /\ SubSeq(Finalizers, 1, Len(Finalizers)) = Finalizers
  /\ \A n \in 1..Len(Finalizers) :
       Append(SubSeq(Finalizers, 1, n - 1), Finalizers[n]) = SubSeq(Finalizers, 1, n)
<1> DEFINE S == {Finalizers[k] : k \in DOMAIN Finalizers}
<1>1. Finalizers \in Seq(S) BY PipelineAssumption DEF IsSequence
<1> HIDE DEF S
<1>2. SubSeq(Finalizers, 1, 0) = <<>> BY <1>1
<1>3. SubSeq(Finalizers, 1, Len(Finalizers)) = Finalizers BY <1>1
<1>4. ASSUME NEW n \in 1..Len(Finalizers)
      PROVE  Append(SubSeq(Finalizers, 1, n - 1), Finalizers[n]) = SubSeq(Finalizers, 1, n)
  <2> DEFINE s == SubSeq(Finalizers, 1, n - 1)
             t == SubSeq(Finalizers, 1, n)
  <2>1. /\ s \in Seq(S) /\ Len(s) = n - 1 /\ \A k \in 1..(n - 1) : s[k] = Finalizers[k] BY <1>1
  <2>2. /\ t \in Seq(S) /\ Len(t) = n /\ \A k \in 1..n : t[k] = Finalizers[k] BY <1>1
  <2>3. Finalizers[n] \in S BY <1>1
  <2> HIDE DEF s, t
  <2>4. Append(s, Finalizers[n]) \in Seq(S) /\ Len(Append(s, Finalizers[n])) = n BY <2>1, <2>3
  <2>5. \A k \in 1..n : Append(s, Finalizers[n])[k] = t[k] BY <2>1, <2>2
  <2>6. Append(s, Finalizers[n]) = t BY <2>2, <2>4, <2>5
  <2> QED BY <2>6 DEF s, t
<1> QED BY <1>2, <1>3, <1>4

(* The end is announced, with the answer that was given. *)
LEMMA Finishes ==
  ASSUME NEW q, CtxInv(q), q.pc = "logging"
  PROVE  CtxInv([Goto(finish(q), "finalizers") EXCEPT !.finalNotices = @ + 1])
<1> DEFINE q2 == [Goto(finish(q), "finalizers") EXCEPT !.finalNotices = @ + 1]
<1>0. q.finished = None /\ q.finalNotices = 0 /\ q.finalized = <<>> BY DEF CtxInv, CloseInv
<1>1. DOMAIN q = ContextFields BY CtxFields DEF CtxInv, CtxTypeOK
<1>2. /\ DOMAIN q2 = ContextFields /\ q2.pc = "finalizers" /\ q2.at = 1 /\ q2.finished = q.response /\ q2.finalNotices = 1
      /\ \A f \in ContextFields \ {"pc", "at", "finished", "finalNotices"} : q2[f] = q[f]
  <2> DEFINE z == finish(q)
             g == Goto(z, "finalizers")
  <2>1. DOMAIN z = ContextFields /\ z.finished = q.response /\ \A f \in ContextFields \ {"finished"} : z[f] = q[f]
    BY <1>0, <1>1 DEF finish, ContextFields
  <2> HIDE DEF z
  <2>2. /\ DOMAIN g = ContextFields /\ g.pc = "finalizers" /\ g.at = 1 /\ \A f \in ContextFields \ {"pc", "at"} : g[f] = z[f]
    BY <2>1, GotoIs
  <2>3. g.finalNotices + 1 = 1 BY <1>0, <2>1, <2>2 DEF ContextFields
  <2>4. q2 = [g EXCEPT !.finalNotices = 1] BY <2>3 DEF z
  <2> HIDE DEF g, q2
  <2> QED BY <2>1, <2>2, <2>4 DEF ContextFields
<1> HIDE DEF q2
<1>3. Agree(q2, q, {"pc", "at", "finished", "finalNotices"}) BY <1>2, SameFields
<1>a. SubSeq(Finalizers, 1, 1 - 1) = <<>> /\ 1 <= Len(Finalizers) + 1 BY FinalizedMore, SequencesAre
<1>4. CtxTypeOK(q2) BY <1>2, <1>3, CtxFields DEF Agree, CtxInv, CtxTypeOK
<1>5. ChainFresh(q2) BY <1>2, <1>3 DEF Agree, CtxInv, ChainFresh
<1>6. Gated(q2) BY <1>2, <1>3 DEF Agree, CtxInv, Gated, Gate, Cleared, HooksPassed
<1>7. AbortInv(q2) BY <1>2, <1>3 DEF Agree, CtxInv, AbortInv
<1>8. CloseInv(q2) BY <1>2, <1>3, <1>0, <1>a DEF Agree, CtxInv, CloseInv
<1>9. HintInv(q2) BY <1>2, <1>3 DEF Agree, CtxInv, HintInv
<1> QED BY <1>4, <1>5, <1>6, <1>7, <1>8, <1>9 DEF CtxInv, q2

(* A finalizer runs, whether or not it fails. *)
LEMMA Finalizes ==
  ASSUME NEW q, NEW ok, CtxInv(q), q.pc = "finalizers", ~(q.at > Len(Finalizers))
  PROVE  CtxInv([q EXCEPT !.at = AfterFinalizer(q, ok), !.finalized = Append(@, Finalizers[q.at])])
<1> DEFINE q2 == [q EXCEPT !.at = AfterFinalizer(q, ok), !.finalized = Append(@, Finalizers[q.at])]
<1>1. DOMAIN q = ContextFields BY CtxFields DEF CtxInv, CtxTypeOK
<1>2. /\ DOMAIN q2 = ContextFields /\ q2.at = q.at + 1 /\ q2.finalized = Append(q.finalized, Finalizers[q.at])
      /\ \A f \in ContextFields \ {"at", "finalized"} : q2[f] = q[f]
  BY <1>1 DEF AfterFinalizer, ContextFields
<1> HIDE DEF q2
<1>3. Agree(q2, q, {"at", "finalized"}) BY <1>2, SameFields
<1>a. /\ q.at \in Nat \ {0} /\ q.at \in 1..Len(Finalizers) /\ q.at + 1 \in Nat \ {0}
      /\ (q.at + 1) - 1 = q.at /\ q.at + 1 <= Len(Finalizers) + 1
  BY SequencesAre DEF CtxInv, CtxTypeOK
<1>b. q2.finalized = SubSeq(Finalizers, 1, q.at)
  BY <1>2, <1>a, FinalizedMore DEF CtxInv, CloseInv
<1>4. CtxTypeOK(q2) BY <1>2, <1>3, CtxFields, <1>a DEF Agree, CtxInv, CtxTypeOK
<1>5. ChainFresh(q2) BY <1>2, <1>3 DEF Agree, CtxInv, ChainFresh
<1>6. Gated(q2) BY <1>2, <1>3 DEF Agree, CtxInv, Gated, Gate, Cleared, HooksPassed
<1>7. AbortInv(q2) BY <1>2, <1>3 DEF Agree, CtxInv, AbortInv
<1>8. CloseInv(q2) BY <1>2, <1>3, <1>a, <1>b DEF Agree, CtxInv, CloseInv
<1>9. HintInv(q2) BY <1>2, <1>3 DEF Agree, CtxInv, HintInv
<1> QED BY <1>4, <1>5, <1>6, <1>7, <1>8, <1>9 DEF CtxInv, q2

(* The last finalizer has run. *)
LEMMA Finalized ==
  ASSUME NEW q, CtxInv(q), q.pc = "finalizers", q.at > Len(Finalizers)
  PROVE  CtxInv(Goto(q, "log"))
<1> DEFINE q2 == Goto(q, "log")
<1>1. DOMAIN q = ContextFields BY CtxFields DEF CtxInv, CtxTypeOK
<1>2. /\ DOMAIN q2 = ContextFields /\ q2.pc = "log" /\ q2.at = 1
      /\ \A f \in ContextFields \ {"pc", "at"} : q2[f] = q[f]
  BY <1>1, GotoIs
<1> HIDE DEF q2
<1>3. Agree(q2, q, {"pc", "at"}) BY <1>2, SameFields
<1>a. q.at - 1 = Len(Finalizers) BY SequencesAre DEF CtxInv, CtxTypeOK, CloseInv
<1>b. q.finalized = Finalizers BY <1>a, FinalizedMore DEF CtxInv, CloseInv
<1>4. CtxTypeOK(q2) BY <1>2, <1>3, CtxFields DEF Agree, CtxInv, CtxTypeOK
<1>5. ChainFresh(q2) BY <1>2, <1>3 DEF Agree, CtxInv, ChainFresh
<1>6. Gated(q2) BY <1>2, <1>3 DEF Agree, CtxInv, Gated, Gate, Cleared, HooksPassed
<1>7. AbortInv(q2) BY <1>2, <1>3 DEF Agree, CtxInv, AbortInv
<1>8. CloseInv(q2) BY <1>2, <1>3, <1>b DEF Agree, CtxInv, CloseInv
<1>9. HintInv(q2) BY <1>2, <1>3 DEF Agree, CtxInv, HintInv
<1> QED BY <1>4, <1>5, <1>6, <1>7, <1>8, <1>9 DEF CtxInv, q2

(* The log phase. *)
LEMMA Logs ==
  ASSUME NEW q, CtxInv(q), q.pc = "log"
  PROVE  CtxInv([Goto(q, "done") EXCEPT !.ran = @ \cup {"log"}])
<1> DEFINE q2 == [Goto(q, "done") EXCEPT !.ran = @ \cup {"log"}]
<1>1. DOMAIN q = ContextFields BY CtxFields DEF CtxInv, CtxTypeOK
<1>2. /\ DOMAIN q2 = ContextFields /\ q2.pc = "done" /\ q2.at = 1 /\ q2.ran = q.ran \cup {"log"}
      /\ \A f \in ContextFields \ {"pc", "at", "ran"} : q2[f] = q[f]
  BY <1>1 DEF Goto, ContextFields
<1> HIDE DEF q2
<1>3. Agree(q2, q, {"pc", "at", "ran"}) BY <1>2, SameFields
<1>4. CtxTypeOK(q2) BY <1>2, <1>3, CtxFields DEF Agree, CtxInv, CtxTypeOK
<1>5. ChainFresh(q2) BY <1>2, <1>3 DEF Agree, CtxInv, ChainFresh
<1>6. Gated(q2) BY <1>2, <1>3 DEF Agree, CtxInv, Gated, Gate, Cleared, HooksPassed
<1>7. AbortInv(q2) BY <1>2, <1>3 DEF Agree, CtxInv, AbortInv
<1>8. CloseInv(q2) BY <1>2, <1>3 DEF Agree, CtxInv, CloseInv
<1>9. HintInv(q2) BY <1>2, <1>3 DEF Agree, CtxInv, HintInv
<1> QED BY <1>4, <1>5, <1>6, <1>7, <1>8, <1>9 DEF CtxInv, q2

(* A request arrives. *)
LEMMA ArrivesSound ==
  ASSUME NEW body
  PROVE  CtxInv(NewCtx(body)) /\ CtxInv([NewCtx(body) EXCEPT !.pc = "absent"])
<1> DEFINE q == NewCtx(body)
<1>1. /\ DOMAIN q = ContextFields /\ q.pc = "start" /\ q.at = 1 /\ q.plugins = <<>> /\ q.short = FALSE
      /\ q.forbidden = FALSE /\ q.abort = None /\ q.request_body_buf = None /\ q.retry_buffer = None
      /\ q.headers = {} /\ q.sent = <<>> /\ q.transport = None /\ q.marks = <<>> /\ q.hint = None
      /\ q.resolvedNotices = 0 /\ q.response = None /\ q.compensated = <<>> /\ q.finalNotices = 0
      /\ q.finished = None /\ q.finalized = <<>>
  BY DEF NewCtx, ContextFields
<1> HIDE DEF q
<1>2. /\ q.plugins \in Seq(Entities) /\ q.sent \in Seq(Attempts) /\ q.marks \in Seq(Marks)
      /\ q.short \in BOOLEAN /\ q.forbidden \in BOOLEAN
  <2>1. q.plugins \in Seq(Entities) /\ q.sent \in Seq(Attempts) /\ q.marks \in Seq(Marks) BY <1>1
  <2>2. q.short \in BOOLEAN /\ q.forbidden \in BOOLEAN BY <1>1, Zenon
  <2> QED BY <2>1, <2>2
<1>3. CtxTypeOK(q) BY <1>1, <1>2, CtxFields DEF CtxTypeOK, Body
<1>4. ChainFresh(q) BY <1>1 DEF ChainFresh
<1>5. Gated(q) BY <1>1 DEF Gated
<1>6. AbortInv(q) BY <1>1 DEF AbortInv
<1>7. CloseInv(q) BY <1>1 DEF CloseInv
<1>8. HintInv(q) BY <1>1 DEF HintInv
<1>9. CtxInv(q) BY <1>3, <1>4, <1>5, <1>6, <1>7, <1>8 DEF CtxInv
<1> DEFINE q2 == [q EXCEPT !.pc = "absent"]
<1>10. DOMAIN q2 = ContextFields /\ q2.pc = "absent" /\ \A f \in ContextFields \ {"pc"} : q2[f] = q[f]
  BY <1>1 DEF ContextFields
<1> HIDE DEF q2
<1>11. Agree(q2, q, {"pc"}) BY <1>10, SameFields
<1>12. CtxTypeOK(q2) BY <1>3, <1>10, <1>11, CtxFields DEF Agree, CtxTypeOK
<1>13. ChainFresh(q2) BY <1>4, <1>1, <1>10, <1>11 DEF Agree, ChainFresh
<1>14. Gated(q2) BY <1>5, <1>1, <1>10, <1>11 DEF Agree, Gated
<1>15. AbortInv(q2) BY <1>6, <1>1, <1>10, <1>11 DEF Agree, AbortInv
<1>16. CloseInv(q2) BY <1>7, <1>1, <1>10, <1>11 DEF Agree, CloseInv
<1>17. HintInv(q2) BY <1>8, <1>1, <1>10, <1>11 DEF Agree, HintInv
<1> QED BY <1>9, <1>12, <1>13, <1>14, <1>15, <1>16, <1>17 DEF CtxInv, q, q2

-----------------------------------------------------------------------------
(* The invariant *)

(* A request keeps what holds of its record when lists are published. *)
LEMMA RecordKeeps ==
  ASSUME PublishInv, PublishInv', NEW r, NEW x, CtxInv(x), req'[r] = x,
         built <= built', Len(generations) <= Len(generations'),
         \A g \in 1..Len(generations) : generations'[g] = generations[g]
  PROVE  CtxInv(req[r])'
<1>1. CtxTypeOK(req[r])' BY DEF CtxInv, CtxTypeOK
<1>2. ChainFresh(req[r])'
  <2>1. /\ built \in 1..Len(generations) /\ Len(generations) \in Nat
        /\ built' \in 1..Len(generations') /\ Len(generations') \in Nat
    BY DEF PublishInv
  <2>2. x.since \in 1..built => x.since \in 1..built' BY <2>1
  <2>3. ASSUME x.resolvedNotices = 1
        PROVE  /\ x.since \in Nat \ {0}
               /\ \E g \in x.since..Len(generations') :
                    x.plugins = resolve_plugins(generations'[g], x.route, x.service_id)
    <3>1. PICK g \in x.since..Len(generations) :
            x.since \in Nat \ {0} /\ x.plugins = resolve_plugins(generations[g], x.route, x.service_id)
      BY <2>3 DEF CtxInv, ChainFresh
    <3>2. g \in 1..Len(generations) /\ g \in x.since..Len(generations') BY <3>1, <2>1
    <3>3. generations'[g] = generations[g] BY <3>2
    <3> QED BY <3>1, <3>2, <3>3
  <2> QED BY <2>2, <2>3 DEF CtxInv, ChainFresh
<1>3. Gated(req[r])' BY DEF CtxInv, Gated, Gate, Cleared, HooksPassed
<1>4. AbortInv(req[r])' BY DEF CtxInv, AbortInv
<1>5. CloseInv(req[r])' BY DEF CtxInv, CloseInv
<1>6. HintInv(req[r])' BY DEF CtxInv, HintInv
<1> QED BY <1>1, <1>2, <1>3, <1>4, <1>5, <1>6 DEF CtxInv

(* A step of one request whose record stays sound. *)
LEMMA StepKeeps ==
  ASSUME PipelineInv, NEW r \in Requests, NEW x, CtxInv(x), Step(r, x)
  PROVE  PipelineInv'
<1>1. UNCHANGED published /\ req' = [req EXCEPT ![r] = x] BY DEF Step
<1>2. PublishInv /\ PublishInv' BY <1>1 DEF PipelineInv, PublishInv, published
<1>3. DOMAIN req' = Requests BY <1>1 DEF PipelineInv
<1>4. /\ built <= built' /\ Len(generations) <= Len(generations')
      /\ \A g \in 1..Len(generations) : generations'[g] = generations[g]
  BY <1>1, <1>2 DEF published, PublishInv
<1>5. ASSUME NEW p \in Requests PROVE CtxInv(req[p])'
  <2>1. CASE p = r
    <3>1. req'[p] = x BY <1>1, <2>1 DEF PipelineInv
    <3> QED BY <1>2, <1>4, <3>1, RecordKeeps
  <2>2. CASE p # r
    <3>1. req'[p] = req[p] /\ CtxInv(req[p]) BY <1>1, <2>2 DEF PipelineInv
    <3> QED BY <1>2, <1>4, <3>1, RecordKeeps
  <2> QED BY <2>1, <2>2
<1> QED BY <1>2, <1>3, <1>5 DEF PipelineInv

(* Routes, services, plugin lists and chains are published. *)
LEMMA PublishKeeps ==
  ASSUME PipelineInv, Publish
  PROVE  PipelineInv'
<1>0. PublishInv /\ UNCHANGED req
  BY DEF PipelineInv, Publish, UpdateRoutes, UpdatePlugins, RebuildPluginChains, UpdateServices
<1>a. Len(generations) \in Nat \ {0} /\ built \in 1..Len(generations) BY <1>0 DEF PublishInv
<1>1. /\ PublishInv' /\ built <= built' /\ Len(generations) <= Len(generations')
      /\ \A g \in 1..Len(generations) : generations'[g] = generations[g]
  <2>1. CASE UpdateRoutes BY <2>1, <1>0, <1>a DEF UpdateRoutes, PublishInv
  <2>2. CASE UpdatePlugins
    <3>1. PICK list \in PluginLists :
            /\ plugins' = list /\ generations' = Append(generations, list)
            /\ UNCHANGED <<chains, built>>
      BY <2>2 DEF UpdatePlugins
    <3>2. generations \in Seq(PluginLists) BY <1>0 DEF PublishInv
    <3>3. /\ generations' \in Seq(PluginLists) /\ Len(generations') = Len(generations) + 1
          /\ \A g \in 1..Len(generations) : generations'[g] = generations[g]
          /\ generations'[Len(generations) + 1] = list
      BY <3>1, <3>2
    <3>4. chains' = RebuiltChains(generations'[built']) BY <1>0, <1>a, <3>1, <3>3 DEF PublishInv
    <3>5. PublishInv' BY <1>a, <3>1, <3>3, <3>4 DEF PublishInv
    <3> QED BY <1>a, <3>1, <3>3, <3>5
  <2>3. CASE RebuildPluginChains BY <2>3, <1>0, <1>a DEF RebuildPluginChains, PublishInv
  <2>4. CASE UpdateServices BY <2>4, <1>0, <1>a DEF UpdateServices, PublishInv
  <2> QED BY <2>1, <2>2, <2>3, <2>4 DEF Publish
<1>2. ASSUME NEW p \in Requests PROVE CtxInv(req[p])'
  <2>1. CtxInv(req[p]) /\ req'[p] = req[p] BY <1>0 DEF PipelineInv
  <2> QED BY <1>0, <1>1, <2>1, RecordKeeps
<1> QED BY <1>0, <1>1, <1>2 DEF PipelineInv

(* Before the phases of the plugins. *)
LEMMA FilterBegins ==
  ASSUME PipelineInv, NEW r \in Requests,
         Arrive(r) \/ FindRoute(r) \/ LookupService(r) \/ ResolveChain(r)
  PROVE  PipelineInv'
<1> SUFFICES \E x : CtxInv(x) /\ Step(r, x) BY StepKeeps
<1> DEFINE q == req[r]
<1>0. CtxInv(q) /\ PublishInv BY DEF PipelineInv
<1> HIDE DEF q
<1>1. CASE Arrive(r)
  <2>1. PICK body \in Bodies : Step(r, NewCtx(body)) BY <1>1 DEF Arrive
  <2> QED BY <2>1, ArrivesSound
<1>2. CASE FindRoute(r)
  <2>0. q.pc = "start" BY <1>2 DEF FindRoute, At, q
  <2>1. CASE Step(r, Respond(q, "404")) BY <1>0, <2>0, <2>1, RespondEarly
  <2>2. CASE \E route \in DOMAIN routing :
               Step(r, [Goto(q, "service") EXCEPT !.route = route, !.service_id = routing[route], !.since = built])
    BY <1>0, <2>0, <2>2, RouteFound
  <2> QED BY <1>2, <2>1, <2>2 DEF FindRoute, q
<1>3. CASE LookupService(r)
  <2>1. q.pc = "service" BY <1>3 DEF LookupService, At, q
  <2>2. PICK found : Step(r, [Goto(q, "resolve") EXCEPT !.service = found]) BY <1>3 DEF LookupService, q
  <2> QED BY <1>0, <2>1, <2>2, ServiceFound
<1>4. CASE ResolveChain(r)
  <2>1. q.pc = "resolve" BY <1>4 DEF ResolveChain, At, q
  <2> DEFINE key == <<q.route, q.service_id>>
             chain == IF key \in DOMAIN chains THEN chains[key] ELSE resolve_plugins(plugins, key[1], key[2])
             x == [Goto(q, "preload") EXCEPT !.plugins = chain, !.resolvedNotices = @ + 1]
  <2>2. Step(r, x) BY <1>4 DEF ResolveChain, q
  <2>3. CtxInv(x) BY <1>0, <2>1, ChainFound
  <2> HIDE DEF x
  <2> QED BY <2>2, <2>3
<1> QED BY <1>1, <1>2, <1>3, <1>4

(* The body and the phases of the plugins. *)
LEMMA PhasesKeep ==
  ASSUME PipelineInv, NEW r \in Requests,
         PreloadBody(r) \/ RunRewrite(r) \/ RunAccess(r) \/ ResolveUpstream(r)
  PROVE  PipelineInv'
<1> SUFFICES \E x : CtxInv(x) /\ Step(r, x) BY StepKeeps
<1> DEFINE q == req[r]
<1>0. CtxInv(q) BY DEF PipelineInv
<1>a. DOMAIN q = ContextFields /\ q.request_body_buf \in Body /\ q.retry_buffer \in Body
  BY <1>0, CtxFields DEF CtxInv, CtxTypeOK
<1>b. "gateway" \in Kinds /\ "policy" \in Kinds BY DEF Kinds
<1> HIDE DEF q
<1>1. CASE PreloadBody(r)
  <2>0. q.pc = "preload" BY <1>1 DEF PreloadBody, At, q
  <2> DEFINE bad(source) == Respond(set_termination_hint(mark_transport_error(q, source), "gateway",
                                                         "request_body_preload"), "400")
  <2>1. ASSUME NEW source \in Sources PROVE CtxInv(bad(source))
    <3> DEFINE m == mark_transport_error(q, source)
               h == set_termination_hint(m, "gateway", "request_body_preload")
    <3>1. CtxInv(m) /\ \A f \in ContextFields \ {"transport"} : m[f] = q[f] BY <1>0, TransportKeeps
    <3> HIDE DEF m
    <3>2. m.pc = "preload" BY <2>0, <3>1 DEF ContextFields
    <3>3. CtxInv(h) /\ \A f \in ContextFields \ {"marks", "hint"} : h[f] = m[f]
      BY <1>b, <3>1, HintKeeps DEF Parties
    <3> HIDE DEF h
    <3>4. h.pc = "preload" BY <3>2, <3>3 DEF ContextFields
    <3>5. CtxInv(Respond(h, "400")) BY <3>3, <3>4, RespondEarly
    <3> QED BY <3>5 DEF h, m
  <2>2. CASE Step(r, Goto(q, "rewrite")) BY <1>0, <1>a, <2>0, <2>2, BodyPreloaded
  <2>3. CASE Step(r, [Goto(q, "rewrite") EXCEPT !.request_body_buf = "whole",
                        !.retry_buffer = IF q.body = "small" THEN "whole" ELSE "tail"])
    <3>1. \A c \in BOOLEAN : (IF c THEN "whole" ELSE "tail") \in Body /\ "whole" \in Body BY DEF Body
    <3>2. (IF q.body = "small" THEN "whole" ELSE "tail") \in Body BY <3>1
    <3> QED BY <1>0, <2>0, <2>3, <3>1, <3>2, BodyPreloaded
  <2>4. CASE Step(r, bad("internal")) BY <2>1, <2>4 DEF Sources
  <2>5. CASE Step(r, bad("downstream")) BY <2>1, <2>5 DEF Sources
  <2> QED BY <1>1, <2>2, <2>3, <2>4, <2>5 DEF PreloadBody, q
<1>2. ASSUME NEW phase \in {"rewrite", "access"}, NEW next,
             <<phase, next>> \in {<<"rewrite", "access">>, <<"access", "upstream">>},
             RunPlugin(r, phase, next)
      PROVE  \E x : CtxInv(x) /\ Step(r, x)
  <2>0. q.pc = phase BY <1>2 DEF RunPlugin, At, q
  <2>1. CASE ~q.short /\ q.at > Len(q.plugins) /\ Step(r, Goto(q, next))
    <3>1. <<q.pc, next>> \in {<<"rewrite", "access">>, <<"access", "upstream">>} BY <1>2, <2>0
    <3> QED BY <1>0, <2>1, <3>1, PhaseEnds
  <2>2. CASE q.short /\ Step(r, Goto(q, "short_circuit")) BY <1>0, <2>0, <2>2, CutShort
  <2>3. CASE /\ ~q.short /\ q.at <= Len(q.plugins)
             /\ \E x \in PluginOutcomes(q, phase, q.plugins[q.at].name) : Step(r, x)
    <3> DEFINE name == q.plugins[q.at].name
               ran == [q EXCEPT !.at = @ + 1]
               ok == [ran EXCEPT !.passed = @ \cup {<<phase, name>>}]
               out == [ran EXCEPT !.short = TRUE, !.exit = name]
    <3>1. PICK x \in PluginOutcomes(q, phase, name) : Step(r, x) BY <2>3
    <3>2. name \in Parties
      <4>1. q.at \in 1..Len(q.plugins) BY <1>0, <2>3, PluginsNamed DEF CtxInv, CtxTypeOK
      <4> QED BY <1>0, <4>1, PluginsNamed DEF CtxInv
    <3>3. CtxInv(ok) BY <1>0, <2>0, <2>3, PluginPasses
    <3>4. ok.pc = phase BY <1>a, <2>0 DEF ContextFields
    <3>5. CtxInv(set_termination_hint(out, "policy", name))
      <4>1. CtxInv(out) BY <1>0, <2>0, PluginExits
      <4> HIDE DEF out, name
      <4> QED BY <4>1, <1>b, <3>2, HintKeeps
    <3>6. CtxInv(Respond(set_termination_hint(ran, "gateway", name), "500"))
      <4> HIDE DEF name
      <4> QED BY <1>0, <2>0, <3>2, PluginFails
    <3>7. \/ x \in {ok, set_termination_hint(out, "policy", name),
                    Respond(set_termination_hint(ran, "gateway", name), "500")}
          \/ /\ phase = "access"
             /\ x \in {[ok EXCEPT !.headers = @ \cup {name}], [ok EXCEPT !.upstream_body = TRUE],
                       [ok EXCEPT !.buffering = TRUE], [ok EXCEPT !.forbidden = TRUE]}
      BY <1>2, <3>1, Zenon DEF PluginOutcomes
    <3> HIDE DEF ok, out, ran, name
    <3>8. CtxInv(x) BY <3>2, <3>3, <3>4, <3>5, <3>6, <3>7, StagesHeaders, ReplacesBody, BuffersResponse, Forbids
    <3> QED BY <3>1, <3>8
  <2> QED BY <1>2, <2>1, <2>2, <2>3 DEF RunPlugin, q
<1>3. CASE RunRewrite(r) BY <1>2, <1>3 DEF RunRewrite
<1>4. CASE RunAccess(r) BY <1>2, <1>4 DEF RunAccess
<1>5. CASE ResolveUpstream(r)
  <2>0. q.pc = "upstream" BY <1>5 DEF ResolveUpstream, At, q
  <2>1. ASSUME NEW who \in Parties PROVE CtxInv(Respond(set_termination_hint(q, "gateway", who), "503"))
    <3> DEFINE h == set_termination_hint(q, "gateway", who)
    <3>1. CtxInv(h) /\ \A f \in ContextFields \ {"marks", "hint"} : h[f] = q[f] BY <1>0, <1>b, HintKeeps
    <3> HIDE DEF h
    <3>2. h.pc = "upstream" BY <2>0, <3>1 DEF ContextFields
    <3>3. CtxInv(Respond(h, "503")) BY <3>1, <3>2, RespondEarly
    <3> QED BY <3>3 DEF h
  <2>2. "service_lookup" \in Parties /\ "service_disabled" \in Parties BY DEF Parties
  <2>3. CtxInv(Goto(q, "hooks")) BY <1>0, <2>0, ToHooks
  <2>4. \/ Step(r, Respond(set_termination_hint(q, "gateway", "service_lookup"), "503"))
        \/ Step(r, Respond(set_termination_hint(q, "gateway", "service_disabled"), "503"))
        \/ Step(r, Goto(q, "hooks"))
    BY <1>5 DEF ResolveUpstream, q
  <2> QED BY <2>1, <2>2, <2>3, <2>4
<1> QED BY <1>1, <1>3, <1>4, <1>5

(* Hooks and compensations. *)
LEMMA HooksKeep ==
  ASSUME PipelineInv, NEW r \in Requests,
         RunHook(r) \/ HooksDone(r) \/ Compensate(r) \/ CompensationDone(r)
  PROVE  PipelineInv'
<1> SUFFICES \E x : CtxInv(x) /\ Step(r, x) BY StepKeeps
<1> DEFINE q == req[r]
<1>0. CtxInv(q) BY DEF PipelineInv
<1>a. DOMAIN q = ContextFields BY <1>0, CtxFields DEF CtxInv, CtxTypeOK
<1> HIDE DEF q
<1>1. CASE RunHook(r)
  <2> DEFINE hook == Hooks[q.at]
             ran == [q EXCEPT !.at = @ + 1]
             ok == [ran EXCEPT !.passed = @ \cup {<<"hook", hook.name>>}]
             outcomes == {ok, Failed(ran, hook), [ok EXCEPT !.forbidden = TRUE],
                          [ok EXCEPT !.short = TRUE, !.exit = hook.name]}
  <2>1. q.pc = "hooks" /\ q.at <= Len(Hooks) BY <1>1 DEF RunHook, At, q
  <2>2. PICK x \in outcomes : Step(r, Settled(x, hook)) BY <1>1, Zenon DEF RunHook, q
  <2>3. \A y \in outcomes : CtxInv(Settled(y, hook)) BY <1>0, <2>1, HookOutcome
  <2> HIDE DEF outcomes, hook
  <2> QED BY <2>2, <2>3
<1>2. CASE HooksDone(r)
  <2>1. q.pc = "hooks" /\ q.at > Len(Hooks) BY <1>2 DEF HooksDone, At, q
  <2>2. CASE q.abort # None
    <3> DEFINE z == [q EXCEPT !.forbidden = TRUE, !.short = TRUE, !.exit = IF q.short THEN @ ELSE q.abort]
               root == IF q.short THEN q.exit ELSE q.abort
    <3>1. Step(r, [Goto(z, "compensate") EXCEPT !.root = z.exit]) BY <1>2, <2>2, Zenon DEF HooksDone, q
    <3>2. z.exit = root BY <1>a DEF ContextFields
    <3>3. CtxInv([Goto(z, "compensate") EXCEPT !.root = root]) BY <1>0, <2>1, <2>2, ToCompensate
    <3> HIDE DEF z, root
    <3> QED BY <3>1, <3>2, <3>3
  <2>3. CASE q.abort = None /\ q.forbidden
    <3>1. Step(r, Goto(q, "short_circuit")) BY <1>2, <2>3 DEF HooksDone, q
    <3> QED BY <1>0, <2>1, <2>3, <3>1, ToShortCircuit
  <2>4. CASE q.abort = None /\ ~q.forbidden
    <3>1. Step(r, Goto(q, "peer")) BY <1>2, <2>4 DEF HooksDone, q
    <3> QED BY <1>0, <2>1, <2>4, <3>1, ToPeer
  <2> QED BY <2>2, <2>3, <2>4
<1>3. CASE Compensate(r)
  <2>1. q.pc = "compensate" /\ q.at <= Len(AbortHandlers) BY <1>3 DEF Compensate, At, q
  <2>2. PICK exit : Step(r, [q EXCEPT !.at = @ + 1, !.compensated = Append(@, AbortHandlers[q.at].name),
                                      !.exit = exit])
    BY <1>3, Zenon DEF Compensate, q
  <2> QED BY <1>0, <2>1, <2>2, Compensates
<1>4. CASE CompensationDone(r)
  <2>1. q.pc = "compensate" /\ q.at > Len(AbortHandlers) BY <1>4 DEF CompensationDone, At, q
  <2> DEFINE x == [set_termination_hint(Goto(q, "short_circuit"), "gateway", "request_dispatch_hook")
                     EXCEPT !.short = TRUE, !.exit = RestoredRoot(q)]
  <2>2. Step(r, x) BY <1>4 DEF CompensationDone, q
  <2>3. CtxInv(x) BY <1>0, <2>1, Restored
  <2> HIDE DEF x
  <2> QED BY <2>2, <2>3
<1> QED BY <1>1, <1>2, <1>3, <1>4

(* Attempts, responses and failures. *)
LEMMA AttemptsKeep ==
  ASSUME PipelineInv, NEW r \in Requests,
         \/ ShortCircuit(r) \/ UpstreamPeer(r) \/ SendUpstream(r) \/ AttemptFails(r)
         \/ UpstreamResponds(r) \/ ResponseEnds(r) \/ ResponseBreaks(r) \/ FailToProxy(r)
  PROVE  PipelineInv'
<1> SUFFICES \E x : CtxInv(x) /\ Step(r, x) BY StepKeeps
<1> DEFINE q == req[r]
<1>0. CtxInv(q) BY DEF PipelineInv
<1>a. DOMAIN q = ContextFields BY <1>0, CtxFields DEF CtxInv, CtxTypeOK
<1>b. "upstream" \in Sources /\ "downstream" \in Sources BY DEF Sources
<1> HIDE DEF q
<1>1. CASE ShortCircuit(r)
  <2>0. q.pc = "short_circuit" BY <1>1 DEF ShortCircuit, At, q
  <2>1. PICK x \in HeaderFiltered(q) : \/ Step(r, Respond(x, IF x.exit = None THEN "200" ELSE x.exit))
                                       \/ Step(r, Fail(x, "downstream"))
    BY <1>1 DEF ShortCircuit, q
  <2>2. CtxInv(x) /\ "header_filter" \in x.ran /\ \A f \in ContextFields \ {"ran", "short", "marks", "hint"} : x[f] = q[f]
    BY <1>0, <2>0, FiltersKeep
  <2>3. x.pc = "short_circuit" BY <2>0, <2>2 DEF ContextFields
  <2> QED BY <2>1, <2>2, <2>3, Answers, AnswerLost
<1>2. CASE UpstreamPeer(r)
  <2>0. q.pc = "peer" BY <1>2 DEF UpstreamPeer, At, q
  <2>1. CASE Step(r, Goto(q, "attempt")) BY <1>0, <2>0, <2>1, GoesOn
  <2>2. CASE Step(r, Fail(mark_transport_error(q, "upstream"), "upstream"))
    <3> DEFINE m == mark_transport_error(q, "upstream")
    <3>1. CtxInv(m) /\ \A f \in ContextFields \ {"transport"} : m[f] = q[f] BY <1>0, <1>b, TransportKeeps
    <3>2. Step(r, Fail(m, "upstream")) BY <2>2
    <3> HIDE DEF m
    <3>3. m.pc = "peer" BY <2>0, <3>1 DEF ContextFields
    <3> QED BY <1>b, <3>1, <3>2, <3>3, Fails
  <2> QED BY <1>2, <2>1, <2>2 DEF UpstreamPeer, q
<1>3. CASE SendUpstream(r)
  <2> DEFINE a == [body |-> BodyOf(q), headers |-> q.headers]
             buf == IF q.upstream_body THEN q.request_body_buf ELSE None
             x == [Goto(q, "awaiting") EXCEPT !.sent = Append(@, a), !.headers = {}, !.request_body_buf = buf]
  <2>0. q.pc = "attempt" BY <1>3 DEF SendUpstream, At, q
  <2>1. q.request_body_buf \in Body /\ q.retry_buffer \in Body /\ q.headers \in SUBSET Parties
    BY <1>0 DEF CtxInv, CtxTypeOK
  <2>2. BodyOf(q) \in Body BY <2>1 DEF BodyOf, Body
  <2>3. a \in Attempts BY <2>1, <2>2 DEF Attempts
  <2>4. buf \in Body BY <2>1 DEF Body
  <2>5. Step(r, x)
    <3>1. Goto(q, "awaiting").request_body_buf = q.request_body_buf BY <1>a, GotoIs DEF ContextFields
    <3>2. Step(r, [Goto(q, "awaiting") EXCEPT !.sent = Append(@, a), !.headers = {},
                     !.request_body_buf = IF q.upstream_body THEN @ ELSE None])
      BY <1>3 DEF SendUpstream, q
    <3> QED BY <3>1, <3>2
  <2> HIDE DEF a, buf
  <2>6. CtxInv(x) BY <1>0, <2>0, <2>3, <2>4, Sends
  <2> QED BY <2>5, <2>6
<1>4. CASE AttemptFails(r)
  <2>0. q.pc = "awaiting" BY <1>4 DEF AttemptFails, At, q
  <2>1. Step(r, Goto(q, "peer")) \/ \E source \in {"upstream", "downstream"} : Step(r, Fail(q, source))
    BY <1>4 DEF AttemptFails, q
  <2> QED BY <1>0, <1>b, <2>0, <2>1, GoesOn, Fails
<1>5. CASE UpstreamResponds(r)
  <2>0. q.pc = "awaiting" BY <1>5 DEF UpstreamResponds, At, q
  <2>1. CASE Step(r, [Goto(q, "body") EXCEPT !.deferred = TRUE, !.response = "upstream"])
    BY <1>0, <2>0, <2>1, Responds
  <2>2. CASE \E x \in HeaderFiltered(q) : Step(r, [Goto(x, "body") EXCEPT !.response = "upstream"])
    <3>1. PICK x \in HeaderFiltered(q) : Step(r, [Goto(x, "body") EXCEPT !.response = "upstream"]) BY <2>2
    <3>2. CtxInv(x) /\ \A f \in ContextFields \ {"ran", "short", "marks", "hint"} : x[f] = q[f]
      BY <1>0, <2>0, FiltersKeep
    <3>3. x.pc = "awaiting" BY <2>0, <3>2 DEF ContextFields
    <3> QED BY <3>1, <3>2, <3>3, Responds
  <2> QED BY <1>5, <2>1, <2>2 DEF UpstreamResponds, q
<1>6. CASE ResponseEnds(r)
  <2>0. q.pc = "body" BY <1>6 DEF ResponseEnds, At, q
  <2>1. PICK x \in (IF q.deferred THEN HeaderFiltered(q) ELSE {q}) :
          \E y \in BodyFiltered(x) : Step(r, [Goto(y, "logging") EXCEPT !.deferred = FALSE])
    BY <1>6 DEF ResponseEnds, q
  <2>2. CtxInv(x) /\ x.pc = "body"
    <3>1. CASE x \in HeaderFiltered(q)
      <4>1. CtxInv(x) /\ \A f \in ContextFields \ {"ran", "short", "marks", "hint"} : x[f] = q[f]
        BY <1>0, <2>0, <3>1, FiltersKeep
      <4> QED BY <2>0, <4>1 DEF ContextFields
    <3>2. CASE x = q BY <1>0, <2>0, <3>2
    <3> QED BY <2>1, <3>1, <3>2
  <2>3. PICK y \in BodyFiltered(x) : Step(r, [Goto(y, "logging") EXCEPT !.deferred = FALSE]) BY <2>1
  <2>4. CtxInv(y) /\ y.pc = "body" BY <2>2, <2>3, BodyKeeps
  <2> QED BY <2>3, <2>4, ResponseSent
<1>7. CASE ResponseBreaks(r)
  <2>1. q.pc = "body" /\ \E source \in {"upstream", "downstream"} : Step(r, Fail(q, source))
    BY <1>7 DEF ResponseBreaks, At, q
  <2> QED BY <1>0, <1>b, <2>1, Fails
<1>8. CASE FailToProxy(r)
  <2> DEFINE m == mark_transport_error(q, q.failure)
             a == Respond(m, IF m.response = None THEN "502" ELSE m.response)
  <2>0. q.pc = "failing" BY <1>8 DEF FailToProxy, At, q
  <2>1. q.failure \in Sources BY <1>0, <2>0 DEF CtxInv, CtxTypeOK
  <2>2. /\ CtxInv(m) /\ \A f \in ContextFields \ {"transport"} : m[f] = q[f]
        /\ q.failure = "downstream" => m.transport = "downstream"
    BY <1>0, <2>1, TransportKeeps
  <2>3. Step(r, a) \/ Step(r, mark_transport_error(a, "downstream")) BY <1>8 DEF FailToProxy, q
  <2> HIDE DEF m
  <2>4. m.pc = "failing" /\ m.failure = q.failure BY <2>0, <2>2 DEF ContextFields
  <2>5. CtxInv(a) BY <2>2, <2>4, FailureAnswered
  <2> HIDE DEF a
  <2>6. CtxInv(mark_transport_error(a, "downstream")) BY <1>b, <2>5, TransportKeeps
  <2> QED BY <2>3, <2>5, <2>6
<1> QED BY <1>1, <1>2, <1>3, <1>4, <1>5, <1>6, <1>7, <1>8

(* Logging, finalizers and the log phase. *)
LEMMA LoggingKeeps ==
  ASSUME PipelineInv, NEW r \in Requests, Logging(r) \/ RunFinalizer(r) \/ RunLog(r)
  PROVE  PipelineInv'
<1> SUFFICES \E x : CtxInv(x) /\ Step(r, x) BY StepKeeps
<1> DEFINE q == req[r]
<1>0. CtxInv(q) BY DEF PipelineInv
<1> HIDE DEF q
<1>1. CASE Logging(r)
  <2>1. q.pc = "logging" /\ Step(r, [Goto(finish(q), "finalizers") EXCEPT !.finalNotices = @ + 1])
    BY <1>1 DEF Logging, At, q
  <2> QED BY <1>0, <2>1, Finishes
<1>2. CASE RunFinalizer(r)
  <2>0. q.pc = "finalizers" BY <1>2 DEF RunFinalizer, At, q
  <2>1. CASE q.at > Len(Finalizers)
    <3>1. Step(r, Goto(q, "log")) BY <1>2, <2>1 DEF RunFinalizer, q
    <3> QED BY <1>0, <2>0, <2>1, <3>1, Finalized
  <2>2. CASE ~(q.at > Len(Finalizers))
    <3>1. PICK ok \in BOOLEAN :
            Step(r, [q EXCEPT !.at = AfterFinalizer(q, ok), !.finalized = Append(@, Finalizers[q.at])])
      BY <1>2, <2>2 DEF RunFinalizer, q
    <3> QED BY <1>0, <2>0, <2>2, <3>1, Finalizes
  <2> QED BY <2>1, <2>2
<1>3. CASE RunLog(r)
  <2>1. q.pc = "log" /\ Step(r, [Goto(q, "done") EXCEPT !.ran = @ \cup {"log"}])
    BY <1>3 DEF RunLog, At, q
  <2> QED BY <1>0, <2>1, Logs
<1> QED BY <1>1, <1>2, <1>3

-----------------------------------------------------------------------------
(* The theorems *)

(* In a new proxy the chains are those of the first list, and no request has *)
(* arrived.                                                                  *)
LEMMA InitSound == PipelineInit => PipelineInv
<1> SUFFICES ASSUME PipelineInit PROVE PipelineInv OBVIOUS
<1>1. PublishInv
  <2>1. generations = <<plugins>> /\ plugins \in PluginLists /\ built = 1 /\ chains = RebuiltChains(plugins)
    BY DEF PipelineInit
  <2>2. generations \in Seq(PluginLists) /\ Len(generations) = 1 /\ generations[1] = plugins BY <2>1
  <2> QED BY <2>1, <2>2 DEF PublishInv
<1>2. \A r \in Requests : req[r] = [NewCtx("none") EXCEPT !.pc = "absent"] BY DEF PipelineInit
<1>3. DOMAIN req = Requests BY DEF PipelineInit
<1>4. CtxInv([NewCtx("none") EXCEPT !.pc = "absent"]) BY ArrivesSound
<1> QED BY <1>1, <1>2, <1>3, <1>4, Zenon DEF PipelineInv

(* Every step of the proxy, and every stuttering step, keeps the invariant. *)
LEMMA NextSound == PipelineInv /\ [PipelineNext]_pipelineVars => PipelineInv'
<1> SUFFICES ASSUME PipelineInv, [PipelineNext]_pipelineVars PROVE PipelineInv' OBVIOUS
<1>1. CASE Publish BY <1>1, PublishKeeps
<1>2. ASSUME NEW r \in Requests, Arrive(r) \/ RequestStep(r) PROVE PipelineInv'
  <2>1. CASE Arrive(r) \/ FindRoute(r) \/ LookupService(r) \/ ResolveChain(r) BY <2>1, FilterBegins
  <2>2. CASE PreloadBody(r) \/ RunRewrite(r) \/ RunAccess(r) \/ ResolveUpstream(r) BY <2>2, PhasesKeep
  <2>3. CASE RunHook(r) \/ HooksDone(r) \/ Compensate(r) \/ CompensationDone(r) BY <2>3, HooksKeep
  <2>4. CASE \/ ShortCircuit(r) \/ UpstreamPeer(r) \/ SendUpstream(r) \/ AttemptFails(r)
             \/ UpstreamResponds(r) \/ ResponseEnds(r) \/ ResponseBreaks(r) \/ FailToProxy(r)
    BY <2>4, AttemptsKeep
  <2>5. CASE Logging(r) \/ RunFinalizer(r) \/ RunLog(r) BY <2>5, LoggingKeeps
  <2> QED BY <1>2, <2>1, <2>2, <2>3, <2>4, <2>5 DEF RequestStep
<1>3. CASE UNCHANGED pipelineVars
  <2>1. UNCHANGED <<plugins, chains, generations, built, req>> BY <1>3 DEF pipelineVars, published
  <2>2. PublishInv /\ PublishInv' BY <2>1, Zenon DEF PipelineInv, PublishInv
  <2>3. built \in Int /\ Len(generations) \in Int BY <2>2 DEF PublishInv
  <2>4. ASSUME NEW r \in Requests PROVE CtxInv(req[r])'
    <3>1. CtxInv(req[r]) /\ req'[r] = req[r] BY <2>1 DEF PipelineInv
    <3>2. built <= built' /\ Len(generations) <= Len(generations')
          /\ \A g \in 1..Len(generations) : generations'[g] = generations[g]
      BY <2>1, <2>3
    <3> QED BY <2>2, <3>1, <3>2, RecordKeeps
  <2>5. (DOMAIN req = Requests)' BY <2>1 DEF PipelineInv
  <2> QED BY <2>2, <2>4, <2>5 DEF PipelineInv
<1> QED BY <1>1, <1>2, <1>3 DEF PipelineNext

(* PipelineInv is an invariant of the request pipeline, for any plugins,     *)
(* hooks, handlers, finalizers and updates published under way.              *)
THEOREM PipelineInvariant == PipelineSpec => []PipelineInv
<1>1. PipelineInit => PipelineInv BY InitSound
<1>2. PipelineInv /\ [PipelineNext]_pipelineVars => PipelineInv' BY NextSound
<1> QED BY <1>1, <1>2, PTL DEF PipelineSpec

(* The upstream is contacted only when every plugin of the chain in force and *)
(* every critical dispatch hook passed and no one forbade it (request_filter, *)
(* run_dispatch_hooks).                                                       *)
THEOREM GateHolds == PipelineSpec => []DispatchGate
<1>1. PipelineInv => DispatchGate
  <2> SUFFICES ASSUME PipelineInv, NEW r \in Requests
               PROVE  LET q == req[r]
                          fresh(g) == q.plugins = resolve_plugins(generations[g], q.route, q.service_id)
                      IN /\ q.resolvedNotices > 0 => \E g \in q.since..Len(generations) : fresh(g)
                         /\ q.sent # <<>> =>
                              /\ \A k \in DOMAIN q.plugins, phase \in {"rewrite", "access"} :
                                   <<phase, q.plugins[k].name>> \in q.passed
                              /\ \A k \in DOMAIN Hooks : Hooks[k].closed => <<"hook", Hooks[k].name>> \in q.passed
                              /\ ~q.forbidden
    BY DEF DispatchGate
  <2> DEFINE q == req[r]
  <2>0. CtxInv(q) BY DEF PipelineInv
  <2> HIDE DEF q
  <2>1. q.resolvedNotices > 0 =>
          \E g \in q.since..Len(generations) : q.plugins = resolve_plugins(generations[g], q.route, q.service_id)
    BY <2>0 DEF CtxInv, ChainFresh
  <2>2. ASSUME q.sent # <<>>
        PROVE  /\ \A k \in DOMAIN q.plugins, phase \in {"rewrite", "access"} :
                    <<phase, q.plugins[k].name>> \in q.passed
               /\ \A k \in DOMAIN Hooks : Hooks[k].closed => <<"hook", Hooks[k].name>> \in q.passed
               /\ ~q.forbidden
    <3>1. Gate(q) BY <2>0, <2>2 DEF CtxInv, Gated
    <3>2. DOMAIN q.plugins = 1..Len(q.plugins) BY <2>0, PluginsNamed DEF CtxInv
    <3> QED BY <3>1, <3>2, SequencesAre DEF Gate, Cleared, HooksPassed
  <2> QED BY <2>1, <2>2 DEF q
<1> QED BY <1>1, PipelineInvariant, PTL

(* However a request ends, it is closed once and in order, and an aborted     *)
(* dispatch is compensated, never reaches the upstream and is answered as the *)
(* hooks decided (logging, RequestLifecycle, run_dispatch_hooks).             *)
THEOREM RequestsClosedOnce == PipelineSpec => []ClosedOnce
<1>1. ASSUME PipelineInv, NEW r \in Requests
      PROVE  LET q == req[r]
                 strongest(m) == \A k \in DOMAIN q.marks : HintPriority(q.marks[k].kind) <= HintPriority(m.kind)
                 firsts == {k \in DOMAIN q.marks : /\ strongest(q.marks[k])
                                                   /\ \A j \in 1..(k - 1) : ~strongest(q.marks[j])}
             IN q.hint = IF firsts = {} THEN None ELSE q.marks[CHOOSE k \in firsts : TRUE]
  <2> DEFINE q == req[r]
             strongest(m) == \A k \in DOMAIN q.marks : HintPriority(q.marks[k].kind) <= HintPriority(m.kind)
             firsts == {k \in DOMAIN q.marks : /\ strongest(q.marks[k])
                                               /\ \A j \in 1..(k - 1) : ~strongest(q.marks[j])}
  <2> SUFFICES q.hint = IF firsts = {} THEN None ELSE q.marks[CHOOSE k \in firsts : TRUE] BY Zenon
  <2>0. CtxInv(q) BY <1>1 DEF PipelineInv
  <2> HIDE DEF q
  <2>1. q.marks \in Seq(Marks) BY <2>0 DEF CtxInv, CtxTypeOK
  <2>2. DOMAIN q.marks = 1..Len(q.marks) /\ Len(q.marks) \in Nat BY <2>1, SeqElements
  <2>3. \A k \in DOMAIN q.marks : HintPriority(q.marks[k].kind) \in Int
    <3>1. \A kind \in Kinds : HintPriority(kind) \in Int BY DEF Kinds, HintPriority
    <3>2. \A k \in DOMAIN q.marks : q.marks[k] \in Marks BY <2>1, <2>2, SeqElements
    <3>3. \A k \in DOMAIN q.marks : q.marks[k].kind \in Kinds BY <3>2 DEF Marks
    <3> QED BY <3>1, <3>3
  <2>4. CASE q.marks = <<>>
    <3>1. q.hint = None BY <2>0, <2>4 DEF CtxInv, HintInv
    <3>2. firsts = {} BY <2>4
    <3> HIDE DEF firsts
    <3> QED BY <3>1, <3>2
  <2>5. CASE q.marks # <<>>
    <3>1. PICK k \in DOMAIN q.marks :
            /\ q.hint = q.marks[k]
            /\ \A j \in DOMAIN q.marks : HintPriority(q.marks[j].kind) <= HintPriority(q.hint.kind)
            /\ \A j \in 1..(k - 1) : HintPriority(q.marks[j].kind) < HintPriority(q.hint.kind)
      BY <2>0, <2>5 DEF CtxInv, HintInv
    <3>2. k \in firsts
      <4>1. strongest(q.marks[k]) BY <3>1
      <4>2. ASSUME NEW j \in 1..(k - 1) PROVE ~strongest(q.marks[j])
        <5>1. j \in DOMAIN q.marks BY <2>2
        <5> QED BY <2>3, <3>1, <5>1
      <4> QED BY <4>1, <4>2
    <3>3. ASSUME NEW j \in firsts PROVE j = k
      <4>1. j \in DOMAIN q.marks /\ j \in Int /\ k \in Int BY <2>2
      <4>2. ~(j < k)
        <5>1. strongest(q.marks[j]) BY <3>3
        <5>2. HintPriority(q.marks[k].kind) <= HintPriority(q.marks[j].kind) BY <3>1, <5>1
        <5>3. j < k => j \in 1..(k - 1) BY <2>2, <4>1
        <5> QED BY <2>3, <3>1, <4>1, <5>2, <5>3
      <4>3. ~(k < j)
        <5>1. strongest(q.marks[k]) BY <3>1
        <5>2. k < j => k \in 1..(j - 1) BY <2>2, <4>1
        <5> QED BY <5>1, <5>2, <3>3
      <4> QED BY <4>1, <4>2, <4>3
    <3> HIDE DEF firsts
    <3>4. firsts = {k} BY <3>2, <3>3
    <3> QED BY <3>1, <3>4
  <2> QED BY <2>4, <2>5
<1>2. ASSUME PipelineInv, NEW r \in Requests, req[r].pc = "done"
      PROVE  LET q == req[r]
             IN /\ q.resolvedNotices <= 1 /\ q.finalNotices = 1
                /\ q.finalized = Finalizers /\ q.finished = q.response
                /\ "log" \in q.ran /\ (q.abort # None => "header_filter" \in q.ran)
  <2> DEFINE q == req[r]
  <2>0. CtxInv(q) BY <1>2 DEF PipelineInv
  <2>1. q.pc = "done" BY <1>2
  <2> HIDE DEF q
  <2>2. q.resolvedNotices <= 1 BY <2>0 DEF CtxInv, ChainFresh
  <2>3. q.finalNotices = 1 /\ q.finalized = Finalizers /\ q.finished = q.response /\ "log" \in q.ran
    BY <2>0, <2>1 DEF CtxInv, CloseInv
  <2>4. q.abort # None => "header_filter" \in q.ran BY <2>0, <2>1 DEF CtxInv, AbortInv
  <2> QED BY <2>2, <2>3, <2>4 DEF q
<1>3. ASSUME PipelineInv, NEW r \in Requests, Ended(r), req[r].abort # None
      PROVE  LET q == req[r]
             IN /\ q.sent = <<>>
                /\ q.compensated = [k \in DOMAIN AbortHandlers |-> AbortHandlers[k].name]
                /\ q.response \in {q.root, "502"}
                /\ q.response = "502" => q.transport = "downstream"
  <2> DEFINE q == req[r]
  <2>0. CtxInv(q) BY <1>3 DEF PipelineInv
  <2>1. q.pc \in {"logging", "finalizers", "log", "done"} /\ q.abort # None BY <1>3 DEF Ended
  <2> HIDE DEF q
  <2>2. q.sent = <<>> BY <2>0, <2>1 DEF CtxInv, Gated, Gate
  <2>3. /\ q.compensated = Compensated(Len(AbortHandlers)) /\ q.response \in {q.root, "502"}
        /\ q.response = "502" => q.transport = "downstream"
    BY <2>0, <2>1 DEF CtxInv, AbortInv
  <2> QED BY <2>2, <2>3, SequencesAre DEF q, Compensated
<1>4. PipelineInv => ClosedOnce BY <1>1, <1>2, <1>3, Zenon DEF ClosedOnce
<1> QED BY <1>4, PipelineInvariant, PTL

-----------------------------------------------------------------------------
(* Health of targets *)

Good == {"healthy", "success"}
Failing == {"unhealthy"}
Refused == {"tcp"}
TimedOut == {"timeout"}

\* The newest m reports are of the given kinds.
LastIn(log, m, kinds) == \A j \in 0..(m - 1) : log[Len(log) - j] \in kinds

\* A counter has counted the run it is for, up to its threshold.
Counted(log, kinds, n, threshold) ==
  \A m \in 0..Len(log) : LastIn(log, m, kinds) => n >= m \/ n >= threshold

\* A run as long as its threshold.
Decides(log, kinds, threshold) ==
  threshold > 0 /\ Len(log) >= threshold /\ LastIn(log, threshold, kinds)

TargetHealth ==
  [healthy : BOOLEAN, successes : Nat, tcp_failures : Nat, timeouts : Nat, http_failures : Nat]

ThresholdsAre(c) ==
  c.successes \in Int /\ c.http_failures \in Int /\ c.tcp_failures \in Int /\ c.timeouts \in Int

\* What one target's health owes to its reports: each counter covers the run it
\* counts, the successes were consecutive, and a long enough run has decided.
HealthOf(log, h, c) ==
  /\ log \in Seq(ReportKinds) /\ (Len(log) = 0 \/ Len(log) <= Remembered)
  /\ h \in TargetHealth
  /\ Counted(log, Good, h.successes, c.successes)
  /\ Counted(log, Failing, h.http_failures, c.http_failures)
  /\ Counted(log, Refused, h.tcp_failures, c.tcp_failures)
  /\ Counted(log, TimedOut, h.timeouts, c.timeouts)
  /\ (h.successes = 0 \/ h.successes <= c.successes) /\ h.successes <= Len(log)
  /\ LastIn(log, h.successes, Good)
  /\ Decides(log, Good, c.successes) => h.healthy
  /\ Decides(log, Failing, c.http_failures) => ~h.healthy
  /\ Decides(log, Refused, c.tcp_failures) => ~h.healthy
  /\ Decides(log, TimedOut, c.timeouts) => ~h.healthy

HealthInv ==
  /\ config \in Configs
  /\ DOMAIN seen = DOMAIN health
  /\ \A a \in DOMAIN health : HealthOf(seen[a], health[a], config)

\* A log after one more report, of the given kind.
Follows(log, new, kind) ==
  /\ new \in Seq(ReportKinds)
  /\ Len(new) = 0 \/ Len(new) <= Remembered
  /\ Len(new) <= Len(log) + 1
  /\ Len(new) = Len(log) + 1 \/ Remembered <= Len(new)
  /\ Len(new) > 0 => new[Len(new)] = kind
  /\ \A j \in 1..(Len(new) - 1) : new[Len(new) - j] = log[Len(log) - (j - 1)]

(* The longest threshold is remembered. *)
LEMMA RememberedIs ==
  ASSUME ThresholdsAre(config)
  PROVE  /\ Remembered \in Int
         /\ config.successes <= Remembered /\ config.http_failures <= Remembered
         /\ config.tcp_failures <= Remembered /\ config.timeouts <= Remembered
<1> DEFINE ns == {config.successes, config.http_failures, config.tcp_failures, config.timeouts}
<1>1. \E n \in ns : \A m \in ns : m <= n BY DEF ThresholdsAre
<1>2. Remembered \in ns /\ \A m \in ns : m <= Remembered BY <1>1, Zenon DEF Remembered
<1> QED BY <1>2 DEF ThresholdsAre

(* A noted report is the newest; the others move back by one, and only as     *)
(* many as are remembered stay.                                               *)
LEMMA NotedIs ==
  ASSUME ThresholdsAre(config), NEW log \in Seq(ReportKinds), Len(log) = 0 \/ Len(log) <= Remembered,
         NEW kind \in ReportKinds, kind # "other"
  PROVE  Follows(log, Noted(log, kind), kind)
<1> DEFINE longer == Append(log, kind)
           new == Noted(log, kind)
<1>1. Remembered \in Int BY RememberedIs
<1>2. /\ longer \in Seq(ReportKinds) /\ Len(longer) = Len(log) + 1 /\ longer[Len(log) + 1] = kind
      /\ \A i \in 1..Len(log) : longer[i] = log[i] /\ Len(log) \in Nat
  OBVIOUS
<1>3. CASE Len(longer) > Remembered
  <2>1. new = Tail(longer) BY <1>3 DEF Noted
  <2>2. /\ new \in Seq(ReportKinds) /\ Len(new) = Len(log)
        /\ \A i \in 1..Len(log) : new[i] = longer[i + 1]
    BY <1>2, <2>1
  <2> HIDE DEF new, longer
  <2>3. ASSUME NEW j \in 1..(Len(new) - 1)
        PROVE  new[Len(new) - j] = log[Len(log) - (j - 1)]
    <3>1. Len(new) - j \in 1..Len(log) /\ Len(new) - j + 1 \in 1..Len(log)
          /\ Len(new) - j + 1 = Len(log) - (j - 1)
      BY <2>2
    <3> QED BY <1>2, <2>2, <3>1
  <2>4. Len(new) > 0 => new[Len(new)] = kind BY <1>2, <2>2
  <2>5. Len(log) \in Nat OBVIOUS
  <2>6. Remembered <= Len(new) BY <1>1, <1>2, <1>3, <2>2, <2>5
  <2> QED BY <1>1, <1>2, <2>2, <2>3, <2>4, <2>5, <2>6 DEF new, Follows
<1>4. CASE ~(Len(longer) > Remembered)
  <2>1. new = longer BY <1>4 DEF Noted
  <2>2. Len(log) \in Nat OBVIOUS
  <2>3. Len(new) <= Remembered BY <1>1, <1>2, <1>4, <2>1, <2>2
  <2> HIDE DEF new, longer
  <2>4. ASSUME NEW j \in 1..(Len(new) - 1)
        PROVE  new[Len(new) - j] = log[Len(log) - (j - 1)]
    <3>1. Len(new) - j \in 1..Len(log) /\ Len(new) - j = Len(log) - (j - 1) BY <1>2, <2>1, <2>2
    <3> QED BY <1>2, <2>1, <3>1
  <2> QED BY <1>2, <2>1, <2>2, <2>3, <2>4 DEF new, Follows
<1> QED BY <1>3, <1>4

(* A report of another kind ends a run. *)
LEMMA RunEnds ==
  ASSUME NEW log \in Seq(ReportKinds), NEW new, NEW kind, Follows(log, new, kind),
         NEW kinds, kind \notin kinds, NEW n \in Nat, NEW threshold \in Int
  PROVE  Counted(new, kinds, n, threshold) /\ ~Decides(new, kinds, threshold)
<1>1. Len(new) \in Nat BY DEF Follows
<1>2. ASSUME NEW m \in Nat \ {0}, m <= Len(new)
      PROVE  ~LastIn(new, m, kinds)
  <2>1. 0 \in 0..(m - 1) /\ Len(new) - 0 = Len(new) /\ Len(new) > 0 BY <1>1, <1>2
  <2>2. new[Len(new) - 0] \notin kinds BY <2>1 DEF Follows
  <2> QED BY <2>1, <2>2, Zenon DEF LastIn
<1>3. \A m \in 0..Len(new) : LastIn(new, m, kinds) => m = 0 BY <1>1, <1>2
<1>4. n >= 0 OBVIOUS
<1>5. Counted(new, kinds, n, threshold) BY <1>3, <1>4 DEF Counted
<1>6. ~Decides(new, kinds, threshold)
  <2>1. SUFFICES ASSUME threshold > 0, Len(new) >= threshold, LastIn(new, threshold, kinds) PROVE FALSE
    BY DEF Decides
  <2> QED BY <1>1, <1>2, <2>1
<1> QED BY <1>5, <1>6

(* A run of the log is one report longer than what the log before it had. *)
LEMMA RunBefore ==
  ASSUME NEW log \in Seq(ReportKinds), NEW new, NEW kind, Follows(log, new, kind),
         NEW kinds, NEW m \in 1..Len(new), LastIn(new, m, kinds)
  PROVE  m - 1 \in 0..Len(log) /\ LastIn(log, m - 1, kinds)
<1>1. Len(new) \in Nat /\ Len(log) \in Nat /\ Len(new) <= Len(log) + 1 BY DEF Follows
<1>2. ASSUME NEW j \in 0..(m - 1 - 1) PROVE log[Len(log) - j] \in kinds
  <2>1. j + 1 \in 0..(m - 1) /\ j + 1 \in 1..(Len(new) - 1) /\ (j + 1) - 1 = j BY <1>1
  <2>2. new[Len(new) - (j + 1)] = log[Len(log) - ((j + 1) - 1)] BY <2>1 DEF Follows
  <2>3. new[Len(new) - (j + 1)] \in kinds BY <2>1 DEF LastIn
  <2> QED BY <2>1, <2>2, <2>3
<1> QED BY <1>1, <1>2 DEF LastIn

(* A report that counts keeps the counter up with its run, and a run of the   *)
(* threshold's length is noticed.                                             *)
LEMMA RunGrows ==
  ASSUME NEW log \in Seq(ReportKinds), NEW new, NEW kind, Follows(log, new, kind),
         NEW kinds, NEW n \in Nat, NEW threshold \in Int, Counted(log, kinds, n, threshold)
  PROVE  /\ Inc(n, threshold) \in Nat
         /\ Counted(new, kinds, Inc(n, threshold), threshold)
         /\ Decides(new, kinds, threshold) => Reached(Inc(n, threshold), threshold)
<1>1. Len(new) \in Nat /\ Len(log) \in Nat BY DEF Follows
<1>2. Inc(n, threshold) \in Nat BY DEF Inc
<1>3. ASSUME NEW m \in 1..Len(new), LastIn(new, m, kinds)
      PROVE  Inc(n, threshold) >= m \/ Inc(n, threshold) >= threshold
  <2>1. m - 1 \in 0..Len(log) /\ LastIn(log, m - 1, kinds) BY <1>3, RunBefore
  <2>2. n >= m - 1 \/ n >= threshold BY <2>1 DEF Counted
  <2> QED BY <1>1, <2>2 DEF Inc
<1>4. Counted(new, kinds, Inc(n, threshold), threshold)
  <2> SUFFICES ASSUME NEW m \in 0..Len(new), LastIn(new, m, kinds)
               PROVE  Inc(n, threshold) >= m \/ Inc(n, threshold) >= threshold
    BY DEF Counted
  <2>1. CASE m = 0 BY <1>2, <2>1
  <2>2. CASE m # 0 BY <1>1, <1>3, <2>2
  <2> QED BY <2>1, <2>2
<1>5. Decides(new, kinds, threshold) => Reached(Inc(n, threshold), threshold)
  <2> SUFFICES ASSUME threshold > 0, Len(new) >= threshold, LastIn(new, threshold, kinds)
               PROVE  Inc(n, threshold) >= threshold
    BY DEF Decides, Reached
  <2>1. threshold \in 1..Len(new) BY <1>1
  <2> QED BY <1>2, <1>3, <2>1
<1> QED BY <1>2, <1>4, <1>5

(* The successes a counter shows stay consecutive. *)
LEMMA CreditGrows ==
  ASSUME ThresholdsAre(config), NEW log \in Seq(ReportKinds), NEW new, NEW kind \in Good,
         Follows(log, new, kind), NEW n \in Nat, NEW threshold \in Int, threshold <= Remembered,
         n = 0 \/ n <= threshold, n <= Len(log), LastIn(log, n, Good)
  PROVE  LET k == Inc(n, threshold)
         IN /\ k = 0 \/ k <= threshold
            /\ k <= Len(new)
            /\ LastIn(new, k, Good)
<1> DEFINE k == Inc(n, threshold)
<1>0. Remembered \in Int BY RememberedIs
<1>1. Len(new) \in Nat /\ Len(log) \in Nat /\ (Len(new) = Len(log) + 1 \/ Remembered <= Len(new))
  BY DEF Follows
<1>2. k \in Nat /\ k <= n + 1 /\ (k = 0 \/ k <= threshold) /\ (k = n + 1 \/ k = n) BY DEF Inc
<1> HIDE DEF k
<1>3. k <= Len(new) BY <1>0, <1>1, <1>2
<1>4. ASSUME NEW j \in 0..(k - 1) PROVE new[Len(new) - j] \in Good
  <2>1. CASE j = 0
    <3>1. Len(new) - j = Len(new) /\ Len(new) > 0 BY <1>1, <1>2, <1>3, <2>1
    <3> QED BY <3>1 DEF Follows
  <2>2. CASE j # 0
    <3>1. j \in 1..(Len(new) - 1) /\ j - 1 \in 0..(n - 1) BY <1>1, <1>2, <1>3, <2>2
    <3>2. new[Len(new) - j] = log[Len(log) - (j - 1)] BY <3>1 DEF Follows
    <3> QED BY <3>1, <3>2 DEF LastIn
  <2> QED BY <2>1, <2>2
<1> QED BY <1>2, <1>3, <1>4 DEF LastIn, k

(* A report that counts as good. *)
LEMMA GoodReport ==
  ASSUME NEW h \in TargetHealth, NEW c, ThresholdsAre(c), NEW kind \in Good
  PROVE  LET g == Reported(h, c, kind)
             s == Inc(h.successes, c.successes)
         IN /\ g \in TargetHealth /\ g.successes = s
            /\ Reached(s, c.successes) => g.healthy
<1>1. PICK n \in Nat : n = Inc(h.successes, c.successes) BY DEF Inc, TargetHealth, ThresholdsAre
<1>2. PICK b \in BOOLEAN : b = (h.healthy \/ Reached(n, c.successes)) OBVIOUS
<1>3. PICK f : f = Successful(h, c) OBVIOUS
<1>4. f = [h EXCEPT !.successes = n, !.healthy = b] BY <1>1, <1>2, <1>3 DEF Successful, TargetHealth
<1>5. f \in TargetHealth /\ f.successes = n /\ f.healthy = b BY <1>4 DEF TargetHealth
<1>6. Reached(n, c.successes) => b BY <1>2
<1>7. PICK g : g = Reported(h, c, kind) OBVIOUS
<1>8. g = [f EXCEPT !.tcp_failures = 0, !.timeouts = 0, !.http_failures = 0] \/ g = [f EXCEPT !.http_failures = 0]
  BY <1>3, <1>7 DEF Reported, report_success, report_http_status, Good
<1>9. g \in TargetHealth
  <2>1. [f EXCEPT !.tcp_failures = 0, !.timeouts = 0, !.http_failures = 0] \in TargetHealth BY <1>5 DEF TargetHealth
  <2>2. [f EXCEPT !.http_failures = 0] \in TargetHealth BY <1>5 DEF TargetHealth
  <2> QED BY <1>8, <2>1, <2>2
<1>10. g.successes = n /\ g.healthy = b BY <1>5, <1>8 DEF TargetHealth
<1>11. Reached(n, c.successes) => g.healthy BY <1>6, <1>10
<1> QED BY <1>1, <1>7, <1>9, <1>10, <1>11, Zenon

(* A failing status. *)
LEMMA FailingReport ==
  ASSUME NEW h \in TargetHealth, NEW c, ThresholdsAre(c), NEW kind, kind = "unhealthy"
  PROVE  LET g == Reported(h, c, kind)
             k == Inc(h.http_failures, c.http_failures)
         IN /\ g \in TargetHealth /\ g.http_failures = k /\ g.successes = 0
            /\ Reached(k, c.http_failures) => ~g.healthy
<1>1. PICK n \in Nat : n = Inc(h.http_failures, c.http_failures) BY DEF Inc, TargetHealth, ThresholdsAre
<1>2. PICK b \in BOOLEAN : b = (h.healthy /\ ~Reached(n, c.http_failures)) OBVIOUS
<1>3. PICK g : g = Reported(h, c, kind) OBVIOUS
<1>4. g = [h EXCEPT !.http_failures = n, !.successes = 0, !.healthy = b]
  BY <1>1, <1>2, <1>3 DEF Reported, report_http_status, HttpFailed, TargetHealth
<1>5. g \in TargetHealth BY <1>4 DEF TargetHealth
<1>6. g.http_failures = n /\ g.successes = 0 /\ g.healthy = b BY <1>4 DEF TargetHealth
<1>7. Reached(n, c.http_failures) => ~g.healthy BY <1>2, <1>6
<1> QED BY <1>1, <1>3, <1>5, <1>6, <1>7, Zenon

(* A failure to connect. *)
LEMMA RefusedReport ==
  ASSUME NEW h \in TargetHealth, NEW c, ThresholdsAre(c), NEW kind, kind = "tcp"
  PROVE  LET g == Reported(h, c, kind)
             k == Inc(h.tcp_failures, c.tcp_failures)
         IN /\ g \in TargetHealth /\ g.tcp_failures = k /\ g.successes = 0
            /\ Reached(k, c.tcp_failures) => ~g.healthy
<1>1. PICK n \in Nat : n = Inc(h.tcp_failures, c.tcp_failures) BY DEF Inc, TargetHealth, ThresholdsAre
<1>2. PICK b \in BOOLEAN : b = (h.healthy /\ ~Reached(n, c.tcp_failures)) OBVIOUS
<1>3. PICK g : g = Reported(h, c, kind) OBVIOUS
<1>4. g = [h EXCEPT !.tcp_failures = n, !.successes = 0, !.healthy = b]
  BY <1>1, <1>2, <1>3 DEF Reported, report_tcp_failure, TargetHealth
<1>5. g \in TargetHealth BY <1>4 DEF TargetHealth
<1>6. g.tcp_failures = n /\ g.successes = 0 /\ g.healthy = b BY <1>4 DEF TargetHealth
<1>7. Reached(n, c.tcp_failures) => ~g.healthy BY <1>2, <1>6
<1> QED BY <1>1, <1>3, <1>5, <1>6, <1>7, Zenon

(* A timeout. *)
LEMMA TimeoutReport ==
  ASSUME NEW h \in TargetHealth, NEW c, ThresholdsAre(c), NEW kind, kind = "timeout"
  PROVE  LET g == Reported(h, c, kind)
             k == Inc(h.timeouts, c.timeouts)
         IN /\ g \in TargetHealth /\ g.timeouts = k /\ g.successes = 0
            /\ Reached(k, c.timeouts) => ~g.healthy
<1>1. PICK n \in Nat : n = Inc(h.timeouts, c.timeouts) BY DEF Inc, TargetHealth, ThresholdsAre
<1>2. PICK b \in BOOLEAN : b = (h.healthy /\ ~Reached(n, c.timeouts)) OBVIOUS
<1>3. PICK g : g = Reported(h, c, kind) OBVIOUS
<1>4. g = [h EXCEPT !.timeouts = n, !.successes = 0, !.healthy = b]
  BY <1>1, <1>2, <1>3 DEF Reported, report_timeout, TargetHealth
<1>5. g \in TargetHealth BY <1>4 DEF TargetHealth
<1>6. g.timeouts = n /\ g.successes = 0 /\ g.healthy = b BY <1>4 DEF TargetHealth
<1>7. Reached(n, c.timeouts) => ~g.healthy BY <1>2, <1>6
<1> QED BY <1>1, <1>3, <1>5, <1>6, <1>7, Zenon

(* A report keeps what a target's health owes to its reports. *)
LEMMA ReportedKeeps ==
  ASSUME ThresholdsAre(config), NEW log, NEW h, HealthOf(log, h, config), NEW kind \in ReportKinds
  PROVE  HealthOf(Noted(log, kind), Reported(h, config, kind), config)
<1> DEFINE c == config
           new == Noted(log, kind)
           g == Reported(h, c, kind)
<1>0. /\ log \in Seq(ReportKinds) /\ (Len(log) = 0 \/ Len(log) <= Remembered) /\ h \in TargetHealth
      /\ c.successes \in Int /\ c.http_failures \in Int /\ c.tcp_failures \in Int /\ c.timeouts \in Int
      /\ c.successes <= Remembered
  BY RememberedIs DEF HealthOf, ThresholdsAre
<1>1. CASE kind = "other"
  <2>1. new = log BY <1>1 DEF Noted
  <2>2. g = h BY <1>1 DEF Reported, report_http_status
  <2> QED BY <2>1, <2>2
<1>2. CASE kind # "other"
  <2>0. Follows(log, new, kind) BY <1>0, <1>2, NotedIs
  <2>1. /\ h.successes \in Nat /\ h.tcp_failures \in Nat /\ h.timeouts \in Nat /\ h.http_failures \in Nat
        /\ h.healthy \in BOOLEAN
    BY <1>0 DEF TargetHealth
  <2>2. new \in Seq(ReportKinds) /\ (Len(new) = 0 \/ Len(new) <= Remembered) BY <2>0 DEF Follows
  <2> DEFINE s == Inc(h.successes, c.successes)
             u == Inc(h.http_failures, c.http_failures)
             t == Inc(h.tcp_failures, c.tcp_failures)
             o == Inc(h.timeouts, c.timeouts)
  <2>3. kind \notin Good => \A n \in Nat : Counted(new, Good, n, c.successes) /\ ~Decides(new, Good, c.successes)
    BY <1>0, <2>0, RunEnds
  <2>4. kind \notin Failing =>
          \A n \in Nat : Counted(new, Failing, n, c.http_failures)
                         /\ ~Decides(new, Failing, c.http_failures)
    BY <1>0, <2>0, RunEnds
  <2>5. kind \notin Refused =>
          \A n \in Nat : Counted(new, Refused, n, c.tcp_failures) /\ ~Decides(new, Refused, c.tcp_failures)
    BY <1>0, <2>0, RunEnds
  <2>6. kind \notin TimedOut =>
          \A n \in Nat : Counted(new, TimedOut, n, c.timeouts) /\ ~Decides(new, TimedOut, c.timeouts)
    BY <1>0, <2>0, RunEnds
  <2>7. /\ Counted(log, Good, h.successes, c.successes)
        /\ Counted(log, Failing, h.http_failures, c.http_failures)
        /\ Counted(log, Refused, h.tcp_failures, c.tcp_failures)
        /\ Counted(log, TimedOut, h.timeouts, c.timeouts)
        /\ (h.successes = 0 \/ h.successes <= c.successes) /\ h.successes <= Len(log)
        /\ LastIn(log, h.successes, Good)
    BY Zenon DEF HealthOf
  <2>8. LastIn(new, 0, Good) /\ 0 <= Len(new)
    <3>1. 0..(0 - 1) = {} OBVIOUS
    <3> QED BY <2>2, <3>1 DEF LastIn
  <2> HIDE DEF new, c
  <2>9. CASE kind \in Good
    <3>1. /\ s \in Nat /\ Counted(new, Good, s, c.successes)
          /\ Decides(new, Good, c.successes) => Reached(s, c.successes)
      BY <1>0, <2>0, <2>1, <2>7, RunGrows
    <3>2. (s = 0 \/ s <= c.successes) /\ s <= Len(new) /\ LastIn(new, s, Good)
      BY <1>0, <2>0, <2>1, <2>7, <2>9, CreditGrows DEF c
    <3>3. kind \notin Failing /\ kind \notin Refused /\ kind \notin TimedOut
      BY <2>9 DEF Good, Failing, Refused, TimedOut
    <3>4. /\ g \in TargetHealth /\ g.successes = s /\ (Reached(s, c.successes) => g.healthy)
          /\ g.http_failures \in Nat /\ g.tcp_failures \in Nat /\ g.timeouts \in Nat
      <4>1. g \in TargetHealth /\ g.successes = s /\ (Reached(s, c.successes) => g.healthy)
        BY <1>0, <2>9, GoodReport, Zenon DEF c
      <4> QED BY <4>1 DEF TargetHealth
    <3> HIDE DEF g, s
    <3>5. /\ Counted(new, Failing, g.http_failures, c.http_failures)
          /\ Counted(new, Refused, g.tcp_failures, c.tcp_failures)
          /\ Counted(new, TimedOut, g.timeouts, c.timeouts)
          /\ ~Decides(new, Failing, c.http_failures)
          /\ ~Decides(new, Refused, c.tcp_failures)
          /\ ~Decides(new, TimedOut, c.timeouts)
      BY <2>4, <2>5, <2>6, <3>3, <3>4
    <3>6. Decides(new, Good, c.successes) => g.healthy BY <3>1, <3>4
    <3> QED BY <2>2, <3>1, <3>2, <3>4, <3>5, <3>6, Zenon DEF HealthOf, new, g, c
  <2>10. CASE kind = "unhealthy"
    <3>1. /\ u \in Nat /\ Counted(new, Failing, u, c.http_failures)
          /\ Decides(new, Failing, c.http_failures) => Reached(u, c.http_failures)
      BY <1>0, <2>0, <2>1, <2>7, RunGrows
    <3>2. kind \notin Good /\ kind \notin Refused /\ kind \notin TimedOut BY <2>10 DEF Good, Refused, TimedOut
    <3>3. /\ g \in TargetHealth /\ g.http_failures = u /\ (Reached(u, c.http_failures) => ~g.healthy)
          /\ g.successes = 0 /\ g.tcp_failures \in Nat /\ g.timeouts \in Nat
      <4>1. g \in TargetHealth /\ g.http_failures = u /\ g.successes = 0 /\ (Reached(u, c.http_failures) => ~g.healthy)
        BY <1>0, <2>10, FailingReport, Zenon DEF c
      <4> QED BY <4>1 DEF TargetHealth
    <3> HIDE DEF g, u
    <3>4. /\ Counted(new, Good, g.successes, c.successes)
          /\ Counted(new, Refused, g.tcp_failures, c.tcp_failures)
          /\ Counted(new, TimedOut, g.timeouts, c.timeouts)
          /\ ~Decides(new, Good, c.successes)
          /\ ~Decides(new, Refused, c.tcp_failures)
          /\ ~Decides(new, TimedOut, c.timeouts)
      BY <2>3, <2>5, <2>6, <3>2, <3>3
    <3>5. Decides(new, Failing, c.http_failures) => ~g.healthy BY <3>1, <3>3
    <3> QED BY <2>2, <2>8, <3>1, <3>3, <3>4, <3>5, Zenon DEF HealthOf, new, g, c
  <2>11. CASE kind = "tcp"
    <3>1. /\ t \in Nat /\ Counted(new, Refused, t, c.tcp_failures)
          /\ Decides(new, Refused, c.tcp_failures) => Reached(t, c.tcp_failures)
      BY <1>0, <2>0, <2>1, <2>7, RunGrows
    <3>2. kind \notin Good /\ kind \notin Failing /\ kind \notin TimedOut BY <2>11 DEF Good, Failing, TimedOut
    <3>3. /\ g \in TargetHealth /\ g.tcp_failures = t /\ (Reached(t, c.tcp_failures) => ~g.healthy)
          /\ g.successes = 0 /\ g.http_failures \in Nat /\ g.timeouts \in Nat
      <4>1. g \in TargetHealth /\ g.tcp_failures = t /\ g.successes = 0 /\ (Reached(t, c.tcp_failures) => ~g.healthy)
        BY <1>0, <2>11, RefusedReport, Zenon DEF c
      <4> QED BY <4>1 DEF TargetHealth
    <3> HIDE DEF g, t
    <3>4. /\ Counted(new, Good, g.successes, c.successes)
          /\ Counted(new, Failing, g.http_failures, c.http_failures)
          /\ Counted(new, TimedOut, g.timeouts, c.timeouts)
          /\ ~Decides(new, Good, c.successes)
          /\ ~Decides(new, Failing, c.http_failures)
          /\ ~Decides(new, TimedOut, c.timeouts)
      BY <2>3, <2>4, <2>6, <3>2, <3>3
    <3>5. Decides(new, Refused, c.tcp_failures) => ~g.healthy BY <3>1, <3>3
    <3> QED BY <2>2, <2>8, <3>1, <3>3, <3>4, <3>5, Zenon DEF HealthOf, new, g, c
  <2>12. CASE kind = "timeout"
    <3>1. /\ o \in Nat /\ Counted(new, TimedOut, o, c.timeouts)
          /\ Decides(new, TimedOut, c.timeouts) => Reached(o, c.timeouts)
      BY <1>0, <2>0, <2>1, <2>7, RunGrows
    <3>2. kind \notin Good /\ kind \notin Failing /\ kind \notin Refused BY <2>12 DEF Good, Failing, Refused
    <3>3. /\ g \in TargetHealth /\ g.timeouts = o /\ (Reached(o, c.timeouts) => ~g.healthy)
          /\ g.successes = 0 /\ g.http_failures \in Nat /\ g.tcp_failures \in Nat
      <4>1. g \in TargetHealth /\ g.timeouts = o /\ g.successes = 0 /\ (Reached(o, c.timeouts) => ~g.healthy)
        BY <1>0, <2>12, TimeoutReport, Zenon DEF c
      <4> QED BY <4>1 DEF TargetHealth
    <3> HIDE DEF g, o
    <3>4. /\ Counted(new, Good, g.successes, c.successes)
          /\ Counted(new, Failing, g.http_failures, c.http_failures)
          /\ Counted(new, Refused, g.tcp_failures, c.tcp_failures)
          /\ ~Decides(new, Good, c.successes)
          /\ ~Decides(new, Failing, c.http_failures)
          /\ ~Decides(new, Refused, c.tcp_failures)
      BY <2>3, <2>4, <2>5, <3>2, <3>3
    <3>5. Decides(new, TimedOut, c.timeouts) => ~g.healthy BY <3>1, <3>3
    <3> QED BY <2>2, <2>8, <3>1, <3>3, <3>4, <3>5, Zenon DEF HealthOf, new, g, c
  <2> QED BY <1>2, <2>9, <2>10, <2>11, <2>12 DEF Good, ReportKinds
<1> QED BY <1>1, <1>2

(* A target that was just registered owes nothing. *)
LEMMA FreshIs ==
  ASSUME NEW c, ThresholdsAre(c)
  PROVE  /\ FreshHealth \in TargetHealth /\ FreshHealth.successes = 0
         /\ <<>> \in Seq(ReportKinds) /\ Len(<<>>) = 0
         /\ \A kinds : LastIn(<<>>, 0, kinds)
         /\ \A kinds, threshold : Counted(<<>>, kinds, 0, threshold)
         /\ \A kinds : \A threshold \in Int : ~Decides(<<>>, kinds, threshold)
<1>1. FreshHealth \in TargetHealth /\ FreshHealth.successes = 0 BY DEF FreshHealth, TargetHealth
<1>2. <<>> \in Seq(ReportKinds) /\ Len(<<>>) = 0 OBVIOUS
<1>3. 0..(0 - 1) = {} /\ 0..0 = {0} /\ 0 >= 0 OBVIOUS
<1>4. \A kinds : LastIn(<<>>, 0, kinds) BY <1>3, Zenon DEF LastIn
<1>5. \A kinds, threshold : Counted(<<>>, kinds, 0, threshold) BY <1>2, <1>3 DEF Counted
<1>6. \A kinds : \A threshold \in Int : ~Decides(<<>>, kinds, threshold) BY <1>2 DEF Decides
<1> QED BY <1>1, <1>2, <1>4, <1>5, <1>6

(* Registering an upstream starts all its targets afresh. *)
LEMMA RegisteringHealth ==
  ASSUME HealthInv, register_upstream
  PROVE  HealthInv'
<1>1. PICK list \in TargetLists, c \in Configs :
        LET addrs == {list[i].address : i \in DOMAIN list}
        IN /\ health' = [a \in addrs |-> FreshHealth]
           /\ seen' = [a \in addrs |-> <<>>]
           /\ config' = c
  BY DEF register_upstream
<1> DEFINE addrs == {list[i].address : i \in DOMAIN list}
<1>2. ThresholdsAre(c) BY BalancingAssumption DEF ThresholdsAre
<1>3. DOMAIN health' = addrs /\ DOMAIN seen' = addrs BY <1>1
<1>4. ASSUME NEW a \in addrs PROVE HealthOf(seen[a], health[a], config)'
  <2>1. seen'[a] = <<>> /\ health'[a] = FreshHealth /\ config' = c BY <1>1
  <2>2. c.successes \in Int /\ c.http_failures \in Int /\ c.tcp_failures \in Int /\ c.timeouts \in Int
    BY <1>2 DEF ThresholdsAre
  <2>3. /\ FreshHealth.http_failures = 0 /\ FreshHealth.tcp_failures = 0 /\ FreshHealth.timeouts = 0
        /\ 0 <= Len(<<>>)
    BY DEF FreshHealth
  <2> QED BY <1>2, <2>1, <2>2, <2>3, FreshIs, Zenon DEF HealthOf
<1> QED BY <1>1, <1>3, <1>4, Zenon DEF HealthInv

(* A passive or an active report changes one registered target. *)
LEMMA ReportingHealth ==
  ASSUME HealthInv, NEW addr, NEW kind \in ReportKinds, update_health(addr, kind)
  PROVE  HealthInv'
<1>1. config' = config /\ ThresholdsAre(config) /\ config \in Configs
  BY BalancingAssumption DEF update_health, HealthInv, ThresholdsAre
<1>2. Remembered' = Remembered BY <1>1 DEF Remembered
<1>3. CASE addr \notin DOMAIN health
  <2>1. health' = health /\ seen' = seen BY <1>3 DEF update_health
  <2>2. \A a \in DOMAIN health : HealthOf(seen[a], health[a], config)'
    BY <1>1, <1>2, <2>1 DEF HealthInv, HealthOf
  <2> QED BY <1>1, <2>1, <2>2 DEF HealthInv
<1>4. CASE addr \in DOMAIN health
  <2>1. /\ health' = [health EXCEPT ![addr] = Reported(health[addr], config, kind)]
        /\ seen' = [seen EXCEPT ![addr] = Noted(seen[addr], kind)]
    BY <1>4 DEF update_health
  <2>2. DOMAIN health' = DOMAIN health /\ DOMAIN seen' = DOMAIN seen /\ addr \in DOMAIN seen
    BY <1>4, <2>1 DEF HealthInv
  <2>3. ASSUME NEW a \in DOMAIN health PROVE HealthOf(seen[a], health[a], config)'
    <3>1. HealthOf(seen[a], health[a], config) BY DEF HealthInv
    <3>2. HealthOf(seen'[a], health'[a], config)
      <4>1. CASE a # addr BY <3>1, <4>1, <2>1, <2>2 DEF HealthInv
      <4>2. CASE a = addr
        <5>1. seen'[a] = Noted(seen[a], kind) /\ health'[a] = Reported(health[a], config, kind)
          BY <4>2, <1>4, <2>1, <2>2
        <5> QED BY <1>1, <3>1, <5>1, ReportedKeeps
      <4> QED BY <4>1, <4>2
    <3> QED BY <1>1, <1>2, <3>2, Zenon DEF HealthOf
  <2> QED BY <1>1, <2>2, <2>3, Zenon DEF HealthInv
<1> QED BY <1>3, <1>4

(* The health of every registered target follows its reports (health.rs), *)
(* over registrations, rebuilt balancers, passive reports and rounds of   *)
(* active checks that outlive the registration they started from.         *)
LEMMA HealthInvariant == BalancingSpec => []HealthInv
<1>1. BalancingInit => HealthInv
  <2>1. DOMAIN <<>> = {} OBVIOUS
  <2> QED BY <2>1 DEF BalancingInit, HealthInv
<1>2. ASSUME HealthInv, [Balancing \/ HealthChecking]_balancingVars PROVE HealthInv'
  <2>0. ASSUME UNCHANGED <<health, seen, config>> PROVE HealthInv'
    BY <1>2, <2>0 DEF HealthInv, HealthOf, Remembered
  <2>1. CASE Balancing
    BY <2>0, <2>1 DEF Balancing, NewBalancer, update_targets, Select, increment_connections, decrement_connections
  <2>2. CASE register_upstream BY <1>2, <2>2, RegisteringHealth
  <2>3. CASE PassiveReport
    <3>1. PICK i \in Indices, kind \in Reports(config) : update_health(targets[i].address, kind)
      BY <2>3 DEF PassiveReport
    <3>2. kind \in ReportKinds BY <1>2, BalancingAssumption DEF HealthInv
    <3> QED BY <1>2, <3>1, <3>2, ReportingHealth
  <2>4. CASE StartRound BY <2>0, <2>4 DEF StartRound
  <2>5. CASE ProbeAnswers
    <3>1. PICK addr \in probes, kind \in {"healthy", "unhealthy", "tcp", "timeout"} : update_health(addr, kind)
      BY <2>5 DEF ProbeAnswers
    <3>2. kind \in ReportKinds BY DEF ReportKinds
    <3> QED BY <1>2, <3>1, <3>2, ReportingHealth
  <2>6. CASE UNCHANGED balancingVars BY <2>0, <2>6 DEF balancingVars
  <2> QED BY <1>2, <2>1, <2>2, <2>3, <2>4, <2>5, <2>6 DEF HealthChecking
<1> QED BY <1>1, <1>2, PTL DEF BalancingSpec

(* HealthFollowsRuns: a run of consecutive reports of one kind, as long as its *)
(* threshold, decides, and the successes a target is credited with were        *)
(* consecutive: for any targets, thresholds, algorithms and bounds.            *)
THEOREM HealthDecided == BalancingSpec => []HealthFollowsRuns
<1>1. ASSUME HealthInv, NEW a \in DOMAIN health
      PROVE  LET run(kinds, n) == /\ n > 0 /\ Len(seen[a]) >= n
                                  /\ \A k \in (Len(seen[a]) - n + 1)..Len(seen[a]) : seen[a][k] \in kinds
             IN /\ run({"healthy", "success"}, config.successes) => health[a].healthy
                /\ run({"unhealthy"}, config.http_failures) => ~health[a].healthy
                /\ run({"tcp"}, config.tcp_failures) => ~health[a].healthy
                /\ run({"timeout"}, config.timeouts) => ~health[a].healthy
                /\ health[a].successes >= 2 => run({"healthy", "success"}, 2)
  <2> DEFINE log == seen[a]
             run(kinds, n) == /\ n > 0 /\ Len(log) >= n
                              /\ \A k \in (Len(log) - n + 1)..Len(log) : log[k] \in kinds
  <2>0. HealthOf(log, health[a], config) /\ ThresholdsAre(config)
    BY <1>1, BalancingAssumption DEF HealthInv, ThresholdsAre
  <2>1. Len(log) \in Nat BY <2>0 DEF HealthOf
  <2>2. ASSUME NEW kinds, NEW n \in Int, run(kinds, n) PROVE Decides(log, kinds, n)
    <3>1. ASSUME NEW j \in 0..(n - 1) PROVE log[Len(log) - j] \in kinds
      <4>1. Len(log) - j \in (Len(log) - n + 1)..Len(log) BY <2>1
      <4> QED BY <2>2, <4>1
    <3> QED BY <2>2, <3>1 DEF Decides, LastIn
  <2>3. /\ run(Good, config.successes) => health[a].healthy
        /\ run(Failing, config.http_failures) => ~health[a].healthy
        /\ run(Refused, config.tcp_failures) => ~health[a].healthy
        /\ run(TimedOut, config.timeouts) => ~health[a].healthy
    <3> HIDE DEF run, log
    <3> QED BY <2>0, <2>2, Zenon DEF HealthOf, ThresholdsAre
  <2>4. ASSUME health[a].successes >= 2 PROVE run(Good, 2)
    <3>1. /\ health[a].successes \in Nat /\ health[a].successes <= Len(log)
          /\ LastIn(log, health[a].successes, Good)
      BY <2>0 DEF HealthOf, TargetHealth
    <3>2. ASSUME NEW k \in (Len(log) - 2 + 1)..Len(log) PROVE log[k] \in Good
      <4>1. Len(log) - k \in 0..(health[a].successes - 1) /\ Len(log) - (Len(log) - k) = k
        BY <2>1, <2>4, <3>1
      <4> QED BY <3>1, <4>1 DEF LastIn
    <3> QED BY <2>1, <2>4, <3>1, <3>2
  <2> QED BY <2>3, <2>4, Zenon DEF Good, Failing, Refused, TimedOut
<1>2. HealthInv => HealthFollowsRuns BY <1>1, Zenon DEF HealthFollowsRuns
<1> QED BY <1>2, HealthInvariant, PTL

-----------------------------------------------------------------------------
(* Certificates of layer-4 connections *)

\* The names find_certificate tries, in its order.
Tried(name) == <<name, produce_wild_prefix(name), produce_wild_suffix(name), <<"*">>>>

(* A name that fits is the name tried for its fit. *)
LEMMA FitIsTried ==
  ASSUME NEW S, NEW name \in Seq(S), name # <<>>, NEW n \in Seq(S), Fit(n, name) > 0
  PROVE  /\ Fit(n, name) \in 1..4
         /\ n = Tried(name)[5 - Fit(n, name)]
<1>0. Len(name) \in Nat /\ Len(name) > 0 /\ Len(n) \in Nat OBVIOUS
<1>1. CASE n = name
  <2>1. Fit(n, name) = 4 /\ 5 - 4 = 1 BY <1>1 DEF Fit
  <2>2. Tried(name)[1] = name BY DEF Tried
  <2> QED BY <1>1, <2>1, <2>2
<1>2. CASE n # name /\ n = <<"*">>
  <2>1. Fit(n, name) = 1 /\ 5 - 1 = 4 BY <1>2 DEF Fit
  <2>2. Tried(name)[4] = <<"*">> BY DEF Tried
  <2> QED BY <1>2, <2>1, <2>2
<1>3. CASE n # name /\ n # <<"*">>
  <2>1. Len(n) = Len(name) BY <1>3 DEF Fit
  <2>2. CASE n[1] = "*" /\ Tail(n) = Tail(name) /\ Len(name) > 2
    <3>1. Fit(n, name) = 3 /\ 5 - 3 = 2 BY <1>3, <2>1, <2>2 DEF Fit
    <3>2. Tried(name)[2] = <<"*">> \o Tail(name) BY <2>2 DEF Tried, produce_wild_prefix
    <3>3. n = <<"*">> \o Tail(name)
      <4>1. n = <<n[1]>> \o Tail(n) BY <1>0, <2>1
      <4> QED BY <2>2, <4>1
    <3> QED BY <3>1, <3>2, <3>3
  <2>3. CASE ~(n[1] = "*" /\ Tail(n) = Tail(name) /\ Len(name) > 2)
    <3>1. Last(n) = "*" /\ Front(n) = Front(name) /\ Len(name) > 1 /\ Fit(n, name) = 2 /\ 5 - 2 = 3
      BY <1>3, <2>1, <2>3 DEF Fit
    <3>2. Tried(name)[3] = Append(Front(name), "*") BY <3>1 DEF Tried, produce_wild_suffix
    <3>3. n = Append(Front(name), "*")
      <4>1. n = Append(SubSeq(n, 1, Len(n) - 1), n[Len(n)]) BY <1>0, <2>1
      <4> QED BY <3>1, <4>1 DEF Last, Front
    <3> QED BY <3>1, <3>2, <3>3
  <2> QED BY <2>2, <2>3
<1> QED BY <1>1, <1>2, <1>3

(* A name that is tried fits, and the earlier it is tried the better. *)
LEMMA TriedFits ==
  ASSUME NEW S, "*" \in S, NEW name \in Seq(S), name # <<>>, NEW k \in 1..4, Tried(name)[k] # NoValue
  PROVE  Fit(Tried(name)[k], name) >= 5 - k
<1>0. Len(name) \in Nat /\ Len(name) > 0 OBVIOUS
<1>1. CASE k = 1
  <2>1. Tried(name)[1] = name BY DEF Tried
  <2>2. Fit(name, name) = 4 BY DEF Fit
  <2> QED BY <1>1, <2>1, <2>2
<1>2. CASE k = 2
  <2> DEFINE n == <<"*">> \o Tail(name)
  <2>1. Tried(name)[2] = n /\ Len(name) > 2 BY <1>2 DEF Tried, produce_wild_prefix
  <2>2. /\ Tail(name) \in Seq(S) /\ Len(Tail(name)) = Len(name) - 1 BY <1>0
  <2>3. Len(n) = Len(name) /\ n[1] = "*" BY <1>0, <2>2
  <2>4. Tail(n) = Tail(name) BY <2>2
  <2>5. n # <<"*">>
    <3>1. Len(<<"*">>) = 1 OBVIOUS
    <3> QED BY <2>1, <2>3, <3>1
  <2> HIDE DEF n
  <2>6. Fit(n, name) \in {4, 3} BY <2>1, <2>3, <2>4, <2>5 DEF Fit
  <2> QED BY <1>2, <2>1, <2>6
<1>3. CASE k = 3
  <2> DEFINE n == Append(Front(name), "*")
  <2>1. Tried(name)[3] = n /\ Len(name) > 1 BY <1>3 DEF Tried, produce_wild_suffix
  <2>2. Front(name) \in Seq(S) /\ Len(Front(name)) = Len(name) - 1
    <3>1. \A i \in 1..(Len(name) - 1) : name[i] \in S BY <1>0
    <3> QED BY <1>0, <2>1, <3>1, SubSeqProperties DEF Front
  <2>3. Len(n) = Len(name) /\ Last(n) = "*" BY <1>0, <2>2 DEF Last
  <2>4. Front(n) = Front(name) BY <2>2, <1>0 DEF Front
  <2>5. n # <<"*">>
    <3>1. Len(<<"*">>) = 1 OBVIOUS
    <3> QED BY <2>1, <2>3, <3>1
  <2> HIDE DEF n
  <2>6. Fit(n, name) \in {4, 3, 2} BY <2>1, <2>3, <2>4, <2>5 DEF Fit
  <2> QED BY <1>3, <2>1, <2>6
<1>4. CASE k = 4
  <2>1. Tried(name)[4] = <<"*">> BY DEF Tried
  <2>2. Fit(<<"*">>, name) \in {4, 1} BY DEF Fit
  <2> QED BY <1>4, <2>1, <2>2
<1> QED BY <1>1, <1>2, <1>3, <1>4

Elements(s) == {s[k] : k \in DOMAIN s}

Named(load) == \A n \in DOMAIN load.snis : n # NoValue /\ IsList(n)

(* The first of four places that hits. *)
LEMMA FirstOfFour ==
  ASSUME NEW hits, hits \subseteq 1..4, hits # {}
  PROVE  \E i \in hits : \A j \in hits : i <= j
<1>1. CASE 1 \in hits BY <1>1
<1>2. CASE 1 \notin hits /\ 2 \in hits BY <1>2
<1>3. CASE 1 \notin hits /\ 2 \notin hits /\ 3 \in hits BY <1>3
<1>4. CASE 1 \notin hits /\ 2 \notin hits /\ 3 \notin hits
  <2>1. \A i \in hits : i \in 1..4 /\ i # 1 /\ i # 2 /\ i # 3 BY <1>4
  <2>2. \A i \in hits : i = 4 BY <2>1
  <2>3. PICK i \in hits : TRUE OBVIOUS
  <2>4. \A j \in hits : i <= j BY <2>2
  <2> QED BY <2>4
<1> QED BY <1>1, <1>2, <1>3, <1>4

(* Once the names of a load are stored, a server name is given the            *)
(* certificate the load binds best to it.                                     *)
LEMMA CertificateFound ==
  ASSUME NEW load, Named(load), NEW sni, IsList(sni), sni_map = SniMap(load)
  PROVE  find_certificate(sni) = CertificateIn(load, sni)
<1> DEFINE name == [i \in DOMAIN sni |-> Lower[sni[i]]]
           tried == Tried(name)
           kept == {m \in DOMAIN load.snis : load.snis[m] \in DOMAIN load.certs}
           bound == {n \in DOMAIN load.snis : load.snis[n] \in DOMAIN load.certs /\ Fit(n, name) > 0}
           best == {n \in bound : \A m \in bound : Fit(m, name) <= Fit(n, name)}
           hits == {i \in DOMAIN tried : tried[i] \in DOMAIN sni_map}
           first == CHOOSE i \in hits : \A j \in hits : i <= j
<1>1. /\ find_certificate(sni) = IF sni = <<>> \/ (IF hits = {} THEN 0 ELSE first) = 0 THEN DefaultCert
                                 ELSE sni_map[tried[IF hits = {} THEN 0 ELSE first]]
      /\ CertificateIn(load, sni) = IF sni = <<>> \/ bound = {} THEN DefaultCert
                                    ELSE load.certs[load.snis[CHOOSE n \in best : TRUE]]
  BY DEF find_certificate, CertificateIn, FirstMatch, Tried
<1>2. /\ DOMAIN sni_map = kept /\ \A n \in kept : sni_map[n] = load.certs[load.snis[n]]
  BY DEF SniMap
<1>3. DOMAIN tried = 1..4 BY DEF Tried
<1>4. CASE sni = <<>> BY <1>1, <1>4
<1>5. CASE sni # <<>>
  <2>1. sni \in Seq(Elements(sni)) BY DEF IsList, Elements
  <2>2. Len(sni) \in Nat /\ DOMAIN sni = 1..Len(sni) /\ Len(sni) > 0 BY <1>5, <2>1
  <2>3. name \in Seq(Elements(name)) /\ name # <<>>
    <3>1. DOMAIN name = 1..Len(sni) /\ \A i \in 1..Len(sni) : name[i] \in Elements(name) BY <2>2 DEF Elements
    <3>2. name = [i \in 1..Len(sni) |-> name[i]] BY <2>2
    <3> HIDE DEF name
    <3>3. name \in [1..Len(sni) -> Elements(name)] BY <3>1, <3>2, Zenon
    <3>4. name \in Seq(Elements(name)) BY <2>2, <3>3
    <3>5. DOMAIN <<>> # 1..Len(sni) BY <2>2
    <3> QED BY <3>1, <3>4, <3>5
  <2> HIDE DEF name
  <2>4. ASSUME NEW n \in DOMAIN load.snis
        PROVE  /\ Fit(n, name) > 0 => Fit(n, name) \in 1..4 /\ n = tried[5 - Fit(n, name)]
               /\ \A k \in 1..4 : n = tried[k] => Fit(n, name) >= 5 - k
    <3> DEFINE S == Elements(name) \cup Elements(n) \cup {"*"}
    <3>1. n # NoValue /\ n \in Seq(Elements(n)) BY DEF Named, IsList, Elements
    <3>2. "*" \in S /\ Elements(n) \subseteq S /\ Elements(name) \subseteq S OBVIOUS
    <3> HIDE DEF S
    <3>3. n \in Seq(S) /\ name \in Seq(S) BY <2>3, <3>1, <3>2
    <3>4. Fit(n, name) > 0 => Fit(n, name) \in 1..4 /\ n = tried[5 - Fit(n, name)]
      BY <2>3, <3>3, FitIsTried
    <3>5. \A k \in 1..4 : n = tried[k] => Fit(n, name) >= 5 - k BY <2>3, <3>1, <3>2, <3>3, TriedFits
    <3> QED BY <3>4, <3>5
  <2> HIDE DEF tried
  <2>5. CASE hits = {}
    <3>1. bound = {}
      <4> SUFFICES ASSUME NEW n \in bound PROVE FALSE OBVIOUS
      <4>1. Fit(n, name) \in 1..4 /\ n = tried[5 - Fit(n, name)] BY <2>4
      <4>2. 5 - Fit(n, name) \in 1..4 BY <4>1
      <4>3. n \in DOMAIN sni_map BY <1>2
      <4> QED BY <1>3, <2>5, <4>1, <4>2, <4>3
    <3> QED BY <1>1, <2>5, <3>1
  <2>6. CASE hits # {}
    <3> DEFINE t == tried[first]
    <3>1. hits \subseteq 1..4 BY <1>3
    <3>2. first \in hits /\ \A j \in hits : first <= j BY <2>6, <3>1, FirstOfFour, Zenon
    <3> HIDE DEF first
    <3>3. first \in 1..4 /\ first # 0 BY <3>1, <3>2
    <3>4. t \in kept /\ t \in DOMAIN load.snis BY <1>2, <3>2
    <3>5. Fit(t, name) >= 5 - first BY <2>4, <3>3, <3>4
    <3> HIDE DEF t
    <3>6. \A n \in bound : Fit(n, name) \in 1..4 /\ n = tried[5 - Fit(n, name)] BY <2>4
    <3>7. ASSUME NEW n \in bound PROVE Fit(n, name) <= 5 - first
      <4>1. Fit(n, name) \in 1..4 /\ n = tried[5 - Fit(n, name)] BY <3>6
      <4>2. 5 - Fit(n, name) \in 1..4 BY <4>1
      <4>3. n \in DOMAIN sni_map BY <1>2
      <4>4. 5 - Fit(n, name) \in hits BY <1>3, <4>1, <4>2, <4>3
      <4>5. first <= 5 - Fit(n, name) BY <3>2, <4>4
      <4> QED BY <3>3, <4>1, <4>5
    <3>8. Fit(t, name) > 0
      <4>1. Fit(t, name) \in Int
        <5>1. \A n, m : Fit(n, m) \in Int BY DEF Fit
        <5> QED BY <5>1
      <4> QED BY <3>3, <3>5, <4>1
    <3>9. t \in bound BY <3>4, <3>8
    <3>10. Fit(t, name) \in 1..4 BY <3>6, <3>9
    <3>11. t \in best
      <4>1. \A m \in bound : Fit(m, name) <= Fit(t, name) BY <3>3, <3>5, <3>6, <3>7, <3>10
      <4> QED BY <3>9, <4>1
    <3>12. ASSUME NEW n \in best PROVE n = t
      <4>1. Fit(n, name) <= Fit(t, name) /\ Fit(t, name) <= Fit(n, name) BY <3>9, <3>11
      <4>2. Fit(n, name) \in 1..4 /\ n = tried[5 - Fit(n, name)] BY <3>6
      <4>3. Fit(n, name) = Fit(t, name) BY <3>10, <4>1, <4>2
      <4>4. t = tried[5 - Fit(t, name)] BY <3>6, <3>9
      <4> QED BY <4>2, <4>3, <4>4
    <3>13. (CHOOSE n \in best : TRUE) = t BY <3>11, <3>12
    <3> HIDE DEF best, hits, bound, kept
    <3>14. find_certificate(sni) = sni_map[t] BY <1>1, <1>5, <2>6, <3>3 DEF t
    <3>15. CertificateIn(load, sni) = load.certs[load.snis[t]] BY <1>1, <1>5, <3>9, <3>13
    <3> QED BY <1>2, <3>4, <3>14, <3>15
  <2> QED BY <2>5, <2>6
<1> QED BY <1>4, <1>5

ConnFields == {"pc", "ctx", "tls", "table", "route", "service", "mode", "cert", "since", "status"}

NoLoad == [certs |-> <<>>, snis |-> <<>>]

\* The load whose names are in force, the last one stored.
Current == IF loads = <<>> THEN NoLoad ELSE loads[1]

\* The loads a connection may be served from.
InForce(since) ==
  LET recent == {loads[k] : k \in {j \in DOMAIN loads : j <= Len(loads) - since + 1}}
  IN IF since = 0 THEN recent \cup {NoLoad} ELSE recent

\* A connection the proxy terminates.
Terminated(c) ==
  /\ c.tls /\ c.mode = "terminate"
  /\ "tls" \in RouteOf(c).protocols /\ "tls_passthrough" \notin RouteOf(c).protocols

ConnInv(c) ==
  /\ DOMAIN c = ConnFields
  /\ c.since \in Nat /\ c.since <= Len(loads)
  /\ c.pc = "idle" => c.cert = NoValue /\ c.status = NoValue
  /\ c.pc # "idle" => IsList(c.ctx.sni)
  /\ c.pc \in {"route", "service", "handshake"} => c.cert = NoValue
  /\ c.pc \notin {"closed"} => c.status # "OK"
  /\ c.pc = "handshake" => Terminated(c) /\ c.service # NoValue
  /\ c.pc \in {"connect", "copy"} => c.service # NoValue /\ (c.mode = "terminate" => c.cert # NoValue)
  /\ c.cert # NoValue =>
       Terminated(c) /\ \E load \in InForce(c.since) : c.cert = CertificateIn(load, c.ctx.sni)
  /\ c.status = "OK" => c.service # NoValue /\ (c.mode = "terminate" => c.cert # NoValue)

StreamInv ==
  /\ loads \in Seq(CertLoads)
  /\ loading # NoValue => loading.load \in CertLoads /\ loading.map = SniMap(loading.load)
  /\ sni_map = SniMap(Current)
  /\ l4services \in L4Services
  /\ ConnInv(conn)

(* A load that is stored leaves the others in force, and is in force itself. *)
LEMMA StillInForce ==
  ASSUME loads \in Seq(CertLoads), NEW load \in CertLoads, loads' = <<load>> \o loads,
         NEW since \in Nat, since <= Len(loads)
  PROVE  InForce(since) \subseteq InForce(since)' /\ Len(loads') = Len(loads) + 1
<1>1. /\ Len(loads) \in Nat /\ DOMAIN loads = 1..Len(loads) /\ loads' \in Seq(CertLoads)
      /\ Len(loads') = Len(loads) + 1 /\ DOMAIN loads' = 1..(Len(loads) + 1)
      /\ \A k \in 1..Len(loads) : loads'[k + 1] = loads[k]
  OBVIOUS
<1>2. ASSUME NEW k \in DOMAIN loads, k <= Len(loads) - since + 1
      PROVE  \E j \in DOMAIN loads' : j <= Len(loads') - since + 1 /\ loads'[j] = loads[k]
  <2>1. k + 1 \in DOMAIN loads' /\ k + 1 <= Len(loads') - since + 1 BY <1>1, <1>2
  <2> QED BY <1>1, <1>2, <2>1
<1>3. InForce(since) \subseteq InForce(since)' BY <1>2, Zenon DEF InForce
<1> QED BY <1>1, <1>3

(* The names in force are those of a load the connection may be served from. *)
LEMMA CurrentInForce ==
  ASSUME StreamInv
  PROVE  Current \in InForce(conn.since) /\ Named(Current)
<1>1. loads \in Seq(CertLoads) /\ conn.since \in Nat /\ conn.since <= Len(loads) BY DEF StreamInv, ConnInv
<1>2. CASE loads = <<>>
  <2>1. conn.since = 0 BY <1>1, <1>2
  <2>2. Current \in InForce(conn.since) BY <1>2, <2>1 DEF Current, InForce
  <2>3. DOMAIN NoLoad.snis = {} BY DEF NoLoad
  <2> QED BY <1>2, <2>2, <2>3 DEF Current, Named
<1>3. CASE loads # <<>>
  <2>1. 1 \in DOMAIN loads /\ 1 <= Len(loads) - conn.since + 1 /\ loads[1] \in CertLoads BY <1>1, <1>3
  <2>2. loads[1] \in InForce(conn.since) BY <2>1 DEF InForce
  <2>3. Named(loads[1]) BY <2>1, StreamAssumption DEF Named
  <2> QED BY <1>3, <2>2, <2>3 DEF Current
<1> QED BY <1>2, <1>3

(* A step of the connection alone keeps the invariant if it keeps the connection's. *)
LEMMA ConnMoves ==
  ASSUME StreamInv, UNCHANGED <<cert_cache, sni_map, loading, l4services, loads>>, ConnInv(conn')
  PROVE  StreamInv'
<1>1. Current' = Current BY DEF Current
<1>2. \A since : InForce(since)' = InForce(since) BY DEF InForce
<1>3. ConnInv(conn)' BY <1>2 DEF ConnInv, Terminated
<1>4. (sni_map = SniMap(Current))' BY <1>1 DEF StreamInv, SniMap
<1> QED BY <1>3, <1>4 DEF StreamInv, SniMap

(* A connection that is closed without success, or after it was copied. *)
LEMMA ClosedKeeps ==
  ASSUME NEW c, ConnInv(c), c.pc # "idle", NEW status, status # "OK" \/ c.pc = "copy"
  PROVE  ConnInv(Closed(c, status))
<1> DEFINE d == Closed(c, status)
<1>1. /\ DOMAIN d = ConnFields /\ d.pc = "closed" /\ d.status = status /\ d.ctx = c.ctx /\ d.tls = c.tls
      /\ d.table = c.table /\ d.route = c.route /\ d.service = c.service /\ d.mode = c.mode
      /\ d.cert = c.cert /\ d.since = c.since
  BY DEF ConnInv, ConnFields, Closed
<1> HIDE DEF d
<1>2. RouteOf(d) = RouteOf(c) BY <1>1 DEF RouteOf
<1>3. Terminated(c) => Terminated(d) BY <1>1, <1>2 DEF Terminated
<1>4. d.status = "OK" => d.service # NoValue /\ (d.mode = "terminate" => d.cert # NoValue)
  BY <1>1 DEF ConnInv
<1>5. ConnInv(d) BY <1>1, <1>3, <1>4 DEF ConnInv
<1> QED BY <1>5 DEF d

(* A connection arrives and is routed. *)
LEMMA ArrivingStream ==
  ASSUME StreamInv, Peek \/ RouteStream
  PROVE  StreamInv'
<1>0. ConnInv(conn) /\ loads \in Seq(CertLoads) BY DEF StreamInv
<1>1. CASE Peek
  <2>1. PICK h \in Handshakes : \E seenSni \in parse_sni_from_client_hello(h) :
          conn' = [conn EXCEPT !.pc = "route", !.ctx = [h.ctx EXCEPT !.sni = seenSni], !.tls = h.tls,
                               !.since = Len(loads)]
    BY <1>1 DEF Peek
  <2>2. PICK seenSni \in parse_sni_from_client_hello(h) :
          conn' = [conn EXCEPT !.pc = "route", !.ctx = [h.ctx EXCEPT !.sni = seenSni], !.tls = h.tls,
                               !.since = Len(loads)]
    BY <2>1
  <2>3. IsList(seenSni)
    <3>1. IsList(<<>>) BY DEF IsList
    <3> QED BY <3>1, StreamAssumption DEF parse_sni_from_client_hello
  <2> DEFINE ctx == [h.ctx EXCEPT !.sni = seenSni]
  <2>4. ctx.sni = seenSni BY StreamAssumption
  <2> HIDE DEF ctx
  <2>5. conn.pc = "idle" /\ conn.cert = NoValue /\ conn.status = NoValue
    BY <1>0, <1>1 DEF Peek, ConnInv
  <2>6. /\ DOMAIN conn' = ConnFields /\ conn'.pc = "route" /\ conn'.ctx = ctx /\ conn'.since = Len(loads)
        /\ conn'.cert = NoValue /\ conn'.status = NoValue
    BY <1>0, <2>2, <2>5 DEF ctx, ConnInv, ConnFields
  <2>7. Len(loads) \in Nat BY <1>0
  <2>8. ConnInv(conn') BY <2>3, <2>4, <2>6, <2>7, StreamAssumption DEF ConnInv
  <2> QED BY <1>1, <2>8, ConnMoves DEF Peek
<1>2. CASE RouteStream
  <2>1. conn.pc = "route" BY <1>2 DEF RouteStream
  <2>2. PICK found :
          \/ conn' = Closed(conn, "NO_ROUTE")
          \/ conn' = [conn EXCEPT !.pc = "service", !.table = streamTable, !.route = found]
    BY <1>2 DEF RouteStream
  <2>3. CASE conn' = Closed(conn, "NO_ROUTE")
    <3>1. ConnInv(Closed(conn, "NO_ROUTE")) BY <1>0, <2>1, ClosedKeeps
    <3> QED BY <1>2, <2>3, <3>1, ConnMoves DEF RouteStream
  <2>4. CASE conn' = [conn EXCEPT !.pc = "service", !.table = streamTable, !.route = found]
    <3>1. /\ DOMAIN conn' = ConnFields /\ conn'.pc = "service" /\ conn'.ctx = conn.ctx
          /\ conn'.since = conn.since /\ conn'.cert = conn.cert /\ conn'.status = conn.status
      BY <1>0, <2>4 DEF ConnInv, ConnFields
    <3>2. ConnInv(conn') BY <1>0, <2>1, <3>1 DEF ConnInv
    <3> QED BY <1>2, <3>2, ConnMoves DEF RouteStream
  <2> QED BY <2>2, <2>3, <2>4
<1> QED BY <1>1, <1>2

(* The service of the route decides whether and how the connection goes on. *)
LEMMA ServingStream ==
  ASSUME StreamInv, LookupL4Service
  PROVE  StreamInv'
<1> DEFINE id == ServiceOf[conn.route]
           mode == Mode(RouteOf(conn), conn.tls)
<1>0. ConnInv(conn) /\ l4services \in L4Services /\ conn.pc = "service" BY DEF StreamInv, LookupL4Service
<1>1. CASE id \notin DOMAIN l4services \/ ~l4services[id].enabled
  <2>1. conn' = Closed(conn, "NO_SVC") BY <1>1 DEF LookupL4Service
  <2>2. ConnInv(Closed(conn, "NO_SVC")) BY <1>0, ClosedKeeps
  <2> QED BY <2>1, <2>2, ConnMoves DEF LookupL4Service
<1>2. CASE ~(id \notin DOMAIN l4services \/ ~l4services[id].enabled)
  <2>1. id # NoValue BY <1>0, <1>2, StreamAssumption
  <2>2. conn' = [conn EXCEPT !.pc = IF mode = "terminate" THEN "handshake" ELSE "connect",
                             !.service = id, !.mode = mode]
    BY <1>2 DEF LookupL4Service
  <2>3. mode = "terminate" =>
          conn.tls /\ "tls" \in RouteOf(conn).protocols /\ "tls_passthrough" \notin RouteOf(conn).protocols
    BY DEF Mode
  <2> HIDE DEF mode, id
  <2>4. /\ DOMAIN conn' = ConnFields /\ conn'.pc = IF mode = "terminate" THEN "handshake" ELSE "connect"
        /\ conn'.service = id /\ conn'.mode = mode /\ conn'.ctx = conn.ctx /\ conn'.tls = conn.tls
        /\ conn'.since = conn.since /\ conn'.cert = conn.cert /\ conn'.status = conn.status
        /\ conn'.table = conn.table /\ conn'.route = conn.route
    BY <1>0, <2>2 DEF ConnInv, ConnFields
  <2>5. RouteOf(conn') = RouteOf(conn) BY <2>4 DEF RouteOf
  <2>6. mode = "terminate" => Terminated(conn') BY <2>3, <2>4, <2>5 DEF Terminated
  <2>7. ConnInv(conn') BY <1>0, <2>1, <2>4, <2>6 DEF ConnInv
  <2> QED BY <2>7, ConnMoves DEF LookupL4Service
<1> QED BY <1>1, <1>2

(* A terminated connection is shown the certificate of the load in force. *)
LEMMA TerminatingStream ==
  ASSUME StreamInv, Terminate
  PROVE  StreamInv'
<1>0. ConnInv(conn) /\ conn.pc = "handshake" BY DEF StreamInv, Terminate
<1> DEFINE cert == find_certificate(conn.ctx.sni)
<1>1. PICK ok \in BuildTlsAcceptor(cert) :
        conn' = IF ok THEN [conn EXCEPT !.pc = "connect", !.cert = cert] ELSE Closed(conn, "ERR")
  BY DEF Terminate
<1>2. IsList(conn.ctx.sni) BY <1>0 DEF ConnInv
<1>3. Named(Current) /\ Current \in InForce(conn.since) /\ sni_map = SniMap(Current)
  BY CurrentInForce DEF StreamInv
<1>4. cert = CertificateIn(Current, conn.ctx.sni) BY <1>2, <1>3, CertificateFound
<1> HIDE DEF cert
<1>5. CASE ~ok
  <2>1. conn' = Closed(conn, "ERR") BY <1>1, <1>5
  <2>2. ConnInv(Closed(conn, "ERR")) BY <1>0, ClosedKeeps
  <2> QED BY <2>1, <2>2, ConnMoves DEF Terminate
<1>6. CASE ok
  <2>1. cert # NoValue BY <1>1, <1>6 DEF BuildTlsAcceptor
  <2>2. /\ DOMAIN conn' = ConnFields /\ conn'.pc = "connect" /\ conn'.cert = cert
        /\ conn'.service = conn.service /\ conn'.mode = conn.mode /\ conn'.ctx = conn.ctx /\ conn'.tls = conn.tls
        /\ conn'.since = conn.since /\ conn'.status = conn.status
        /\ conn'.table = conn.table /\ conn'.route = conn.route
    BY <1>0, <1>1, <1>6 DEF ConnInv, ConnFields
  <2>3. RouteOf(conn') = RouteOf(conn) BY <2>2 DEF RouteOf
  <2>4. Terminated(conn') BY <1>0, <2>2, <2>3 DEF Terminated, ConnInv
  <2>5. \E load \in InForce(conn'.since) : conn'.cert = CertificateIn(load, conn'.ctx.sni)
    BY <1>3, <1>4, <2>2
  <2>6. ConnInv(conn') BY <1>0, <2>1, <2>2, <2>4, <2>5 DEF ConnInv
  <2> QED BY <2>6, ConnMoves DEF Terminate
<1> QED BY <1>5, <1>6

(* The upstream is contacted, and the bytes are copied. *)
LEMMA CopyingStream ==
  ASSUME StreamInv, ConnectUpstream \/ BidirectionalCopy
  PROVE  StreamInv'
<1>0. ConnInv(conn) BY DEF StreamInv
<1>1. CASE ConnectUpstream
  <2>1. conn.pc = "connect" /\ (conn' = [conn EXCEPT !.pc = "copy"] \/ conn' = Closed(conn, "ERR"))
    BY <1>1 DEF ConnectUpstream
  <2>2. CASE conn' = Closed(conn, "ERR")
    <3>1. ConnInv(Closed(conn, "ERR")) BY <1>0, <2>1, ClosedKeeps
    <3> QED BY <1>1, <2>2, <3>1, ConnMoves DEF ConnectUpstream
  <2>3. CASE conn' = [conn EXCEPT !.pc = "copy"]
    <3>1. /\ DOMAIN conn' = ConnFields /\ conn'.pc = "copy" /\ conn'.cert = conn.cert
          /\ conn'.service = conn.service /\ conn'.mode = conn.mode /\ conn'.ctx = conn.ctx /\ conn'.tls = conn.tls
          /\ conn'.since = conn.since /\ conn'.status = conn.status
          /\ conn'.table = conn.table /\ conn'.route = conn.route
      BY <1>0, <2>3 DEF ConnInv, ConnFields
    <3>2. RouteOf(conn') = RouteOf(conn) BY <3>1 DEF RouteOf
    <3>3. Terminated(conn) => Terminated(conn') BY <3>1, <3>2 DEF Terminated
    <3>4. ConnInv(conn') BY <1>0, <2>1, <3>1, <3>3 DEF ConnInv
    <3> QED BY <1>1, <3>4, ConnMoves DEF ConnectUpstream
  <2> QED BY <2>1, <2>2, <2>3
<1>2. CASE BidirectionalCopy
  <2>1. PICK status \in {"OK", "ERR"} : conn' = Closed(conn, status) BY <1>2 DEF BidirectionalCopy
  <2>2. conn.pc = "copy" BY <1>2 DEF BidirectionalCopy
  <2>3. ConnInv(Closed(conn, status)) BY <1>0, <2>2, ClosedKeeps
  <2> QED BY <1>2, <2>1, <2>3, ConnMoves DEF BidirectionalCopy
<1> QED BY <1>1, <1>2

(* Certificates and services are published. *)
LEMMA PublishingStream ==
  ASSUME StreamInv, LoadCertificates \/ StoreSniMap \/ UpdateL4Services
  PROVE  StreamInv'
<1>1. CASE LoadCertificates
  <2>1. PICK load \in CertLoads : loading' = [map |-> SniMap(load), load |-> load]
    BY <1>1 DEF LoadCertificates
  <2>2. UNCHANGED <<sni_map, l4services, loads, conn>> BY <1>1 DEF LoadCertificates
  <2>3. loading'.load = load /\ loading'.map = SniMap(load) BY <2>1
  <2>4. Current' = Current /\ \A since : InForce(since)' = InForce(since) BY <2>2 DEF Current, InForce
  <2>5. ConnInv(conn)' BY <2>2, <2>4 DEF StreamInv, ConnInv, Terminated
  <2>6. (sni_map = SniMap(Current))' BY <2>2, <2>4 DEF StreamInv, SniMap
  <2> QED BY <2>2, <2>3, <2>5, <2>6 DEF StreamInv, SniMap
<1>2. CASE StoreSniMap
  <2>1. /\ loading # NoValue /\ sni_map' = loading.map /\ loads' = <<loading.load>> \o loads
        /\ loading' = NoValue /\ UNCHANGED <<l4services, conn>>
    BY <1>2 DEF StoreSniMap
  <2>2. loads \in Seq(CertLoads) /\ loading.load \in CertLoads /\ loading.map = SniMap(loading.load)
    BY <2>1 DEF StreamInv
  <2>3. loads' \in Seq(CertLoads) /\ loads' # <<>> /\ loads'[1] = loading.load BY <2>1, <2>2
  <2>4. Current' = loading.load BY <2>3 DEF Current
  <2>5. (sni_map = SniMap(Current))' BY <2>1, <2>2, <2>4 DEF SniMap
  <2>6. conn.since \in Nat /\ conn.since <= Len(loads) BY DEF StreamInv, ConnInv
  <2>7. InForce(conn.since) \subseteq InForce(conn.since)' /\ Len(loads') = Len(loads) + 1
    BY <2>1, <2>2, <2>6, StillInForce
  <2>8. conn.since <= Len(loads')
    <3>1. Len(loads) \in Nat BY <2>2
    <3> QED BY <2>6, <2>7, <3>1
  <2>9. ConnInv(conn)'
    <3>1. ConnInv(conn) BY DEF StreamInv
    <3>2. conn' = conn BY <2>1
    <3>3. (conn.cert # NoValue =>
             \E load \in InForce(conn.since) : conn.cert = CertificateIn(load, conn.ctx.sni))'
      BY <2>7, <3>1, <3>2 DEF ConnInv
    <3> QED BY <2>8, <3>1, <3>2, <3>3 DEF ConnInv, Terminated
  <2> QED BY <2>1, <2>3, <2>5, <2>9 DEF StreamInv
<1>3. CASE UpdateL4Services
  <2>1. l4services' \in L4Services /\ UNCHANGED <<sni_map, loading, loads, conn>> BY <1>3 DEF UpdateL4Services
  <2>2. Current' = Current /\ \A since : InForce(since)' = InForce(since) BY <2>1 DEF Current, InForce
  <2>3. ConnInv(conn)' BY <2>1, <2>2 DEF StreamInv, ConnInv, Terminated
  <2>4. (sni_map = SniMap(Current))' BY <2>1, <2>2 DEF StreamInv, SniMap
  <2> QED BY <2>1, <2>3, <2>4 DEF StreamInv, SniMap
<1> QED BY <1>1, <1>2, <1>3

(* Names and certificates of a layer-4 connection stay consistent. *)
LEMMA StreamInvariant == StreamSpec => []StreamInv
<1>1. StreamInit => StreamInv
  <2> SUFFICES ASSUME StreamInit PROVE StreamInv OBVIOUS
  <2>1. /\ sni_map = <<>> /\ loading = NoValue /\ loads = <<>> /\ l4services \in L4Services /\ conn = Idle
    BY DEF StreamInit
  <2>2. Current = NoLoad BY <2>1 DEF Current
  <2>3. SniMap(NoLoad) = <<>>
    <3>1. DOMAIN NoLoad.snis = {} BY DEF NoLoad
    <3>2. {m \in DOMAIN NoLoad.snis : NoLoad.snis[m] \in DOMAIN NoLoad.certs} = {} BY <3>1
    <3> QED BY <3>2 DEF SniMap
  <2>4. loads \in Seq(CertLoads) /\ Len(loads) = 0 BY <2>1
  <2>5. /\ DOMAIN conn = ConnFields /\ conn.pc = "idle" /\ conn.cert = NoValue /\ conn.status = NoValue
        /\ conn.since = 0
    BY <2>1 DEF Idle, ConnFields
  <2>6. ConnInv(conn) BY <2>4, <2>5, StreamAssumption DEF ConnInv
  <2> QED BY <2>1, <2>2, <2>3, <2>4, <2>6 DEF StreamInv
<1>2. ASSUME StreamInv, [Streaming]_streamVars PROVE StreamInv'
  <2>1. CASE Streaming
    BY <1>2, <2>1, ArrivingStream, ServingStream, TerminatingStream, CopyingStream, PublishingStream
       DEF Streaming
  <2>2. CASE UNCHANGED streamVars
    <3>1. UNCHANGED <<cert_cache, sni_map, loading, l4services, loads>> /\ conn' = conn BY <2>2 DEF streamVars
    <3>2. ConnInv(conn') BY <1>2, <3>1 DEF StreamInv
    <3> QED BY <1>2, <3>1, <3>2, ConnMoves
  <2> QED BY <1>2, <2>1, <2>2
<1> QED BY <1>1, <1>2, PTL DEF StreamSpec

(* StreamServed: a client is shown the certificate one published load binds   *)
(* best to its server name, a load no older than its connection; and only a   *)
(* connection its route lets the proxy terminate is decrypted: for any        *)
(* handshakes, routes, certificates, names and services, whenever these are   *)
(* published (find_certificate, load_certificates, do_proxy).                 *)
THEOREM ServesStreams == StreamSpec => []StreamServed
<1>1. StreamInv => StreamServed
  <2> SUFFICES ASSUME StreamInv PROVE StreamServed OBVIOUS
  <2>1. ConnInv(conn) BY DEF StreamInv
  <2>2. conn.cert # NoValue =>
          /\ conn.tls /\ conn.mode = "terminate"
          /\ "tls" \in RouteOf(conn).protocols /\ "tls_passthrough" \notin RouteOf(conn).protocols
          /\ \E load \in InForce(conn.since) : conn.cert = CertificateIn(load, conn.ctx.sni)
    BY <2>1 DEF ConnInv, Terminated
  <2>3. conn.status = "OK" => conn.service # NoValue /\ (conn.mode = "terminate" => conn.cert # NoValue)
    BY <2>1 DEF ConnInv
  <2> QED BY <2>2, <2>3, Zenon DEF StreamServed, InForce, NoLoad
<1> QED BY <1>1, StreamInvariant, PTL

-----------------------------------------------------------------------------
(* What the upstream is sent *)

(* A set of naturals has a least member. *)
LEMMA LeastNat ==
  ASSUME NEW T \in SUBSET Nat, T # {}
  PROVE  \E m \in T : \A j \in T : m <= j
<1> DEFINE Less == {ss \in Nat \X Nat : ss[1] < ss[2]}
<1>1. IsWellFoundedOn(Less, Nat) BY NatLessThanWellFounded DEF OpToRel
<1>2. \A i, j \in Nat : <<j, i>> \in Less <=> j < i OBVIOUS
<1> HIDE DEF Less
<1>3. PICK m \in T : \A j \in T : ~ (<<j, m>> \in Less) BY <1>1, WFMin
<1>4. \A j \in T : ~(j < m) BY <1>2, <1>3, Zenon
<1> QED BY <1>4

(* TrimSlash cuts a path behind its last segment that is not empty. *)
LEMMA TrimCuts ==
  ASSUME NEW S, NEW p \in Seq(S)
  PROVE  \E n \in 0..Len(p) : /\ TrimSlash(p) = SubSeq(p, 1, n)
                              /\ \A i \in (n + 1)..Len(p) : p[i] = Blank
                              /\ n > 0 => p[n] # Blank
<1> DEFINE kept == {n \in 0..Len(p) : \A i \in (n + 1)..Len(p) : p[i] = Blank}
<1>1. Len(p) \in Nat OBVIOUS
<1>2. Len(p) \in kept BY <1>1
<1>3. kept \in SUBSET Nat BY <1>1
<1>4. \E n \in kept : \A m \in kept : n <= m BY <1>2, <1>3, LeastNat
<1> DEFINE least == CHOOSE n \in kept : \A m \in kept : n <= m
<1>5. least \in kept /\ \A m \in kept : least <= m BY <1>4
<1>6. TrimSlash(p) = SubSeq(p, 1, least) BY DEF TrimSlash
<1> HIDE DEF least
<1>7. least \in 0..Len(p) /\ \A i \in (least + 1)..Len(p) : p[i] = Blank BY <1>5
<1>8. ASSUME least > 0, p[least] = Blank PROVE FALSE
  <2>1. least - 1 \in 0..Len(p) BY <1>1, <1>7, <1>8
  <2>2. \A i \in ((least - 1) + 1)..Len(p) : p[i] = Blank BY <1>1, <1>7, <1>8
  <2>3. least - 1 \in kept BY <2>1, <2>2
  <2> QED BY <1>5, <1>7, <2>3
<1> QED BY <1>6, <1>7, <1>8

(* A trimmed path is a path. *)
LEMMA TrimIsPath ==
  ASSUME NEW S, NEW p \in Seq(S)
  PROVE  /\ TrimSlash(p) \in Seq(S) /\ Len(TrimSlash(p)) <= Len(p)
         /\ \A i \in 1..Len(TrimSlash(p)) : TrimSlash(p)[i] = p[i]
<1>1. PICK n \in 0..Len(p) : TrimSlash(p) = SubSeq(p, 1, n) BY TrimCuts
<1>2. \A i \in 1..n : p[i] \in S OBVIOUS
<1>3. /\ SubSeq(p, 1, n) \in Seq(S) /\ Len(SubSeq(p, 1, n)) = n
      /\ \A i \in 1..n : SubSeq(p, 1, n)[i] = p[i]
  BY <1>2, SubSeqProperties
<1> QED BY <1>1, <1>3

(* Paths that differ in empty segments at their ends are trimmed to the same. *)
LEMMA TrimSame ==
  ASSUME NEW S, NEW p \in Seq(S), NEW q \in Seq(S), NEW n \in 0..Len(p), n <= Len(q),
         \A i \in 1..n : p[i] = q[i],
         \A i \in (n + 1)..Len(p) : p[i] = Blank, \A i \in (n + 1)..Len(q) : q[i] = Blank
  PROVE  TrimSlash(p) = TrimSlash(q)
<1>1. PICK a \in 0..Len(p) : /\ TrimSlash(p) = SubSeq(p, 1, a)
                             /\ \A i \in (a + 1)..Len(p) : p[i] = Blank
                             /\ a > 0 => p[a] # Blank
  BY TrimCuts
<1>2. PICK b \in 0..Len(q) : /\ TrimSlash(q) = SubSeq(q, 1, b)
                             /\ \A i \in (b + 1)..Len(q) : q[i] = Blank
                             /\ b > 0 => q[b] # Blank
  BY TrimCuts
<1>3. Len(p) \in Nat /\ Len(q) \in Nat /\ n \in Nat /\ a \in Nat /\ b \in Nat OBVIOUS
<1>4. a <= n /\ b <= n BY <1>1, <1>2, <1>3
<1>5. a = b
  <2>1. ~(a < b) BY <1>1, <1>2, <1>3, <1>4
  <2>2. ~(b < a) BY <1>1, <1>2, <1>3, <1>4
  <2> QED BY <1>3, <2>1, <2>2
<1>6. /\ TrimSlash(p) \in Seq(S) /\ Len(TrimSlash(p)) = a
      /\ \A i \in 1..a : TrimSlash(p)[i] = p[i]
  <2>1. \A i \in 1..a : p[i] \in S BY <1>3
  <2> QED BY <1>1, <1>3, <2>1, SubSeqProperties
<1>7. /\ TrimSlash(q) \in Seq(S) /\ Len(TrimSlash(q)) = a
      /\ \A i \in 1..a : TrimSlash(q)[i] = q[i]
  <2>1. \A i \in 1..b : q[i] \in S BY <1>3
  <2> QED BY <1>2, <1>3, <1>5, <2>1, SubSeqProperties
<1>8. ASSUME NEW i \in 1..Len(TrimSlash(p)) PROVE TrimSlash(p)[i] = TrimSlash(q)[i]
  <2>1. i \in 1..a /\ i \in 1..n BY <1>3, <1>4, <1>6
  <2>2. TrimSlash(p)[i] = p[i] /\ TrimSlash(q)[i] = q[i] BY <2>1, <1>6, <1>7, Zenon
  <2> QED BY <2>1, <2>2, Zenon
<1> QED BY <1>6, <1>7, <1>8, SeqEqual

(* What follows a prefix, put behind it, is the whole. *)
LEMMA PrefixRest ==
  ASSUME NEW S, NEW s \in Seq(S), NEW t \in Seq(S), IsPrefix(s, t)
  PROVE  /\ Len(s) <= Len(t) /\ \A i \in 1..Len(s) : s[i] = t[i]
         /\ SubSeq(t, Len(s) + 1, Len(t)) \in Seq(S)
         /\ s \o SubSeq(t, Len(s) + 1, Len(t)) = t
<1>1. Len(s) \in Nat /\ Len(t) \in Nat /\ Len(s) <= Len(t) BY DEF IsPrefix
<1>2. SubSeq(s, 1, Len(s)) = s /\ SubSeq(t, 1, Len(t)) = t BY SubSeqFull
<1>3. SubSeq(t, 1, Len(s)) = s BY <1>2 DEF IsPrefix
<1>4. SubSeq(t, 1, Len(s)) \o SubSeq(t, Len(s) + 1, Len(t)) = SubSeq(t, 1, Len(t))
  <2>1. 1 \in 1..(Len(t) + 1) /\ Len(s) \in (1 - 1)..Len(t) /\ Len(t) \in Len(s)..Len(t) BY <1>1
  <2> QED BY <2>1, ConcatAdjacentSubSeq
<1>5. \A i \in 1..Len(s) : s[i] = t[i]
  <2>1. \A i \in 1..Len(s) : t[i] \in S BY <1>1
  <2>2. \A i \in 1..Len(s) : SubSeq(t, 1, Len(s))[i] = t[i] BY <1>1, <2>1, SubSeqProperties
  <2> QED BY <1>3, <2>2
<1>6. SubSeq(t, Len(s) + 1, Len(t)) \in Seq(S)
  <2>1. \A i \in (Len(s) + 1)..Len(t) : t[i] \in S BY <1>1
  <2> QED BY <1>1, <2>1, SubSeqProperties
<1> QED BY <1>1, <1>2, <1>3, <1>4, <1>5, <1>6

(* What a sequence is put in front of can be told from it again. *)
LEMMA ConcatRest ==
  ASSUME NEW S, NEW s \in Seq(S), NEW t \in Seq(S)
  PROVE  IsPrefix(s, s \o t) /\ SubSeq(s \o t, Len(s) + 1, Len(s \o t)) = t
<1>1. /\ s \o t \in Seq(S) /\ Len(s \o t) = Len(s) + Len(t)
      /\ \A i \in 1..(Len(s) + Len(t)) : (s \o t)[i] = IF i <= Len(s) THEN s[i] ELSE t[i - Len(s)]
  BY ConcatProperties
<1>2. Len(s) \in Nat /\ Len(t) \in Nat OBVIOUS
<1>3. SubSeq(s \o t, 1, Len(s)) = s
  <2>1. \A i \in 1..Len(s) : (s \o t)[i] \in S BY <1>1, <1>2
  <2>2. /\ SubSeq(s \o t, 1, Len(s)) \in Seq(S) /\ Len(SubSeq(s \o t, 1, Len(s))) = Len(s)
        /\ \A i \in 1..Len(s) : SubSeq(s \o t, 1, Len(s))[i] = (s \o t)[i]
    BY <1>2, <2>1, SubSeqProperties
  <2>3. \A i \in 1..Len(s) : SubSeq(s \o t, 1, Len(s))[i] = s[i] BY <1>1, <1>2, <2>2
  <2> QED BY <2>2, <2>3, SeqEqual
<1>4. SubSeq(s \o t, Len(s) + 1, Len(s \o t)) = t
  <2> DEFINE rest == SubSeq(s \o t, Len(s) + 1, Len(s \o t))
  <2>1. \A i \in (Len(s) + 1)..Len(s \o t) : (s \o t)[i] \in S BY <1>1, <1>2
  <2>2. /\ rest \in Seq(S) /\ Len(rest) = Len(t)
        /\ \A i \in 1..Len(t) : rest[i] = (s \o t)[Len(s) + i]
    <3>1. Len(s) + 1 \in Int /\ Len(s \o t) \in Int BY <1>1, <1>2
    <3>2. /\ rest \in Seq(S)
          /\ Len(rest) = IF Len(s) + 1 <= Len(s \o t) THEN Len(s \o t) - (Len(s) + 1) + 1 ELSE 0
          /\ \A i \in 1..(Len(s \o t) - (Len(s) + 1) + 1) : rest[i] = (s \o t)[Len(s) + 1 + i - 1]
      BY <3>1, <2>1, SubSeqProperties
    <3> HIDE DEF rest
    <3>3. Len(s \o t) - (Len(s) + 1) + 1 = Len(t) /\ (Len(t) = 0 \/ Len(s) + 1 <= Len(s \o t)) BY <1>1, <1>2
    <3>4. Len(rest) = Len(t) BY <3>2, <3>3, <1>1, <1>2
    <3>5. ASSUME NEW i \in 1..Len(t) PROVE rest[i] = (s \o t)[Len(s) + i]
      <4>1. rest[i] = (s \o t)[Len(s) + 1 + i - 1] BY <3>2, <3>3
      <4>2. Len(s) + 1 + i - 1 = Len(s) + i BY <1>2
      <4> QED BY <4>1, <4>2
    <3> QED BY <3>2, <3>4, <3>5
  <2> HIDE DEF rest
  <2>3. ASSUME NEW i \in 1..Len(t) PROVE rest[i] = t[i]
    <3>1. Len(s) + i \in 1..(Len(s) + Len(t)) /\ ~(Len(s) + i <= Len(s)) /\ Len(s) + i - Len(s) = i BY <1>2
    <3> QED BY <3>1, <1>1, <2>2
  <2>4. rest = t BY <2>2, <2>3, SeqEqual
  <2> QED BY <2>4 DEF rest
<1>5. SubSeq(s, 1, Len(s)) = s BY SubSeqFull
<1> QED BY <1>1, <1>2, <1>3, <1>4, <1>5 DEF IsPrefix

(* A path with a slash at its end is trimmed like the path without it. *)
LEMMA TrimRoot ==
  ASSUME NEW S, NEW p \in Seq(S), Blank \in S
  PROVE  Root \in Seq(S) /\ TrimSlash(p \o Root) = TrimSlash(p)
<1>1. Root \in Seq(S) /\ Len(Root) = 1 /\ Root[1] = Blank BY DEF Root
<1>2. /\ p \o Root \in Seq(S) /\ Len(p \o Root) = Len(p) + 1
      /\ \A i \in 1..(Len(p) + 1) : (p \o Root)[i] = IF i <= Len(p) THEN p[i] ELSE Root[i - Len(p)]
  BY <1>1, ConcatProperties
<1>3. Len(p) \in Nat OBVIOUS
<1>4. (\A i \in 1..Len(p) : p[i] = (p \o Root)[i]) /\ (p \o Root)[Len(p) + 1] = Blank BY <1>1, <1>2, <1>3
<1>5. Len(p) \in 0..Len(p) /\ Len(p) <= Len(p \o Root) BY <1>2, <1>3
<1>6. \A i \in (Len(p) + 1)..Len(p) : p[i] = Blank BY <1>3
<1>7. \A i \in (Len(p) + 1)..Len(p \o Root) : (p \o Root)[i] = Blank BY <1>2, <1>3, <1>4
<1>8. TrimSlash(p) = TrimSlash(p \o Root) BY <1>2, <1>4, <1>5, <1>6, <1>7, TrimSame
<1> QED BY <1>1, <1>8

(* The prefix that is stripped and what is left make up the path.  Text that  *)
(* is no prefix is not stripped.                                              *)
LEMMA StripRestores ==
  ASSUME NEW S, NEW path \in Seq(S), NEW matched \in Seq(S), Blank \in S
  PROVE  /\ Stripped(path, matched) \in Seq(S)
         /\ IsPrefix(TrimSlash(matched), path) =>
              TrimSlash(TrimSlash(matched) \o Stripped(path, matched)) = TrimSlash(path)
         /\ ~IsPrefix(TrimSlash(matched), path) => TrimSlash(Stripped(path, matched)) = TrimSlash(path)
<1> DEFINE cut == TrimSlash(matched)
           rest == SubSeq(path, Len(cut) + 1, Len(path))
<1>1. cut \in Seq(S) BY TrimIsPath
<1>2. Root \in Seq(S) BY TrimRoot
<1>3. CASE IsPrefix(cut, path)
  <2>1. rest \in Seq(S) /\ cut \o rest = path BY <1>1, <1>3, PrefixRest
  <2>2. Stripped(path, matched) = IF rest = <<>> THEN Root ELSE rest BY <1>3 DEF Stripped
  <2> HIDE DEF cut, rest
  <2>3. CASE rest = <<>>
    <3>1. cut = path BY <1>1, <2>1, <2>3, ConcatEmptySeq
    <3>2. TrimSlash(cut \o Root) = TrimSlash(path) BY <1>1, <3>1, TrimRoot
    <3> QED BY <1>2, <1>3, <2>2, <2>3, <3>2 DEF cut
  <2>4. CASE rest # <<>>
    BY <1>3, <2>1, <2>2, <2>4 DEF cut
  <2> QED BY <2>3, <2>4
<1>4. CASE ~IsPrefix(cut, path)
  <2>1. Stripped(path, matched) = IF path = <<>> THEN Root ELSE path BY <1>4 DEF Stripped
  <2> HIDE DEF cut, rest
  <2>2. CASE path = <<>>
    <3>1. path \o Root = Root BY <1>2, <2>2, ConcatEmptySeq
    <3>2. TrimSlash(Root) = TrimSlash(path) BY <3>1, TrimRoot
    <3> QED BY <1>2, <1>4, <2>1, <2>2, <3>2 DEF cut
  <2>3. CASE path # <<>> BY <1>4, <2>1, <2>3 DEF cut
  <2> QED BY <2>2, <2>3
<1> QED BY <1>3, <1>4

(* The prefix a route matches begins the path. *)
LEMMA MatchedBegins ==
  ASSUME NEW S, NEW path \in Seq(S), NEW matched \in Seq(S), Blank \in S,
         matched = Root \/ PrefixMatches(matched, path)
  PROVE  IsPrefix(TrimSlash(matched), path)
<1>1. CASE matched = Root
  <2>1. <<>> \in Seq(S) /\ Len(<<>>) = 0 OBVIOUS
  <2>2. <<>> \o Root = Root BY TrimRoot, ConcatEmptySeq
  <2>3. TrimSlash(matched) = TrimSlash(<<>>) BY <1>1, <2>1, <2>2, TrimRoot
  <2>4. TrimSlash(<<>>) \in Seq(S) /\ Len(TrimSlash(<<>>)) <= 0 BY <2>1, TrimIsPath
  <2>5. Len(TrimSlash(matched)) = 0 BY <2>3, <2>4
  <2>6. SubSeq(TrimSlash(matched), 1, 0) = <<>> /\ SubSeq(path, 1, 0) = <<>> BY SubSeqEmpty
  <2>7. Len(path) \in Nat OBVIOUS
  <2> QED BY <2>5, <2>6, <2>7 DEF IsPrefix
<1>2. CASE PrefixMatches(matched, path)
  <2>1. CASE path = matched
    <3> DEFINE cut == TrimSlash(matched)
    <3>1. cut \in Seq(S) /\ Len(cut) <= Len(path) /\ \A i \in 1..Len(cut) : cut[i] = path[i]
      BY <2>1, TrimIsPath
    <3> HIDE DEF cut
    <3>2. Len(cut) \in Nat /\ Len(path) \in Nat BY <3>1
    <3>3. \A i \in 1..Len(cut) : path[i] \in S BY <3>1, <3>2
    <3>4. /\ SubSeq(path, 1, Len(cut)) \in Seq(S) /\ Len(SubSeq(path, 1, Len(cut))) = Len(cut)
          /\ \A i \in 1..Len(cut) : SubSeq(path, 1, Len(cut))[i] = path[i]
      BY <3>2, <3>3, SubSeqProperties
    <3>5. SubSeq(path, 1, Len(cut)) = cut BY <3>1, <3>4, SeqEqual
    <3>6. SubSeq(cut, 1, Len(cut)) = cut BY <3>1, SubSeqFull
    <3>7. IsPrefix(cut, path) BY <3>1, <3>5, <3>6 DEF IsPrefix
    <3> QED BY <3>7 DEF cut
  <2>2. CASE IsStrictPrefix(TrimSlash(matched), path) BY <2>2 DEF IsStrictPrefix
  <2> QED BY <1>2, <2>1, <2>2 DEF PrefixMatches
<1> QED BY <1>1, <1>2

(* Lists are sequences over the segments that occur in them. *)
LEMMA OneAlphabet ==
  ASSUME NEW s, NEW t, NEW u, IsList(s), IsList(t), IsList(u)
  PROVE  \E S : Blank \in S /\ s \in Seq(S) /\ t \in Seq(S) /\ u \in Seq(S)
<1> DEFINE S == {s[k] : k \in DOMAIN s} \cup {t[k] : k \in DOMAIN t} \cup {u[k] : k \in DOMAIN u} \cup {Blank}
<1>1. s \in Seq({s[k] : k \in DOMAIN s}) /\ t \in Seq({t[k] : k \in DOMAIN t}) /\ u \in Seq({u[k] : k \in DOMAIN u})
  BY DEF IsList
<1>2. /\ {s[k] : k \in DOMAIN s} \subseteq S /\ {t[k] : k \in DOMAIN t} \subseteq S
      /\ {u[k] : k \in DOMAIN u} \subseteq S /\ Blank \in S
  OBVIOUS
<1>3. s \in Seq(S) BY <1>1, <1>2, SeqMonotonic
<1>4. t \in Seq(S) BY <1>1, <1>2, SeqMonotonic
<1>5. u \in Seq(S) BY <1>1, <1>2, SeqMonotonic
<1> HIDE DEF S
<1> QED BY <1>2, <1>3, <1>4, <1>5

(* The attempts of a request are copies of the first, and that is what the    *)
(* proxy makes of the request.                                                *)
ForwardInv ==
  /\ forwarded = <<>> \/ forwarded \in Seq({forwarded[1]})
  /\ client # NoValue =>
       client \in Clients /\ match \in Matches /\ upstream \in Upstreams /\ PathGiven(client, match)
  /\ forwarded # <<>> =>
       /\ client # NoValue
       /\ forwarded[1] = UpstreamRequest(client, match, upstream, override, forwarded[1].peer)

(* A request is accepted before anything is sent. *)
LEMMA AcceptingForward == ASSUME ForwardInv, AcceptRequest PROVE ForwardInv'
<1>1. forwarded = <<>> /\ forwarded' = forwarded BY DEF ForwardInv, AcceptRequest
<1>2. forwarded' \in Seq({forwarded'[1]}) BY <1>1
<1>3. client' \in Clients /\ match' \in Matches /\ upstream' \in Upstreams /\ PathGiven(client', match')
  BY DEF AcceptRequest
<1>4. (PathGiven(client, match))' <=> PathGiven(client', match') BY DEF PathGiven
<1> QED BY <1>1, <1>2, <1>3, <1>4 DEF ForwardInv

(* An attempt sends what the first one sent. *)
LEMMA AttemptingForward == ASSUME ForwardInv, Attempt PROVE ForwardInv'
<1>0. UNCHANGED <<client, match, upstream, override>> /\ client # NoValue BY DEF Attempt
<1>1. PICK peer : /\ forwarded' = Append(forwarded, UpstreamRequest(client, match, upstream, override, peer))
                  /\ forwarded # <<>> => peer = forwarded[1].peer
  BY DEF Attempt
<1> DEFINE sent == UpstreamRequest(client, match, upstream, override, peer)
<1>2. sent.peer = peer BY DEF UpstreamRequest
<1>3. forwarded # <<>> => sent = forwarded[1] BY <1>1 DEF ForwardInv
<1>4. forwarded' = Append(forwarded, sent) BY <1>1
<1> HIDE DEF sent
<1>5. forwarded' \in Seq({sent}) /\ forwarded'[1] = sent
  <2>1. CASE forwarded = <<>>
    <3>1. forwarded' = <<sent>> BY <1>4, <2>1
    <3> QED BY <3>1
  <2>2. CASE forwarded # <<>>
    <3>1. forwarded \in Seq({sent}) /\ Len(forwarded) \in Nat /\ Len(forwarded) # 0
      BY <1>3, <2>2 DEF ForwardInv
    <3>2. /\ Append(forwarded, sent) \in Seq({sent})
          /\ \A i \in 1..Len(forwarded) : Append(forwarded, sent)[i] = forwarded[i]
      BY <3>1, AppendProperties
    <3>3. 1 \in 1..Len(forwarded) BY <3>1
    <3> QED BY <1>3, <1>4, <2>2, <3>2, <3>3
  <2> QED BY <2>1, <2>2
<1>6. forwarded' \in Seq({forwarded'[1]}) BY <1>5
<1>7. forwarded'[1] = UpstreamRequest(client', match', upstream', override', forwarded'[1].peer)
  <2>1. forwarded'[1] = UpstreamRequest(client, match, upstream, override, forwarded'[1].peer)
    BY <1>2, <1>5 DEF sent
  <2> QED BY <1>0, <2>1
<1>8. client' # NoValue /\ (client \in Clients /\ match \in Matches /\ upstream \in Upstreams /\ PathGiven(client, match))'
  <2>1. client \in Clients /\ match \in Matches /\ upstream \in Upstreams /\ PathGiven(client, match)
    BY <1>0 DEF ForwardInv
  <2> QED BY <1>0, <2>1 DEF PathGiven
<1>9. (UpstreamRequest(client, match, upstream, override, forwarded[1].peer))'
        = UpstreamRequest(client', match', upstream', override', forwarded'[1].peer)
  OBVIOUS
<1> QED BY <1>6, <1>7, <1>8, <1>9 DEF ForwardInv

(* ForwardInv is inductive. *)
LEMMA ForwardInvariant == ForwardSpec => []ForwardInv
<1>1. ForwardInit => ForwardInv
  <2> SUFFICES ASSUME ForwardInit PROVE ForwardInv OBVIOUS
  <2>1. client = NoValue /\ forwarded = <<>> BY DEF ForwardInit
  <2> QED BY <2>1 DEF ForwardInv
<1>2. ASSUME ForwardInv, [Forwarding]_forwardVars PROVE ForwardInv'
  <2>1. CASE UNCHANGED forwardVars
    <3>1. UNCHANGED <<client, match, upstream, override, forwarded>> BY <2>1 DEF forwardVars
    <3>2. forwarded' = <<>> \/ forwarded' \in Seq({forwarded'[1]}) BY <1>2, <3>1 DEF ForwardInv
    <3>3. (UpstreamRequest(client, match, upstream, override, forwarded[1].peer))'
            = UpstreamRequest(client', match', upstream', override', forwarded'[1].peer)
      OBVIOUS
    <3>4. (PathGiven(client, match))' <=> PathGiven(client', match') BY DEF PathGiven
    <3> QED BY <1>2, <3>1, <3>2, <3>3, <3>4 DEF ForwardInv
  <2> QED BY <1>2, <2>1, AcceptingForward, AttemptingForward DEF Forwarding
<1> QED BY <1>1, <1>2, PTL DEF ForwardSpec

(* Each hop is recorded once. *)
LEMMA HopOnce ==
  ASSUME NEW c, IsList(c.hops)
  PROVE  IsPrefix(c.hops, ForwardedFor(c)) /\ Len(ForwardedFor(c)) <= Len(c.hops) + 1
<1> DEFINE S == {c.hops[k] : k \in DOMAIN c.hops} \cup {c.ip}
<1>1. c.hops \in Seq(S) /\ <<c.ip>> \in Seq(S) /\ <<>> \in Seq(S) /\ c.ip \in S
  <2>1. c.hops \in Seq({c.hops[k] : k \in DOMAIN c.hops}) BY DEF IsList
  <2>2. {c.hops[k] : k \in DOMAIN c.hops} \subseteq S /\ c.ip \in S OBVIOUS
  <2>3. c.hops \in Seq(S) BY <2>1, <2>2, SeqMonotonic
  <2> HIDE DEF S
  <2> QED BY <2>2, <2>3
<1> HIDE DEF S
<1>2. Len(c.hops) \in Nat BY <1>1
<1>3. CASE ForwardedFor(c) = Append(c.hops, c.ip)
  <2>1. ForwardedFor(c) = c.hops \o <<c.ip>> BY <1>1, <1>3, AppendIsConcat
  <2>2. Len(ForwardedFor(c)) = Len(c.hops) + 1 BY <1>1, <1>3, AppendProperties
  <2>3. IsPrefix(c.hops, c.hops \o <<c.ip>>) BY <1>1, ConcatRest, Zenon
  <2> QED BY <1>2, <2>1, <2>2, <2>3
<1>4. CASE ForwardedFor(c) = c.hops
  <2>1. c.hops \o <<>> = c.hops BY <1>1, ConcatEmptySeq
  <2>2. IsPrefix(c.hops, c.hops \o <<>>) BY <1>1, ConcatRest, Zenon
  <2> QED BY <1>2, <1>4, <2>1, <2>2
<1> QED BY <1>3, <1>4 DEF ForwardedFor

(* The header of an untrusted client that the proxy passes on is one it has   *)
(* no word of its own for.                                                    *)
LEMMA OwnWord ==
  ASSUME NEW c, NEW m, NEW s, NEW o, NEW peer, ~IsTrusted(c), NEW h \in Injected \cap Claimable,
         UpstreamRequest(c, m, s, o, peer).claims[h] = "client"
  PROVE  \/ h = "x-real-ip" /\ c.ip = NoValue
         \/ h = "x-forwarded-host" /\ c.host = NoValue
         \/ h = "x-forwarded-prefix" /\ m.matched = NoValue
<1>0. NoValue # "client" BY ForwardAssumption
<1>1. ForwardedHeader(c, h) = "proxy" BY DEF ForwardedHeader
<1>2. CASE h = "x-real-ip"
  <2>1. RealIp(c) = "client" BY <1>2 DEF UpstreamRequest, Claimable
  <2> QED BY <1>1, <1>2, <2>1 DEF RealIp
<1>3. CASE h = "x-forwarded-host"
  <2>1. ForwardedHost(c) = "client" BY <1>3 DEF UpstreamRequest, Claimable
  <2> QED BY <1>1, <1>3, <2>1 DEF ForwardedHost
<1>4. CASE h = "x-forwarded-prefix"
  <2>1. ForwardedPrefix(c, m) = "client" BY <1>4 DEF UpstreamRequest, Claimable
  <2> QED BY <1>0, <1>4, <2>1 DEF ForwardedPrefix
<1>5. CASE h \notin {"x-real-ip", "x-forwarded-host", "x-forwarded-prefix"}
  <2>1. ForwardedHeader(c, h) = "client" BY <1>5 DEF UpstreamRequest, Claimable
  <2> QED BY <1>1, <2>1
<1> QED BY <1>2, <1>3, <1>4, <1>5

(* Behind the path of the service is the client's, with what was stripped. *)
PathKept(c, m, s, sent) ==
  LET base == IF s.path = NoValue THEN <<>> ELSE TrimSlash(s.path)
      rest == SubSeq(sent, Len(base) + 1, Len(sent))
  IN /\ IsPrefix(base, sent)
     /\ TrimSlash(c.path) \in {TrimSlash(TrimSlash(m.matched) \o rest)}
          \cup (IF m.regex THEN {TrimSlash(rest)} ELSE {})

(* The path the client asked for is found again in what the upstream is sent. *)
LEMMA PathRestored ==
  ASSUME NEW c \in Clients, NEW m \in Matches, NEW s \in Upstreams, NEW o,
         PathGiven(c, m), m.strip_path, m.matched # NoValue, o.path = NoValue
  PROVE  PathKept(c, m, s, UpstreamPath(c.path, m, s, o))
<1> DEFINE sent == UpstreamPath(c.path, m, s, o)
           base == IF s.path = NoValue THEN <<>> ELSE TrimSlash(s.path)
           rest == SubSeq(sent, Len(base) + 1, Len(sent))
           found == /\ IsPrefix(base, sent)
                    /\ TrimSlash(c.path) \in {TrimSlash(TrimSlash(m.matched) \o rest)}
                         \cup (IF m.regex THEN {TrimSlash(rest)} ELSE {})
<1>0. SUFFICES found BY DEF PathKept
<1> DEFINE prefix == IF s.path = NoValue THEN <<>> ELSE s.path
<1>1. IsList(c.path) /\ IsList(m.matched) /\ IsList(prefix)
  <2>1. IsList(<<>>) BY DEF IsList
  <2> QED BY <2>1, ForwardAssumption
<1> HIDE DEF prefix
<1>2. PICK S : Blank \in S /\ c.path \in Seq(S) /\ m.matched \in Seq(S) /\ prefix \in Seq(S)
  BY <1>1, OneAlphabet
<1>3. base \in Seq(S)
  <2>1. CASE s.path = NoValue BY <2>1
  <2>2. CASE s.path # NoValue
    <3>1. s.path \in Seq(S) BY <1>2, <2>2 DEF prefix
    <3>2. base = TrimSlash(s.path) BY <2>2
    <3> QED BY <3>1, <3>2, TrimIsPath
  <2> QED BY <2>1, <2>2
<1> DEFINE left == Stripped(c.path, m.matched)
<1>4. left \in Seq(S) BY <1>2, StripRestores
<1>5. sent = base \o left BY DEF UpstreamPath
<1>6. IsPrefix(base, sent) /\ rest = left
  <2>1. rest = SubSeq(sent, Len(base) + 1, Len(sent)) OBVIOUS
  <2> HIDE DEF left, base, sent, rest
  <2> QED BY <1>3, <1>4, <1>5, <2>1, ConcatRest
<1>7. CASE IsPrefix(TrimSlash(m.matched), c.path)
  <2>1. TrimSlash(TrimSlash(m.matched) \o left) = TrimSlash(c.path) BY <1>2, <1>7, StripRestores
  <2> HIDE DEF left, base, sent, rest
  <2> QED BY <1>6, <2>1
<1>8. CASE ~IsPrefix(TrimSlash(m.matched), c.path)
  <2>1. TrimSlash(left) = TrimSlash(c.path) BY <1>2, <1>8, StripRestores
  <2>2. ~(m.matched = Root \/ PrefixMatches(m.matched, c.path)) BY <1>2, <1>8, MatchedBegins
  <2>3. m.regex BY <2>2 DEF PathGiven
  <2> HIDE DEF left, base, sent, rest
  <2> QED BY <1>6, <2>1, <2>3
<1> QED BY <1>7, <1>8

(* ForwardedOnce: every attempt forwards the same request, with each hop once, *)
(* a path from which the client's can be put together again, and headers that *)
(* an untrusted client cannot speak for the proxy in: for any requests,       *)
(* routes, services, plugins and number of retries (upstream_request_filter). *)
THEOREM ForwardsOnce == ForwardSpec => []ForwardedOnce
<1>1. ForwardInv => ForwardedOnce
  <2> SUFFICES ASSUME ForwardInv, NEW k \in DOMAIN forwarded
               PROVE  LET sent == forwarded[k]
                          base == IF upstream.path = NoValue THEN <<>> ELSE TrimSlash(upstream.path)
                          rest == SubSeq(sent.path, Len(base) + 1, Len(sent.path))
                      IN /\ sent = forwarded[1]
                         /\ IsPrefix(client.hops, sent.hops) /\ Len(sent.hops) <= Len(client.hops) + 1
                         /\ match.strip_path /\ match.matched # NoValue /\ override.path = NoValue =>
                              /\ IsPrefix(base, sent.path)
                              /\ TrimSlash(client.path) \in {TrimSlash(TrimSlash(match.matched) \o rest)}
                                   \cup (IF match.regex THEN {TrimSlash(rest)} ELSE {})
                         /\ ~IsTrusted(client) =>
                              \A h \in Injected \cap Claimable : sent.claims[h] = "client" =>
                                \/ h = "x-real-ip" /\ client.ip = NoValue
                                \/ h = "x-forwarded-host" /\ client.host = NoValue
                                \/ h = "x-forwarded-prefix" /\ match.matched = NoValue
    BY DEF ForwardedOnce
  <2> DEFINE sent == forwarded[k]
             base == IF upstream.path = NoValue THEN <<>> ELSE TrimSlash(upstream.path)
             rest == SubSeq(sent.path, Len(base) + 1, Len(sent.path))
             peer == forwarded[1].peer
  <2>1. sent = forwarded[1] /\ forwarded # <<>>
    <3>1. forwarded \in Seq({forwarded[1]}) BY DEF ForwardInv
    <3> QED BY <3>1
  <2>2. /\ client \in Clients /\ match \in Matches /\ upstream \in Upstreams /\ PathGiven(client, match)
        /\ sent = UpstreamRequest(client, match, upstream, override, peer)
    BY <2>1 DEF ForwardInv
  <2>3. sent.hops = ForwardedFor(client) /\ sent.path = UpstreamPath(client.path, match, upstream, override)
    BY <2>2 DEF UpstreamRequest
  <2>4. IsPrefix(client.hops, sent.hops) /\ Len(sent.hops) <= Len(client.hops) + 1
    <3>1. IsList(client.hops) BY <2>2, ForwardAssumption
    <3> QED BY <2>3, <3>1, HopOnce
  <2>5. ASSUME match.strip_path, match.matched # NoValue, override.path = NoValue
        PROVE  /\ IsPrefix(base, sent.path)
               /\ TrimSlash(client.path) \in {TrimSlash(TrimSlash(match.matched) \o rest)}
                    \cup (IF match.regex THEN {TrimSlash(rest)} ELSE {})
    <3>1. PathKept(client, match, upstream, UpstreamPath(client.path, match, upstream, override))
      BY <2>2, <2>5, PathRestored, Zenon
    <3>2. PathKept(client, match, upstream, sent.path) BY <2>3, <3>1, Zenon
    <3> QED BY <3>2 DEF PathKept
  <2>6. ASSUME ~IsTrusted(client), NEW h \in Injected \cap Claimable, sent.claims[h] = "client"
        PROVE  \/ h = "x-real-ip" /\ client.ip = NoValue
               \/ h = "x-forwarded-host" /\ client.host = NoValue
               \/ h = "x-forwarded-prefix" /\ match.matched = NoValue
    <3>1. UpstreamRequest(client, match, upstream, override, peer).claims[h] = "client" BY <2>2, <2>6
    <3> QED BY <2>6, <3>1, OwnWord
  <2> QED BY <2>1, <2>4, <2>5, <2>6, Zenon
<1> QED BY <1>1, ForwardInvariant, PTL
=============================================================================
