---------------------------- MODULE MCAiAdmission ----------------------------
EXTENDS AiAdmission

CONSTANTS c1, c2

VARIABLE part      \* which side of admission this behaviour explores

Pol(on, exp, ms, rpm, tpm, g) == [enabled |-> on, expires |-> exp, models |-> ms, rpm |-> rpm, tpm |-> tpm, guard |-> g]
KeyPolicies == {Pol(TRUE, Null, Null, Null, Null, FALSE), Pol(TRUE, 1, Null, Null, Null, FALSE)}
Disabled == Pol(FALSE, Null, Null, Null, Null, FALSE)
QuotaPolicies == {Pol(TRUE, Null, Null, 1, 2, FALSE)}
BudgetPolicies == {Pol(TRUE, Null, Null, 2, Null, TRUE), Pol(TRUE, Null, {"m"}, Null, Null, TRUE)}
Zeroed == Pol(TRUE, Null, Null, 0, 0, FALSE)
MCPolicies == {Disabled, Zeroed} \cup KeyPolicies \cup QuotaPolicies \cup BudgetPolicies
Chain(auth, guard, proxy, limit, rpm, tpm) == [auth |-> auth, guard |-> guard, proxy |-> proxy, limit |-> limit, rpm |-> rpm, tpm |-> tpm]
Call(h, ch) == [headers |-> h, chain |-> ch, model |-> "m", messages |-> Null, json |-> TRUE, estimate |-> 1, route |-> "r", tokens |-> 2]
AuthChain == Chain(TRUE, Null, "openai", Null, Null, Null)
KeyAsks == {Call(<<Null, 1, Null>>, AuthChain), Call(<<2, 1, Null>>, AuthChain)}
KeyChain == Chain(TRUE, Null, "openai", "virtual_key", Null, Null)
Global(rpm, tpm) == Chain(FALSE, Null, Null, "global", rpm, tpm)
QuotaAsks == {Call(<<1, Null, Null>>, KeyChain)}
BudgetAsks == QuotaAsks \cup {[Call(<<1, Null, Null>>, KeyChain) EXCEPT !.tokens = Null]}
Guard(act, valid) == [max |-> 1, deny |-> {"d"}, allow |-> {"a"}, action |-> act, valid |-> valid]
Msg(role, size, words) == [role |-> role, size |-> size, words |-> words]
GuardChain(act, valid) == Chain(FALSE, Guard(act, valid), Null, Null, Null, Null)
OddAsks == 
  {[Call(<<Null, Null, Null>>, GuardChain(act, v)) EXCEPT !.messages = ms, !.json = j] :
     act \in {"block", "log_only"}, v \in BOOLEAN, j \in BOOLEAN,
     ms \in {Null, <<Msg("system", 2, {})>>, <<Msg("user", 1, {"a"}), Msg("user", 1, {})>>, <<Msg("user", 1, {"a", "d"})>>}} \cup
  {[Call(<<1, Null, Null>>, AuthChain) EXCEPT !.model = x] : x \in {"n", Null}} \cup {Call(<<1, Null, Null>>, KeyChain)} \cup
  {[Call(<<Null, Null, Null>>, ch) EXCEPT !.route = Null] :
     ch \in {Global(1, 1), Global(0, Null), Chain(FALSE, Null, "bad_config", "consumer", 1, 1), Chain(FALSE, Null, Null, "virtual_key", 1, 1),
        Chain(FALSE, Null, Null, "route", 1, 1), Chain(FALSE, Null, "openai", "virtual_key", 1, 1), Chain(FALSE, Null, "openai", "consumer", Null, Null), AuthChain}}
MCAsks == KeyAsks \cup BudgetAsks \cup OddAsks
AsksOf(p) == CASE p = "keys" -> KeyAsks [] p = "chains" -> OddAsks [] p = "quota" -> QuotaAsks [] OTHER -> BudgetAsks
Plainly == Pol(TRUE, Null, Null, Null, Null, FALSE)
PoliciesOf(p) == CASE p = "keys" -> KeyPolicies [] p = "quota" -> QuotaPolicies
                   [] p = "budget" -> BudgetPolicies [] OTHER -> BudgetPolicies \cup {Disabled, Zeroed}
AdmissionParts == {"keys", "quota", "budget", "chains"}
\* Each part lets happen what it is about: lookups against changes of the key,
\* two requests against a failing store, a budget that runs out, odd chains.
KeptAdmission ==
  /\ \A r \in Callers : caller'[r].ask # Null => caller'[r].ask \in AsksOf(part)
  /\ part # "quota" => window' = window /\ late' = {} /\ \A r \in Callers : caller'[r].pc # "ask"
  /\ part # "budget" => owner' = owner
  /\ part = "quota" => Cardinality({r \in Callers : caller'[r].pc = "ask" \/ caller'[r].tries = 2} \cup {cmd.id : cmd \in late'}) <= 1
  /\ part = "chains" => \E r \in Callers : caller'[r] = Idle
  /\ part # "chains" => \A r \in Callers : caller[r].pc = "done" => caller'[r] = caller[r]
  /\ IF part = "keys" THEN /\ \A r \in Callers : caller'[r].pc # "limit" /\ caller'[r].pc # "finalize"
                           /\ IF row' = Null THEN TRUE ELSE row'.policy \in KeyPolicies
     ELSE row' = row /\ clock' = clock
BaseAdmission == row.policy \in PoliciesOf(part) /\ (part # "budget" => owner = "ok")
                 /\ (part = "keys" => row.policy = Plainly)

MCInit == part \in AdmissionParts /\ AdmissionInit /\ BaseAdmission
MCNext == AdmissionNext /\ KeptAdmission /\ UNCHANGED part
MCSpec == MCInit /\ [][MCNext]_<<part, admissionVars>>
Symmetric == Permutations(Callers)
=============================================================================
