----------------------------- MODULE AiAdmission -----------------------------
(***************************************************************************)
(* Who may call a model, and what the call is charged.                     *)
(*                                                                         *)
(* Virtual keys are changed through the Admin API (a write, then the       *)
(* authentication cache of this node is emptied), changed behind its back  *)
(* by other nodes, and looked up by requests through the cache.  A request *)
(* passes ai-key-auth, ai-prompt-guard and ai-rate-limit; the last one     *)
(* reserves quota in a store whose answers may be lost, and the            *)
(* reservation is refunded when dispatch is aborted and settled when the   *)
(* request ends.  The quota store itself is the module RateLimitStore and  *)
(* the budget account BudgetLedger: here they are what the trait promises. *)
(***************************************************************************)
EXTENDS Integers, Sequences, FiniteSets, FiniteSetsExt, TLC

CONSTANTS
  Null,
  Callers,        \* requests
  Asks,           \* [headers, chain, model, messages, json, estimate, route, tokens]
  Policies,       \* [enabled, expires, models, rpm, tpm, guard] a row may hold
  CacheTtl,       \* CACHE_TTL
  Permits,        \* max_concurrent_admissions
  QuotaSupported, \* quota_runtime() is Ok
  MaxSecrets, MaxChanges, MaxLookup, MaxClock, MaxWindow

VARIABLES
  row,            \* the virtual key: [secret, policy, rev], or Null
  replaced,       \* ghost: when revision i of the row was replaced (Null: not yet)
  minted,         \* secrets generated so far are 1..minted
  authCache,      \* secret -> Null or [row, at]
  admin,          \* the mutation the Admin API is in: [op, secret, step], or Null
  retired,        \* ghost: secrets a rotation has answered for
  clock, window,
  caller,         \* the requests
  admitted,       \* quota store: request -> Null or [ok, subject, reserve, window]
  settledAs,      \* quota store: request -> Null or [charge, noop]
  late,           \* commands with a lost answer which the store has yet to see
  permits,
  owner           \* the budget runtime: "ok", "fenced" or "unsupported"

keyVars == <<row, replaced, minted, authCache, admin, retired>>
storeVars == <<admitted, settledAs, late>>
admissionVars == <<keyVars, clock, window, caller, storeVars, permits, owner>>

Secrets == 1..MaxSecrets
Modes == {"global", "route", "consumer", "virtual_key"}

\* What is reserved and charged, and what a request and the store keep of it
Charges == [requests : Nat, tokens : Nat]
Shots == [window : Nat, own : Nat]
SettleCommands == [op : {"settle"}, id : Callers, charge : Charges]
Quotas == [reserved : Charges, admission : Shots \cup {Null}, response : Shots \cup {Null},
           settlement : {"pending", "not_required", "settled", "retry_required"},
           rejected : BOOLEAN, command : SettleCommands \cup {Null}]
Admissions == [ok : BOOLEAN, subject : Modes \cup {"key"}, window : Nat, reserve : Charges]
Settlements == [charge : Charges, noop : BOOLEAN]
Headers == [shown : Shots, at : Nat]

ASSUME AdmissionAssumption ==
  /\ CacheTtl \in Nat \ {0} /\ MaxLookup \in Nat
  /\ Null \notin Nat \cup Shots \cup SettleCommands \cup Quotas \cup Admissions \cup Settlements \cup Headers
  /\ \A a \in Asks : /\ a.headers \in [1..3 -> Secrets \cup {Null}]
                     /\ a.estimate \in Nat /\ a.tokens \in Nat \cup {Null}
Idle == [ask |-> Null, pc |-> "idle", key |-> Null, at |-> Null, found |-> Null, since |-> Null, retired |-> FALSE,
         status |-> Null, quota |-> Null, cmd |-> Null, tries |-> 0, ending |-> "none", attempted |-> FALSE,
         aborted |-> FALSE, budget |-> FALSE, headers |-> Null]

Update(r, fields) ==
  caller' = [caller EXCEPT ![r] = [f \in DOMAIN @ |-> IF f \in DOMAIN fields THEN fields[f] ELSE @[f]]]
Step(r, pc) == caller[r].pc = pc
\* Every answer of the gateway's own still runs the header filters and finalizers.
Refuse(r, status) == Update(r, [pc |-> "headers", status |-> status])

(***************************************************************************)
(* Virtual keys                                                            *)
(***************************************************************************)
Write(new) ==
  /\ row' = new
  /\ replaced' = Append(IF row = Null THEN replaced ELSE [replaced EXCEPT ![row.rev] = clock], Null)

Version(secret, policy) == [secret |-> secret, policy |-> policy, rev |-> Len(replaced) + 1]
MayChange == admin = Null /\ Len(replaced) < MaxChanges

\* normalize_mutation_input: a limit is at least one, or absent
ValidMutation(policy) == policy.rpm # 0 /\ policy.tpm # 0

\* POST: the account is created in one transaction, then read back
Create(policy) ==
  /\ MayChange /\ row = Null /\ minted < MaxSecrets /\ ValidMutation(policy)
  /\ Write(Version(minted + 1, policy)) /\ minted' = minted + 1
  /\ admin' = [op |-> "create", secret |-> Null, step |-> "read_back"]
  /\ UNCHANGED <<authCache, retired>>

\* PATCH
UpdateKey(policy) ==
  /\ MayChange /\ row # Null /\ policy # row.policy /\ ValidMutation(policy)
  /\ Write(Version(row.secret, policy))
  /\ admin' = [op |-> "update", secret |-> Null, step |-> "read_back"]
  /\ UNCHANGED <<minted, authCache, retired>>

\* DELETE
DeleteKey ==
  /\ MayChange /\ row # Null
  /\ row' = Null /\ replaced' = [replaced EXCEPT ![row.rev] = clock]
  /\ admin' = [op |-> "delete", secret |-> row.secret, step |-> "invalidate"]
  /\ UNCHANGED <<minted, authCache, retired>>

\* POST rotate: generate_key, then an update of the hash and the prefix only
Rotate ==
  /\ MayChange /\ row # Null /\ minted < MaxSecrets
  /\ Write(Version(minted + 1, row.policy)) /\ minted' = minted + 1
  /\ admin' = [op |-> "rotate", secret |-> row.secret, step |-> "invalidate"]
  /\ UNCHANGED <<authCache, retired>>

\* create and update read the row again; when that fails they answer with the
\* error and leave the cache alone
SelectVirtualKey ==
  /\ admin # Null /\ admin.step = "read_back"
  /\ \/ row # Null /\ admin' = [admin EXCEPT !.step = "invalidate"]
     \/ admin' = Null
  /\ UNCHANGED <<row, replaced, minted, authCache, retired>>

\* invalidate_all, and the answer of the Admin API
InvalidateAll ==
  /\ admin # Null /\ admin.step = "invalidate"
  /\ authCache' = [s \in Secrets |-> Null]
  /\ admin' = Null
  /\ retired' = IF admin.op \in {"rotate", "delete"} THEN retired \cup {admin.secret} ELSE retired
  /\ UNCHANGED <<row, replaced, minted>>

\* Another node, or a direct write to the database
ChangedElsewhere(policy) ==
  /\ MayChange /\ row # Null /\ policy # row.policy
  /\ Write(Version(row.secret, policy))
  /\ UNCHANGED <<minted, authCache, admin, retired>>

KeyStep ==
  /\ \/ DeleteKey \/ Rotate \/ SelectVirtualKey \/ InvalidateAll
     \/ \E p \in Policies : Create(p) \/ UpdateKey(p) \/ ChangedElsewhere(p)
  /\ UNCHANGED <<clock, window, caller, storeVars, permits, owner>>

(***************************************************************************)
(* ai-key-auth                                                             *)
(***************************************************************************)
\* Authorization, then x-api-key, then the configured header
ExtractCredential(headers) ==
  IF headers[1] # Null THEN headers[1] ELSE IF headers[2] # Null THEN headers[2] ELSE headers[3]

\* `enabled` and `expires_at` are judged when the row is used, not when it is cached.
Authentic(found) ==
  /\ found # Null
  /\ found.policy.enabled
  /\ found.policy.expires = Null \/ clock < found.policy.expires

\* An empty list is no restriction; a body without a model is not checked.
ModelAllowed(policy, model) ==
  policy.models = Null \/ policy.models = {} \/ model = Null \/ model \in policy.models

\* The identity is set before the allow list is looked at.
Authenticate(r, found) ==
  IF ~Authentic(found) THEN Refuse(r, 401)
  ELSE IF ModelAllowed(found.policy, caller[r].ask.model) THEN Update(r, [key |-> found, at |-> clock, pc |-> "guard"])
  ELSE Update(r, [key |-> found, at |-> clock, pc |-> "headers", status |-> 403])

IsCached_Forever(s) == authCache[s] # Null
IsCached(s) == authCache[s] # Null /\ clock < authCache[s].at + CacheTtl

Arrive(r, ask) ==
  /\ Step(r, "idle")
  /\ LET cred == ExtractCredential(ask.headers) IN
     caller' = [caller EXCEPT ![r] = [Idle EXCEPT !.ask = ask, !.retired = cred \in retired,
                                       !.pc = IF ask.chain.auth THEN "auth" ELSE "guard"]]
  /\ UNCHANGED <<keyVars, clock, window, storeVars, permits, owner>>

Lookup(r) ==
  /\ Step(r, "auth")
  /\ LET cred == ExtractCredential(caller[r].ask.headers) IN
     IF cred = Null THEN Refuse(r, 401)
     ELSE IF IsCached(cred) THEN Authenticate(r, authCache[cred].row)
     ELSE Update(r, [pc |-> "find"])
  /\ UNCHANGED <<keyVars, clock, window, storeVars, permits, owner>>

\* find_by_hash: what the database answers
FindByHash(r) ==
  /\ Step(r, "find")
  /\ LET cred == ExtractCredential(caller[r].ask.headers) IN
     Update(r, [pc |-> "found", since |-> clock,
                found |-> IF row # Null /\ row.secret = cred THEN row ELSE Null])
  /\ UNCHANGED <<keyVars, clock, window, storeVars, permits, owner>>

\* A lookup that fails lets nobody in and is not cached.
LookupFails(r) ==
  /\ Step(r, "find") /\ Refuse(r, 401)
  /\ UNCHANGED <<keyVars, clock, window, storeVars, permits, owner>>

\* The task resumes with what it read, caches it (absence too) and goes on.
CacheFound(r) ==
  /\ Step(r, "found")
  /\ authCache' = [authCache EXCEPT ![ExtractCredential(caller[r].ask.headers)] =
                     [row |-> caller[r].found, at |-> clock]]
  /\ Authenticate(r, caller[r].found)
  /\ UNCHANGED <<row, replaced, minted, admin, retired, clock, window, storeVars, permits, owner>>

(***************************************************************************)
(* ai-prompt-guard: user messages only, the first violation decides        *)
(***************************************************************************)
Violates(cfg, m) ==
  /\ m.role = "user"
  /\ \/ m.size > cfg.max
     \/ m.words \cap cfg.deny # {}
     \/ cfg.allow # {} /\ m.words \cap cfg.allow = {}

PromptGuard(r) ==
  /\ Step(r, "guard")
  /\ LET ask == caller[r].ask  cfg == ask.chain.guard
         Pass == Update(r, [pc |-> "limit"])
     IN IF cfg = Null THEN Pass
        ELSE IF ~ask.json \/ (ask.messages # Null /\ ~cfg.valid) THEN Refuse(r, 500)
        ELSE IF ask.messages # Null /\ (\E i \in DOMAIN ask.messages : Violates(cfg, ask.messages[i]))
                /\ cfg.action = "block" THEN Refuse(r, 400)
        ELSE Pass
  /\ UNCHANGED <<keyVars, clock, window, storeVars, permits, owner>>

(***************************************************************************)
(* ai-rate-limit                                                           *)
(***************************************************************************)
\* build_snapshot: the first error of the resolved chain, if any
ChainInvalid(chain) ==
  \/ chain.proxy \in {"bad_config", "bad_protocol"}
  \/ chain.limit \notin Modes
  \/ chain.limit = "virtual_key" /\ chain.proxy = Null

NonZero(n) == IF n = 0 THEN Null ELSE n
Limits(r) ==
  LET chain == caller[r].ask.chain
      from == IF chain.limit = "virtual_key" THEN caller[r].key.policy ELSE chain
  IN [rpm |-> NonZero(from.rpm), tpm |-> NonZero(from.tpm)]
Unlimited(r) == Limits(r).rpm = Null /\ Limits(r).tpm = Null

SelectSubject(r) ==
  /\ Step(r, "limit")
  /\ LET chain == caller[r].ask.chain IN
     IF chain.limit = Null THEN Update(r, [pc |-> "ready"])
     ELSE IF ChainInvalid(chain) THEN Refuse(r, 500)
     ELSE IF chain.limit = "virtual_key" /\ caller[r].key = Null THEN Refuse(r, 401)
     ELSE IF chain.limit = "route" /\ caller[r].ask.route = Null THEN Refuse(r, 500)
     ELSE IF chain.limit = "virtual_key" /\ caller[r].key.policy.guard THEN Update(r, [pc |-> "permit"])
     ELSE Update(r, [pc |-> "reserve"])
  /\ UNCHANGED <<keyVars, clock, window, storeVars, permits, owner>>

\* inspect_budget_before_quota: a permit is taken (or waited for in vain)
AcquirePermit(r) ==
  /\ Step(r, "permit")
  /\ \/ owner # "ok" /\ Refuse(r, 503) /\ UNCHANGED permits
     \/ owner = "ok" /\ permits > 0 /\ permits' = permits - 1 /\ Update(r, [pc |-> "inspect"])
     \/ owner = "ok" /\ permits = 0 /\ Refuse(r, 503) /\ UNCHANGED permits
  /\ UNCHANGED <<keyVars, clock, window, storeVars, owner>>

InspectBudget(r) ==
  /\ Step(r, "inspect")
  /\ permits' = permits + 1
  /\ \/ Update(r, [pc |-> "reserve", budget |-> TRUE])    \* Eligible
     \/ Update(r, [pc |-> "reserve"])                     \* Paused
     \/ Update(r, [pc |-> "exhausted"])
     \/ Refuse(r, 503)
  /\ UNCHANGED <<keyVars, clock, window, storeVars, owner>>

Subject(r) == IF caller[r].ask.chain.limit = "virtual_key" THEN "key" ELSE caller[r].ask.chain.limit
Counted(s) == {r \in Callers : admitted[r] # Null /\ admitted[r].ok /\ admitted[r].subject = s /\ admitted[r].window = window}
ChargeOf(r) == IF settledAs[r] = Null \/ settledAs[r].noop THEN admitted[r].reserve ELSE settledAs[r].charge
Used(s) == [requests |-> MapThenSumSet(LAMBDA r : ChargeOf(r).requests, Counted(s)),
            tokens   |-> MapThenSumSet(LAMBDA r : ChargeOf(r).tokens, Counted(s))]
\* A snapshot: its window, and what of it is this request's own
Shot(w, own) == [window |-> w, own |-> own]
NoCharge == [requests |-> 0, tokens |-> 0]

QuotaContext(reserved, shot, settlement, rejected) ==
  [reserved |-> reserved, admission |-> shot, response |-> Null, settlement |-> settlement,
   rejected |-> rejected, command |-> Null]

\* Only a snapshot is read for a key whose budget is spent.
BudgetExhausted(r) ==
  /\ Step(r, "exhausted")
  /\ IF Unlimited(r) THEN Refuse(r, 403)
     ELSE \/ QuotaSupported /\ Update(r, [pc |-> "headers", status |-> 403,
                                          quota |-> QuotaContext(NoCharge, Shot(window, 0), "not_required", FALSE)])
          \/ Refuse(r, 503)
  /\ UNCHANGED <<keyVars, clock, window, storeVars, permits, owner>>

\* compute_estimated_prompt_tokens only when tokens are limited
ReserveFor(r) == [requests |-> 1, tokens |-> IF Limits(r).tpm = Null THEN 0 ELSE caller[r].ask.estimate]
AdmitCommand(r) == [op |-> "admit", id |-> r, subject |-> Subject(r), limits |-> Limits(r), charge |-> ReserveFor(r)]
SettleCommand(r, charge) == [op |-> "settle", id |-> r, charge |-> charge]

Reserve(r) ==
  /\ Step(r, "reserve")
  /\ IF Unlimited(r) THEN Update(r, [pc |-> "ready"])
     ELSE IF ~QuotaSupported THEN Refuse(r, 503)
     ELSE Update(r, [pc |-> "call", ending |-> "admit", tries |-> 1, cmd |-> AdmitCommand(r)])
  /\ UNCHANGED <<keyVars, clock, window, storeVars, permits, owner>>

(***************************************************************************)
(* The quota store, as the trait RateLimitStore promises it: a command     *)
(* takes effect once, and seen again it is answered as the first time.     *)
(***************************************************************************)
Fits(cmd) ==
  LET used == Used(cmd.subject) IN
  /\ cmd.limits.rpm = Null \/ used.requests + cmd.charge.requests <= cmd.limits.rpm
  /\ cmd.limits.tpm = Null \/ used.tokens + cmd.charge.tokens <= cmd.limits.tpm

StoreApply(cmd) ==
  /\ admitted' = IF cmd.op = "admit" /\ admitted[cmd.id] = Null
                 THEN [admitted EXCEPT ![cmd.id] = [ok |-> Fits(cmd), subject |-> cmd.subject, window |-> window,
                                                    reserve |-> cmd.charge]]
                 ELSE admitted
  /\ settledAs' = IF cmd.op = "settle" /\ settledAs[cmd.id] = Null
                  THEN [settledAs EXCEPT ![cmd.id] = [charge |-> cmd.charge, noop |-> admitted[cmd.id].window # window]]
                  ELSE settledAs
InStore(cmd) == IF cmd.op = "admit" THEN admitted[cmd.id] # Null ELSE settledAs[cmd.id] # Null
\* The operation is known with another charge.
Conflicts(cmd) == cmd.op = "settle" /\ settledAs[cmd.id] # Null /\ settledAs[cmd.id].charge # cmd.charge

(***************************************************************************)
(* admit_with_recovery and settle_with_recovery                            *)
(***************************************************************************)
\* What the request does with the verdict on its admission ...
Admitted(r) ==
  LET verdict == admitted'[r] IN
  IF verdict.ok
  THEN Update(r, [pc |-> "ready",
                  quota |-> QuotaContext(ReserveFor(r), Shot(verdict.window, verdict.reserve.requests), "pending", FALSE)])
  ELSE Update(r, [pc |-> "headers", status |-> 429,
                  quota |-> QuotaContext(ReserveFor(r), Shot(verdict.window, 0), "not_required", TRUE)])
NotAdmitted(r) == Refuse(r, 503)

\* ... and with the result of its settlement, before the answer or after it
After(r) == IF caller[r].ending = "refund" THEN "headers" ELSE "done"
SettlementKnown(r) ==
  Update(r, [pc |-> After(r),
             quota |-> [caller[r].quota EXCEPT !.settlement = "settled",
                          !.response = IF settledAs'[r].noop THEN Null
                                       ELSE Shot(admitted[r].window, settledAs'[r].charge.requests)]])
SettlementUnknown_KeepsSnapshot(r) ==
  Update(r, [pc |-> After(r), quota |-> [caller[r].quota EXCEPT !.settlement = "retry_required"],
             status |-> IF caller[r].ending = "refund" /\ caller[r].status = Null THEN 503 ELSE caller[r].status])
SettlementUnknown(r) ==
  LET quota == [caller[r].quota EXCEPT !.settlement = "retry_required"] IN
  IF caller[r].ending = "refund"
  THEN Update(r, [pc |-> "headers", quota |-> [quota EXCEPT !.admission = Null, !.response = Null],
                  status |-> IF caller[r].status = Null THEN 503 ELSE caller[r].status])
  ELSE Update(r, [pc |-> "done", quota |-> quota])

Succeed(r) == IF caller[r].ending = "admit" THEN Admitted(r) ELSE SettlementKnown(r)
Fail(r) == IF caller[r].ending = "admit" THEN NotAdmitted(r) ELSE SettlementUnknown(r)

CallStore(r) ==
  /\ Step(r, "call")
  /\ LET cmd == caller[r].cmd IN
     \/ ~Conflicts(cmd) /\ StoreApply(cmd) /\ Succeed(r) /\ UNCHANGED late
     \/ StoreApply(cmd) /\ Update(r, [pc |-> "ask"]) /\ UNCHANGED late                  \* the answer is lost
     \/ late' = late \cup {cmd} /\ Update(r, [pc |-> "ask"]) /\ UNCHANGED <<admitted, settledAs>>
     \/ Fail(r) /\ UNCHANGED storeVars
  /\ UNCHANGED <<keyVars, clock, window, permits, owner>>

\* The outcome is asked for; if it stays unknown the same command is sent once more.
AskStore(r) ==
  /\ Step(r, "ask")
  /\ UNCHANGED storeVars
  /\ \/ InStore(caller[r].cmd) /\ Succeed(r)
     \/ caller[r].tries = 1 /\ Update(r, [pc |-> "call", tries |-> 2])      \* not found, or lost again
     \/ Fail(r)
  /\ UNCHANGED <<keyVars, clock, window, permits, owner>>

\* A command whose answer was given up reaches the store after all.
LateCommand ==
  /\ \E cmd \in late : late' = late \ {cmd} /\ StoreApply(cmd)
  /\ UNCHANGED <<keyVars, clock, window, caller, permits, owner>>

(***************************************************************************)
(* Dispatch, its abort, and the end of the request                         *)
(***************************************************************************)
\* The upstream is attempted, and reports tokens or not.
DispatchCall(r) ==
  /\ Step(r, "ready")
  /\ Update(r, [pc |-> "headers", attempted |-> TRUE])
  /\ UNCHANGED <<keyVars, clock, window, storeVars, permits, owner>>

\* A later plugin answers, or the client leaves.
EndEarly(r) ==
  /\ Step(r, "ready")
  /\ Refuse(r, 400)
  /\ UNCHANGED <<keyVars, clock, window, storeVars, permits, owner>>

Closed(r) == caller[r].quota = Null \/ caller[r].quota.settlement \in {"not_required", "settled"}
\* A settlement command, once made, is the command of every later attempt.
KeepCommand(r, charge) ==
  [caller[r].quota EXCEPT !.command = IF @ = Null THEN SettleCommand(r, charge) ELSE @]

\* A critical hook failed: the whole reservation goes back before the answer.
AbortDispatch(r) ==
  /\ Step(r, "ready")
  /\ IF Closed(r) THEN Update(r, [pc |-> "headers", aborted |-> TRUE, status |-> 503])
     ELSE \E status \in {Null, 403} :    \* the hook may have left its own answer
            Update(r, [pc |-> "call", ending |-> "refund", tries |-> 1, aborted |-> TRUE, status |-> status,
                       quota |-> KeepCommand(r, NoCharge), cmd |-> KeepCommand(r, NoCharge).command])
  /\ UNCHANGED <<keyVars, clock, window, storeVars, permits, owner>>

\* What a finished request owes
FinalCharge(r) ==
  [requests |-> 1,
   tokens |-> IF ~caller[r].attempted THEN 0
              ELSE IF caller[r].ask.tokens = Null THEN caller[r].quota.reserved.tokens
              ELSE caller[r].ask.tokens]

\* header_filter: the refunded snapshot if there is one, else that of the admission
HeaderFilter(r) ==
  /\ Step(r, "headers")
  /\ LET quota == caller[r].quota
         shown == IF quota = Null THEN Null ELSE IF quota.response # Null THEN quota.response ELSE quota.admission
     IN Update(r, [pc |-> "finalize",
                   headers |-> IF shown = Null THEN Null ELSE [shown |-> shown, at |-> window]])
  /\ UNCHANGED <<keyVars, clock, window, storeVars, permits, owner>>

PrepareFinalSettlement_Recomputes(r) == [caller[r].quota EXCEPT !.command = SettleCommand(r, FinalCharge(r))]
PrepareFinalSettlement(r) == KeepCommand(r, FinalCharge(r))

FinalizeQuota(r) ==
  /\ Step(r, "finalize")
  /\ IF Closed(r) THEN Update(r, [pc |-> "done"])
     ELSE Update(r, [pc |-> "call", ending |-> "final", tries |-> 1, quota |-> PrepareFinalSettlement(r),
                     cmd |-> PrepareFinalSettlement(r).command])
  /\ UNCHANGED <<keyVars, clock, window, storeVars, permits, owner>>

Leave(r) ==
  /\ Step(r, "done") /\ admitted[r] = Null /\ (\A cmd \in late : cmd.id # r)
  /\ caller' = [caller EXCEPT ![r] = Idle]
  /\ UNCHANGED <<keyVars, clock, window, storeVars, permits, owner>>

(***************************************************************************)
(* Time                                                                    *)
(***************************************************************************)
TickAdmission ==
  /\ clock < MaxClock /\ clock' = clock + 1
  /\ \A r \in Callers : Step(r, "found") => clock - caller[r].since < MaxLookup
  /\ UNCHANGED <<keyVars, window, caller, storeVars, permits, owner>>
NextWindow ==
  /\ window < MaxWindow /\ window' = window + 1
  /\ UNCHANGED <<keyVars, clock, caller, storeVars, permits, owner>>
OwnerChanges ==
  /\ owner # "unsupported" /\ owner' = (IF owner = "ok" THEN "fenced" ELSE "ok")
  /\ UNCHANGED <<keyVars, clock, window, caller, storeVars, permits>>

AdmissionInit ==
  /\ \E p \in Policies : row = [secret |-> 1, policy |-> p, rev |-> 1]
  /\ replaced = <<Null>> /\ minted = 1 /\ authCache = [s \in Secrets |-> Null]
  /\ admin = Null /\ retired = {} /\ clock = 0 /\ window = 0
  /\ caller = [r \in Callers |-> Idle]
  /\ admitted = [r \in Callers |-> Null] /\ settledAs = [r \in Callers |-> Null] /\ late = {}
  /\ permits = Permits /\ owner \in {"ok", "unsupported"}

CallerStep(r) ==
  \/ \E a \in Asks : Arrive(r, a)
  \/ Lookup(r) \/ FindByHash(r) \/ LookupFails(r) \/ CacheFound(r) \/ PromptGuard(r) \/ SelectSubject(r)
  \/ AcquirePermit(r) \/ InspectBudget(r) \/ BudgetExhausted(r) \/ Reserve(r) \/ CallStore(r) \/ AskStore(r)
  \/ DispatchCall(r) \/ EndEarly(r) \/ AbortDispatch(r) \/ HeaderFilter(r) \/ FinalizeQuota(r)
  \/ Leave(r)

AdmissionNext == KeyStep \/ TickAdmission \/ NextWindow \/ LateCommand \/ OwnerChanges \/ \E r \in Callers : CallerStep(r)

AdmissionSpec == AdmissionInit /\ [][AdmissionNext]_admissionVars

(***************************************************************************)
(* Properties                                                              *)
(***************************************************************************)
\* A key that is disabled, restricted, rotated or deleted, by this node's Admin
\* API or by anybody else, lets no request in once the time to live of the
\* cache and one lookup have passed, whatever lookups were under way when the
\* cache was emptied; an expired key lets nobody in at all (authenticate,
\* lookup and invalidate_all).
KeyStopsInTime ==
  \A r \in Callers : caller[r].key # Null =>
    /\ LET gone == replaced[caller[r].key.rev] IN gone = Null \/ caller[r].at < gone + CacheTtl + MaxLookup
    /\ caller[r].key.policy.expires = Null \/ caller[r].at < caller[r].key.policy.expires

\* A request that arrives after the rotation or the deletion of its key has been
\* answered is not let in: "the rotated-out key must stop working immediately"
\* (comment of rotate).  A lookup that read the old row before the write puts
\* it back into the cache after invalidate_all.
RotatedKeyStops == \A r \in Callers : caller[r].retired => caller[r].key = Null

\* Whatever answers of the quota store are lost and whatever it is told again:
\* a limited request reaches the upstream only with a reservation in the store;
\* what the store charges in the end is nothing for an aborted dispatch, one
\* request without tokens when the upstream was not tried, and otherwise the
\* tokens observed or else reserved; and a reservation of a finished request
\* that is not settled belongs to one that was told so or keeps its command
\* (the recovery of orchestration.rs, prepare_zero_ and
\* prepare_final_settlement).
QuotaSettledAsEnded ==
  \A r \in Callers :
    LET c == caller[r]  held == admitted[r] # Null /\ admitted[r].ok IN
    /\ c.attempted /\ c.ask.chain.limit # Null /\ ~Unlimited(r) => held
    /\ settledAs[r] # Null => settledAs[r].charge = IF c.aborted THEN NoCharge ELSE FinalCharge(r)
    /\ c.pc = "done" /\ held =>
         \/ c.quota = Null /\ c.status = 503
         \/ c.quota # Null /\ c.quota.settlement = "settled" /\ settledAs[r] # Null
         \/ c.quota # Null /\ c.quota.settlement = "retry_required" /\ c.quota.command # Null

\* The quota headers of an aborted request never count its reservation against
\* the window they describe: they show the refunded numbers, and when the
\* refund cannot be confirmed there are none (compensate_before_response and
\* header_filter).
QuotaHeadersTrue ==
  \A r \in Callers : caller[r].aborted /\ caller[r].headers # Null =>
    LET h == caller[r].headers IN h.shown.window = h.at => h.shown.own = 0

(***************************************************************************)
(* Strengthening of the three to inductive invariants (AiAdmissionProofs). *)
(***************************************************************************)
\* A revision of the row: read at `since`, it was not replaced before.
Unreplaced(revision, since) ==
  /\ revision.rev \in DOMAIN replaced
  /\ replaced[revision.rev] = Null \/ since <= replaced[revision.rev]

\* The row is its last revision, and nothing that was read of it, cached or
\* used is older than a lookup takes and the cache keeps it.
KeyInv ==
  /\ clock \in Nat /\ DOMAIN authCache = Secrets
  /\ replaced \in Seq(Nat \cup {Null})
  /\ \A i \in DOMAIN replaced : replaced[i] = Null \/ replaced[i] <= clock
  /\ row # Null => row.rev \in DOMAIN replaced /\ replaced[row.rev] = Null
  /\ \A s \in Secrets : authCache[s] # Null =>
       /\ authCache[s].at \in 0..clock
       /\ authCache[s].row # Null => Unreplaced(authCache[s].row, authCache[s].at - MaxLookup)
  /\ \A r \in Callers :
       LET c == caller[r] IN
       /\ c.pc = "found" =>
            /\ c.since \in 0..clock /\ clock <= c.since + MaxLookup
            /\ c.found # Null => Unreplaced(c.found, c.since)
       /\ c.key # Null =>
            /\ c.at \in 0..clock /\ Unreplaced(c.key, c.at - CacheTtl - MaxLookup + 1)
            /\ c.key.policy.expires = Null \/ c.at < c.key.policy.expires

StoreTypeOK ==
  /\ window \in Nat
  /\ admitted \in [Callers -> Admissions \cup {Null}]
  /\ settledAs \in [Callers -> Settlements \cup {Null}]
  /\ \A cmd \in late :
       /\ cmd.id \in Callers /\ cmd.charge \in Charges
       /\ \/ cmd.op = "admit" /\ cmd.subject \in Modes \cup {"key"}
          \/ cmd \in SettleCommands

CallerTypeOK(r) ==
  LET c == caller[r] IN
  /\ DOMAIN c = DOMAIN Idle
  /\ c.pc # "idle" => c.ask \in Asks
  /\ c.quota \in Quotas \cup {Null} /\ c.headers \in Headers \cup {Null}
  /\ c.attempted \in BOOLEAN /\ c.aborted \in BOOLEAN

Arriving == {"idle", "auth", "find", "found", "guard", "limit"}
Choosing == {"permit", "inspect", "exhausted", "reserve"}
Ending == {"headers", "finalize", "done"}

Mine(r) == {cmd \in late : cmd.id = r}
\* The store has not heard of the request and will not.
Unheard(r) == admitted[r] = Null /\ settledAs[r] = Null /\ Mine(r) = {}
Holds(r) == admitted[r] # Null /\ admitted[r].ok

\* Where a request is, and what it has there
Place(r) ==
  LET c == caller[r] IN
  /\ c.pc \in Arriving \cup Choosing \cup {"call", "ask", "ready"} \cup Ending
  /\ c.pc \in Arriving \cup Choosing =>
       /\ c.quota = Null /\ Unheard(r) /\ ~c.attempted /\ ~c.aborted /\ c.headers = Null
  /\ c.pc \in Choosing => c.ask.chain.limit \in Modes
  /\ c.pc = "ready" => /\ ~c.attempted /\ ~c.aborted /\ c.headers = Null
                       /\ IF c.quota = Null
                          THEN Unheard(r) /\ (c.ask.chain.limit = Null \/ Unlimited(r))
                          ELSE c.quota.settlement = "pending" /\ c.quota.command = Null
  /\ c.pc \in {"call", "ask"} =>
       /\ c.ending \in {"admit", "refund", "final"}
       /\ IF c.ending = "admit"
          THEN /\ c.quota = Null /\ c.cmd = AdmitCommand(r) /\ c.ask.chain.limit \in Modes
               /\ ~c.attempted /\ ~c.aborted /\ c.headers = Null
          ELSE /\ c.quota # Null /\ c.quota.settlement \in {"pending", "retry_required"}
               /\ c.quota.command # Null /\ c.cmd = c.quota.command
       /\ c.ending = "refund" => c.aborted /\ c.headers = Null
  /\ c.pc = "headers" => c.headers = Null
  /\ c.pc = "done" /\ c.quota # Null => c.quota.settlement # "pending"

\* What the store may hold or be told of the request, by what the request knows
Known(r) ==
  LET c == caller[r] IN
  /\ settledAs[r] # Null => /\ c.quota # Null /\ c.quota.command # Null
                            /\ settledAs[r].charge = c.quota.command.charge
                            /\ settledAs[r].noop => admitted[r].window < window
  /\ admitted[r] # Null => admitted[r].window <= window
  /\ \A cmd \in Mine(r) : cmd.op = "settle" => c.quota # Null /\ cmd = c.quota.command
  /\ c.quota = Null /\ c.pc \in Ending =>
       Unheard(r) \/ (c.status = 503 /\ ~c.attempted /\ ~c.aborted)
  /\ c.attempted => c.ask.chain.limit = Null \/ Unlimited(r) \/ Holds(r)
  /\ c.quota # Null =>
       /\ IF c.quota.settlement = "not_required"
          THEN /\ c.quota.command = Null /\ ~c.attempted /\ ~c.aborted
               /\ Unheard(r) \/ (admitted[r] # Null /\ ~admitted[r].ok)
          ELSE /\ Holds(r)
               /\ c.quota.admission # Null => c.quota.admission.window = admitted[r].window
       /\ c.quota.settlement = "settled" => settledAs[r] # Null
       /\ c.quota.settlement = "retry_required" \/ c.aborted => c.quota.command # Null
       /\ c.quota.command # Null =>
            c.quota.command = SettleCommand(r, IF c.aborted THEN NoCharge ELSE FinalCharge(r))

\* What the headers of an aborted request show, or are about to
Clean(shot, w) == shot.own = 0 \/ shot.window # w
Told(r) ==
  LET c == caller[r] IN
  c.aborted =>
    /\ c.headers # Null => Clean(c.headers.shown, c.headers.at)
    /\ c.pc = "headers" /\ c.quota # Null =>
         /\ c.quota.response # Null => c.quota.response.own = 0
         /\ c.quota.response = Null /\ c.quota.admission # Null => c.quota.admission.window < window

CallerInv(r) == CallerTypeOK(r) /\ Place(r) /\ Known(r) /\ Told(r)

QuotaInv == StoreTypeOK /\ DOMAIN caller = Callers /\ \A r \in Callers : CallerInv(r)

AdmissionInv == KeyInv /\ QuotaInv
=============================================================================
