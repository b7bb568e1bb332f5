-------------------------- MODULE AiAdmissionProofs --------------------------
(***************************************************************************)
(* Proofs about virtual keys and the quota of a request, for any number of *)
(* requests, keys and changes, and whatever answers of the quota store are *)
(* lost or late; about the request side of ai-proxy, for any clients,      *)
(* bodies, groups and policies; and about what a request is charged, for   *)
(* any catalogues, answers and budgets.                                    *)
(***************************************************************************)
EXTENDS AiAdmission, AiRouting, AiUsage, SequenceTheorems, WellFoundedInduction, TLAPS

Fields == {"ask", "pc", "key", "at", "found", "since", "retired", "status", "quota", "cmd", "tries",
           "ending", "attempted", "aborted", "budget", "headers"}

(* The fields of a request. *)
LEMMA IdleFields == DOMAIN Idle = Fields
  BY DEF Idle, Fields

(* An update changes the fields it names, of the request it names. *)
LEMMA UpdateIs ==
  ASSUME NEW r \in Callers, NEW fields, DOMAIN caller = Callers, DOMAIN caller[r] = Fields,
         Update(r, fields)
  PROVE  /\ DOMAIN caller' = Callers /\ \A q \in Callers \ {r} : caller'[q] = caller[q]
         /\ DOMAIN caller'[r] = Fields
         /\ \A f \in Fields : caller'[r][f] = IF f \in DOMAIN fields THEN fields[f] ELSE caller[r][f]
  BY DEF Update

(* The same, field by field (of those the quota is about). *)
LEMMA UpdateFields ==
  ASSUME NEW r \in Callers, NEW fields, DOMAIN caller = Callers, DOMAIN caller[r] = Fields,
         Update(r, fields)
  PROVE  /\ DOMAIN caller' = Callers /\ DOMAIN caller'[r] = Fields
         /\ \A q \in Callers \ {r} : caller'[q] = caller[q]
         /\ caller'[r].ask = IF "ask" \in DOMAIN fields THEN fields.ask ELSE caller[r].ask
         /\ caller'[r].pc = IF "pc" \in DOMAIN fields THEN fields.pc ELSE caller[r].pc
         /\ caller'[r].key = IF "key" \in DOMAIN fields THEN fields.key ELSE caller[r].key
         /\ caller'[r].at = IF "at" \in DOMAIN fields THEN fields.at ELSE caller[r].at
         /\ caller'[r].found = IF "found" \in DOMAIN fields THEN fields.found ELSE caller[r].found
         /\ caller'[r].since = IF "since" \in DOMAIN fields THEN fields.since ELSE caller[r].since
         /\ caller'[r].status = IF "status" \in DOMAIN fields THEN fields.status ELSE caller[r].status
         /\ caller'[r].quota = IF "quota" \in DOMAIN fields THEN fields.quota ELSE caller[r].quota
         /\ caller'[r].cmd = IF "cmd" \in DOMAIN fields THEN fields.cmd ELSE caller[r].cmd
         /\ caller'[r].ending = IF "ending" \in DOMAIN fields THEN fields.ending ELSE caller[r].ending
         /\ caller'[r].attempted = IF "attempted" \in DOMAIN fields THEN fields.attempted ELSE caller[r].attempted
         /\ caller'[r].aborted = IF "aborted" \in DOMAIN fields THEN fields.aborted ELSE caller[r].aborted
         /\ caller'[r].headers = IF "headers" \in DOMAIN fields THEN fields.headers ELSE caller[r].headers
<1>1. /\ DOMAIN caller' = Callers /\ DOMAIN caller'[r] = Fields
      /\ \A q \in Callers \ {r} : caller'[q] = caller[q]
      /\ \A f \in Fields : caller'[r][f] = IF f \in DOMAIN fields THEN fields[f] ELSE caller[r][f]
  BY UpdateIs
<1> QED BY <1>1 DEF Fields

(* Null is no record of the quota. *)
LEMMA NotNull ==
  /\ \A x \in Shots : x # Null
  /\ \A x \in SettleCommands : x # Null
  /\ \A x \in Quotas : x # Null
  /\ \A x \in Admissions : x # Null
  /\ \A x \in Settlements : x # Null
  /\ \A x \in Headers : x # Null
  BY AdmissionAssumption, Zenon

-----------------------------------------------------------------------------
(* Frames *)

(* A step that is not about q, its records in the store or its commands. *)
SameFor(q) ==
  /\ caller'[q] = caller[q] /\ admitted'[q] = admitted[q] /\ settledAs'[q] = settledAs[q]
  /\ Mine(q)' = Mine(q)

(* What is known of q survives such a step in the same window. *)
LEMMA SameKeeps ==
  ASSUME NEW q \in Callers, CallerInv(q), SameFor(q), window' = window
  PROVE  CallerInv(q)'
<1>1. Unlimited(q)' = Unlimited(q) /\ AdmitCommand(q)' = AdmitCommand(q) /\ FinalCharge(q)' = FinalCharge(q)
  BY DEF SameFor, Unlimited, AdmitCommand, FinalCharge, Limits, ReserveFor, Subject
<1>2. CallerTypeOK(q)' /\ Told(q)'
  BY DEF SameFor, CallerInv, CallerTypeOK, Told
<1>3. Place(q)'
  BY <1>1 DEF SameFor, CallerInv, Place, Unheard
<1>4. Known(q)'
  BY <1>1 DEF SameFor, CallerInv, Known, Unheard, Holds, SettleCommand
<1> QED BY <1>2, <1>3, <1>4 DEF CallerInv

(* So a step of one request need only be looked at for that request. *)
LEMMA OneCaller ==
  ASSUME QuotaInv, NEW r \in Callers, \A q \in Callers \ {r} : SameFor(q), window' = window,
         StoreTypeOK', DOMAIN caller' = Callers, CallerInv(r)'
  PROVE  QuotaInv'
  BY SameKeeps DEF QuotaInv

(* A step that leaves the store alone and changes one request. *)
LEMMA StoreRests ==
  ASSUME QuotaInv, NEW r \in Callers, UNCHANGED <<storeVars, window>>,
         \A q \in Callers \ {r} : caller'[q] = caller[q]
  PROVE  StoreTypeOK' /\ Mine(r)' = Mine(r) /\ \A q \in Callers \ {r} : SameFor(q)
  BY DEF QuotaInv, StoreTypeOK, SameFor, Mine, storeVars

(* A step that leaves store and requests alone. *)
LEMMA QuotaRests ==
  ASSUME QuotaInv, UNCHANGED <<storeVars, window, caller>>
  PROVE  QuotaInv'
<1>1. StoreTypeOK' /\ DOMAIN caller' = Callers
  BY DEF QuotaInv, StoreTypeOK, storeVars
<1>2. \A q \in Callers : SameFor(q)
  BY DEF SameFor, Mine, storeVars
<1> QED BY <1>1, <1>2, SameKeeps DEF QuotaInv

(* Before its admission a request goes on, or is refused. *)
LEMMA EarlyMove ==
  ASSUME QuotaInv, NEW r \in Callers, caller[r].pc \in Arriving \cup Choosing,
         UNCHANGED <<storeVars, window>>,
         DOMAIN caller' = Callers, \A q \in Callers \ {r} : caller'[q] = caller[q],
         DOMAIN caller'[r] = Fields,
         caller'[r].quota = caller[r].quota, caller'[r].attempted = caller[r].attempted,
         caller'[r].aborted = caller[r].aborted, caller'[r].headers = caller[r].headers,
         caller'[r].pc # "idle" => caller'[r].ask \in Asks,
         \/ caller'[r].pc \in Arriving \cup {"headers"}
         \/ caller'[r].pc \in Choosing /\ caller'[r].ask.chain.limit \in Modes
  PROVE  QuotaInv'
<1>1. StoreTypeOK' /\ Mine(r)' = Mine(r) /\ \A q \in Callers \ {r} : SameFor(q)
  BY StoreRests
<1>2. CallerInv(r) BY DEF QuotaInv
<1>3. /\ caller[r].quota = Null /\ Unheard(r) /\ ~caller[r].attempted
      /\ ~caller[r].aborted /\ caller[r].headers = Null
  BY <1>2 DEF CallerInv, Place
<1>4. Unheard(r)'
  BY <1>1, <1>3 DEF Unheard, storeVars
<1>5. CallerTypeOK(r)'
  BY <1>2, IdleFields DEF CallerInv, CallerTypeOK
<1>6. Place(r)' /\ Told(r)'
  BY <1>3, <1>4 DEF Place, Told, Arriving, Choosing, Ending
<1>7. Known(r)'
  BY <1>1, <1>3, <1>4 DEF Known, Unheard
<1> QED BY <1>1, <1>5, <1>6, <1>7, OneCaller DEF CallerInv

(* Most of these steps are updates that leave quota and ask alone. *)
LEMMA EarlyUpdate ==
  ASSUME QuotaInv, NEW r \in Callers, UNCHANGED <<storeVars, window>>,
         caller[r].pc \in (Arriving \cup Choosing) \ {"idle"},
         NEW fields, Update(r, fields), "pc" \in DOMAIN fields,
         DOMAIN fields \cap {"ask", "quota", "attempted", "aborted", "headers"} = {},
         \/ fields.pc \in Arriving \cup {"headers"}
         \/ fields.pc \in Choosing /\ caller[r].ask.chain.limit \in Modes
  PROVE  QuotaInv'
<1>1. CallerTypeOK(r) /\ DOMAIN caller[r] = Fields /\ DOMAIN caller = Callers
  BY IdleFields DEF QuotaInv, CallerInv, CallerTypeOK
<1>2. /\ caller'[r].quota = caller[r].quota /\ caller'[r].attempted = caller[r].attempted
      /\ caller'[r].aborted = caller[r].aborted /\ caller'[r].headers = caller[r].headers
      /\ caller'[r].ask = caller[r].ask /\ caller'[r].pc = fields.pc
      /\ DOMAIN caller' = Callers /\ DOMAIN caller'[r] = Fields
      /\ \A q \in Callers \ {r} : caller'[q] = caller[q]
  BY <1>1, UpdateIs DEF Fields
<1>3. caller[r].ask \in Asks
  BY <1>1 DEF CallerTypeOK
<1> QED BY <1>2, <1>3, EarlyMove

(* A refusal is one of them. *)
LEMMA EarlyRefusal ==
  ASSUME QuotaInv, NEW r \in Callers, UNCHANGED <<storeVars, window>>,
         caller[r].pc \in (Arriving \cup Choosing) \ {"idle"}, NEW status, Refuse(r, status)
  PROVE  QuotaInv'
  BY EarlyUpdate DEF Refuse

-----------------------------------------------------------------------------
(* Authentication, guard and the choice of the subject *)

(* A request arrives. *)
LEMMA ArriveKeeps ==
  ASSUME QuotaInv, NEW r \in Callers, NEW a \in Asks, Arrive(r, a)
  PROVE  QuotaInv'
<1>1. CallerInv(r) /\ DOMAIN caller = Callers /\ caller[r].pc = "idle"
  BY DEF QuotaInv, Arrive, Step
<1>2. /\ caller[r].quota = Null /\ ~caller[r].attempted /\ ~caller[r].aborted /\ caller[r].headers = Null
      /\ caller[r].attempted \in BOOLEAN /\ caller[r].aborted \in BOOLEAN
  BY <1>1 DEF CallerInv, Place, CallerTypeOK, Arriving
<1>3. /\ DOMAIN caller' = Callers /\ \A q \in Callers \ {r} : caller'[q] = caller[q]
      /\ DOMAIN caller'[r] = Fields
      /\ caller'[r].ask = a /\ caller'[r].pc \in {"auth", "guard"}
      /\ caller'[r].quota = Null /\ caller'[r].headers = Null
      /\ caller'[r].attempted = FALSE /\ caller'[r].aborted = FALSE
  BY <1>1 DEF Arrive, Idle, Fields
<1> QED BY <1>1, <1>2, <1>3, EarlyMove DEF Arrive, Arriving

(* Authentication lets a request on or refuses it. *)
LEMMA AuthenticateKeeps ==
  ASSUME QuotaInv, NEW r \in Callers, UNCHANGED <<storeVars, window>>,
         caller[r].pc \in {"auth", "found"}, NEW found, Authenticate(r, found)
  PROVE  QuotaInv'
<1>1. CASE ~Authentic(found)
  BY <1>1, EarlyRefusal DEF Authenticate, Arriving
<1>2. CASE Authentic(found)
  BY <1>2, EarlyUpdate DEF Authenticate, Arriving
<1> QED BY <1>1, <1>2

(* The steps of ai-key-auth and ai-prompt-guard. *)
LEMMA AuthKeeps ==
  ASSUME QuotaInv, NEW r \in Callers,
         Lookup(r) \/ FindByHash(r) \/ LookupFails(r) \/ CacheFound(r) \/ PromptGuard(r)
  PROVE  QuotaInv'
<1>1. CASE Lookup(r)
  BY <1>1, AuthenticateKeeps, EarlyRefusal, EarlyUpdate DEF Lookup, Step, Arriving
<1>2. CASE FindByHash(r)
  BY <1>2, EarlyUpdate DEF FindByHash, Step, Arriving
<1>3. CASE LookupFails(r)
  BY <1>3, EarlyRefusal DEF LookupFails, Step, Arriving
<1>4. CASE CacheFound(r)
  BY <1>4, AuthenticateKeeps DEF CacheFound, Step
<1>5. CASE PromptGuard(r)
  BY <1>5, EarlyRefusal, EarlyUpdate DEF PromptGuard, Step, Arriving
<1> QED BY <1>1, <1>2, <1>3, <1>4, <1>5

(* What a request has before its admission. *)
LEMMA EarlyFacts ==
  ASSUME QuotaInv, NEW r \in Callers, caller[r].pc \in (Arriving \cup Choosing) \ {"idle"}
  PROVE  /\ DOMAIN caller = Callers /\ DOMAIN caller[r] = Fields /\ caller[r].ask \in Asks
         /\ caller[r].quota = Null /\ Unheard(r) /\ caller[r].attempted = FALSE
         /\ caller[r].aborted = FALSE /\ caller[r].headers = Null
         /\ caller[r].pc \in Choosing => caller[r].ask.chain.limit \in Modes
  BY IdleFields DEF QuotaInv, CallerInv, CallerTypeOK, Place

(* Without a limit it is ready at once. *)
LEMMA ReadyMove ==
  ASSUME QuotaInv, NEW r \in Callers, UNCHANGED <<storeVars, window>>,
         caller[r].pc \in (Arriving \cup Choosing) \ {"idle"}, Update(r, [pc |-> "ready"]),
         caller[r].ask.chain.limit = Null \/ Unlimited(r)
  PROVE  QuotaInv'
<1>1. /\ DOMAIN caller = Callers /\ DOMAIN caller[r] = Fields /\ caller[r].ask \in Asks
      /\ caller[r].quota = Null /\ Unheard(r) /\ caller[r].attempted = FALSE
      /\ caller[r].aborted = FALSE /\ caller[r].headers = Null
  BY EarlyFacts
<1>2. /\ caller'[r].quota = Null /\ caller'[r].attempted = FALSE /\ caller'[r].aborted = FALSE
      /\ caller'[r].headers = Null /\ caller'[r].ask = caller[r].ask /\ caller'[r].key = caller[r].key
      /\ caller'[r].pc = "ready" /\ DOMAIN caller' = Callers /\ DOMAIN caller'[r] = Fields
      /\ \A q \in Callers \ {r} : caller'[q] = caller[q]
  BY <1>1, UpdateIs DEF Fields
<1>3. StoreTypeOK' /\ Mine(r)' = Mine(r) /\ \A q \in Callers \ {r} : SameFor(q)
  BY <1>2, StoreRests
<1>4. Unheard(r)' /\ (caller'[r].ask.chain.limit = Null \/ Unlimited(r)')
  BY <1>1, <1>2, <1>3 DEF Unheard, storeVars, Unlimited, Limits
<1>5. CallerTypeOK(r)' /\ Told(r)'
  BY <1>1, <1>2, IdleFields DEF CallerTypeOK, Told
<1>6. Place(r)' /\ Known(r)'
  BY <1>2, <1>4 DEF Place, Known, Unheard, Arriving, Choosing, Ending
<1> QED BY <1>2, <1>3, <1>5, <1>6, OneCaller DEF CallerInv

(* The subject is chosen, a permit taken and the budget looked at. *)
LEMMA SubjectKeeps ==
  ASSUME QuotaInv, NEW r \in Callers, SelectSubject(r) \/ AcquirePermit(r) \/ InspectBudget(r)
  PROVE  QuotaInv'
<1>1. CASE SelectSubject(r)
  <2>1. UNCHANGED <<storeVars, window>> /\ caller[r].pc \in (Arriving \cup Choosing) \ {"idle"}
    BY <1>1 DEF SelectSubject, Step, Arriving
  <2>2. CASE caller[r].ask.chain.limit = Null
    BY <1>1, <2>1, <2>2, ReadyMove DEF SelectSubject
  <2>3. CASE caller[r].ask.chain.limit # Null /\ ~ChainInvalid(caller[r].ask.chain)
    <3>1. caller[r].ask.chain.limit \in Modes
      BY <2>3 DEF ChainInvalid
    <3>2. \/ Refuse(r, 401) \/ Refuse(r, 500) \/ Update(r, [pc |-> "permit"])
          \/ Update(r, [pc |-> "reserve"])
      BY <1>1, <2>3 DEF SelectSubject
    <3> QED BY <2>1, <3>1, <3>2, EarlyRefusal, EarlyUpdate DEF Choosing
  <2>4. CASE caller[r].ask.chain.limit # Null /\ ChainInvalid(caller[r].ask.chain)
    BY <1>1, <2>1, <2>4, EarlyRefusal DEF SelectSubject
  <2> QED BY <2>2, <2>3, <2>4
<1>2. CASE AcquirePermit(r)
  <2>1. /\ UNCHANGED <<storeVars, window>> /\ caller[r].pc \in (Arriving \cup Choosing) \ {"idle"}
        /\ caller[r].pc \in Choosing
    BY <1>2 DEF AcquirePermit, Step, Choosing
  <2>2. Refuse(r, 503) \/ Update(r, [pc |-> "inspect"])
    BY <1>2 DEF AcquirePermit
  <2> QED BY <2>1, <2>2, EarlyFacts, EarlyRefusal, EarlyUpdate DEF Choosing
<1>3. CASE InspectBudget(r)
  <2>1. /\ UNCHANGED <<storeVars, window>> /\ caller[r].pc \in (Arriving \cup Choosing) \ {"idle"}
        /\ caller[r].pc \in Choosing
    BY <1>3 DEF InspectBudget, Step, Choosing
  <2>2. \/ Refuse(r, 503) \/ Update(r, [pc |-> "reserve", budget |-> TRUE])
        \/ Update(r, [pc |-> "reserve"]) \/ Update(r, [pc |-> "exhausted"])
    BY <1>3 DEF InspectBudget
  <2> QED BY <2>1, <2>2, EarlyFacts, EarlyRefusal, EarlyUpdate DEF Choosing
<1> QED BY <1>1, <1>2, <1>3

(* The snapshot shown for a spent budget is of a request the store never heard of. *)
LEMMA ExhaustedKeeps ==
  ASSUME QuotaInv, NEW r \in Callers, BudgetExhausted(r)
  PROVE  QuotaInv'
<1>1. /\ UNCHANGED <<storeVars, window>> /\ caller[r].pc \in (Arriving \cup Choosing) \ {"idle"}
  BY DEF BudgetExhausted, Step, Choosing
<1>2. CASE \E status : Refuse(r, status)
  BY <1>1, <1>2, EarlyRefusal
<1>3. CASE Update(r, [pc |-> "headers", status |-> 403,
                      quota |-> QuotaContext(NoCharge, Shot(window, 0), "not_required", FALSE)])
  <2> DEFINE new == QuotaContext(NoCharge, Shot(window, 0), "not_required", FALSE)
  <2>0. new \in Quotas /\ new # Null /\ new.settlement = "not_required" /\ new.command = Null
    <3>1. window \in Nat BY DEF QuotaInv, StoreTypeOK
    <3>2. Shot(window, 0) \in Shots /\ NoCharge \in Charges
      BY <3>1 DEF Shot, Shots, NoCharge, Charges
    <3>3. new \in Quotas BY <3>2 DEF QuotaContext, Quotas
    <3> HIDE DEF new
    <3>4. new # Null BY <3>3, NotNull
    <3> QED BY <3>3, <3>4 DEF QuotaContext, new
  <2>1. /\ DOMAIN caller = Callers /\ DOMAIN caller[r] = Fields /\ caller[r].ask \in Asks
        /\ Unheard(r) /\ caller[r].attempted = FALSE
        /\ caller[r].aborted = FALSE /\ caller[r].headers = Null
    BY <1>1, EarlyFacts
  <2> HIDE DEF new
  <2>2. /\ caller'[r].quota = new /\ caller'[r].attempted = FALSE /\ caller'[r].aborted = FALSE
        /\ caller'[r].headers = Null /\ caller'[r].ask = caller[r].ask
        /\ caller'[r].pc = "headers" /\ DOMAIN caller' = Callers /\ DOMAIN caller'[r] = Fields
        /\ \A q \in Callers \ {r} : caller'[q] = caller[q]
    <3> DEFINE fs == [pc |-> "headers", status |-> 403, quota |-> new]
    <3>1. Update(r, fs) BY <1>3 DEF new
    <3>2. DOMAIN fs = {"pc", "status", "quota"} /\ fs.pc = "headers" /\ fs.quota = new
      OBVIOUS
    <3> HIDE DEF fs
    <3> QED BY <2>1, <3>1, <3>2, UpdateFields
  <2>3. StoreTypeOK' /\ Mine(r)' = Mine(r) /\ \A q \in Callers \ {r} : SameFor(q)
    BY <1>1, <2>2, StoreRests
  <2>4. Unheard(r)'
    BY <1>1, <2>1, <2>3 DEF Unheard, storeVars
  <2>5. CallerTypeOK(r)' /\ Told(r)'
    BY <2>0, <2>1, <2>2, IdleFields DEF CallerTypeOK, Told
  <2>6. Place(r)' /\ Known(r)'
    BY <2>0, <2>2, <2>4 DEF Place, Known, Unheard, Arriving, Choosing, Ending
  <2> QED BY <1>1, <2>2, <2>3, <2>5, <2>6, OneCaller DEF CallerInv
<1> QED BY <1>2, <1>3 DEF BudgetExhausted

(* Limits and the admission command are those of the ask and the key. *)
LEMMA SameAsk ==
  ASSUME NEW r \in Callers, caller'[r].ask = caller[r].ask, caller'[r].key = caller[r].key
  PROVE  Unlimited(r)' = Unlimited(r) /\ AdmitCommand(r)' = AdmitCommand(r)
  BY DEF Unlimited, AdmitCommand, Limits, ReserveFor, Subject

(* The admission command is sent. *)
LEMMA ReserveKeeps ==
  ASSUME QuotaInv, NEW r \in Callers, Reserve(r)
  PROVE  QuotaInv'
<1>1. /\ UNCHANGED <<storeVars, window>> /\ caller[r].pc \in (Arriving \cup Choosing) \ {"idle"}
      /\ caller[r].pc \in Choosing
  BY DEF Reserve, Step, Choosing
<1>2. CASE Unlimited(r)
  BY <1>1, <1>2, ReadyMove DEF Reserve
<1>3. CASE Refuse(r, 503)
  BY <1>1, <1>3, EarlyRefusal
<1>4. CASE Update(r, [pc |-> "call", ending |-> "admit", tries |-> 1, cmd |-> AdmitCommand(r)])
  <2>1. /\ DOMAIN caller = Callers /\ DOMAIN caller[r] = Fields /\ caller[r].ask \in Asks
        /\ caller[r].quota = Null /\ Unheard(r) /\ caller[r].attempted = FALSE
        /\ caller[r].aborted = FALSE /\ caller[r].headers = Null /\ caller[r].ask.chain.limit \in Modes
    BY <1>1, EarlyFacts
  <2>2. /\ caller'[r].quota = Null /\ caller'[r].attempted = FALSE /\ caller'[r].aborted = FALSE
        /\ caller'[r].headers = Null /\ caller'[r].ask = caller[r].ask /\ caller'[r].key = caller[r].key
        /\ caller'[r].pc = "call" /\ caller'[r].ending = "admit" /\ caller'[r].cmd = AdmitCommand(r)
        /\ DOMAIN caller' = Callers /\ DOMAIN caller'[r] = Fields
        /\ \A q \in Callers \ {r} : caller'[q] = caller[q]
    <3> DEFINE fs == [pc |-> "call", ending |-> "admit", tries |-> 1, cmd |-> AdmitCommand(r)]
    <3>1. /\ DOMAIN fs = {"pc", "ending", "tries", "cmd"} /\ fs.pc = "call" /\ fs.ending = "admit"
          /\ fs.cmd = AdmitCommand(r)
      OBVIOUS
    <3>2. Update(r, fs) BY <1>4
    <3> HIDE DEF fs
    <3> QED BY <2>1, <3>1, <3>2, UpdateFields
  <2>3. StoreTypeOK' /\ Mine(r)' = Mine(r) /\ \A q \in Callers \ {r} : SameFor(q)
    BY <1>1, <2>2, StoreRests
  <2>4. Unheard(r)'
    BY <1>1, <2>1, <2>3 DEF Unheard, storeVars
  <2>5. CallerTypeOK(r)' /\ Told(r)'
    BY <2>1, <2>2, IdleFields DEF CallerTypeOK, Told
  <2>6. caller'[r].cmd = AdmitCommand(r)'
    BY <2>2, SameAsk
  <2>7. Place(r)' /\ Known(r)'
    BY <2>1, <2>2, <2>4, <2>6 DEF Place, Known, Unheard, Arriving, Choosing, Ending
  <2> QED BY <1>1, <2>2, <2>3, <2>5, <2>7, OneCaller DEF CallerInv
<1> QED BY <1>2, <1>3, <1>4 DEF Reserve

-----------------------------------------------------------------------------
(* The store *)

(* The charge of an admission command. *)
LEMMA AdmitShape ==
  ASSUME NEW r \in Callers, caller[r].ask \in Asks, caller[r].ask.chain.limit \in Modes
  PROVE  /\ AdmitCommand(r).op = "admit" /\ AdmitCommand(r).id = r /\ AdmitCommand(r).charge \in Charges
         /\ AdmitCommand(r).charge = ReserveFor(r) /\ AdmitCommand(r).subject \in Modes \cup {"key"}
<1>1. caller[r].ask.estimate \in Nat BY AdmissionAssumption
<1>2. ReserveFor(r) \in Charges BY <1>1 DEF ReserveFor, Charges
<1>3. Subject(r) \in Modes \cup {"key"} BY DEF Subject
<1> QED BY <1>2, <1>3 DEF AdmitCommand

(* An admission takes effect once. *)
LEMMA StoreAdmits ==
  ASSUME StoreTypeOK, NEW cmd, NEW r \in Callers, cmd.op = "admit", cmd.id = r, cmd.charge \in Charges,
         cmd.subject \in Modes \cup {"key"}, StoreApply(cmd)
  PROVE  /\ settledAs' = settledAs
         /\ admitted' \in [Callers -> Admissions \cup {Null}]
         /\ \A q \in Callers \ {r} : admitted'[q] = admitted[q]
         /\ admitted'[r] \in Admissions /\ admitted'[r] # Null
         /\ admitted[r] # Null => admitted'[r] = admitted[r]
         /\ admitted[r] = Null => admitted'[r].window = window
<1>1. settledAs' = settledAs BY DEF StoreApply
<1>2. CASE admitted[r] # Null
  <2>1. admitted' = admitted BY <1>2 DEF StoreApply
  <2> QED BY <1>1, <1>2, <2>1 DEF StoreTypeOK
<1>3. CASE admitted[r] = Null
  <2> DEFINE new == [ok |-> Fits(cmd), subject |-> cmd.subject, window |-> window, reserve |-> cmd.charge]
  <2>1. Fits(cmd) \in BOOLEAN BY DEF Fits
  <2>2. new \in Admissions /\ new.window = window BY <2>1 DEF Admissions, StoreTypeOK
  <2>3. admitted' = [admitted EXCEPT ![r] = new] BY <1>3 DEF StoreApply
  <2> HIDE DEF new
  <2>4. new # Null BY <2>2, NotNull
  <2> QED BY <1>1, <1>3, <2>2, <2>3, <2>4 DEF StoreTypeOK
<1> QED BY <1>2, <1>3

(* So does a settlement; it counts only in the window of the admission. *)
LEMMA StoreSettles ==
  ASSUME StoreTypeOK, NEW cmd, NEW r \in Callers, cmd.op = "settle", cmd.id = r, cmd.charge \in Charges,
         StoreApply(cmd)
  PROVE  /\ admitted' = admitted
         /\ settledAs' \in [Callers -> Settlements \cup {Null}]
         /\ \A q \in Callers \ {r} : settledAs'[q] = settledAs[q]
         /\ settledAs'[r] \in Settlements /\ settledAs'[r] # Null
         /\ settledAs[r] # Null => settledAs'[r] = settledAs[r]
         /\ settledAs[r] = Null => /\ settledAs'[r].charge = cmd.charge
                                   /\ settledAs'[r].noop => admitted[r].window # window
<1>1. admitted' = admitted BY DEF StoreApply
<1>2. CASE settledAs[r] # Null
  <2>1. settledAs' = settledAs BY <1>2 DEF StoreApply
  <2> QED BY <1>1, <1>2, <2>1 DEF StoreTypeOK
<1>3. CASE settledAs[r] = Null
  <2> DEFINE new == [charge |-> cmd.charge, noop |-> admitted[r].window # window]
  <2>2. new \in Settlements /\ new.charge = cmd.charge /\ new.noop = (admitted[r].window # window)
    BY DEF Settlements
  <2>3. settledAs' = [settledAs EXCEPT ![r] = new] BY <1>3 DEF StoreApply
  <2> HIDE DEF new
  <2>4. new # Null BY <2>2, NotNull
  <2> QED BY <1>1, <1>3, <2>2, <2>3, <2>4 DEF StoreTypeOK
<1> QED BY <1>2, <1>3

(* What may happen to a command: the store sees it, it is on its way, or     *)
(* nothing happens.                                                          *)
Delivered(cmd) ==
  \/ StoreApply(cmd) /\ late' = late
  \/ late' = late \cup {cmd} /\ UNCHANGED <<admitted, settledAs>>
  \/ UNCHANGED storeVars

Apart(r) ==
  \A q \in Callers \ {r} :
    admitted'[q] = admitted[q] /\ settledAs'[q] = settledAs[q] /\ Mine(q)' = Mine(q)

(* What a request that waits for its admission has. *)
LEMMA AdmitFacts ==
  ASSUME QuotaInv, NEW r \in Callers, caller[r].pc \in {"call", "ask"}, caller[r].ending = "admit"
  PROVE  /\ DOMAIN caller = Callers /\ DOMAIN caller[r] = Fields /\ caller[r].ask \in Asks
         /\ caller[r].quota = Null /\ settledAs[r] = Null /\ caller[r].attempted = FALSE
         /\ caller[r].aborted = FALSE /\ caller[r].headers = Null /\ caller[r].ask.chain.limit \in Modes
         /\ caller[r].cmd = AdmitCommand(r) /\ \A cmd \in Mine(r) : cmd.op # "settle"
         /\ admitted[r] # Null => admitted[r].window <= window
  BY IdleFields DEF QuotaInv, CallerInv, CallerTypeOK, Place, Known

(* Whatever happens to its command, the store knows no settlement of it. *)
LEMMA AdmitDelivered ==
  ASSUME QuotaInv, NEW r \in Callers, caller[r].pc \in {"call", "ask"}, caller[r].ending = "admit",
         Delivered(caller[r].cmd), window' = window
  PROVE  /\ StoreTypeOK' /\ Apart(r) /\ settledAs'[r] = Null
         /\ admitted'[r] # Null => admitted'[r].window <= window
         /\ \A cmd \in Mine(r)' : cmd.op # "settle"
<1> DEFINE c == caller[r].cmd
<1>1. /\ c.op = "admit" /\ c.id = r /\ c.charge \in Charges /\ c.subject \in Modes \cup {"key"}
      /\ settledAs[r] = Null /\ \A cmd \in Mine(r) : cmd.op # "settle"
      /\ admitted[r] # Null => admitted[r].window <= window
  BY AdmitFacts, AdmitShape
<1>2. StoreTypeOK BY DEF QuotaInv
<1> HIDE DEF c
<1>3. CASE StoreApply(c) /\ late' = late
  <2>1. /\ settledAs' = settledAs /\ admitted' \in [Callers -> Admissions \cup {Null}]
        /\ \A q \in Callers \ {r} : admitted'[q] = admitted[q]
        /\ admitted[r] # Null => admitted'[r] = admitted[r]
        /\ admitted[r] = Null => admitted'[r].window = window
    BY <1>1, <1>2, <1>3, StoreAdmits
  <2>2. StoreTypeOK' BY <1>2, <1>3, <2>1 DEF StoreTypeOK
  <2>3. Apart(r) /\ Mine(r)' = Mine(r) BY <1>3, <2>1 DEF Apart, Mine
  <2> QED BY <1>1, <1>2, <2>1, <2>2, <2>3 DEF StoreTypeOK
<1>4. CASE late' = late \cup {c} /\ UNCHANGED <<admitted, settledAs>>
  <2>1. StoreTypeOK' BY <1>1, <1>2, <1>4 DEF StoreTypeOK
  <2>2. Apart(r) BY <1>1, <1>4 DEF Apart, Mine
  <2>3. \A cmd \in Mine(r)' : cmd.op # "settle" BY <1>1, <1>4 DEF Mine
  <2> QED BY <1>1, <1>4, <2>1, <2>2, <2>3
<1>5. CASE UNCHANGED storeVars
  <2>1. StoreTypeOK' /\ Apart(r) /\ Mine(r)' = Mine(r)
    BY <1>2, <1>5 DEF StoreTypeOK, Apart, Mine, storeVars
  <2> QED BY <1>1, <1>5, <2>1 DEF storeVars
<1> QED BY <1>3, <1>4, <1>5 DEF Delivered, c

(* It asks again or once more, *)
LEMMA AdmitWaits ==
  ASSUME QuotaInv, NEW r \in Callers, caller[r].pc \in {"call", "ask"}, caller[r].ending = "admit",
         Delivered(caller[r].cmd), window' = window, NEW fields, Update(r, fields),
         DOMAIN fields \subseteq {"pc", "tries"}, "pc" \in DOMAIN fields, fields.pc \in {"call", "ask"}
  PROVE  QuotaInv'
<1>1. /\ DOMAIN caller = Callers /\ DOMAIN caller[r] = Fields /\ caller[r].ask \in Asks
      /\ caller[r].quota = Null /\ settledAs[r] = Null /\ caller[r].attempted = FALSE
      /\ caller[r].aborted = FALSE /\ caller[r].headers = Null /\ caller[r].ask.chain.limit \in Modes
      /\ caller[r].cmd = AdmitCommand(r)
  BY AdmitFacts
<1>2. /\ caller'[r].quota = Null /\ caller'[r].attempted = FALSE /\ caller'[r].aborted = FALSE
      /\ caller'[r].headers = Null /\ caller'[r].ask = caller[r].ask /\ caller'[r].key = caller[r].key
      /\ caller'[r].pc \in {"call", "ask"} /\ caller'[r].ending = "admit" /\ caller'[r].cmd = caller[r].cmd
      /\ DOMAIN caller' = Callers /\ DOMAIN caller'[r] = Fields
      /\ \A q \in Callers \ {r} : caller'[q] = caller[q]
  BY <1>1, UpdateFields
<1>3. /\ StoreTypeOK' /\ Apart(r) /\ settledAs'[r] = Null
      /\ admitted'[r] # Null => admitted'[r].window <= window
      /\ \A cmd \in Mine(r)' : cmd.op # "settle"
  BY AdmitDelivered
<1>4. CallerTypeOK(r)' /\ Told(r)'
  BY <1>1, <1>2, IdleFields DEF CallerTypeOK, Told
<1>5. caller'[r].cmd = AdmitCommand(r)'
  BY <1>1, <1>2, SameAsk
<1>6. Place(r)'
  BY <1>1, <1>2, <1>5 DEF Place, Arriving, Choosing, Ending
<1>7. Known(r)'
  BY <1>2, <1>3 DEF Known, Ending
<1> QED BY <1>2, <1>3, <1>4, <1>6, <1>7, OneCaller DEF CallerInv, Apart, SameFor

(* it gives up with 503, and the store may admit it still, *)
LEMMA AdmitFails ==
  ASSUME QuotaInv, NEW r \in Callers, caller[r].pc \in {"call", "ask"}, caller[r].ending = "admit",
         Delivered(caller[r].cmd), window' = window, NotAdmitted(r)
  PROVE  QuotaInv'
<1>1. /\ DOMAIN caller = Callers /\ DOMAIN caller[r] = Fields /\ caller[r].ask \in Asks
      /\ caller[r].quota = Null /\ caller[r].attempted = FALSE
      /\ caller[r].aborted = FALSE /\ caller[r].headers = Null
  BY AdmitFacts
<1>2. /\ caller'[r].quota = Null /\ caller'[r].attempted = FALSE /\ caller'[r].aborted = FALSE
      /\ caller'[r].headers = Null /\ caller'[r].ask = caller[r].ask
      /\ caller'[r].pc = "headers" /\ caller'[r].status = 503
      /\ DOMAIN caller' = Callers /\ DOMAIN caller'[r] = Fields
      /\ \A q \in Callers \ {r} : caller'[q] = caller[q]
  BY <1>1, UpdateFields DEF NotAdmitted, Refuse
<1>3. /\ StoreTypeOK' /\ Apart(r) /\ settledAs'[r] = Null
      /\ admitted'[r] # Null => admitted'[r].window <= window
      /\ \A cmd \in Mine(r)' : cmd.op # "settle"
  BY AdmitDelivered
<1>4. CallerTypeOK(r)' /\ Told(r)'
  BY <1>1, <1>2, IdleFields DEF CallerTypeOK, Told
<1>5. Place(r)'
  BY <1>2 DEF Place, Arriving, Choosing, Ending
<1>6. Known(r)'
  BY <1>2, <1>3 DEF Known, Ending
<1> QED BY <1>2, <1>3, <1>4, <1>5, <1>6, OneCaller DEF CallerInv, Apart, SameFor

(* or it is told the verdict that stands in the store. *)
LEMMA AdmitSucceeds ==
  ASSUME QuotaInv, NEW r \in Callers, caller[r].pc \in {"call", "ask"}, caller[r].ending = "admit",
         Delivered(caller[r].cmd), window' = window, admitted'[r] # Null, Admitted(r)
  PROVE  QuotaInv'
<1> DEFINE v == admitted'[r]
           own == IF v.ok THEN v.reserve.requests ELSE 0
           new == QuotaContext(ReserveFor(r), Shot(v.window, own),
                               IF v.ok THEN "pending" ELSE "not_required", ~v.ok)
<1>1. /\ DOMAIN caller = Callers /\ DOMAIN caller[r] = Fields /\ caller[r].ask \in Asks
      /\ caller[r].quota = Null /\ caller[r].attempted = FALSE /\ caller[r].ask.chain.limit \in Modes
      /\ caller[r].aborted = FALSE /\ caller[r].headers = Null
  BY AdmitFacts
<1>2. /\ StoreTypeOK' /\ Apart(r) /\ settledAs'[r] = Null
      /\ v.window <= window
      /\ \A cmd \in Mine(r)' : cmd.op # "settle"
  BY AdmitDelivered
<1>3. v \in Admissions
  BY <1>2 DEF StoreTypeOK
<1>4. v.ok \in BOOLEAN /\ v.window \in Nat /\ v.reserve.requests \in Nat
  <2>1. v.ok \in BOOLEAN /\ v.window \in Nat /\ v.reserve \in Charges
    BY <1>3 DEF Admissions
  <2> QED BY <2>1 DEF Charges
<1>5. /\ new \in Quotas /\ new # Null /\ new.command = Null
      /\ new.settlement = IF v.ok THEN "pending" ELSE "not_required"
      /\ new.admission \in Shots /\ new.admission # Null /\ new.admission.window = v.window
  <2>1. own \in Nat BY <1>4
  <2> HIDE DEF own, v
  <2>2. Shot(v.window, own) \in Shots /\ Shot(v.window, own).window = v.window
    BY <1>4, <2>1 DEF Shot, Shots
  <2>3. ReserveFor(r) \in Charges BY <1>1, AdmitShape
  <2>4. new \in Quotas BY <1>4, <2>2, <2>3 DEF QuotaContext, Quotas
  <2>5. /\ new.command = Null /\ new.admission = Shot(v.window, own)
        /\ new.settlement = IF v.ok THEN "pending" ELSE "not_required"
    BY DEF QuotaContext
  <2> HIDE DEF new
  <2> QED BY <2>2, <2>4, <2>5, NotNull
<1>6. /\ caller'[r].quota = new /\ caller'[r].attempted = FALSE /\ caller'[r].aborted = FALSE
      /\ caller'[r].headers = Null /\ caller'[r].ask = caller[r].ask
      /\ caller'[r].pc = IF v.ok THEN "ready" ELSE "headers"
      /\ DOMAIN caller' = Callers /\ DOMAIN caller'[r] = Fields
      /\ \A q \in Callers \ {r} : caller'[q] = caller[q]
  <2>1. CASE v.ok
    <3> DEFINE fs == [pc |-> "ready", quota |-> new]
    <3>1. Update(r, fs) BY <2>1, <1>4 DEF Admitted
    <3>2. DOMAIN fs = {"pc", "quota"} /\ fs.pc = "ready" /\ fs.quota = new OBVIOUS
    <3> HIDE DEF fs, new
    <3> QED BY <1>1, <2>1, <3>1, <3>2, UpdateFields
  <2>2. CASE ~v.ok
    <3> DEFINE fs == [pc |-> "headers", status |-> 429, quota |-> new]
    <3>1. Update(r, fs) BY <2>2, <1>4 DEF Admitted
    <3>2. DOMAIN fs = {"pc", "status", "quota"} /\ fs.pc = "headers" /\ fs.quota = new OBVIOUS
    <3> HIDE DEF fs, new
    <3> QED BY <1>1, <2>2, <3>1, <3>2, UpdateFields
  <2> QED BY <2>1, <2>2
<1> HIDE DEF new, own
<1>7. CallerTypeOK(r)' /\ Told(r)'
  BY <1>1, <1>5, <1>6, IdleFields DEF CallerTypeOK, Told
<1>8. Place(r)'
  BY <1>5, <1>6 DEF Place, Arriving, Choosing, Ending
<1>9. Known(r)'
  BY <1>2, <1>4, <1>5, <1>6 DEF Known, Ending, Holds
<1> QED BY <1>2, <1>6, <1>7, <1>8, <1>9, OneCaller DEF CallerInv, Apart, SameFor

-----------------------------------------------------------------------------
(* Settlements *)

(* What a request that waits for its settlement has. *)
Settling(r) ==
  LET c == caller[r] IN
  /\ DOMAIN caller = Callers /\ DOMAIN c = Fields /\ c.ask \in Asks
  /\ c.attempted \in BOOLEAN /\ c.aborted \in BOOLEAN /\ c.headers \in Headers \cup {Null}
  /\ c.quota \in Quotas /\ c.quota # Null /\ c.quota.settlement \in {"pending", "retry_required"}
  /\ c.quota.command \in SettleCommands /\ c.quota.command # Null
  /\ c.quota.command = SettleCommand(r, IF c.aborted THEN NoCharge ELSE FinalCharge(r))
  /\ c.quota.admission # Null => c.quota.admission.window = admitted[r].window
  /\ Holds(r) /\ admitted[r].window <= window
  /\ c.attempted => c.ask.chain.limit = Null \/ Unlimited(r) \/ Holds(r)
  /\ c.aborted /\ c.headers # Null => Clean(c.headers.shown, c.headers.at)

(* The types of a quota record's parts. *)
LEMMA QuotaParts ==
  ASSUME NEW q \in Quotas
  PROVE  /\ q.reserved \in Charges /\ q.admission \in Shots \cup {Null} /\ q.response \in Shots \cup {Null}
         /\ q.settlement \in {"pending", "not_required", "settled", "retry_required"}
         /\ q.rejected \in BOOLEAN /\ q.command \in SettleCommands \cup {Null}
         /\ q = [reserved |-> q.reserved, admission |-> q.admission, response |-> q.response,
                 settlement |-> q.settlement, rejected |-> q.rejected, command |-> q.command]
  BY DEF Quotas

(* The invariant says so. *)
LEMMA SettleFacts ==
  ASSUME QuotaInv, NEW r \in Callers, caller[r].pc \in {"call", "ask"}, caller[r].ending # "admit"
  PROVE  /\ Settling(r) /\ caller[r].cmd = caller[r].quota.command
         /\ caller[r].ending \in {"refund", "final"}
         /\ caller[r].ending = "refund" => caller[r].aborted /\ caller[r].headers = Null
<1>1. CallerInv(r) /\ DOMAIN caller = Callers BY DEF QuotaInv
<1>2. /\ caller[r].ending \in {"refund", "final"}
      /\ caller[r].quota # Null /\ caller[r].quota.settlement \in {"pending", "retry_required"}
      /\ caller[r].quota.command # Null /\ caller[r].cmd = caller[r].quota.command
      /\ caller[r].ending = "refund" => caller[r].aborted /\ caller[r].headers = Null
  BY <1>1 DEF CallerInv, Place
<1>3. /\ DOMAIN caller[r] = Fields /\ caller[r].ask \in Asks
      /\ caller[r].attempted \in BOOLEAN /\ caller[r].aborted \in BOOLEAN
      /\ caller[r].headers \in Headers \cup {Null} /\ caller[r].quota \in Quotas
  BY <1>1, <1>2, IdleFields DEF CallerInv, CallerTypeOK
<1>4. caller[r].quota.command \in SettleCommands
  BY <1>2, <1>3, QuotaParts
<1>5. /\ caller[r].quota.command = SettleCommand(r, IF caller[r].aborted THEN NoCharge ELSE FinalCharge(r))
      /\ caller[r].quota.admission # Null => caller[r].quota.admission.window = admitted[r].window
      /\ Holds(r)
      /\ caller[r].attempted => caller[r].ask.chain.limit = Null \/ Unlimited(r) \/ Holds(r)
  BY <1>1, <1>2 DEF CallerInv, Known
<1>6. admitted[r].window <= window
  BY <1>1, <1>5 DEF CallerInv, Known, Holds
<1>7. caller[r].aborted /\ caller[r].headers # Null => Clean(caller[r].headers.shown, caller[r].headers.at)
  BY <1>1 DEF CallerInv, Told
<1> QED BY <1>1, <1>2, <1>3, <1>4, <1>5, <1>6, <1>7 DEF Settling

(* What the store knows after a settlement command has gone out: its command.*)
SettledRight(r) ==
  /\ StoreTypeOK' /\ Apart(r) /\ admitted'[r] = admitted[r]
  /\ settledAs'[r] # Null => /\ settledAs'[r].charge = caller[r].quota.command.charge
                             /\ settledAs'[r].noop => admitted[r].window < window
  /\ \A cmd \in Mine(r)' : cmd.op = "settle" => cmd = caller[r].quota.command

(* A settlement command is settled under its own charge or not at all. *)
LEMMA SettleApplied ==
  ASSUME QuotaInv, NEW r \in Callers, NEW cmd, cmd.op = "settle", cmd.id = r,
         Holds(r), caller[r].quota # Null, caller[r].quota.command \in SettleCommands,
         caller[r].quota.command # Null, cmd = caller[r].quota.command,
         StoreApply(cmd), late' \subseteq late, \A q \in Callers \ {r} : Mine(q)' = Mine(q), window' = window
  PROVE  SettledRight(r) /\ settledAs'[r] # Null
<1>1. StoreTypeOK /\ CallerInv(r) BY DEF QuotaInv
<1>2. cmd.charge \in Charges BY DEF SettleCommands
<1>3. /\ admitted' = admitted /\ settledAs' \in [Callers -> Settlements \cup {Null}]
      /\ \A q \in Callers \ {r} : settledAs'[q] = settledAs[q]
      /\ settledAs'[r] # Null
      /\ settledAs[r] # Null => settledAs'[r] = settledAs[r]
      /\ settledAs[r] = Null => /\ settledAs'[r].charge = cmd.charge
                                /\ settledAs'[r].noop => admitted[r].window # window
  BY <1>1, <1>2, StoreSettles
<1>4. StoreTypeOK' BY <1>1, <1>3 DEF StoreTypeOK
<1>5. Apart(r) BY <1>3 DEF Apart
<1>6. /\ admitted[r].window <= window /\ admitted[r].window \in Nat /\ window \in Nat
  <2>1. admitted[r].window <= window BY <1>1 DEF CallerInv, Known, Holds
  <2>2. admitted[r] \in Admissions BY <1>1 DEF StoreTypeOK, Holds
  <2> QED BY <1>1, <2>1, <2>2 DEF StoreTypeOK, Admissions
<1>7. settledAs[r] # Null => /\ settledAs[r].charge = cmd.charge
                             /\ settledAs[r].noop => admitted[r].window < window
  BY <1>1 DEF CallerInv, Known
<1>8. \A d \in Mine(r)' : d.op = "settle" => d = caller[r].quota.command
  BY <1>1 DEF CallerInv, Known, Mine
<1> QED BY <1>3, <1>4, <1>5, <1>6, <1>7, <1>8 DEF SettledRight

(* The same whatever becomes of the command a request waits for. *)
LEMMA SettleDelivered ==
  ASSUME QuotaInv, NEW r \in Callers, caller[r].pc \in {"call", "ask"}, caller[r].ending # "admit",
         Delivered(caller[r].cmd), window' = window
  PROVE  SettledRight(r)
<1> DEFINE c == caller[r].cmd
<1>1. Settling(r) /\ c = caller[r].quota.command BY SettleFacts
<1>2. /\ c.op = "settle" /\ c.id = r /\ c.charge \in Charges /\ Holds(r) /\ caller[r].quota # Null
      /\ caller[r].quota.command \in SettleCommands /\ caller[r].quota.command # Null
  <2>1. c \in SettleCommands /\ c = SettleCommand(r, c.charge)
    BY <1>1 DEF Settling, SettleCommand
  <2> QED BY <1>1, <2>1 DEF Settling, SettleCommand, SettleCommands
<1>3. StoreTypeOK /\ CallerInv(r) BY DEF QuotaInv
<1> HIDE DEF c
<1>4. CASE StoreApply(c) /\ late' = late
  <2>1. \A q \in Callers \ {r} : Mine(q)' = Mine(q) BY <1>4 DEF Mine
  <2> QED BY <1>1, <1>2, <1>4, <2>1, SettleApplied
<1>5. settledAs[r] # Null => /\ settledAs[r].charge = c.charge
                             /\ settledAs[r].noop => admitted[r].window < window
  BY <1>1, <1>3 DEF CallerInv, Known
<1>6. \A d \in Mine(r) : d.op = "settle" => d = caller[r].quota.command
  BY <1>3 DEF CallerInv, Known
<1>7. CASE late' = late \cup {c} /\ UNCHANGED <<admitted, settledAs>>
  <2>1. StoreTypeOK' BY <1>1, <1>2, <1>3, <1>7 DEF StoreTypeOK
  <2>2. Apart(r) BY <1>2, <1>7 DEF Apart, Mine
  <2>3. \A d \in Mine(r)' : d.op = "settle" => d = caller[r].quota.command
    BY <1>1, <1>6, <1>7 DEF Mine
  <2> QED BY <1>1, <1>5, <1>7, <2>1, <2>2, <2>3 DEF SettledRight
<1>8. CASE UNCHANGED storeVars
  <2>1. StoreTypeOK' /\ Apart(r) /\ Mine(r)' = Mine(r)
    BY <1>3, <1>8 DEF StoreTypeOK, Apart, Mine, storeVars
  <2> QED BY <1>1, <1>5, <1>6, <1>8, <2>1 DEF SettledRight, storeVars
<1> QED BY <1>4, <1>7, <1>8 DEF Delivered, c

(* A request with a settlement command goes on. *)
LEMMA SettleMove ==
  ASSUME QuotaInv, NEW r \in Callers, Settling(r), SettledRight(r), window' = window,
         DOMAIN caller' = Callers, \A q \in Callers \ {r} : caller'[q] = caller[q],
         DOMAIN caller'[r] = Fields, NEW new \in Quotas, caller'[r].quota = new,
         caller'[r].ask = caller[r].ask, caller'[r].key = caller[r].key,
         caller'[r].attempted = caller[r].attempted, caller'[r].aborted = caller[r].aborted,
         caller'[r].headers = caller[r].headers,
         new.reserved = caller[r].quota.reserved, new.command = caller[r].quota.command,
         new.admission \in {caller[r].quota.admission, Null},
         new.settlement # "not_required", new.settlement = "settled" => settledAs'[r] # Null,
         \/ /\ caller'[r].pc \in {"call", "ask"} /\ caller'[r].ending \in {"refund", "final"}
            /\ caller'[r].cmd = new.command /\ new.settlement \in {"pending", "retry_required"}
            /\ caller'[r].ending = "refund" => caller[r].aborted /\ caller[r].headers = Null
         \/ /\ caller'[r].pc = "headers" /\ caller[r].headers = Null
            /\ new.response # Null => new.response.own = 0
            /\ new.response = Null /\ new.admission # Null => new.admission.window < window
         \/ caller'[r].pc = "done" /\ new.settlement # "pending"
  PROVE  QuotaInv'
<1>1. new # Null BY NotNull
<1>2. new.command # Null BY DEF Settling
<1>3. FinalCharge(r)' = FinalCharge(r) /\ Unlimited(r)' = Unlimited(r)
  BY SameAsk DEF FinalCharge
<1>4. CallerTypeOK(r)'
  BY IdleFields DEF CallerTypeOK, Settling
<1>5. Place(r)'
  BY <1>1, <1>2 DEF Place, Arriving, Choosing, Ending
<1>6. Told(r)'
  BY DEF Told, Settling, Clean
<1>7. Holds(r)' /\ admitted'[r].window <= window'
  BY DEF SettledRight, Settling, Holds
<1>8. Known(r)'
  <2>1. /\ settledAs'[r] # Null => /\ settledAs'[r].charge = new.command.charge
                                   /\ settledAs'[r].noop => admitted'[r].window < window'
        /\ \A cmd \in Mine(r)' : cmd.op = "settle" => cmd = new.command
    BY DEF SettledRight
  <2>2. new.command = SettleCommand(r, IF caller[r].aborted THEN NoCharge ELSE FinalCharge(r))
    BY DEF Settling
  <2>3. new.admission # Null => new.admission.window = admitted'[r].window
    BY DEF Settling, SettledRight
  <2> QED BY <1>1, <1>2, <1>3, <1>7, <2>1, <2>2, <2>3 DEF Known, SettleCommand
<1>9. StoreTypeOK' /\ \A q \in Callers \ {r} : SameFor(q)
  BY DEF SettledRight, Apart, SameFor
<1> QED BY <1>4, <1>5, <1>6, <1>8, <1>9, OneCaller DEF CallerInv

(* It asks again or once more, *)
LEMMA SettleWaits ==
  ASSUME QuotaInv, NEW r \in Callers, caller[r].pc \in {"call", "ask"}, caller[r].ending # "admit",
         Delivered(caller[r].cmd), window' = window, NEW fields, Update(r, fields),
         DOMAIN fields \subseteq {"pc", "tries"}, "pc" \in DOMAIN fields, fields.pc \in {"call", "ask"}
  PROVE  QuotaInv'
<1>1. /\ Settling(r) /\ caller[r].cmd = caller[r].quota.command
      /\ caller[r].ending \in {"refund", "final"}
      /\ caller[r].ending = "refund" => caller[r].aborted /\ caller[r].headers = Null
  BY SettleFacts
<1>2. SettledRight(r) BY SettleDelivered
<1>3. /\ DOMAIN caller = Callers /\ DOMAIN caller[r] = Fields /\ caller[r].quota \in Quotas
      /\ caller[r].quota.settlement \in {"pending", "retry_required"}
  BY <1>1 DEF Settling
<1>4. /\ DOMAIN caller' = Callers /\ DOMAIN caller'[r] = Fields
      /\ \A q \in Callers \ {r} : caller'[q] = caller[q]
      /\ caller'[r].quota = caller[r].quota
      /\ caller'[r].ask = caller[r].ask /\ caller'[r].key = caller[r].key
      /\ caller'[r].attempted = caller[r].attempted /\ caller'[r].aborted = caller[r].aborted
      /\ caller'[r].headers = caller[r].headers /\ caller'[r].ending = caller[r].ending
      /\ caller'[r].cmd = caller[r].cmd /\ caller'[r].pc \in {"call", "ask"}
  BY <1>3, UpdateFields
<1> QED BY <1>1, <1>2, <1>3, <1>4, SettleMove

(* it is told that it is settled, and shows the refund if that counted, *)
LEMMA SettleSucceeds ==
  ASSUME QuotaInv, NEW r \in Callers, caller[r].pc \in {"call", "ask"}, caller[r].ending # "admit",
         Delivered(caller[r].cmd), window' = window, settledAs'[r] # Null, SettlementKnown(r)
  PROVE  QuotaInv'
<1> DEFINE shown == IF settledAs'[r].noop THEN Null
                    ELSE Shot(admitted[r].window, settledAs'[r].charge.requests)
           new == [caller[r].quota EXCEPT !.settlement = "settled", !.response = shown]
<1>1. /\ Settling(r) /\ caller[r].ending \in {"refund", "final"}
      /\ caller[r].ending = "refund" => caller[r].aborted /\ caller[r].headers = Null
  BY SettleFacts
<1>2. SettledRight(r) BY SettleDelivered
<1>3. /\ DOMAIN caller = Callers /\ DOMAIN caller[r] = Fields /\ caller[r].quota \in Quotas
  BY <1>1 DEF Settling
<1>4. /\ settledAs'[r].noop \in BOOLEAN /\ settledAs'[r].charge.requests \in Nat
      /\ admitted[r].window \in Nat
  <2>1. StoreTypeOK' BY <1>2 DEF SettledRight
  <2>2. settledAs'[r] \in Settlements BY <2>1 DEF StoreTypeOK
  <2>3. admitted[r] \in Admissions BY <1>1 DEF QuotaInv, StoreTypeOK, Settling, Holds
  <2>4. settledAs'[r].charge \in Charges BY <2>2 DEF Settlements
  <2> QED BY <2>2, <2>3, <2>4 DEF Settlements, Admissions, Charges
<1>5. shown \in Shots \cup {Null}
  BY <1>4 DEF Shot, Shots
<1>6. /\ new \in Quotas /\ new.settlement = "settled" /\ new.response = shown
      /\ new.reserved = caller[r].quota.reserved /\ new.command = caller[r].quota.command
      /\ new.admission = caller[r].quota.admission
  <2> HIDE DEF shown
  <2> QED BY <1>3, <1>5, QuotaParts DEF Quotas
<1>7. /\ DOMAIN caller' = Callers /\ DOMAIN caller'[r] = Fields
      /\ \A q \in Callers \ {r} : caller'[q] = caller[q]
      /\ caller'[r].quota = new
      /\ caller'[r].ask = caller[r].ask /\ caller'[r].key = caller[r].key
      /\ caller'[r].attempted = caller[r].attempted /\ caller'[r].aborted = caller[r].aborted
      /\ caller'[r].headers = caller[r].headers
      /\ caller'[r].pc = IF caller[r].ending = "refund" THEN "headers" ELSE "done"
  <2> DEFINE fs == [pc |-> After(r), quota |-> new]
  <2>1. Update(r, fs) BY DEF SettlementKnown
  <2>2. DOMAIN fs = {"pc", "quota"} /\ fs.pc = After(r) /\ fs.quota = new OBVIOUS
  <2> HIDE DEF fs, new
  <2> QED BY <1>3, <2>1, <2>2, UpdateFields DEF After
<1>8. caller[r].aborted => settledAs'[r].charge.requests = 0
  <2>1. settledAs'[r].charge = caller[r].quota.command.charge BY <1>2 DEF SettledRight
  <2>2. caller[r].aborted => caller[r].quota.command.charge = NoCharge
    BY <1>1 DEF Settling, SettleCommand
  <2> QED BY <2>1, <2>2 DEF NoCharge
<1>9. caller[r].aborted => /\ shown # Null => shown.own = 0
                           /\ shown = Null => admitted[r].window < window
  <2>1. CASE settledAs'[r].noop
    BY <1>2, <2>1 DEF SettledRight
  <2>2. CASE ~settledAs'[r].noop
    <3>1. Shot(admitted[r].window, settledAs'[r].charge.requests) \in Shots
      BY <1>4 DEF Shot, Shots
    <3>2. shown # Null BY <2>2, <3>1, NotNull
    <3> QED BY <1>8, <2>2, <3>2 DEF Shot
  <2> QED BY <1>4, <2>1, <2>2
<1>10. new.admission # Null => new.admission.window = admitted[r].window
  BY <1>1, <1>6 DEF Settling
<1> HIDE DEF new, shown
<1> QED BY <1>1, <1>2, <1>6, <1>7, <1>9, <1>10, SettleMove

(* or it gives up; an aborted request then shows nothing. *)
LEMMA SettleFails ==
  ASSUME QuotaInv, NEW r \in Callers, caller[r].pc \in {"call", "ask"}, caller[r].ending # "admit",
         Delivered(caller[r].cmd), window' = window, SettlementUnknown(r)
  PROVE  QuotaInv'
<1> DEFINE kept == [caller[r].quota EXCEPT !.settlement = "retry_required"]
           none == [kept EXCEPT !.admission = Null, !.response = Null]
           new == IF caller[r].ending = "refund" THEN none ELSE kept
<1>1. /\ Settling(r) /\ caller[r].ending \in {"refund", "final"}
      /\ caller[r].ending = "refund" => caller[r].aborted /\ caller[r].headers = Null
  BY SettleFacts
<1>2. SettledRight(r) BY SettleDelivered
<1>3. /\ DOMAIN caller = Callers /\ DOMAIN caller[r] = Fields /\ caller[r].quota \in Quotas
  BY <1>1 DEF Settling
<1>4. /\ kept \in Quotas /\ kept.settlement = "retry_required"
      /\ kept.reserved = caller[r].quota.reserved /\ kept.command = caller[r].quota.command
      /\ kept.admission = caller[r].quota.admission
  BY <1>3, QuotaParts DEF Quotas
<1>5. /\ none \in Quotas /\ none.settlement = "retry_required"
      /\ none.reserved = caller[r].quota.reserved /\ none.command = caller[r].quota.command
      /\ none.admission = Null /\ none.response = Null
  <2> HIDE DEF kept
  <2> QED BY <1>4, QuotaParts DEF Quotas
<1>6. /\ DOMAIN caller' = Callers /\ DOMAIN caller'[r] = Fields
      /\ \A q \in Callers \ {r} : caller'[q] = caller[q]
      /\ caller'[r].quota = new
      /\ caller'[r].ask = caller[r].ask /\ caller'[r].key = caller[r].key
      /\ caller'[r].attempted = caller[r].attempted /\ caller'[r].aborted = caller[r].aborted
      /\ caller'[r].headers = caller[r].headers
      /\ caller'[r].pc = IF caller[r].ending = "refund" THEN "headers" ELSE "done"
  <2>1. CASE caller[r].ending = "refund"
    <3> DEFINE fs == [pc |-> "headers", quota |-> none,
                      status |-> IF caller[r].status = Null THEN 503 ELSE caller[r].status]
    <3>1. Update(r, fs) BY <2>1 DEF SettlementUnknown
    <3>2. DOMAIN fs = {"pc", "quota", "status"} /\ fs.pc = "headers" /\ fs.quota = none OBVIOUS
    <3> HIDE DEF fs, none
    <3> QED BY <1>3, <2>1, <3>1, <3>2, UpdateFields
  <2>2. CASE caller[r].ending # "refund"
    <3> DEFINE fs == [pc |-> "done", quota |-> kept]
    <3>1. Update(r, fs) BY <2>2 DEF SettlementUnknown
    <3>2. DOMAIN fs = {"pc", "quota"} /\ fs.pc = "done" /\ fs.quota = kept OBVIOUS
    <3> HIDE DEF fs, kept
    <3> QED BY <1>3, <2>2, <3>1, <3>2, UpdateFields
  <2> QED BY <2>1, <2>2
<1> HIDE DEF none, kept
<1>7. /\ new \in Quotas /\ new.settlement = "retry_required"
      /\ new.reserved = caller[r].quota.reserved /\ new.command = caller[r].quota.command
      /\ new.admission \in {caller[r].quota.admission, Null}
      /\ caller[r].ending = "refund" => new.admission = Null /\ new.response = Null
  BY <1>4, <1>5
<1> HIDE DEF new
<1> QED BY <1>1, <1>2, <1>6, <1>7, SettleMove

(* A call of the store, whatever becomes of it. *)
LEMMA CallKeeps ==
  ASSUME QuotaInv, NEW r \in Callers, CallStore(r)
  PROVE  QuotaInv'
<1> DEFINE c == caller[r].cmd
<1>1. caller[r].pc \in {"call", "ask"} /\ window' = window
  BY DEF CallStore, Step
<1>2. Delivered(c)
  BY DEF CallStore, Delivered
<1>3. (Succeed(r) /\ StoreApply(c)) \/ Update(r, [pc |-> "ask"]) \/ Fail(r)
  BY DEF CallStore
<1>4. CASE caller[r].ending = "admit"
  <2>1. CASE Succeed(r) /\ StoreApply(c)
    <3>1. c.op = "admit" /\ c.id = r /\ c.charge \in Charges /\ c.subject \in Modes \cup {"key"}
      BY <1>1, <1>4, AdmitFacts, AdmitShape
    <3>2. StoreTypeOK BY DEF QuotaInv
    <3> HIDE DEF c
    <3>3. admitted'[r] # Null BY <2>1, <3>1, <3>2, StoreAdmits
    <3> QED BY <1>1, <1>2, <1>4, <2>1, <3>3, AdmitSucceeds DEF Succeed, c
  <2>2. CASE Update(r, [pc |-> "ask"])
    BY <1>1, <1>2, <1>4, <2>2, AdmitWaits
  <2>3. CASE Fail(r)
    BY <1>1, <1>2, <1>4, <2>3, AdmitFails DEF Fail
  <2> QED BY <1>3, <2>1, <2>2, <2>3
<1>5. CASE caller[r].ending # "admit"
  <2>1. CASE Succeed(r) /\ StoreApply(c)
    <3>1. Settling(r) /\ c = caller[r].quota.command BY <1>1, <1>5, SettleFacts
    <3>2. c \in SettleCommands /\ c.id = r BY <3>1 DEF Settling, SettleCommand
    <3>3. c.op = "settle" /\ c.charge \in Charges BY <3>2 DEF SettleCommands
    <3>4. StoreTypeOK BY DEF QuotaInv
    <3> HIDE DEF c
    <3>5. settledAs'[r] # Null BY <2>1, <3>2, <3>3, <3>4, StoreSettles
    <3> QED BY <1>1, <1>2, <1>5, <2>1, <3>5, SettleSucceeds DEF Succeed, c
  <2>2. CASE Update(r, [pc |-> "ask"])
    BY <1>1, <1>2, <1>5, <2>2, SettleWaits
  <2>3. CASE Fail(r)
    BY <1>1, <1>2, <1>5, <2>3, SettleFails DEF Fail
  <2> QED BY <1>3, <2>1, <2>2, <2>3
<1> QED BY <1>4, <1>5

(* A question for the outcome, whatever the answer. *)
LEMMA AskKeeps ==
  ASSUME QuotaInv, NEW r \in Callers, AskStore(r)
  PROVE  QuotaInv'
<1> DEFINE c == caller[r].cmd
<1>1. caller[r].pc \in {"call", "ask"} /\ window' = window /\ UNCHANGED storeVars
  BY DEF AskStore, Step
<1>2. Delivered(c)
  BY <1>1 DEF Delivered
<1>3. (Succeed(r) /\ InStore(c)) \/ Update(r, [pc |-> "call", tries |-> 2]) \/ Fail(r)
  BY DEF AskStore
<1>4. CASE caller[r].ending = "admit"
  <2>1. CASE Succeed(r) /\ InStore(c)
    <3>1. c.op = "admit" /\ c.id = r BY <1>1, <1>4, AdmitFacts, AdmitShape
    <3>2. admitted'[r] # Null BY <1>1, <2>1, <3>1 DEF InStore, storeVars
    <3> QED BY <1>1, <1>2, <1>4, <2>1, <3>2, AdmitSucceeds DEF Succeed
  <2>2. CASE Update(r, [pc |-> "call", tries |-> 2])
    BY <1>1, <1>2, <1>4, <2>2, AdmitWaits
  <2>3. CASE Fail(r)
    BY <1>1, <1>2, <1>4, <2>3, AdmitFails DEF Fail
  <2> QED BY <1>3, <2>1, <2>2, <2>3
<1>5. CASE caller[r].ending # "admit"
  <2>1. CASE Succeed(r) /\ InStore(c)
    <3>1. Settling(r) /\ c = caller[r].quota.command BY <1>1, <1>5, SettleFacts
    <3>2. c \in SettleCommands /\ c.id = r BY <3>1 DEF Settling, SettleCommand
    <3>3. c.op = "settle" BY <3>2 DEF SettleCommands
    <3>4. settledAs'[r] # Null BY <1>1, <2>1, <3>2, <3>3 DEF InStore, storeVars
    <3> QED BY <1>1, <1>2, <1>5, <2>1, <3>4, SettleSucceeds DEF Succeed
  <2>2. CASE Update(r, [pc |-> "call", tries |-> 2])
    BY <1>1, <1>2, <1>5, <2>2, SettleWaits
  <2>3. CASE Fail(r)
    BY <1>1, <1>2, <1>5, <2>3, SettleFails DEF Fail
  <2> QED BY <1>3, <2>1, <2>2, <2>3
<1> QED BY <1>4, <1>5

(* A command whose answer was given up arrives. *)
LEMMA LateKeeps ==
  ASSUME QuotaInv, LateCommand
  PROVE  QuotaInv'
<1>1. PICK c \in late : late' = late \ {c} /\ StoreApply(c)
  BY DEF LateCommand
<1>2. caller' = caller /\ window' = window BY DEF LateCommand
<1> DEFINE r == c.id
<1>3. StoreTypeOK /\ r \in Callers /\ c.charge \in Charges
  BY DEF QuotaInv, StoreTypeOK
<1>4. CallerInv(r) /\ DOMAIN caller' = Callers BY <1>2, <1>3 DEF QuotaInv
<1>5. c \in Mine(r) /\ Mine(r)' \subseteq Mine(r) BY <1>1 DEF Mine
<1>6. \A q \in Callers \ {r} : Mine(q)' = Mine(q) BY <1>1 DEF Mine
<1>7. Unlimited(r)' = Unlimited(r) /\ AdmitCommand(r)' = AdmitCommand(r) /\ FinalCharge(r)' = FinalCharge(r)
  BY <1>2 DEF Unlimited, AdmitCommand, FinalCharge, Limits, ReserveFor, Subject
<1>8. CallerTypeOK(r)' /\ Told(r)'
  BY <1>2, <1>4 DEF CallerInv, CallerTypeOK, Told
<1>9. ~Unheard(r) BY <1>5 DEF Unheard
<1>10. CASE c.op = "admit"
  <2>1. c.subject \in Modes \cup {"key"} BY <1>10 DEF QuotaInv, StoreTypeOK, SettleCommands
  <2> HIDE DEF r
  <2>2. /\ settledAs' = settledAs /\ admitted' \in [Callers -> Admissions \cup {Null}]
        /\ \A q \in Callers \ {r} : admitted'[q] = admitted[q]
        /\ admitted[r] # Null => admitted'[r] = admitted[r]
        /\ admitted[r] = Null => admitted'[r].window = window
        /\ admitted'[r] # Null
    <3>1. c.id = r BY DEF r
    <3> QED BY <1>1, <1>3, <1>10, <2>1, <3>1, StoreAdmits
  <2>3. StoreTypeOK' /\ window \in Nat BY <1>1, <1>2, <1>3, <2>2 DEF StoreTypeOK
  <2>4. \A q \in Callers \ {r} : SameFor(q) BY <1>2, <1>6, <2>2 DEF SameFor
  <2>5. Place(r)'
    BY <1>2, <1>4, <1>7, <1>9 DEF CallerInv, Place
  <2>6. Known(r)'
    BY <1>2, <1>4, <1>5, <1>7, <1>9, <2>2, <2>3 DEF CallerInv, Known, Holds, SettleCommand
  <2> QED BY <1>2, <1>3, <1>4, <1>8, <2>3, <2>4, <2>5, <2>6, OneCaller DEF CallerInv
<1>11. CASE c \in SettleCommands
  <2>1. c.op = "settle" BY <1>11 DEF SettleCommands
  <2>2. caller[r].quota # Null /\ c = caller[r].quota.command
    BY <1>4, <1>5, <2>1 DEF CallerInv, Known
  <2>3. c # Null BY <1>11, NotNull
  <2>4. Holds(r) BY <1>4, <2>2, <2>3 DEF CallerInv, Known
  <2>5. late' \subseteq late BY <1>1
  <2> HIDE DEF r
  <2>6. SettledRight(r)
    <3>1. c.id = r BY DEF r
    <3> QED BY <1>1, <1>2, <1>3, <1>6, <1>11, <2>1, <2>2, <2>3, <2>4, <2>5, <3>1, SettleApplied
  <2>7. StoreTypeOK' /\ admitted'[r] = admitted[r] BY <2>6 DEF SettledRight
  <2>8. \A q \in Callers \ {r} : SameFor(q) BY <1>2, <2>6 DEF SameFor, SettledRight, Apart
  <2>9. Place(r)'
    BY <1>2, <1>4, <1>7, <1>9 DEF CallerInv, Place
  <2>10. settledAs[r] # Null => settledAs'[r] # Null
    BY <1>1, <1>3 DEF StoreApply, StoreTypeOK, r
  <2>11. Known(r)'
    BY <1>2, <1>4, <1>7, <1>9, <2>2, <2>3, <2>4, <2>6, <2>7, <2>10
       DEF CallerInv, Known, Holds, SettleCommand, SettledRight
  <2> QED BY <1>2, <1>3, <1>4, <1>8, <2>7, <2>8, <2>9, <2>11, OneCaller DEF CallerInv
<1> QED BY <1>3, <1>10, <1>11 DEF QuotaInv, StoreTypeOK

-----------------------------------------------------------------------------
(* Dispatch and the end of the request *)

(* A request past its admission. *)
LEMMA PastFacts ==
  ASSUME QuotaInv, NEW r \in Callers, caller[r].pc \in {"ready"} \cup Ending
  PROVE  /\ CallerInv(r) /\ DOMAIN caller = Callers /\ DOMAIN caller[r] = Fields /\ caller[r].ask \in Asks
         /\ caller[r].attempted \in BOOLEAN /\ caller[r].aborted \in BOOLEAN
         /\ caller[r].headers \in Headers \cup {Null}
         /\ caller[r].quota \in Quotas \cup {Null}
  BY IdleFields DEF QuotaInv, CallerInv, CallerTypeOK, Ending

(* A ready request is dispatched, answered by the gateway, or aborted        *)
(* without a reservation.                                                    *)
LEMMA ReadyEnds ==
  ASSUME QuotaInv, NEW r \in Callers, UNCHANGED <<storeVars, window>>, caller[r].pc = "ready",
         NEW fields, Update(r, fields), DOMAIN fields \subseteq {"pc", "status", "attempted", "aborted"},
         "pc" \in DOMAIN fields, fields.pc = "headers",
         "attempted" \in DOMAIN fields => fields.attempted = TRUE,
         "aborted" \in DOMAIN fields => fields.aborted = TRUE /\ caller[r].quota = Null
  PROVE  QuotaInv'
<1>1. /\ CallerInv(r) /\ DOMAIN caller = Callers /\ DOMAIN caller[r] = Fields /\ caller[r].ask \in Asks
      /\ caller[r].attempted \in BOOLEAN /\ caller[r].aborted \in BOOLEAN
      /\ caller[r].headers \in Headers \cup {Null} /\ caller[r].quota \in Quotas \cup {Null}
  BY PastFacts
<1>2. /\ ~caller[r].attempted /\ ~caller[r].aborted /\ caller[r].headers = Null
      /\ caller[r].quota = Null => Unheard(r) /\ (caller[r].ask.chain.limit = Null \/ Unlimited(r))
      /\ caller[r].quota # Null => caller[r].quota.settlement = "pending" /\ caller[r].quota.command = Null
  BY <1>1 DEF CallerInv, Place, Arriving, Choosing
<1>3. /\ DOMAIN caller' = Callers /\ DOMAIN caller'[r] = Fields
      /\ \A q \in Callers \ {r} : caller'[q] = caller[q]
      /\ caller'[r].pc = "headers" /\ caller'[r].ask = caller[r].ask /\ caller'[r].key = caller[r].key
      /\ caller'[r].quota = caller[r].quota /\ caller'[r].headers = Null
      /\ caller'[r].attempted \in BOOLEAN /\ caller'[r].aborted \in BOOLEAN
      /\ caller'[r].aborted => caller[r].quota = Null
  <2>1. /\ DOMAIN caller' = Callers /\ DOMAIN caller'[r] = Fields
        /\ \A q \in Callers \ {r} : caller'[q] = caller[q]
        /\ caller'[r].pc = "headers" /\ caller'[r].ask = caller[r].ask /\ caller'[r].key = caller[r].key
        /\ caller'[r].quota = caller[r].quota /\ caller'[r].headers = caller[r].headers
    BY <1>1, UpdateFields
  <2>2. /\ caller'[r].attempted = IF "attempted" \in DOMAIN fields THEN fields.attempted ELSE caller[r].attempted
        /\ caller'[r].aborted = IF "aborted" \in DOMAIN fields THEN fields.aborted ELSE caller[r].aborted
    BY <1>1, UpdateFields
  <2>3. caller'[r].attempted \in BOOLEAN BY <1>1, <2>2
  <2>4. caller'[r].aborted \in BOOLEAN /\ (caller'[r].aborted => caller[r].quota = Null)
    BY <1>1, <1>2, <2>2
  <2> QED BY <1>2, <2>1, <2>3, <2>4
<1>4. StoreTypeOK' /\ Mine(r)' = Mine(r) /\ \A q \in Callers \ {r} : SameFor(q)
  BY <1>3, StoreRests
<1>5. Unlimited(r)' = Unlimited(r) BY <1>3, SameAsk
<1>6. CallerTypeOK(r)' /\ Told(r)'
  BY <1>1, <1>3, IdleFields DEF CallerTypeOK, Told
<1>7. Place(r)'
  BY <1>3 DEF Place, Arriving, Choosing, Ending
<1>8. /\ caller[r].quota = Null => Unheard(r)'
      /\ caller[r].quota # Null => Holds(r)'
  BY <1>1, <1>2, <1>4 DEF CallerInv, Known, Holds, Unheard, storeVars
<1>9. Known(r)'
  BY <1>1, <1>2, <1>3, <1>4, <1>5, <1>8 DEF CallerInv, Known, storeVars, Unheard
<1> QED BY <1>3, <1>4, <1>6, <1>7, <1>9, OneCaller DEF CallerInv

(* The charge at the end of a request. *)
LEMMA FinalChargeShape ==
  ASSUME NEW r \in Callers, caller[r].ask \in Asks, caller[r].quota \in Quotas
  PROVE  FinalCharge(r) \in Charges /\ NoCharge \in Charges
<1>1. caller[r].ask.tokens \in Nat \cup {Null} BY AdmissionAssumption
<1>2. caller[r].quota.reserved.tokens \in Nat
  <2>1. caller[r].quota.reserved \in Charges BY QuotaParts
  <2> QED BY <2>1 DEF Charges
<1> QED BY <1>1, <1>2 DEF FinalCharge, NoCharge, Charges

(* Keeping a command adds one only where there was none. *)
LEMMA CommandKept ==
  ASSUME NEW r \in Callers, caller[r].quota \in Quotas, NEW charge \in Charges
  PROVE  LET new == KeepCommand(r, charge) IN
         /\ new \in Quotas /\ new.reserved = caller[r].quota.reserved
         /\ new.admission = caller[r].quota.admission /\ new.response = caller[r].quota.response
         /\ new.settlement = caller[r].quota.settlement
         /\ new.command = IF caller[r].quota.command = Null THEN SettleCommand(r, charge)
                          ELSE caller[r].quota.command
         /\ new.command \in SettleCommands /\ new.command # Null
<1> DEFINE new == KeepCommand(r, charge)
           old == caller[r].quota
<1>1. SettleCommand(r, charge) \in SettleCommands BY DEF SettleCommand, SettleCommands
<1>2. /\ old.reserved \in Charges /\ old.admission \in Shots \cup {Null} /\ old.response \in Shots \cup {Null}
      /\ old.settlement \in {"pending", "not_required", "settled", "retry_required"}
      /\ old.rejected \in BOOLEAN /\ old.command \in SettleCommands \cup {Null}
  BY QuotaParts
<1>3. /\ new.reserved = old.reserved /\ new.admission = old.admission /\ new.response = old.response
      /\ new.settlement = old.settlement /\ new.rejected = old.rejected
      /\ new.command = IF old.command = Null THEN SettleCommand(r, charge) ELSE old.command
      /\ new \in Quotas
  BY <1>1, <1>2 DEF KeepCommand, Quotas
<1>4. new.command \in SettleCommands BY <1>1, <1>2, <1>3
<1>5. new.command # Null
  <2> HIDE DEF new
  <2> QED BY <1>4, NotNull
<1> QED BY <1>3, <1>4, <1>5

(* A settlement is begun: the refund of an abort, or the final one. *)
LEMMA SettlementBegins ==
  ASSUME QuotaInv, NEW r \in Callers, UNCHANGED <<storeVars, window>>, NEW fields, Update(r, fields),
         caller[r].pc \in {"ready", "finalize"}, ~Closed(r),
         {"pc", "ending", "quota", "cmd"} \subseteq DOMAIN fields,
         DOMAIN fields \subseteq {"pc", "ending", "tries", "aborted", "status", "quota", "cmd"},
         fields.pc = "call",
         \/ /\ caller[r].pc = "ready" /\ fields.ending = "refund" /\ fields.quota = KeepCommand(r, NoCharge)
            /\ "aborted" \in DOMAIN fields /\ fields.aborted = TRUE
         \/ /\ caller[r].pc = "finalize" /\ fields.ending = "final"
            /\ fields.quota = KeepCommand(r, FinalCharge(r)) /\ "aborted" \notin DOMAIN fields,
         fields.cmd = fields.quota.command
  PROVE  QuotaInv'
<1> DEFINE new == fields.quota
<1>1. /\ CallerInv(r) /\ DOMAIN caller = Callers /\ DOMAIN caller[r] = Fields /\ caller[r].ask \in Asks
      /\ caller[r].attempted \in BOOLEAN /\ caller[r].aborted \in BOOLEAN
      /\ caller[r].headers \in Headers \cup {Null} /\ caller[r].quota \in Quotas \cup {Null}
  BY PastFacts DEF Ending
<1>2. /\ caller[r].quota # Null /\ caller[r].quota \in Quotas
      /\ caller[r].quota.settlement \in {"pending", "retry_required"}
  <2>1. caller[r].quota # Null /\ caller[r].quota.settlement \notin {"not_required", "settled"}
    BY DEF Closed
  <2> QED BY <1>1, <2>1, QuotaParts
<1>3. FinalCharge(r) \in Charges /\ NoCharge \in Charges BY <1>1, <1>2, FinalChargeShape
<1>4. /\ new \in Quotas /\ new.reserved = caller[r].quota.reserved
      /\ new.admission = caller[r].quota.admission
      /\ new.settlement = caller[r].quota.settlement
      /\ new.command \in SettleCommands /\ new.command # Null
      /\ caller[r].quota.command # Null => new.command = caller[r].quota.command
      /\ caller[r].quota.command = Null =>
           new.command = SettleCommand(r, IF caller[r].pc = "ready" THEN NoCharge ELSE FinalCharge(r))
  BY <1>2, <1>3, CommandKept
<1>5. new # Null BY <1>4, NotNull
<1>6. /\ DOMAIN caller' = Callers /\ DOMAIN caller'[r] = Fields
      /\ \A q \in Callers \ {r} : caller'[q] = caller[q]
      /\ caller'[r].pc = "call" /\ caller'[r].ask = caller[r].ask /\ caller'[r].key = caller[r].key
      /\ caller'[r].quota = new /\ caller'[r].headers = caller[r].headers
      /\ caller'[r].attempted = caller[r].attempted /\ caller'[r].cmd = new.command
      /\ caller'[r].ending = fields.ending
      /\ caller'[r].aborted = IF caller[r].pc = "ready" THEN TRUE ELSE caller[r].aborted
  <2>1. /\ DOMAIN caller' = Callers /\ DOMAIN caller'[r] = Fields
        /\ \A q \in Callers \ {r} : caller'[q] = caller[q]
        /\ caller'[r].pc = "call" /\ caller'[r].ask = caller[r].ask /\ caller'[r].key = caller[r].key
        /\ caller'[r].quota = new /\ caller'[r].headers = caller[r].headers
        /\ caller'[r].attempted = caller[r].attempted
    BY <1>1, UpdateFields
  <2>2. caller'[r].cmd = fields.cmd /\ caller'[r].ending = fields.ending
    BY <1>1, UpdateFields
  <2>3. caller'[r].aborted = IF "aborted" \in DOMAIN fields THEN fields.aborted ELSE caller[r].aborted
    BY <1>1, UpdateFields
  <2> QED BY <2>1, <2>2, <2>3
<1> HIDE DEF new
<1>7. StoreTypeOK' /\ Mine(r)' = Mine(r) /\ \A q \in Callers \ {r} : SameFor(q)
  BY <1>6, StoreRests
<1>8. FinalCharge(r)' = FinalCharge(r) /\ Unlimited(r)' = Unlimited(r)
  BY <1>4, <1>6, SameAsk DEF FinalCharge
<1>9. /\ caller[r].pc = "ready" => /\ ~caller[r].attempted /\ ~caller[r].aborted /\ caller[r].headers = Null
                                   /\ caller[r].quota.command = Null
  BY <1>1, <1>2 DEF CallerInv, Place, Arriving, Choosing
<1>10. CallerTypeOK(r)'
  BY <1>1, <1>4, <1>6, IdleFields DEF CallerTypeOK
<1>11. Place(r)'
  BY <1>2, <1>4, <1>5, <1>6, <1>9 DEF Place, Arriving, Choosing, Ending
<1>12. Told(r)'
  BY <1>1, <1>6, <1>9 DEF CallerInv, Told, Clean
<1>13. new.command = SettleCommand(r, IF caller'[r].aborted THEN NoCharge ELSE FinalCharge(r))
  <2>1. CASE caller[r].pc = "ready" BY <1>4, <1>6, <1>9, <2>1
  <2>2. CASE caller[r].pc # "ready" /\ caller[r].quota.command # Null
    BY <1>1, <1>2, <1>4, <1>6, <2>2 DEF CallerInv, Known
  <2>3. CASE caller[r].pc # "ready" /\ caller[r].quota.command = Null
    <3>1. ~caller[r].aborted
      BY <1>1, <1>2, <2>3 DEF CallerInv, Known
    <3> QED BY <1>4, <1>6, <2>3, <3>1
  <2> QED BY <2>1, <2>2, <2>3
<1>14. Holds(r)' /\ admitted'[r] = admitted[r]
  BY <1>1, <1>2 DEF CallerInv, Known, Holds, storeVars
<1>15. Known(r)'
  <2>1. /\ settledAs[r] # Null => /\ caller[r].quota.command # Null
                                  /\ settledAs[r].charge = caller[r].quota.command.charge
                                  /\ settledAs[r].noop => admitted[r].window < window
        /\ admitted[r] # Null => admitted[r].window <= window
        /\ caller[r].quota.admission # Null => caller[r].quota.admission.window = admitted[r].window
    BY <1>1, <1>2 DEF CallerInv, Known
  <2>2. \A cmd \in Mine(r) : cmd.op = "settle" => cmd = caller[r].quota.command /\ cmd \in SettleCommands
    BY <1>1 DEF CallerInv, Known, Mine, QuotaInv, StoreTypeOK
  <2>3. \A cmd \in Mine(r)' : cmd.op = "settle" => cmd = new.command
    BY <1>4, <1>7, <2>2, NotNull
  <2>4. settledAs'[r] = settledAs[r] /\ admitted'[r] = admitted[r] /\ window' = window
    BY DEF storeVars
  <2>5. (SettleCommand(r, IF caller[r].aborted THEN NoCharge ELSE FinalCharge(r)))'
          = SettleCommand(r, IF caller'[r].aborted THEN NoCharge ELSE FinalCharge(r))
    BY <1>8 DEF SettleCommand
  <2> QED BY <1>2, <1>4, <1>5, <1>6, <1>13, <1>14, <2>1, <2>3, <2>4, <2>5 DEF Known, Ending
<1> QED BY <1>6, <1>7, <1>10, <1>11, <1>12, <1>15, OneCaller DEF CallerInv

(* A request on its way out, with everything it has. *)
LEMMA OutMove ==
  ASSUME QuotaInv, NEW r \in Callers, UNCHANGED <<storeVars, window>>, NEW fields, Update(r, fields),
         caller[r].pc \in {"headers", "finalize"}, DOMAIN fields \subseteq {"pc", "headers"},
         "pc" \in DOMAIN fields, fields.pc \in {"finalize", "done"}, fields.pc = "done" => Closed(r),
         "headers" \in DOMAIN fields => /\ fields.headers \in Headers \cup {Null}
                                        /\ caller[r].aborted /\ fields.headers # Null =>
                                             Clean(fields.headers.shown, fields.headers.at)
  PROVE  QuotaInv'
<1>1. /\ CallerInv(r) /\ DOMAIN caller = Callers /\ DOMAIN caller[r] = Fields /\ caller[r].ask \in Asks
      /\ caller[r].attempted \in BOOLEAN /\ caller[r].aborted \in BOOLEAN
      /\ caller[r].headers \in Headers \cup {Null} /\ caller[r].quota \in Quotas \cup {Null}
  BY PastFacts DEF Ending
<1>2. /\ DOMAIN caller' = Callers /\ DOMAIN caller'[r] = Fields
      /\ \A q \in Callers \ {r} : caller'[q] = caller[q]
      /\ caller'[r].pc = fields.pc /\ caller'[r].ask = caller[r].ask /\ caller'[r].key = caller[r].key
      /\ caller'[r].quota = caller[r].quota /\ caller'[r].status = caller[r].status
      /\ caller'[r].attempted = caller[r].attempted /\ caller'[r].aborted = caller[r].aborted
  BY <1>1, UpdateFields
<1>3. caller'[r].headers = IF "headers" \in DOMAIN fields THEN fields.headers ELSE caller[r].headers
  BY <1>1, UpdateFields
<1>4. StoreTypeOK' /\ Mine(r)' = Mine(r) /\ \A q \in Callers \ {r} : SameFor(q)
  BY <1>2, StoreRests
<1>5. FinalCharge(r)' = FinalCharge(r) /\ Unlimited(r)' = Unlimited(r)
  BY <1>2, SameAsk DEF FinalCharge
<1>6. CallerTypeOK(r)'
  BY <1>1, <1>2, <1>3, IdleFields DEF CallerTypeOK
<1>7. Told(r)'
  BY <1>1, <1>2, <1>3 DEF CallerInv, Told
<1>8. Place(r)'
  BY <1>2 DEF Place, Arriving, Choosing, Ending, Closed
<1>9. Known(r)'
  BY <1>1, <1>2, <1>4, <1>5 DEF CallerInv, Known, storeVars, Unheard, Holds, SettleCommand, Ending
<1> QED BY <1>2, <1>4, <1>6, <1>7, <1>8, <1>9, OneCaller DEF CallerInv

(* The quota headers of an aborted request are clean. *)
LEMMA HeaderKeeps ==
  ASSUME QuotaInv, NEW r \in Callers, HeaderFilter(r)
  PROVE  QuotaInv'
<1> DEFINE quota == caller[r].quota
           shown == IF quota = Null THEN Null ELSE IF quota.response # Null THEN quota.response ELSE quota.admission
           new == IF shown = Null THEN Null ELSE [shown |-> shown, at |-> window]
           fs == [pc |-> "finalize", headers |-> new]
<1>1. /\ caller[r].pc = "headers" /\ UNCHANGED <<storeVars, window>> /\ Update(r, fs)
  BY DEF HeaderFilter, Step
<1>2. CallerInv(r) /\ quota \in Quotas \cup {Null} /\ window \in Nat
  BY <1>1, PastFacts DEF Ending, QuotaInv, StoreTypeOK
<1>3. shown \in Shots \cup {Null}
  <2>1. CASE quota = Null BY <2>1
  <2>2. CASE quota \in Quotas
    <3>1. quota.response \in Shots \cup {Null} /\ quota.admission \in Shots \cup {Null}
      BY <2>2, QuotaParts
    <3> QED BY <3>1
  <2> QED BY <1>2, <2>1, <2>2
<1>4. caller[r].aborted /\ shown # Null => Clean(shown, window)
  <2>1. caller[r].aborted /\ quota # Null =>
          /\ quota.response # Null => quota.response.own = 0
          /\ quota.response = Null /\ quota.admission # Null => quota.admission.window < window
    BY <1>1, <1>2 DEF CallerInv, Told
  <2>2. CASE shown # Null /\ quota.response # Null BY <2>1, <2>2 DEF Clean
  <2>3. CASE caller[r].aborted /\ shown # Null /\ quota.response = Null
    <3>1. quota # Null /\ shown = quota.admission BY <2>3
    <3>2. shown \in Shots BY <1>3, <2>3
    <3>3. shown.window \in Nat BY <3>2 DEF Shots
    <3>4. shown.window < window BY <2>1, <2>3, <3>1
    <3> QED BY <1>2, <3>3, <3>4 DEF Clean
  <2> QED BY <2>2, <2>3
<1> HIDE DEF shown
<1>5. new \in Headers \cup {Null} BY <1>2, <1>3 DEF Headers
<1>6. caller[r].aborted /\ new # Null => Clean(new.shown, new.at)
  BY <1>4
<1>7. /\ DOMAIN fs = {"pc", "headers"} /\ fs.pc = "finalize" /\ fs.headers = new
  OBVIOUS
<1> HIDE DEF fs, new
<1> QED BY <1>1, <1>5, <1>6, <1>7, OutMove

(* A ready request is dispatched, ended or aborted. *)
LEMMA ReadyKeeps ==
  ASSUME QuotaInv, NEW r \in Callers, DispatchCall(r) \/ EndEarly(r) \/ AbortDispatch(r)
  PROVE  QuotaInv'
<1>1. UNCHANGED <<storeVars, window>> /\ caller[r].pc = "ready"
  BY DEF DispatchCall, EndEarly, AbortDispatch, Step
<1>2. CASE DispatchCall(r)
  BY <1>1, <1>2, ReadyEnds DEF DispatchCall
<1>3. CASE EndEarly(r)
  BY <1>1, <1>3, ReadyEnds DEF EndEarly, Refuse
<1>4. CASE AbortDispatch(r) /\ Closed(r)
  <2>1. caller[r].quota = Null
    BY <1>1, <1>4 DEF QuotaInv, CallerInv, Place, Closed, Arriving, Choosing
  <2>2. Update(r, [pc |-> "headers", aborted |-> TRUE, status |-> 503])
    BY <1>4 DEF AbortDispatch
  <2> QED BY <1>1, <2>1, <2>2, ReadyEnds
<1>5. CASE AbortDispatch(r) /\ ~Closed(r)
  <2>1. PICK status : Update(r, [pc |-> "call", ending |-> "refund", tries |-> 1, aborted |-> TRUE,
                                 status |-> status, quota |-> KeepCommand(r, NoCharge),
                                 cmd |-> KeepCommand(r, NoCharge).command])
    BY <1>5 DEF AbortDispatch
  <2> DEFINE new == KeepCommand(r, NoCharge)
             fs == [pc |-> "call", ending |-> "refund", tries |-> 1, aborted |-> TRUE,
                    status |-> status, quota |-> new, cmd |-> new.command]
  <2>2. Update(r, fs) BY <2>1
  <2>3. /\ DOMAIN fs = {"pc", "ending", "tries", "aborted", "status", "quota", "cmd"} /\ fs.pc = "call"
        /\ fs.ending = "refund" /\ fs.aborted = TRUE /\ fs.quota = KeepCommand(r, NoCharge)
        /\ fs.cmd = fs.quota.command
    OBVIOUS
  <2> HIDE DEF fs, new
  <2> QED BY <1>1, <1>5, <2>2, <2>3, SettlementBegins
<1> QED BY <1>2, <1>3, <1>4, <1>5

(* The last settlement of a request, if it has one to make. *)
LEMMA FinalKeeps ==
  ASSUME QuotaInv, NEW r \in Callers, FinalizeQuota(r)
  PROVE  QuotaInv'
<1>1. UNCHANGED <<storeVars, window>> /\ caller[r].pc = "finalize"
  BY DEF FinalizeQuota, Step
<1>2. CASE Closed(r)
  BY <1>1, <1>2, OutMove DEF FinalizeQuota
<1>3. CASE ~Closed(r)
  <2> DEFINE new == KeepCommand(r, FinalCharge(r))
             fs == [pc |-> "call", ending |-> "final", tries |-> 1, quota |-> new, cmd |-> new.command]
  <2>1. Update(r, fs) BY <1>3 DEF FinalizeQuota, PrepareFinalSettlement
  <2>2. /\ DOMAIN fs = {"pc", "ending", "tries", "quota", "cmd"} /\ fs.pc = "call"
        /\ fs.ending = "final" /\ fs.quota = KeepCommand(r, FinalCharge(r))
        /\ fs.cmd = fs.quota.command
    OBVIOUS
  <2> HIDE DEF fs, new
  <2> QED BY <1>1, <1>3, <2>1, <2>2, SettlementBegins
<1> QED BY <1>2, <1>3

(* A request the store never heard of leaves, and its name is used again. *)
LEMMA LeaveKeeps ==
  ASSUME QuotaInv, NEW r \in Callers, Leave(r)
  PROVE  QuotaInv'
<1>1. CallerInv(r) /\ DOMAIN caller = Callers /\ StoreTypeOK BY DEF QuotaInv
<1>2. /\ UNCHANGED <<storeVars, window>> /\ admitted[r] = Null /\ Mine(r) = {} /\ caller[r].pc = "done"
  BY DEF Leave, Mine, Step
<1>3. settledAs[r] = Null
  <2>1. SUFFICES ASSUME settledAs[r] # Null PROVE FALSE OBVIOUS
  <2>2. caller[r].quota # Null /\ caller[r].quota.command # Null
    BY <1>1, <2>1 DEF CallerInv, Known
  <2> QED BY <1>1, <1>2, <2>2 DEF CallerInv, Known, Holds
<1>4. /\ DOMAIN caller' = Callers /\ \A q \in Callers \ {r} : caller'[q] = caller[q]
      /\ DOMAIN caller'[r] = Fields
      /\ caller'[r].pc = "idle" /\ caller'[r].quota = Null /\ caller'[r].headers = Null
      /\ caller'[r].attempted = FALSE /\ caller'[r].aborted = FALSE
  BY <1>1 DEF Leave, Idle, Fields
<1>5. StoreTypeOK' /\ Mine(r)' = Mine(r) /\ \A q \in Callers \ {r} : SameFor(q)
  BY <1>2, <1>4, StoreRests
<1>6. Unheard(r)' BY <1>2, <1>3, <1>5 DEF Unheard, storeVars
<1>7. CallerTypeOK(r)' /\ Told(r)' BY <1>4, IdleFields DEF CallerTypeOK, Told
<1>8. Place(r)' /\ Known(r)'
  BY <1>4, <1>6 DEF Place, Known, Unheard, Arriving, Choosing, Ending
<1> QED BY <1>2, <1>4, <1>5, <1>7, <1>8, OneCaller DEF CallerInv

(* A window ends. *)
LEMMA WindowKeeps ==
  ASSUME QuotaInv, NextWindow
  PROVE  QuotaInv'
<1>1. /\ UNCHANGED <<caller, storeVars>> /\ window \in Nat /\ window' = window + 1 /\ DOMAIN caller = Callers
      /\ StoreTypeOK
  BY DEF NextWindow, QuotaInv, StoreTypeOK
<1>2. StoreTypeOK' BY <1>1 DEF StoreTypeOK, storeVars
<1>3. ASSUME NEW r \in Callers PROVE CallerInv(r)'
  <2>1. CallerInv(r) BY DEF QuotaInv
  <2>2. /\ Unlimited(r)' = Unlimited(r) /\ AdmitCommand(r)' = AdmitCommand(r)
        /\ FinalCharge(r)' = FinalCharge(r) /\ Mine(r)' = Mine(r)
    BY <1>1 DEF Unlimited, AdmitCommand, FinalCharge, Limits, ReserveFor, Subject, Mine, storeVars
  <2>3. CallerTypeOK(r)' /\ Place(r)'
    BY <1>1, <2>1, <2>2 DEF CallerInv, CallerTypeOK, Place, Unheard, storeVars
  <2>4. admitted[r] # Null => admitted[r].window \in Nat
    <3>1. admitted[r] # Null => admitted[r] \in Admissions BY <1>1 DEF StoreTypeOK
    <3> QED BY <3>1 DEF Admissions
  <2>5. settledAs[r] # Null => admitted[r] # Null
    BY <2>1 DEF CallerInv, Known, Holds
  <2>6. Known(r)'
    BY <1>1, <2>1, <2>2, <2>4, <2>5
       DEF CallerInv, Known, storeVars, Unheard, Holds, SettleCommand
  <2>7. caller[r].quota # Null /\ caller[r].quota.admission # Null =>
          caller[r].quota.admission.window \in Nat
    <3>1. SUFFICES ASSUME caller[r].quota # Null, caller[r].quota.admission # Null
                   PROVE  caller[r].quota.admission.window \in Nat
      OBVIOUS
    <3>2. caller[r].quota \in Quotas BY <2>1, <3>1 DEF CallerInv, CallerTypeOK
    <3>3. caller[r].quota.admission \in Shots BY <3>1, <3>2, QuotaParts
    <3> QED BY <3>3 DEF Shots
  <2>8. Told(r)'
    BY <1>1, <2>1, <2>7 DEF CallerInv, Told
  <2> QED BY <2>3, <2>6, <2>8 DEF CallerInv
<1> QED BY <1>1, <1>2, <1>3 DEF QuotaInv

-----------------------------------------------------------------------------
(* Keys *)

tableVars == <<row, replaced, authCache, clock>>

(* A request that keeps what it read and the key it was let in with. *)
KeyKept(q) ==
  /\ \/ caller'[q].key = Null
     \/ caller'[q].key = caller[q].key /\ caller'[q].at = caller[q].at
  /\ caller'[q].pc = "found" =>
       caller[q].pc = "found" /\ caller'[q].since = caller[q].since /\ caller'[q].found = caller[q].found

(* Steps after authentication change nothing of the keys. *)
LEMMA KeyRests ==
  ASSUME KeyInv, UNCHANGED tableVars, \A q \in Callers : KeyKept(q)
  PROVE  KeyInv'
<1>1. /\ clock' \in Nat /\ DOMAIN authCache' = Secrets
      /\ replaced' \in Seq(Nat \cup {Null})
      /\ \A i \in DOMAIN replaced' : replaced'[i] = Null \/ replaced'[i] <= clock'
      /\ row' # Null => row'.rev \in DOMAIN replaced' /\ replaced'[row'.rev] = Null
  BY DEF KeyInv, tableVars
<1>2. \A x, t : Unreplaced(x, t)' = Unreplaced(x, t)
  BY DEF Unreplaced, tableVars
<1>3. \A s \in Secrets : authCache'[s] # Null =>
       /\ authCache'[s].at \in 0..clock'
       /\ authCache'[s].row # Null => Unreplaced(authCache[s].row, authCache[s].at - MaxLookup)'
  BY <1>2 DEF KeyInv, tableVars
<1>4. ASSUME NEW r \in Callers
      PROVE  /\ caller'[r].pc = "found" =>
                  /\ caller'[r].since \in 0..clock' /\ clock' <= caller'[r].since + MaxLookup
                  /\ caller'[r].found # Null => Unreplaced(caller[r].found, caller[r].since)'
             /\ caller'[r].key # Null =>
                  /\ caller'[r].at \in 0..clock'
                  /\ Unreplaced(caller[r].key, caller[r].at - CacheTtl - MaxLookup + 1)'
                  /\ caller'[r].key.policy.expires = Null \/ caller'[r].at < caller'[r].key.policy.expires
  BY <1>2 DEF KeyInv, tableVars, KeyKept, Unreplaced
<1> QED BY <1>1, <1>3, <1>4 DEF KeyInv

(* An update of other fields is such a step. *)
LEMMA KeyUntouched ==
  ASSUME QuotaInv, KeyInv, NEW r \in Callers, UNCHANGED tableVars, NEW fields, Update(r, fields),
         DOMAIN fields \cap {"key", "at", "found", "since"} = {}, "pc" \in DOMAIN fields, fields.pc # "found"
  PROVE  KeyInv'
<1>1. DOMAIN caller = Callers /\ DOMAIN caller[r] = Fields
  BY IdleFields DEF QuotaInv, CallerInv, CallerTypeOK
<1>2. /\ \A q \in Callers \ {r} : caller'[q] = caller[q]
      /\ caller'[r].key = caller[r].key /\ caller'[r].at = caller[r].at /\ caller'[r].pc = fields.pc
  BY <1>1, UpdateFields
<1>3. \A q \in Callers : KeyKept(q) BY <1>2 DEF KeyKept
<1> QED BY <1>3, KeyRests

(* The credential of a request is a secret or missing. *)
LEMMA Credential ==
  ASSUME NEW a \in Asks PROVE ExtractCredential(a.headers) \in Secrets \cup {Null}
<1>1. a.headers \in [1..3 -> Secrets \cup {Null}] BY AdmissionAssumption
<1>2. 1 \in 1..3 /\ 2 \in 1..3 /\ 3 \in 1..3 OBVIOUS
<1> QED BY <1>1, <1>2 DEF ExtractCredential

(* Whoever is let in has a row that was in force not long ago. *)
LEMMA LetIn ==
  ASSUME QuotaInv, KeyInv, NEW r \in Callers, caller[r].pc \in {"auth", "found"}, NEW found,
         Authenticate(r, found),
         found # Null => Unreplaced(found, clock - CacheTtl - MaxLookup + 1)
  PROVE  /\ \A q \in Callers \ {r} : caller'[q] = caller[q]
         /\ caller'[r].pc # "found"
         /\ \/ caller'[r].key = caller[r].key /\ caller'[r].at = caller[r].at
            \/ /\ caller'[r].at = clock
               /\ Unreplaced(caller'[r].key, clock - CacheTtl - MaxLookup + 1)
               /\ caller'[r].key.policy.expires = Null \/ clock < caller'[r].key.policy.expires
<1>1. DOMAIN caller = Callers /\ DOMAIN caller[r] = Fields
  BY IdleFields DEF QuotaInv, CallerInv, CallerTypeOK
<1>2. CASE ~Authentic(found)
  <2>1. Update(r, [pc |-> "headers", status |-> 401]) BY <1>2 DEF Authenticate, Refuse
  <2> QED BY <1>1, <2>1, UpdateFields
<1>3. CASE Authentic(found)
  <2>1. found # Null /\ (found.policy.expires = Null \/ clock < found.policy.expires)
    BY <1>3 DEF Authentic
  <2>2. PICK fields : /\ Update(r, fields) /\ {"key", "at", "pc"} \subseteq DOMAIN fields
                      /\ fields.key = found /\ fields.at = clock /\ fields.pc \in {"guard", "headers"}
    <3>1. \/ Update(r, [key |-> found, at |-> clock, pc |-> "guard"])
          \/ Update(r, [key |-> found, at |-> clock, pc |-> "headers", status |-> 403])
      BY <1>3 DEF Authenticate
    <3> QED BY <3>1
  <2>3. /\ \A q \in Callers \ {r} : caller'[q] = caller[q]
        /\ caller'[r].key = found /\ caller'[r].at = clock /\ caller'[r].pc \in {"guard", "headers"}
    BY <1>1, <2>2, UpdateFields
  <2> QED BY <2>1, <2>3
<1> QED BY <1>2, <1>3

(* The requests' part of the invariant after such a step. *)
LEMMA LetInKeeps ==
  ASSUME QuotaInv, KeyInv, NEW r \in Callers, UNCHANGED <<row, replaced, clock>>,
         \A q \in Callers \ {r} : caller'[q] = caller[q], caller'[r].pc # "found",
         \/ caller'[r].key = caller[r].key /\ caller'[r].at = caller[r].at
         \/ /\ caller'[r].at = clock
            /\ Unreplaced(caller'[r].key, clock - CacheTtl - MaxLookup + 1)
            /\ caller'[r].key.policy.expires = Null \/ clock < caller'[r].key.policy.expires,
         DOMAIN authCache' = Secrets,
         \A s \in Secrets : authCache'[s] # Null =>
           \/ authCache'[s] = authCache[s]
           \/ /\ authCache'[s].at = clock
              /\ authCache'[s].row # Null => Unreplaced(authCache'[s].row, clock - MaxLookup)
  PROVE  KeyInv'
<1>1. /\ clock' \in Nat /\ clock' = clock /\ replaced' \in Seq(Nat \cup {Null})
      /\ \A i \in DOMAIN replaced' : replaced'[i] = Null \/ replaced'[i] <= clock'
      /\ row' # Null => row'.rev \in DOMAIN replaced' /\ replaced'[row'.rev] = Null
  BY DEF KeyInv
<1>2. ASSUME NEW s \in Secrets, authCache'[s] # Null
      PROVE  /\ authCache'[s].at \in 0..clock'
             /\ authCache'[s].row # Null => Unreplaced(authCache[s].row, authCache[s].at - MaxLookup)'
  <2>1. CASE authCache'[s] = authCache[s]
    BY <1>1, <1>2, <2>1 DEF KeyInv, Unreplaced
  <2>2. CASE /\ authCache'[s].at = clock
             /\ authCache'[s].row # Null => Unreplaced(authCache'[s].row, clock - MaxLookup)
    BY <1>1, <2>2 DEF Unreplaced
  <2> QED BY <1>2, <2>1, <2>2
<1>3. ASSUME NEW q \in Callers
      PROVE  /\ caller'[q].pc = "found" =>
                  /\ caller'[q].since \in 0..clock' /\ clock' <= caller'[q].since + MaxLookup
                  /\ caller'[q].found # Null => Unreplaced(caller[q].found, caller[q].since)'
             /\ caller'[q].key # Null =>
                  /\ caller'[q].at \in 0..clock'
                  /\ Unreplaced(caller[q].key, caller[q].at - CacheTtl - MaxLookup + 1)'
                  /\ caller'[q].key.policy.expires = Null \/ caller'[q].at < caller'[q].key.policy.expires
  <2>1. CASE q # r
    BY <1>1, <2>1 DEF KeyInv, Unreplaced
  <2>2. CASE q = r
    BY <1>1, <2>2 DEF KeyInv, Unreplaced
  <2> QED BY <2>1, <2>2
<1> QED BY <1>1, <1>2, <1>3 DEF KeyInv

(* What was in force later was in force earlier. *)
LEMMA Earlier ==
  ASSUME KeyInv, NEW x, NEW t \in Int, NEW u \in Int, u <= t, Unreplaced(x, t)
  PROVE  Unreplaced(x, u)
<1>1. x.rev \in DOMAIN replaced => replaced[x.rev] \in Nat \cup {Null}
  BY DEF KeyInv
<1> QED BY <1>1 DEF Unreplaced

(* The steps of ai-key-auth. *)
LEMMA LookupKey ==
  ASSUME QuotaInv, KeyInv, NEW r \in Callers, Lookup(r) \/ FindByHash(r) \/ LookupFails(r) \/ CacheFound(r)
  PROVE  KeyInv'
<1> DEFINE cred == ExtractCredential(caller[r].ask.headers)
<1>1. /\ DOMAIN caller = Callers /\ DOMAIN caller[r] = Fields
      /\ caller[r].pc # "idle" => cred \in Secrets \cup {Null}
  BY IdleFields, Credential DEF QuotaInv, CallerInv, CallerTypeOK
<1>2. clock \in Nat /\ MaxLookup \in Nat /\ CacheTtl \in Nat \ {0}
  BY AdmissionAssumption DEF KeyInv
<1> HIDE DEF cred
<1>3. CASE Lookup(r)
  <2>1. caller[r].pc = "auth" /\ UNCHANGED <<row, replaced, authCache, clock>>
    BY <1>3 DEF Lookup, Step, keyVars
  <2>2. CASE Refuse(r, 401)
    BY <2>1, <2>2, KeyUntouched DEF Refuse, tableVars
  <2>3. CASE Update(r, [pc |-> "find"])
    BY <2>1, <2>3, KeyUntouched DEF tableVars
  <2>4. CASE cred # Null /\ IsCached(cred) /\ Authenticate(r, authCache[cred].row)
    <3> DEFINE e == authCache[cred]
    <3>1. cred \in Secrets BY <1>1, <2>1, <2>4
    <3>2. /\ e # Null /\ clock < e.at + CacheTtl /\ e.at \in 0..clock
          /\ e.row # Null => Unreplaced(e.row, e.at - MaxLookup)
      BY <2>4, <3>1 DEF KeyInv, IsCached
    <3> HIDE DEF e
    <3>3. e.row # Null => Unreplaced(e.row, clock - CacheTtl - MaxLookup + 1)
      <4>1. clock - CacheTtl - MaxLookup + 1 <= e.at - MaxLookup BY <1>2, <3>2
      <4>2. clock - CacheTtl - MaxLookup + 1 \in Int /\ e.at - MaxLookup \in Int BY <1>2, <3>2
      <4> QED BY <3>2, <4>1, <4>2, Earlier
    <3>4. Authenticate(r, e.row) BY <2>4 DEF e
    <3>5. /\ \A q \in Callers \ {r} : caller'[q] = caller[q]
          /\ caller'[r].pc # "found"
          /\ \/ caller'[r].key = caller[r].key /\ caller'[r].at = caller[r].at
             \/ /\ caller'[r].at = clock
                /\ Unreplaced(caller'[r].key, clock - CacheTtl - MaxLookup + 1)
                /\ caller'[r].key.policy.expires = Null \/ clock < caller'[r].key.policy.expires
      BY <2>1, <3>3, <3>4, LetIn
    <3>6. DOMAIN authCache' = Secrets BY <2>1 DEF KeyInv
    <3> QED BY <2>1, <3>5, <3>6, LetInKeeps
  <2> QED BY <1>3, <2>2, <2>3, <2>4 DEF Lookup, cred
<1>4. CASE FindByHash(r)
  <2> DEFINE fnd == IF row # Null /\ row.secret = cred THEN row ELSE Null
             fs == [pc |-> "found", since |-> clock, found |-> fnd]
  <2>1. UNCHANGED <<row, replaced, authCache, clock>> /\ Update(r, fs)
    BY <1>4 DEF FindByHash, keyVars, cred
  <2>2. DOMAIN fs = {"pc", "since", "found"} /\ fs.since = clock /\ fs.found = fnd OBVIOUS
  <2>3. fnd # Null => Unreplaced(fnd, clock)
    BY DEF KeyInv, Unreplaced
  <2> HIDE DEF fs, fnd
  <2>4. /\ \A q \in Callers \ {r} : caller'[q] = caller[q]
        /\ caller'[r].key = caller[r].key /\ caller'[r].at = caller[r].at
        /\ caller'[r].since = clock /\ caller'[r].found = fnd
    BY <1>1, <2>1, <2>2, UpdateFields
  <2>5. /\ clock' \in Nat /\ clock' = clock /\ DOMAIN authCache' = Secrets
        /\ replaced' \in Seq(Nat \cup {Null})
        /\ \A i \in DOMAIN replaced' : replaced'[i] = Null \/ replaced'[i] <= clock'
        /\ row' # Null => row'.rev \in DOMAIN replaced' /\ replaced'[row'.rev] = Null
    BY <2>1 DEF KeyInv
  <2>6. \A s \in Secrets : authCache'[s] # Null =>
         /\ authCache'[s].at \in 0..clock'
         /\ authCache'[s].row # Null => Unreplaced(authCache[s].row, authCache[s].at - MaxLookup)'
    BY <2>1 DEF KeyInv, Unreplaced
  <2>7. ASSUME NEW q \in Callers
        PROVE  /\ caller'[q].pc = "found" =>
                    /\ caller'[q].since \in 0..clock' /\ clock' <= caller'[q].since + MaxLookup
                    /\ caller'[q].found # Null => Unreplaced(caller[q].found, caller[q].since)'
               /\ caller'[q].key # Null =>
                    /\ caller'[q].at \in 0..clock'
                    /\ Unreplaced(caller[q].key, caller[q].at - CacheTtl - MaxLookup + 1)'
                    /\ caller'[q].key.policy.expires = Null \/ caller'[q].at < caller'[q].key.policy.expires
    <3>1. CASE q # r BY <2>1, <2>4, <3>1 DEF KeyInv, Unreplaced
    <3>2. CASE q = r
      <4>1. caller'[r].since \in 0..clock' /\ clock' <= caller'[r].since + MaxLookup
        BY <1>2, <2>4, <2>5
      <4>2. fnd # Null => Unreplaced(caller[r].found, caller[r].since)'
        BY <2>1, <2>3, <2>4 DEF Unreplaced
      <4>3. caller[r].key # Null =>
              /\ caller[r].at \in 0..clock /\ Unreplaced(caller[r].key, caller[r].at - CacheTtl - MaxLookup + 1)
              /\ caller[r].key.policy.expires = Null \/ caller[r].at < caller[r].key.policy.expires
        BY DEF KeyInv
      <4>4. Unreplaced(caller[r].key, caller[r].at - CacheTtl - MaxLookup + 1)
              => Unreplaced(caller[r].key, caller[r].at - CacheTtl - MaxLookup + 1)'
        BY <2>1, <2>4 DEF Unreplaced
      <4> QED BY <2>4, <2>5, <3>2, <4>1, <4>2, <4>3, <4>4
    <3> QED BY <3>1, <3>2
  <2> QED BY <2>5, <2>6, <2>7 DEF KeyInv
<1>5. CASE LookupFails(r)
  <2>1. UNCHANGED tableVars /\ Update(r, [pc |-> "headers", status |-> 401])
    BY <1>5 DEF LookupFails, Refuse, tableVars, keyVars
  <2> QED BY <2>1, KeyUntouched
<1>6. CASE CacheFound(r)
  <2> DEFINE fnd == caller[r].found
             e == [row |-> fnd, at |-> clock]
  <2>1. /\ caller[r].pc = "found" /\ UNCHANGED <<row, replaced, clock>> /\ Authenticate(r, fnd)
        /\ authCache' = [authCache EXCEPT ![cred] = e]
    BY <1>6 DEF CacheFound, Step, cred
  <2>2. /\ caller[r].since \in 0..clock /\ clock <= caller[r].since + MaxLookup
        /\ fnd # Null => Unreplaced(fnd, caller[r].since)
    BY <2>1 DEF KeyInv
  <2>3. fnd # Null => Unreplaced(fnd, clock - MaxLookup) /\ Unreplaced(fnd, clock - CacheTtl - MaxLookup + 1)
    <3>1. /\ clock - MaxLookup <= caller[r].since /\ clock - CacheTtl - MaxLookup + 1 <= caller[r].since
          /\ clock - MaxLookup \in Int /\ clock - CacheTtl - MaxLookup + 1 \in Int /\ caller[r].since \in Int
      BY <1>2, <2>2
    <3> QED BY <2>2, <3>1, Earlier
  <2>4. e.row = fnd /\ e.at = clock OBVIOUS
  <2> HIDE DEF e
  <2>5. DOMAIN authCache' = Secrets /\ \A s \in Secrets : authCache'[s] = e \/ authCache'[s] = authCache[s]
    BY <2>1 DEF KeyInv
  <2>6. \A s \in Secrets : authCache'[s] # Null =>
           \/ authCache'[s] = authCache[s]
           \/ /\ authCache'[s].at = clock
              /\ authCache'[s].row # Null => Unreplaced(authCache'[s].row, clock - MaxLookup)
    BY <2>3, <2>4, <2>5
  <2>7. /\ \A q \in Callers \ {r} : caller'[q] = caller[q]
        /\ caller'[r].pc # "found"
        /\ \/ caller'[r].key = caller[r].key /\ caller'[r].at = caller[r].at
           \/ /\ caller'[r].at = clock
              /\ Unreplaced(caller'[r].key, clock - CacheTtl - MaxLookup + 1)
              /\ caller'[r].key.policy.expires = Null \/ clock < caller'[r].key.policy.expires
    BY <2>1, <2>3, LetIn
  <2> QED BY <2>1, <2>5, <2>6, <2>7, LetInKeeps
<1> QED BY <1>3, <1>4, <1>5, <1>6

(* Writes of the row close its last revision and open a new one. *)
LEMMA WriteIs ==
  ASSUME KeyInv, NEW new, Write(new), new.rev = Len(replaced) + 1
  PROVE  /\ row' = new /\ replaced' \in Seq(Nat \cup {Null})
         /\ row'.rev \in DOMAIN replaced' /\ replaced'[row'.rev] = Null
         /\ \A i \in DOMAIN replaced :
              /\ i \in DOMAIN replaced'
              /\ replaced'[i] = replaced[i] \/ (replaced[i] = Null /\ replaced'[i] = clock)
         /\ \A i \in DOMAIN replaced' : i \in DOMAIN replaced \/ replaced'[i] = Null
<1> DEFINE old == IF row = Null THEN replaced ELSE [replaced EXCEPT ![row.rev] = clock]
<1>1. /\ replaced \in Seq(Nat \cup {Null}) /\ clock \in Nat
      /\ row # Null => row.rev \in DOMAIN replaced /\ replaced[row.rev] = Null
  BY DEF KeyInv
<1>2. /\ old \in Seq(Nat \cup {Null}) /\ Len(old) = Len(replaced)
      /\ \A i \in DOMAIN replaced :
           old[i] = replaced[i] \/ (replaced[i] = Null /\ old[i] = clock)
  BY <1>1
<1>3. row' = new /\ replaced' = Append(old, Null) BY DEF Write
<1> HIDE DEF old
<1>4. /\ replaced' \in Seq(Nat \cup {Null}) /\ Len(replaced') = Len(replaced) + 1
      /\ replaced'[Len(replaced) + 1] = Null
      /\ \A i \in 1..Len(replaced) : replaced'[i] = old[i]
  BY <1>2, <1>3
<1>5. DOMAIN replaced = 1..Len(replaced) /\ DOMAIN replaced' = 1..(Len(replaced) + 1)
  BY <1>1, <1>4
<1>6. Len(replaced) \in Nat BY <1>1
<1>7. Len(replaced) + 1 \in DOMAIN replaced' BY <1>5, <1>6
<1>8. \A i \in DOMAIN replaced' : i \in DOMAIN replaced \/ i = Len(replaced) + 1 BY <1>5, <1>6
<1> QED BY <1>2, <1>3, <1>4, <1>5, <1>6, <1>7, <1>8

(* Nothing that was read before is the older for it. *)
LEMMA RevisionsKeep ==
  ASSUME KeyInv, UNCHANGED <<clock, caller>>, replaced' \in Seq(Nat \cup {Null}),
         row' # Null => row'.rev \in DOMAIN replaced' /\ replaced'[row'.rev] = Null,
         \A i \in DOMAIN replaced :
           /\ i \in DOMAIN replaced'
           /\ replaced'[i] = replaced[i] \/ (replaced[i] = Null /\ replaced'[i] = clock),
         \A i \in DOMAIN replaced' : i \in DOMAIN replaced \/ replaced'[i] = Null,
         DOMAIN authCache' = Secrets,
         \A s \in Secrets : authCache'[s] = authCache[s] \/ authCache'[s] = Null
  PROVE  KeyInv'
<1>1. clock \in Nat /\ MaxLookup \in Nat /\ CacheTtl \in Nat \ {0}
  BY AdmissionAssumption DEF KeyInv
<1>2. ASSUME NEW x, NEW t \in Int, t <= clock, Unreplaced(x, t)
      PROVE  /\ x.rev \in DOMAIN replaced'
             /\ replaced'[x.rev] = Null \/ t <= replaced'[x.rev]
  BY <1>2 DEF Unreplaced
<1>3. \A i \in DOMAIN replaced' : replaced'[i] = Null \/ replaced'[i] <= clock'
  BY <1>1 DEF KeyInv
<1>4. ASSUME NEW s \in Secrets, authCache'[s] # Null
      PROVE  /\ authCache'[s].at \in 0..clock'
             /\ authCache'[s].row # Null => Unreplaced(authCache[s].row, authCache[s].at - MaxLookup)'
  <2>1. /\ authCache'[s] = authCache[s] /\ authCache[s].at \in 0..clock
        /\ authCache[s].row # Null => Unreplaced(authCache[s].row, authCache[s].at - MaxLookup)
    BY <1>4 DEF KeyInv
  <2>2. authCache[s].at - MaxLookup \in Int /\ authCache[s].at - MaxLookup <= clock
    BY <1>1, <2>1
  <2> QED BY <1>2, <2>1, <2>2 DEF Unreplaced
<1>5. ASSUME NEW r \in Callers
      PROVE  /\ caller'[r].pc = "found" =>
                  /\ caller'[r].since \in 0..clock' /\ clock' <= caller'[r].since + MaxLookup
                  /\ caller'[r].found # Null => Unreplaced(caller[r].found, caller[r].since)'
             /\ caller'[r].key # Null =>
                  /\ caller'[r].at \in 0..clock'
                  /\ Unreplaced(caller[r].key, caller[r].at - CacheTtl - MaxLookup + 1)'
                  /\ caller'[r].key.policy.expires = Null \/ caller'[r].at < caller'[r].key.policy.expires
  <2> DEFINE c == caller[r]
  <2>1. c.pc = "found" /\ c.found # Null => Unreplaced(caller[r].found, caller[r].since)'
    <3>1. SUFFICES ASSUME c.pc = "found", c.found # Null PROVE Unreplaced(caller[r].found, caller[r].since)'
      OBVIOUS
    <3>2. c.since \in 0..clock /\ Unreplaced(c.found, c.since) BY <3>1 DEF KeyInv
    <3>3. c.since \in Int /\ c.since <= clock BY <1>1, <3>2
    <3> QED BY <1>2, <3>2, <3>3 DEF Unreplaced
  <2>2. c.key # Null => Unreplaced(caller[r].key, caller[r].at - CacheTtl - MaxLookup + 1)'
    <3>1. SUFFICES ASSUME c.key # Null
                   PROVE  Unreplaced(caller[r].key, caller[r].at - CacheTtl - MaxLookup + 1)'
      OBVIOUS
    <3>2. c.at \in 0..clock /\ Unreplaced(c.key, c.at - CacheTtl - MaxLookup + 1) BY <3>1 DEF KeyInv
    <3>3. c.at - CacheTtl - MaxLookup + 1 \in Int /\ c.at - CacheTtl - MaxLookup + 1 <= clock BY <1>1, <3>2
    <3> QED BY <1>2, <3>2, <3>3 DEF Unreplaced
  <2> QED BY <2>1, <2>2 DEF KeyInv
<1> QED BY <1>1, <1>3, <1>4, <1>5 DEF KeyInv

(* The Admin API and everybody else who changes keys. *)
LEMMA KeyStepKeeps ==
  ASSUME KeyInv, KeyStep
  PROVE  KeyInv'
<1>1. UNCHANGED <<clock, caller>> BY DEF KeyStep
<1>2. DOMAIN authCache = Secrets BY DEF KeyInv
<1>3. CASE \E new : Write(new) /\ new.rev = Len(replaced) + 1 /\ authCache' = authCache
  <2>1. PICK new : Write(new) /\ new.rev = Len(replaced) + 1 /\ authCache' = authCache BY <1>3
  <2>2. /\ row' = new /\ replaced' \in Seq(Nat \cup {Null})
        /\ row'.rev \in DOMAIN replaced' /\ replaced'[row'.rev] = Null
        /\ \A i \in DOMAIN replaced :
             /\ i \in DOMAIN replaced'
             /\ replaced'[i] = replaced[i] \/ (replaced[i] = Null /\ replaced'[i] = clock)
        /\ \A i \in DOMAIN replaced' : i \in DOMAIN replaced \/ replaced'[i] = Null
    BY <2>1, WriteIs
  <2> QED BY <1>1, <1>2, <2>1, <2>2, RevisionsKeep
<1>4. CASE DeleteKey
  <2>1. /\ row # Null /\ row' = Null /\ replaced' = [replaced EXCEPT ![row.rev] = clock] /\ authCache' = authCache
    BY <1>4 DEF DeleteKey
  <2>2. /\ replaced \in Seq(Nat \cup {Null}) /\ clock \in Nat
        /\ row.rev \in DOMAIN replaced /\ replaced[row.rev] = Null
    BY <2>1 DEF KeyInv
  <2>3. /\ replaced' \in Seq(Nat \cup {Null}) /\ DOMAIN replaced' = DOMAIN replaced
        /\ \A i \in DOMAIN replaced : replaced'[i] = replaced[i] \/ (replaced[i] = Null /\ replaced'[i] = clock)
    BY <2>1, <2>2
  <2> QED BY <1>1, <1>2, <2>1, <2>3, RevisionsKeep
<1>5. CASE SelectVirtualKey \/ InvalidateAll
  <2>1. /\ row' = row /\ replaced' = replaced /\ DOMAIN authCache' = Secrets
        /\ \A s \in Secrets : authCache'[s] = authCache[s] \/ authCache'[s] = Null
    BY <1>2, <1>5 DEF SelectVirtualKey, InvalidateAll
  <2>2. /\ replaced \in Seq(Nat \cup {Null})
        /\ row # Null => row.rev \in DOMAIN replaced /\ replaced[row.rev] = Null
    BY DEF KeyInv
  <2> QED BY <1>1, <2>1, <2>2, RevisionsKeep
<1>6. ASSUME NEW p \in Policies, Create(p) \/ UpdateKey(p) \/ ChangedElsewhere(p)
      PROVE  \E new : Write(new) /\ new.rev = Len(replaced) + 1 /\ authCache' = authCache
  BY <1>6 DEF Create, UpdateKey, ChangedElsewhere, Version
<1>7. Rotate => \E new : Write(new) /\ new.rev = Len(replaced) + 1 /\ authCache' = authCache
  BY DEF Rotate, Version
<1> QED BY <1>3, <1>4, <1>5, <1>6, <1>7 DEF KeyStep

(* Time passes; no lookup takes longer than MaxLookup. *)
LEMMA TickKeeps ==
  ASSUME KeyInv, TickAdmission
  PROVE  KeyInv'
<1>1. /\ clock \in Nat /\ clock' = clock + 1 /\ MaxLookup \in Nat /\ UNCHANGED <<row, replaced, authCache, caller>>
      /\ \A r \in Callers : caller[r].pc = "found" => clock - caller[r].since < MaxLookup
  BY AdmissionAssumption DEF KeyInv, TickAdmission, Step, keyVars
<1>3. /\ DOMAIN authCache' = Secrets /\ replaced' \in Seq(Nat \cup {Null})
      /\ row' # Null => row'.rev \in DOMAIN replaced' /\ replaced'[row'.rev] = Null
  BY <1>1 DEF KeyInv
<1>4. \A i \in DOMAIN replaced' : replaced'[i] = Null \/ replaced'[i] <= clock'
  <2>1. ASSUME NEW i \in DOMAIN replaced PROVE replaced[i] = Null \/ replaced[i] <= clock + 1
    <3>1. replaced[i] \in Nat \cup {Null} /\ (replaced[i] = Null \/ replaced[i] <= clock) BY DEF KeyInv
    <3> QED BY <1>1, <3>1
  <2> QED BY <1>1, <2>1
<1>5. \A s \in Secrets : authCache'[s] # Null =>
       /\ authCache'[s].at \in 0..clock'
       /\ authCache'[s].row # Null => Unreplaced(authCache[s].row, authCache[s].at - MaxLookup)'
  BY <1>1 DEF KeyInv, Unreplaced
<1>6. ASSUME NEW r \in Callers
      PROVE  /\ caller'[r].pc = "found" =>
                  /\ caller'[r].since \in 0..clock' /\ clock' <= caller'[r].since + MaxLookup
                  /\ caller'[r].found # Null => Unreplaced(caller[r].found, caller[r].since)'
             /\ caller'[r].key # Null =>
                  /\ caller'[r].at \in 0..clock'
                  /\ Unreplaced(caller[r].key, caller[r].at - CacheTtl - MaxLookup + 1)'
                  /\ caller'[r].key.policy.expires = Null \/ caller'[r].at < caller'[r].key.policy.expires
  BY <1>1 DEF KeyInv, Unreplaced
<1> QED BY <1>1, <1>3, <1>4, <1>5, <1>6 DEF KeyInv

(* All other steps of a request. *)
LEMMA LaterKey ==
  ASSUME QuotaInv, KeyInv, NEW r \in Callers,
         \/ PromptGuard(r) \/ SelectSubject(r) \/ AcquirePermit(r) \/ InspectBudget(r) \/ BudgetExhausted(r)
         \/ Reserve(r) \/ CallStore(r) \/ AskStore(r) \/ DispatchCall(r) \/ EndEarly(r) \/ AbortDispatch(r)
         \/ HeaderFilter(r) \/ FinalizeQuota(r)
  PROVE  KeyInv'
<1> DEFINE Quiet == \E fields : /\ Update(r, fields) /\ "pc" \in DOMAIN fields /\ fields.pc # "found"
                                /\ DOMAIN fields \cap {"key", "at", "found", "since"} = {}
<1>1. UNCHANGED tableVars
  BY DEF PromptGuard, SelectSubject, AcquirePermit, InspectBudget, BudgetExhausted, Reserve, CallStore,
         AskStore, DispatchCall, EndEarly, AbortDispatch, HeaderFilter, FinalizeQuota, tableVars, keyVars
<1>2. ASSUME NEW status, Refuse(r, status) PROVE Quiet
  BY <1>2 DEF Refuse
<1>3. ASSUME NEW x, Update(r, [pc |-> x]), x # "found" PROVE Quiet
  BY <1>3
<1>4. ASSUME NEW x, NEW y, Update(r, [pc |-> x, quota |-> y]), x # "found" PROVE Quiet
  BY <1>4
<1>5. ASSUME NEW x, NEW y, NEW z, Update(r, [pc |-> x, status |-> z, quota |-> y]), x # "found" PROVE Quiet
  BY <1>5
<1>6. ASSUME NEW x, NEW y, Update(r, [pc |-> x, tries |-> y]), x # "found" PROVE Quiet
  BY <1>6
<1> HIDE DEF Quiet
<1>7. Quiet => KeyInv' BY <1>1, KeyUntouched DEF Quiet
<1>8. CASE PromptGuard(r) BY <1>7, <1>2, <1>3, <1>8 DEF PromptGuard
<1>9. CASE SelectSubject(r) BY <1>7, <1>2, <1>3, <1>9 DEF SelectSubject
<1>10. CASE AcquirePermit(r) BY <1>7, <1>2, <1>3, <1>10 DEF AcquirePermit
<1>11. CASE InspectBudget(r)
  <2>1. Update(r, [pc |-> "reserve", budget |-> TRUE]) => Quiet BY DEF Quiet
  <2> QED BY <1>7, <1>2, <1>3, <1>11, <2>1 DEF InspectBudget
<1>12. CASE BudgetExhausted(r) BY <1>7, <1>2, <1>5, <1>12 DEF BudgetExhausted
<1>13. CASE Reserve(r)
  <2>1. Update(r, [pc |-> "call", ending |-> "admit", tries |-> 1, cmd |-> AdmitCommand(r)]) => Quiet
    BY DEF Quiet
  <2> QED BY <1>7, <1>2, <1>3, <1>13, <2>1 DEF Reserve
<1>14. Admitted(r) => Quiet BY <1>4, <1>5 DEF Admitted
<1>15. SettlementKnown(r) => Quiet BY <1>4 DEF SettlementKnown, After
<1>16. SettlementUnknown(r) => Quiet
  <2>1. ASSUME NEW y, NEW z, Update(r, [pc |-> "headers", quota |-> y, status |-> z]) PROVE Quiet
    BY <2>1 DEF Quiet
  <2> QED BY <1>4, <2>1 DEF SettlementUnknown
<1>17. Succeed(r) \/ Fail(r) => Quiet
  BY <1>2, <1>14, <1>15, <1>16 DEF Succeed, Fail, NotAdmitted
<1>18. CASE CallStore(r) BY <1>7, <1>3, <1>17, <1>18 DEF CallStore
<1>19. CASE AskStore(r) BY <1>7, <1>6, <1>17, <1>19 DEF AskStore
<1>20. CASE DispatchCall(r)
  <2>1. Update(r, [pc |-> "headers", attempted |-> TRUE]) => Quiet BY DEF Quiet
  <2> QED BY <1>7, <1>20, <2>1 DEF DispatchCall
<1>21. CASE EndEarly(r) BY <1>7, <1>2, <1>21 DEF EndEarly
<1>22. CASE AbortDispatch(r)
  <2>1. Update(r, [pc |-> "headers", aborted |-> TRUE, status |-> 503]) => Quiet BY DEF Quiet
  <2>2. ASSUME NEW x, NEW y, NEW z,
               Update(r, [pc |-> "call", ending |-> "refund", tries |-> 1, aborted |-> TRUE, status |-> x,
                          quota |-> y, cmd |-> z])
        PROVE  Quiet
    BY <2>2 DEF Quiet
  <2> QED BY <1>7, <1>22, <2>1, <2>2 DEF AbortDispatch
<1>23. CASE HeaderFilter(r)
  <2>1. ASSUME NEW x, Update(r, [pc |-> "finalize", headers |-> x]) PROVE Quiet BY <2>1 DEF Quiet
  <2> QED BY <1>7, <1>23, <2>1 DEF HeaderFilter
<1>24. CASE FinalizeQuota(r)
  <2>1. ASSUME NEW y, NEW z,
               Update(r, [pc |-> "call", ending |-> "final", tries |-> 1, quota |-> y, cmd |-> z])
        PROVE  Quiet
    BY <2>1 DEF Quiet
  <2> QED BY <1>7, <1>3, <1>24, <2>1 DEF FinalizeQuota
<1> QED
  BY <1>7, <1>8, <1>9, <1>10, <1>11, <1>12, <1>13, <1>18, <1>19, <1>20, <1>21, <1>22, <1>23, <1>24

(* A request that arrives or leaves has no key. *)
LEMMA FreshKey ==
  ASSUME QuotaInv, KeyInv, NEW r \in Callers, Leave(r) \/ \E a \in Asks : Arrive(r, a)
  PROVE  KeyInv'
<1>1. DOMAIN caller = Callers BY DEF QuotaInv
<1>2. /\ UNCHANGED tableVars /\ \A q \in Callers \ {r} : caller'[q] = caller[q]
      /\ caller'[r].key = Null /\ caller'[r].pc # "found"
  <2>1. CASE Leave(r) BY <1>1, <2>1 DEF Leave, Idle, tableVars, keyVars
  <2>2. ASSUME NEW a \in Asks, Arrive(r, a)
        PROVE  /\ UNCHANGED tableVars /\ \A q \in Callers \ {r} : caller'[q] = caller[q]
               /\ caller'[r].key = Null /\ caller'[r].pc # "found"
    BY <1>1, <2>2 DEF Arrive, Idle, tableVars, keyVars
  <2> QED BY <2>1, <2>2
<1>3. \A q \in Callers : KeyKept(q) BY <1>2 DEF KeyKept
<1> QED BY <1>2, <1>3, KeyRests

-----------------------------------------------------------------------------
(* The theorems *)

(* The invariant holds when the gateway starts, *)
LEMMA AdmissionInitInv == AdmissionInit => AdmissionInv
<1> SUFFICES ASSUME AdmissionInit PROVE AdmissionInv
  OBVIOUS
<1>1. /\ row.rev = 1 /\ replaced = <<Null>> /\ authCache = [s \in Secrets |-> Null] /\ clock = 0 /\ window = 0
      /\ caller = [r \in Callers |-> Idle] /\ late = {}
      /\ admitted = [r \in Callers |-> Null] /\ settledAs = [r \in Callers |-> Null]
  BY DEF AdmissionInit
<1>2. \A r \in Callers : /\ caller[r].pc = "idle" /\ caller[r].key = Null /\ caller[r].quota = Null
                         /\ caller[r].headers = Null /\ caller[r].attempted = FALSE
                         /\ caller[r].aborted = FALSE /\ DOMAIN caller[r] = DOMAIN Idle
  BY <1>1 DEF Idle
<1>3. replaced \in Seq(Nat \cup {Null}) /\ DOMAIN replaced = {1} /\ replaced[1] = Null
  BY <1>1
<1>4. KeyInv
  BY <1>1, <1>2, <1>3 DEF KeyInv
<1>5. StoreTypeOK BY <1>1 DEF StoreTypeOK
<1>6. ASSUME NEW r \in Callers PROVE CallerInv(r)
  <2>1. Unheard(r) BY <1>1 DEF Unheard, Mine
  <2>2. CallerTypeOK(r) /\ Told(r) BY <1>2 DEF CallerTypeOK, Told
  <2>3. Place(r) /\ Known(r) BY <1>2, <2>1 DEF Place, Known, Unheard, Arriving, Choosing, Ending
  <2> QED BY <2>2, <2>3 DEF CallerInv
<1> QED BY <1>1, <1>4, <1>5, <1>6 DEF AdmissionInv, QuotaInv

(* and every step keeps it. *)
LEMMA AdmissionNextInv == AdmissionInv /\ [AdmissionNext]_admissionVars => AdmissionInv'
<1> SUFFICES ASSUME AdmissionInv, [AdmissionNext]_admissionVars PROVE AdmissionInv'
  OBVIOUS
<1>1. KeyInv /\ QuotaInv BY DEF AdmissionInv
<1>2. \A q \in Callers : caller' = caller => KeyKept(q) BY DEF KeyKept
<1>3. CASE KeyStep
  <2>1. UNCHANGED <<storeVars, window, caller>> BY <1>3 DEF KeyStep
  <2> QED BY <1>1, <1>3, <2>1, KeyStepKeeps, QuotaRests DEF AdmissionInv
<1>4. CASE TickAdmission
  <2>1. UNCHANGED <<storeVars, window, caller>> BY <1>4 DEF TickAdmission
  <2> QED BY <1>1, <1>4, <2>1, TickKeeps, QuotaRests DEF AdmissionInv
<1>5. CASE NextWindow
  <2>1. UNCHANGED tableVars /\ caller' = caller BY <1>5 DEF NextWindow, tableVars, keyVars
  <2> QED BY <1>1, <1>2, <1>5, <2>1, WindowKeeps, KeyRests DEF AdmissionInv
<1>6. CASE LateCommand
  <2>1. UNCHANGED tableVars /\ caller' = caller BY <1>6 DEF LateCommand, tableVars, keyVars
  <2> QED BY <1>1, <1>2, <1>6, <2>1, LateKeeps, KeyRests DEF AdmissionInv
<1>7. CASE OwnerChanges \/ UNCHANGED admissionVars
  <2>1. UNCHANGED tableVars /\ UNCHANGED <<storeVars, window, caller>>
    BY <1>7 DEF OwnerChanges, tableVars, keyVars, admissionVars
  <2> QED BY <1>1, <1>2, <2>1, QuotaRests, KeyRests DEF AdmissionInv
<1>8. ASSUME NEW r \in Callers, CallerStep(r) PROVE AdmissionInv'
  <2>1. KeyInv'
    BY <1>1, <1>8, FreshKey, LookupKey, LaterKey DEF CallerStep
  <2>2. QuotaInv'
    BY <1>1, <1>8, ArriveKeeps, AuthKeeps, SubjectKeeps, ExhaustedKeeps, ReserveKeeps, CallKeeps,
       AskKeeps, ReadyKeeps, HeaderKeeps, FinalKeeps, LeaveKeeps DEF CallerStep
  <2> QED BY <2>1, <2>2 DEF AdmissionInv
<1> QED BY <1>3, <1>4, <1>5, <1>6, <1>7, <1>8 DEF AdmissionNext

(* The inductive invariant of keys and quota together. *)
THEOREM AdmissionInvariant == AdmissionSpec => []AdmissionInv
  BY AdmissionInitInv, AdmissionNextInv, PTL DEF AdmissionSpec

(* A key that was changed, rotated or deleted lets nobody in once the time   *)
(* to live of the cache and one lookup have passed, and an expired one lets  *)
(* nobody in (authenticate, lookup, invalidate_all), whatever lookups were   *)
(* under way and however long the history of the key.                        *)
THEOREM KeysStop == AdmissionSpec => []KeyStopsInTime
<1>1. AdmissionInv => KeyStopsInTime
  <2> SUFFICES ASSUME AdmissionInv, NEW r \in Callers, caller[r].key # Null
               PROVE  /\ LET gone == replaced[caller[r].key.rev]
                         IN gone = Null \/ caller[r].at < gone + CacheTtl + MaxLookup
                      /\ caller[r].key.policy.expires = Null \/ caller[r].at < caller[r].key.policy.expires
    BY DEF KeyStopsInTime
  <2>1. KeyInv BY DEF AdmissionInv
  <2> DEFINE gone == replaced[caller[r].key.rev]
  <2>2. /\ caller[r].at \in 0..clock /\ caller[r].key.rev \in DOMAIN replaced
        /\ gone = Null \/ caller[r].at - CacheTtl - MaxLookup + 1 <= gone
        /\ caller[r].key.policy.expires = Null \/ caller[r].at < caller[r].key.policy.expires
    BY <2>1 DEF KeyInv, Unreplaced
  <2>3. gone \in Nat \cup {Null} BY <2>1, <2>2 DEF KeyInv
  <2> HIDE DEF gone
  <2>4. gone = Null \/ caller[r].at < gone + CacheTtl + MaxLookup
    BY <2>1, <2>2, <2>3, AdmissionAssumption DEF KeyInv
  <2> QED BY <2>2, <2>4 DEF gone
<1> QED BY <1>1, AdmissionInvariant, PTL

(* Whatever answers of the quota store are lost, late or repeated, a limited *)
(* request reaches its upstream only with a reservation, the store charges   *)
(* what the end of the request says, and a reservation left open is known to *)
(* be (admit_with_recovery, settle_with_recovery, the prepare functions).    *)
THEOREM QuotaSettles == AdmissionSpec => []QuotaSettledAsEnded
<1>1. AdmissionInv => QuotaSettledAsEnded
  <2> SUFFICES ASSUME AdmissionInv, NEW r \in Callers
               PROVE  LET c == caller[r]  held == admitted[r] # Null /\ admitted[r].ok IN
                      /\ c.attempted /\ c.ask.chain.limit # Null /\ ~Unlimited(r) => held
                      /\ settledAs[r] # Null => settledAs[r].charge = IF c.aborted THEN NoCharge ELSE FinalCharge(r)
                      /\ c.pc = "done" /\ held =>
                           \/ c.quota = Null /\ c.status = 503
                           \/ c.quota # Null /\ c.quota.settlement = "settled" /\ settledAs[r] # Null
                           \/ c.quota # Null /\ c.quota.settlement = "retry_required" /\ c.quota.command # Null
    BY DEF QuotaSettledAsEnded
  <2>1. CallerInv(r) BY DEF AdmissionInv, QuotaInv
  <2>2. caller[r].attempted /\ caller[r].ask.chain.limit # Null /\ ~Unlimited(r) => Holds(r)
    BY <2>1 DEF CallerInv, Known
  <2>3. settledAs[r] # Null =>
          settledAs[r].charge = IF caller[r].aborted THEN NoCharge ELSE FinalCharge(r)
    BY <2>1 DEF CallerInv, Known, SettleCommand
  <2>4. ASSUME caller[r].pc = "done", Holds(r)
        PROVE  \/ caller[r].quota = Null /\ caller[r].status = 503
               \/ caller[r].quota # Null /\ caller[r].quota.settlement = "settled" /\ settledAs[r] # Null
               \/ caller[r].quota # Null /\ caller[r].quota.settlement = "retry_required"
                  /\ caller[r].quota.command # Null
    <3>1. CASE caller[r].quota = Null
      BY <2>1, <2>4, <3>1 DEF CallerInv, Known, Holds, Unheard, Ending
    <3>2. CASE caller[r].quota # Null
      <4>1. caller[r].quota \in Quotas BY <2>1, <3>2 DEF CallerInv, CallerTypeOK
      <4>2. caller[r].quota.settlement \in {"pending", "not_required", "settled", "retry_required"}
        BY <4>1, QuotaParts
      <4>3. caller[r].quota.settlement # "pending" BY <2>1, <2>4, <3>2 DEF CallerInv, Place
      <4> QED BY <2>1, <2>4, <3>2, <4>2, <4>3 DEF CallerInv, Known, Holds, Unheard
    <3> QED BY <3>1, <3>2
  <2> QED BY <2>2, <2>3, <2>4 DEF Holds
<1> QED BY <1>1, AdmissionInvariant, PTL

(* The quota headers of an aborted request never count its reservation       *)
(* against the window they describe (compensate_before_response,             *)
(* header_filter), whenever windows end and refunds are confirmed or lost.   *)
THEOREM HeadersTrue == AdmissionSpec => []QuotaHeadersTrue
<1>1. AdmissionInv => QuotaHeadersTrue
  BY DEF AdmissionInv, QuotaInv, CallerInv, Told, Clean, QuotaHeadersTrue
<1> QED BY <1>1, AdmissionInvariant, PTL

-----------------------------------------------------------------------------
(* The request side of ai-proxy *)

RequestFields ==
  {"body", "name", "began", "wheel", "found", "rows", "todo", "loading", "model", "provider", "upstream",
   "headers", "removed", "tool", "surface", "stream", "outcome", "compression"}

Undecided == {"idle", "route", "rule", "lock", "models", "providers", "select", "prepare"}

\* The upstream of the provider is set, and nothing of the compression is.
Prepared(x) ==
  /\ x.upstream = "provider" /\ x.headers = {"auth"} /\ x.tool = FALSE /\ x.compression = Nil
  /\ x.surface = "responses_raw" => x.provider.type = "openai"

\* A request the compression backend may be asked about.
Compressible(x) ==
  /\ Prepared(x) /\ x.removed = x.body.headroom /\ ~x.stream
  /\ CompressionProtocol(x.surface, x.provider.type) # Nil

\* RewrittenWhole of one request.
Whole(x) ==
  x.outcome \in {"upstream", "503"} =>
    /\ x.upstream = "headroom" <=> x.compression = <<"applied", "applied">>
    /\ x.upstream = "headroom" <=> "x-headroom-base-url" \in x.headers
    /\ x.tool => x.upstream = "headroom" /\ x.surface = "responses_raw"
    /\ x.upstream = "headroom" => ~x.stream /\ x.provider.type \in {"openai", "anthropic"}
    /\ x.compression # Nil => x.body.headroom \subseteq x.removed \cup x.headers
    /\ x.outcome = "503" <=> x.compression # Nil /\ x.compression[1] = "rejected"

RewriteOf(x, p) ==
  /\ DOMAIN x = RequestFields
  /\ p \in Undecided => x.compression = Nil /\ x.tool = FALSE
  /\ p = "compress" => Prepared(x)
  /\ p \in {"health", "probe", "apply"} => Compressible(x)
  /\ p = "end" => Whole(x)

RewriteInv ==
  /\ DOMAIN req = Clients /\ DOMAIN place = Clients
  /\ \A r \in Clients : RewriteOf(req[r], place[r])

(* A step of one client that leaves its request in order keeps all in order. *)
LEMMA RewriteStep ==
  ASSUME RewriteInv, NEW r \in Clients, NEW x, NEW p, RewriteOf(x, p),
         req' = [req EXCEPT ![r] = x], place' = [place EXCEPT ![r] = p]
  PROVE  RewriteInv'
<1>1. DOMAIN req' = Clients /\ DOMAIN place' = Clients BY DEF RewriteInv
<1>2. ASSUME NEW s \in Clients PROVE RewriteOf(req'[s], place'[s])
  <2>1. CASE s = r
    <3>1. req'[s] = x /\ place'[s] = p BY <2>1 DEF RewriteInv
    <3> QED BY <3>1
  <2>2. CASE s # r
    <3>1. req'[s] = req[s] /\ place'[s] = place[s] BY <2>2 DEF RewriteInv
    <3> QED BY <3>1 DEF RewriteInv
  <2> QED BY <2>1, <2>2
<1> QED BY <1>1, <1>2 DEF RewriteInv, RewriteOf, Prepared, Compressible, Whole

(* A step that leaves the request as it is. *)
LEMMA RewriteMoves ==
  ASSUME RewriteInv, NEW r \in Clients, NEW p, RewriteOf(req[r], p),
         UNCHANGED req, place' = [place EXCEPT ![r] = p]
  PROVE  RewriteInv'
<1>1. DOMAIN req' = Clients /\ DOMAIN place' = Clients BY DEF RewriteInv
<1>2. ASSUME NEW s \in Clients PROVE RewriteOf(req'[s], place'[s])
  <2>1. CASE s = r
    <3>1. req'[s] = req[r] /\ place'[s] = p BY <2>1 DEF RewriteInv
    <3> QED BY <3>1
  <2>2. CASE s # r
    <3>1. req'[s] = req[s] /\ place'[s] = place[s] BY <2>2 DEF RewriteInv
    <3> QED BY <3>1 DEF RewriteInv
  <2> QED BY <2>1, <2>2
<1> QED BY <1>1, <1>2 DEF RewriteInv, RewriteOf, Prepared, Compressible, Whole

(* A request that ends without leaving is in order. *)
LEMMA FailedIsWhole ==
  ASSUME NEW x, DOMAIN x = RequestFields, NEW how \in {"error", "413", "400"}
  PROVE  RewriteOf([x EXCEPT !.outcome = how], "end")
<1> DEFINE y == [x EXCEPT !.outcome = how]
<1>1. DOMAIN y = RequestFields /\ y.outcome = how BY DEF RequestFields
<1>2. Whole(y) BY <1>1 DEF Whole
<1> QED BY <1>1, <1>2 DEF RewriteOf, Undecided

(* While a model is chosen, whatever the compression does not read may change. *)
LEMMA ChoosingStays ==
  ASSUME NEW x, NEW y, NEW p \in Undecided, NEW q \in Undecided, RewriteOf(x, p),
         DOMAIN y = RequestFields, y.compression = x.compression, y.tool = x.tool
  PROVE  RewriteOf(y, q)
<1>1. y.compression = Nil /\ y.tool = FALSE BY DEF RewriteOf
<1>2. q \notin {"compress", "health", "probe", "apply", "end"} BY DEF Undecided
<1> QED BY <1>1, <1>2 DEF RewriteOf

(* Steps before the upstream is prepared. *)
LEMMA ChoiceRewrites ==
  ASSUME RewriteInv, NEW r \in Clients,
         \/ Accept(r) \/ RouteByRules(r) \/ PickTarget(r) \/ RouteInline(r)
         \/ CachedGroup(r) \/ LockRefresh(r) \/ ReadFails(r) \/ ReadModels(r) \/ ReadProvider(r)
         \/ StoreGroup(r) \/ SelectFor(r)
  PROVE  RewriteInv'
<1>0. DOMAIN req[r] = RequestFields /\ RewriteOf(req[r], place[r]) BY DEF RewriteInv, RewriteOf
<1>1. ASSUME NEW x, NEW how \in {"error", "413", "400"}, DOMAIN x = RequestFields, Ended(r, x, how)
      PROVE  RewriteInv'
  BY <1>1, FailedIsWhole, RewriteStep DEF Ended, Go, Set
<1>2. ASSUME NEW y, NEW q \in Undecided, place[r] \in Undecided, DOMAIN y = RequestFields,
             y.compression = req[r].compression, y.tool = req[r].tool, Set(r, y), Go(r, q)
      PROVE  RewriteInv'
  <2>1. RewriteOf(y, q) BY <1>0, <1>2, ChoosingStays
  <2> QED BY <1>2, <2>1, RewriteStep DEF Set, Go
<1>3. ASSUME NEW q \in Undecided, place[r] \in Undecided, UNCHANGED req, Go(r, q)
      PROVE  RewriteInv'
  <2>1. RewriteOf(req[r], q) BY <1>0, <1>3, ChoosingStays
  <2> QED BY <1>3, <2>1, RewriteMoves DEF Go
<1>4. CASE Accept(r)
  <2>1. PICK b \in Bodies :
          LET x == [Waiting EXCEPT !.body = b, !.name = ModelName(b.cfg, b), !.began = now] IN
          \/ Ended(r, x, "413") \/ Ended(r, x, "error") \/ Ended(r, x, "400")
          \/ Go(r, "route") /\ Set(r, x)
    BY <1>4 DEF Accept
  <2> DEFINE x == [Waiting EXCEPT !.body = b, !.name = ModelName(b.cfg, b), !.began = now]
  <2>2. DOMAIN x = RequestFields /\ x.compression = Nil /\ x.tool = FALSE BY DEF Waiting, RequestFields
  <2> HIDE DEF x
  <2>3. RewriteOf(x, "route") BY <2>2 DEF RewriteOf
  <2>4. Ended(r, x, "413") \/ Ended(r, x, "error") \/ Ended(r, x, "400") \/ (Go(r, "route") /\ Set(r, x))
    BY <2>1 DEF x
  <2>5. CASE Go(r, "route") /\ Set(r, x) BY <2>3, <2>5, RewriteStep DEF Go, Set
  <2> QED BY <1>1, <2>2, <2>4, <2>5
<1>5. CASE RouteByRules(r)
  <2>1. PICK w : \/ Set(r, [req[r] EXCEPT !.wheel = w]) /\ Go(r, "rule")
                 \/ Ended(r, req[r], "error")
    BY <1>5 DEF RouteByRules
  <2>2. place[r] \in Undecided /\ "rule" \in Undecided BY <1>5 DEF RouteByRules, At, Undecided
  <2> DEFINE y == [req[r] EXCEPT !.wheel = w]
  <2>3. DOMAIN y = RequestFields /\ y.compression = req[r].compression /\ y.tool = req[r].tool
    BY <1>0 DEF RequestFields
  <2> HIDE DEF y
  <2>4. (Set(r, y) /\ Go(r, "rule")) \/ Ended(r, req[r], "error") BY <2>1 DEF y
  <2> QED BY <1>0, <1>1, <1>2, <2>2, <2>3, <2>4
<1>6. CASE PickTarget(r) \/ RouteInline(r) \/ SelectFor(r)
  <2>1. PICK m, p : \/ Set(r, [req[r] EXCEPT !.model = m, !.provider = p]) /\ Go(r, "prepare")
                    \/ Ended(r, req[r], "error")
    BY <1>6 DEF PickTarget, RouteInline, SelectFor
  <2>2. place[r] \in Undecided /\ "prepare" \in Undecided
    BY <1>6 DEF PickTarget, RouteInline, SelectFor, At, Undecided
  <2> DEFINE y == [req[r] EXCEPT !.model = m, !.provider = p]
  <2>3. DOMAIN y = RequestFields /\ y.compression = req[r].compression /\ y.tool = req[r].tool
    BY <1>0 DEF RequestFields
  <2> HIDE DEF y
  <2>4. (Set(r, y) /\ Go(r, "prepare")) \/ Ended(r, req[r], "error") BY <2>1 DEF y
  <2> QED BY <1>0, <1>1, <1>2, <2>2, <2>3, <2>4
<1>7. CASE CachedGroup(r) \/ LockRefresh(r)
  <2>1. PICK w, t : \/ Set(r, [req[r] EXCEPT !.wheel = w]) /\ Go(r, "select")
                    \/ Set(r, [req[r] EXCEPT !.loading = t]) /\ Go(r, "models")
                    \/ UNCHANGED req /\ Go(r, "lock")
    BY <1>7 DEF CachedGroup, LockRefresh
  <2>2. place[r] \in Undecided /\ "select" \in Undecided /\ "models" \in Undecided /\ "lock" \in Undecided
    BY <1>7 DEF CachedGroup, LockRefresh, At, Undecided
  <2> DEFINE y == [req[r] EXCEPT !.wheel = w]
             z == [req[r] EXCEPT !.loading = t]
  <2>3. /\ DOMAIN y = RequestFields /\ y.compression = req[r].compression /\ y.tool = req[r].tool
        /\ DOMAIN z = RequestFields /\ z.compression = req[r].compression /\ z.tool = req[r].tool
    BY <1>0 DEF RequestFields
  <2> HIDE DEF y, z
  <2>4. (Set(r, y) /\ Go(r, "select")) \/ (Set(r, z) /\ Go(r, "models")) \/ (UNCHANGED req /\ Go(r, "lock"))
    BY <2>1 DEF y, z
  <2> QED BY <1>2, <1>3, <2>2, <2>3, <2>4
<1>8. CASE ReadFails(r)
  <2> DEFINE y == [req[r] EXCEPT !.loading = Nil]
  <2>1. DOMAIN y = RequestFields BY <1>0
  <2>2. Ended(r, y, "error") BY <1>8 DEF ReadFails
  <2> HIDE DEF y
  <2> QED BY <1>1, <2>1, <2>2
<1>9. CASE ReadModels(r)
  <2>1. PICK f, t : Set(r, [req[r] EXCEPT !.found = f, !.todo = t, !.rows = <<>>]) /\ Go(r, "providers")
    BY <1>9 DEF ReadModels
  <2>2. place[r] \in Undecided /\ "providers" \in Undecided BY <1>9 DEF ReadModels, At, Undecided
  <2> DEFINE y == [req[r] EXCEPT !.found = f, !.todo = t, !.rows = <<>>]
  <2>3. DOMAIN y = RequestFields /\ y.compression = req[r].compression /\ y.tool = req[r].tool
    BY <1>0 DEF RequestFields
  <2> HIDE DEF y
  <2>4. Set(r, y) /\ Go(r, "providers") BY <2>1 DEF y
  <2> QED BY <1>2, <2>2, <2>3, <2>4
<1>10. CASE ReadProvider(r)
  <2>1. PICK t, f : Set(r, [req[r] EXCEPT !.todo = t, !.rows = f]) /\ UNCHANGED place
    BY <1>10 DEF ReadProvider
  <2>2. place[r] \in Undecided /\ place[r] = "providers" BY <1>10 DEF ReadProvider, At, Undecided
  <2> DEFINE y == [req[r] EXCEPT !.todo = t, !.rows = f]
  <2>3. DOMAIN y = RequestFields /\ y.compression = req[r].compression /\ y.tool = req[r].tool
    BY <1>0 DEF RequestFields
  <2> HIDE DEF y
  <2>4. req' = [req EXCEPT ![r] = y] /\ place' = place BY <2>1 DEF Set, y
  <2>5. RewriteOf(y, place[r]) BY <1>0, <2>2, <2>3, ChoosingStays
  <2>6. \A s \in Clients : RewriteOf(req'[s], place'[s]) BY <2>4, <2>5 DEF RewriteInv
  <2> QED BY <2>4, <2>6 DEF RewriteInv, RewriteOf, Prepared, Compressible, Whole
<1>11. CASE StoreGroup(r)
  <2>1. PICK w : \/ Set(r, [req[r] EXCEPT !.wheel = w, !.loading = Nil]) /\ Go(r, "select")
                 \/ Ended(r, [req[r] EXCEPT !.loading = Nil], "error")
    BY <1>11 DEF StoreGroup
  <2>2. place[r] \in Undecided /\ "select" \in Undecided BY <1>11 DEF StoreGroup, At, Undecided
  <2> DEFINE y == [req[r] EXCEPT !.wheel = w, !.loading = Nil]
             z == [req[r] EXCEPT !.loading = Nil]
  <2>3. /\ DOMAIN y = RequestFields /\ y.compression = req[r].compression /\ y.tool = req[r].tool
        /\ DOMAIN z = RequestFields
    BY <1>0 DEF RequestFields
  <2> HIDE DEF y, z
  <2>4. (Set(r, y) /\ Go(r, "select")) \/ Ended(r, z, "error") BY <2>1 DEF y, z
  <2> QED BY <1>1, <1>2, <2>2, <2>3, <2>4
<1> QED BY <1>4, <1>5, <1>6, <1>7, <1>8, <1>9, <1>10, <1>11

(* What the provider's upstream leaves of a request. *)
LEMMA UpstreamPrepares ==
  ASSUME NEW x, DOMAIN x = RequestFields, x.compression = Nil, x.tool = FALSE,
         NEW surface, NEW stream, surface = "responses_raw" => x.provider.type = "openai"
  PROVE  RewriteOf(Upstream(x, surface, stream), "compress")
<1> DEFINE y == Upstream(x, surface, stream)
<1>1. /\ DOMAIN y = RequestFields /\ y.upstream = "provider" /\ y.headers = {"auth"} /\ y.surface = surface
      /\ y.compression = Nil /\ y.tool = FALSE /\ y.provider = x.provider
  BY DEF Upstream, RequestFields
<1> HIDE DEF y
<1>2. Prepared(y) BY <1>1 DEF Prepared
<1> QED BY <1>1, <1>2 DEF RewriteOf, Undecided, y

(* A request that goes to its provider, bypassing the compression or not. *)
LEMMA LeavesForProvider ==
  ASSUME NEW x, DOMAIN x = RequestFields, Prepared(x),
         NEW c, c = Nil \/ (x.body.headroom \subseteq x.removed /\ \E reason : c = <<"bypassed", reason>>)
  PROVE  RewriteOf([x EXCEPT !.compression = c, !.outcome = "upstream"], "end")
<1> DEFINE y == [x EXCEPT !.compression = c, !.outcome = "upstream"]
<1>1. /\ DOMAIN y = RequestFields /\ y.outcome = "upstream" /\ y.compression = c
      /\ y.upstream = x.upstream /\ y.headers = x.headers /\ y.tool = x.tool /\ y.body = x.body
      /\ y.removed = x.removed
  BY DEF RequestFields
<1>2. c # <<"applied", "applied">> BY RoutingAssumption
<1>3. ~(c # Nil /\ c[1] = "rejected") OBVIOUS
<1> HIDE DEF y
<1>4. y.upstream = "provider" /\ y.headers = {"auth"} /\ y.tool = FALSE BY <1>1 DEF Prepared
<1>5. y.upstream # "headroom" /\ "x-headroom-base-url" \notin y.headers BY <1>4
<1>6. y.compression # Nil => y.body.headroom \subseteq y.removed \cup y.headers BY <1>1
<1>7. Whole(y) BY <1>1, <1>2, <1>3, <1>4, <1>5, <1>6 DEF Whole
<1> QED BY <1>1, <1>7 DEF RewriteOf, Undecided, y

(* A request that is refused because the backend is not healthy. *)
LEMMA RefusedIsWhole ==
  ASSUME NEW x, DOMAIN x = RequestFields, Compressible(x)
  PROVE  RewriteOf([x EXCEPT !.compression = <<"rejected", "backend_unhealthy">>, !.outcome = "503"], "end")
<1> DEFINE c == <<"rejected", "backend_unhealthy">>
           y == [x EXCEPT !.compression = c, !.outcome = "503"]
<1>1. /\ DOMAIN y = RequestFields /\ y.outcome = "503" /\ y.compression = c
      /\ y.upstream = x.upstream /\ y.headers = x.headers /\ y.tool = x.tool /\ y.body = x.body
      /\ y.removed = x.removed
  BY DEF RequestFields
<1>2. c # <<"applied", "applied">> /\ c # Nil /\ c[1] = "rejected" BY RoutingAssumption
<1> HIDE DEF y, c
<1>3. y.upstream = "provider" /\ y.headers = {"auth"} /\ y.tool = FALSE BY <1>1 DEF Compressible, Prepared
<1>4. y.upstream # "headroom" /\ "x-headroom-base-url" \notin y.headers BY <1>3
<1>5. y.body.headroom \subseteq y.removed \cup y.headers BY <1>1 DEF Compressible
<1>6. Whole(y) BY <1>1, <1>2, <1>3, <1>4, <1>5 DEF Whole
<1> QED BY <1>1, <1>6 DEF RewriteOf, Undecided, y, c

(* A request that is redirected has all the backend needs. *)
LEMMA RedirectedIsWhole ==
  ASSUME NEW x, DOMAIN x = RequestFields, Compressible(x),
         CompressionProtocol(x.surface, x.provider.type) # "openai_chat",
         NEW tool, tool = (CompressionProtocol(x.surface, x.provider.type) = "responses")
  PROVE  RewriteOf([Redirected([x EXCEPT !.tool = tool]) EXCEPT !.outcome = "upstream"], "end")
<1> DEFINE names == {"x-headroom-base-url", "x-headroom-stack"}
           c == <<"applied", "applied">>
           z == [x EXCEPT !.tool = tool]
           y == [Redirected(z) EXCEPT !.outcome = "upstream"]
<1>1. /\ DOMAIN z = RequestFields /\ z.tool = tool /\ z.headers = x.headers /\ z.removed = x.removed
      /\ z.body = x.body /\ z.surface = x.surface /\ z.provider = x.provider /\ z.stream = x.stream
  BY DEF RequestFields
<1> HIDE DEF z
<1>2. /\ DOMAIN y = RequestFields /\ y.outcome = "upstream" /\ y.compression = c
      /\ y.upstream = "headroom" /\ y.headers = z.headers \cup names /\ y.removed = z.removed \ names
      /\ y.tool = z.tool /\ y.body = z.body /\ y.surface = z.surface /\ y.provider = z.provider
      /\ y.stream = z.stream
  BY <1>1 DEF Redirected, RequestFields
<1>3. c # Nil /\ c[1] # "rejected" BY RoutingAssumption
<1>4. CompressionProtocol(x.surface, x.provider.type) # Nil BY DEF Compressible
<1>5. CASE x.surface = "responses_raw"
  <2>1. x.provider.type = "openai" BY <1>5 DEF Compressible, Prepared
  <2> QED BY <1>1, <1>2, <1>3, <1>5, <2>1 DEF Compressible, Whole, RewriteOf, Undecided, z
<1>6. CASE x.surface # "responses_raw"
  <2>1. x.provider.type = "anthropic" /\ ~tool BY <1>4, <1>6 DEF CompressionProtocol
  <2> QED BY <1>1, <1>2, <1>3, <1>6, <2>1 DEF Compressible, Whole, RewriteOf, Undecided, z
<1> QED BY <1>4, <1>5, <1>6

(* Steps from the preparation of the upstream to the end. *)
LEMMA UpstreamRewrites ==
  ASSUME RewriteInv, NEW r \in Clients,
         Prepare(r) \/ Compress(r) \/ EnsureHealthy(r) \/ ProbeAnswered(r) \/ ApplyCompression(r)
  PROVE  RewriteInv'
<1>0. DOMAIN req[r] = RequestFields /\ RewriteOf(req[r], place[r]) BY DEF RewriteInv, RewriteOf
<1>1. ASSUME NEW x, DOMAIN x = RequestFields, Ended(r, x, "error") PROVE RewriteInv'
  BY <1>1, FailedIsWhole, RewriteStep DEF Ended, Go, Set
<1>2. ASSUME NEW x, DOMAIN x = RequestFields, Prepared(x), x.body.headroom \subseteq x.removed,
             NEW reason, Bypass(r, x, reason)
      PROVE  RewriteInv'
  <2> DEFINE c == <<"bypassed", reason>>
             y == [x EXCEPT !.compression = c, !.outcome = "upstream"]
  <2>1. RewriteOf(y, "end") BY <1>2, LeavesForProvider
  <2>2. req' = [req EXCEPT ![r] = y] /\ place' = [place EXCEPT ![r] = "end"]
    BY <1>2 DEF Bypass, Ended, Go, Set
  <2> HIDE DEF y
  <2> QED BY <2>1, <2>2, RewriteStep
<1>3. ASSUME NEW x, DOMAIN x = RequestFields, Compressible(x), CompressionUnavailable(r, x, "backend_unhealthy")
      PROVE  RewriteInv'
  <2>1. CASE Bypass(r, x, "backend_unhealthy") BY <1>2, <1>3, <2>1 DEF Compressible
  <2>2. CASE Ended(r, [x EXCEPT !.compression = <<"rejected", "backend_unhealthy">>], "503")
    <3> DEFINE y == [x EXCEPT !.compression = <<"rejected", "backend_unhealthy">>, !.outcome = "503"]
    <3>1. RewriteOf(y, "end") BY <1>3, RefusedIsWhole
    <3>2. req' = [req EXCEPT ![r] = y] /\ place' = [place EXCEPT ![r] = "end"] BY <2>2 DEF Ended, Go, Set
    <3> HIDE DEF y
    <3> QED BY <3>1, <3>2, RewriteStep
  <2> QED BY <1>3, <2>1, <2>2 DEF CompressionUnavailable
<1>4. CASE Prepare(r)
  <2> DEFINE x == req[r]
             s == Surface(Cfg(r), x.provider.type)
  <2>1. x.compression = Nil /\ x.tool = FALSE BY <1>0, <1>4 DEF Prepare, At, RewriteOf, Undecided
  <2>2. s = "responses_raw" => x.provider.type = "openai" BY DEF Surface
  <2> HIDE DEF s
  <2>3. \/ Ended(r, x, "error")
        \/ s = "responses_raw" /\ ResponsesPassThrough(r, x)
        \/ AnthropicPassThrough(r, x)
        \/ s # "responses_raw" /\ Translate(r, x, s)
    BY <1>4 DEF Prepare, s
  <2>4. PICK stream :
          \/ Ended(r, x, "error")
          \/ \E surface : /\ surface = "responses_raw" => x.provider.type = "openai"
                          /\ Set(r, Upstream(x, surface, stream)) /\ Go(r, "compress")
    <3>1. CASE Ended(r, x, "error") BY <3>1
    <3>2. CASE s = "responses_raw" /\ ResponsesPassThrough(r, x)
      BY <2>2, <3>2 DEF ResponsesPassThrough
    <3>3. CASE AnthropicPassThrough(r, x)
      <4>1. "anthropic_raw" # "responses_raw" OBVIOUS
      <4> QED BY <3>3, <4>1 DEF AnthropicPassThrough
    <3>4. CASE s # "responses_raw" /\ Translate(r, x, s) BY <3>4 DEF Translate
    <3> QED BY <2>3, <3>1, <3>2, <3>3, <3>4
  <2>5. CASE Ended(r, x, "error") BY <1>0, <1>1, <2>5
  <2>6. ASSUME NEW surface, surface = "responses_raw" => x.provider.type = "openai",
               Set(r, Upstream(x, surface, stream)), Go(r, "compress")
        PROVE  RewriteInv'
    <3>1. RewriteOf(Upstream(x, surface, stream), "compress") BY <1>0, <2>1, <2>6, UpstreamPrepares
    <3> QED BY <2>6, <3>1, RewriteStep DEF Set, Go
  <2> QED BY <2>4, <2>5, <2>6
<1>5. CASE Compress(r)
  <2> DEFINE x == Scrubbed(req[r])
  <2>0. Prepared(req[r]) BY <1>0, <1>5 DEF Compress, At, RewriteOf
  <2>1. /\ DOMAIN x = RequestFields /\ x.removed = x.body.headroom
        /\ x.upstream = req[r].upstream /\ x.headers = req[r].headers /\ x.tool = req[r].tool
        /\ x.compression = req[r].compression /\ x.surface = req[r].surface /\ x.provider = req[r].provider
    BY <1>0 DEF Scrubbed, RequestFields
  <2>2. Prepared(x) BY <2>0, <2>1 DEF Prepared
  <2>3. \/ Ended(r, req[r], "upstream")
        \/ \E reason : Bypass(r, x, reason)
        \/ ~x.stream /\ CompressionProtocol(x.surface, x.provider.type) # Nil /\ Set(r, x) /\ Go(r, "health")
    BY <1>5 DEF Compress
  <2> HIDE DEF x
  <2>4. CASE Ended(r, req[r], "upstream")
    <3> DEFINE y == [req[r] EXCEPT !.compression = Nil, !.outcome = "upstream"]
               z == [req[r] EXCEPT !.outcome = "upstream"]
    <3>1. RewriteOf(y, "end") BY <1>0, <2>0, LeavesForProvider
    <3>2. z = y BY <1>0, <2>0 DEF Prepared, RequestFields
    <3>3. req' = [req EXCEPT ![r] = z] /\ place' = [place EXCEPT ![r] = "end"] BY <2>4 DEF Ended, Go, Set
    <3> HIDE DEF y, z
    <3> QED BY <3>1, <3>2, <3>3, RewriteStep
  <2>5. CASE \E reason : Bypass(r, x, reason) BY <1>2, <2>1, <2>2, <2>5
  <2>6. CASE ~x.stream /\ CompressionProtocol(x.surface, x.provider.type) # Nil /\ Set(r, x) /\ Go(r, "health")
    <3>1. RewriteOf(x, "health") BY <2>1, <2>2, <2>6 DEF RewriteOf, Compressible, Undecided
    <3> QED BY <2>6, <3>1, RewriteStep DEF Set, Go
  <2> QED BY <2>3, <2>4, <2>5, <2>6
<1>6. ASSUME NEW q \in {"probe", "apply"}, Compressible(req[r]), UNCHANGED req, Go(r, q) PROVE RewriteInv'
  <2>1. RewriteOf(req[r], q) BY <1>0, <1>6 DEF RewriteOf, Undecided
  <2> QED BY <1>6, <2>1, RewriteMoves DEF Go
<1>7. CASE EnsureHealthy(r) \/ ProbeAnswered(r)
  <2>1. Compressible(req[r]) BY <1>0, <1>7 DEF EnsureHealthy, ProbeAnswered, At, RewriteOf
  <2>2. \/ Go(r, "apply") /\ UNCHANGED req
        \/ Go(r, "probe") /\ UNCHANGED req
        \/ CompressionUnavailable(r, req[r], "backend_unhealthy")
    BY <1>7 DEF EnsureHealthy, ProbeAnswered
  <2> QED BY <1>0, <1>3, <1>6, <2>1, <2>2
<1>8. CASE ApplyCompression(r)
  <2> DEFINE x == req[r]
             protocol == CompressionProtocol(x.surface, x.provider.type)
             tool == (protocol = "responses")
  <2>1. Compressible(x) BY <1>0, <1>8 DEF ApplyCompression, At, RewriteOf
  <2>2. \/ \E reason : Bypass(r, x, reason)
        \/ protocol # "openai_chat" /\ Ended(r, Redirected([x EXCEPT !.tool = tool]), "upstream")
    BY <1>8 DEF ApplyCompression, ApplyRoute
  <2>3. CASE \E reason : Bypass(r, x, reason) BY <1>0, <1>2, <2>1, <2>3 DEF Compressible
  <2>4. CASE protocol # "openai_chat" /\ Ended(r, Redirected([x EXCEPT !.tool = tool]), "upstream")
    <3> DEFINE y == [Redirected([x EXCEPT !.tool = tool]) EXCEPT !.outcome = "upstream"]
    <3>1. RewriteOf(y, "end") BY <1>0, <2>1, <2>4, RedirectedIsWhole
    <3>2. req' = [req EXCEPT ![r] = y] /\ place' = [place EXCEPT ![r] = "end"] BY <2>4 DEF Ended, Go, Set
    <3> HIDE DEF y
    <3> QED BY <3>1, <3>2, RewriteStep
  <2> QED BY <2>2, <2>3, <2>4
<1> QED BY <1>4, <1>5, <1>7, <1>8

(* Every request is in order from its arrival to its end. *)
LEMMA RewriteInvariant == RoutingSpec => []RewriteInv
<1>1. RoutingInit => RewriteInv
  <2> SUFFICES ASSUME RoutingInit PROVE RewriteInv OBVIOUS
  <2>1. DOMAIN req = Clients /\ DOMAIN place = Clients BY DEF RoutingInit
  <2>2. DOMAIN Waiting = RequestFields /\ Waiting.compression = Nil /\ Waiting.tool = FALSE
    BY DEF Waiting, RequestFields
  <2>3. RewriteOf(Waiting, "idle") BY <2>2 DEF RewriteOf
  <2>4. \A r \in Clients : req[r] = Waiting /\ place[r] = "idle" BY DEF RoutingInit
  <2> QED BY <2>1, <2>3, <2>4 DEF RewriteInv
<1>2. ASSUME RewriteInv, [RoutingNext]_routingVars PROVE RewriteInv'
  <2>0. ASSUME UNCHANGED <<req, place>> PROVE RewriteInv'
    BY <1>2, <2>0 DEF RewriteInv, RewriteOf, Prepared, Compressible, Whole
  <2>1. ASSUME NEW r \in Clients, ClientStep(r) PROVE RewriteInv'
    BY <1>2, <2>1, ChoiceRewrites, UpstreamRewrites DEF ClientStep
  <2>2. CASE EditModel BY <2>0, <2>2 DEF EditModel
  <2>3. CASE EditProvider BY <2>0, <2>3 DEF EditProvider
  <2>4. CASE Tick BY <2>0, <2>4 DEF Tick
  <2>5. CASE UNCHANGED routingVars BY <2>0, <2>5 DEF routingVars
  <2> QED BY <1>2, <2>1, <2>2, <2>3, <2>4, <2>5 DEF RoutingNext
<1> QED BY <1>1, <1>2, PTL DEF RoutingSpec

(* RewrittenWhole: a request leaves for its provider as ai-proxy prepared it, *)
(* or for the compression backend with all the backend needs, for any         *)
(* clients, bodies, policies, groups and edits, and however the probes of the *)
(* backend interleave (apply_context_compression).                            *)
THEOREM LeavesWhole == RoutingSpec => []RewrittenWhole
<1>1. RewriteInv => RewrittenWhole BY DEF RewriteInv, RewriteOf, Whole, RewrittenWhole
<1> QED BY <1>1, RewriteInvariant, PTL

-----------------------------------------------------------------------------
(* What a request is charged *)

(* A set of naturals has a least member. *)
LEMMA LeastNat ==
  ASSUME NEW T \in SUBSET Nat, T # {}
  PROVE  \E m \in T : \A j \in T : m <= j
<1> DEFINE Less == {ss \in Nat \X Nat : ss[1] < ss[2]}
<1>1. IsWellFoundedOn(Less, Nat) BY NatLessThanWellFounded DEF OpToRel
<1>2. \A i, j \in Nat : <<j, i>> \in Less <=> j < i OBVIOUS
<1> HIDE DEF Less
<1>3. PICK m \in T : \A j \in T : ~ (<<j, m>> \in Less) BY <1>1, WFMin
<1>4. \A j \in T : ~(j < m) BY <1>2, <1>3, Zenon
<1> QED BY <1>4

(* Of lengths up to a bound there is a greatest. *)
LEMMA GreatestLength ==
  ASSUME NEW L \in Nat, NEW T, T # {}, NEW len, \A x \in T : len[x] \in 0..L
  PROVE  \E x \in T : \A y \in T : len[y] <= len[x]
<1> DEFINE short == {L - len[x] : x \in T}
<1>1. short \in SUBSET Nat /\ short # {} OBVIOUS
<1>2. PICK m \in short : \A j \in short : m <= j BY <1>1, LeastNat
<1>3. PICK x \in T : m = L - len[x] BY <1>2
<1>4. \A y \in T : L - len[x] <= L - len[y] BY <1>2, <1>3
<1> QED BY <1>3, <1>4

(* Prefixes of one list that are as long are the same. *)
LEMMA SamePrefix ==
  ASSUME NEW p, NEW q, NEW m, IsList(p), IsList(q), IsPrefix(p, m), IsPrefix(q, m), Len(p) = Len(q)
  PROVE  p = q
<1>1. SubSeq(p, 1, Len(p)) = p
  <2>1. p \in Seq({p[k] : k \in DOMAIN p}) BY DEF IsList
  <2> QED BY <2>1, SubSeqFull
<1>2. SubSeq(q, 1, Len(q)) = q
  <2>1. q \in Seq({q[k] : k \in DOMAIN q}) BY DEF IsList
  <2> QED BY <2>1, SubSeqFull
<1>3. SubSeq(p, 1, Len(p)) = SubSeq(m, 1, Len(p)) /\ SubSeq(q, 1, Len(q)) = SubSeq(m, 1, Len(q)) BY DEF IsPrefix
<1> QED BY <1>1, <1>2, <1>3

(* The length of a list. *)
LEMMA ListLength ==
  ASSUME NEW s, IsList(s)
  PROVE  Len(s) \in Nat /\ DOMAIN s = 1..Len(s)
<1>1. s \in Seq({s[k] : k \in DOMAIN s}) BY DEF IsList
<1> QED BY <1>1, LenProperties

(* What the proof keeps of the request and of its catalogue. *)
PricedCall == call \in Calls /\ catalog \in Catalogs /\ ValidCatalog(catalog)

(* The entries of a catalogue. *)
LEMMA EntriesAre ==
  ASSUME PricedCall
  PROVE  /\ call.started \in Int /\ IsList(call.model) /\ Len(call.model) \in Nat /\ DOMAIN catalog \subseteq Int
         /\ \A i \in DOMAIN catalog :
              /\ catalog[i].from \in Int /\ catalog[i].to \in Int \cup {None}
              /\ \A p \in catalog[i].prefixes : IsList(p) /\ Len(p) \in Nat
<1>1. call.started \in Int /\ IsList(call.model) /\ IsList(catalog)
      /\ \A i \in DOMAIN catalog :
           /\ catalog[i].from \in Int /\ catalog[i].to \in Int \cup {None}
           /\ \A p \in catalog[i].prefixes : IsList(p)
  BY UsageAssumption DEF PricedCall
<1>2. Len(call.model) \in Nat /\ DOMAIN catalog = 1..Len(catalog) /\ Len(catalog) \in Nat BY <1>1, ListLength
<1>3. \A i \in DOMAIN catalog : \A p \in catalog[i].prefixes : Len(p) \in Nat BY <1>1, ListLength
<1> QED BY <1>1, <1>2, <1>3

(* At one time, one name matches one entry of a provider. *)
LEMMA OneEntry ==
  ASSUME PricedCall, NEW i \in DOMAIN catalog, NEW j \in DOMAIN catalog,
         Active(catalog[i], answer.provider, call.started), Active(catalog[j], answer.provider, call.started),
         NEW m, m \in Matchers(catalog[i]), m \in Matchers(catalog[j])
  PROVE  i = j
<1> SUFFICES ASSUME i # j PROVE FALSE OBVIOUS
<1>1. catalog[i].provider = catalog[j].provider BY DEF Active
<1>2. ~Overlap(catalog[i], catalog[j])
  <2>1. Matchers(catalog[i]) \cap Matchers(catalog[j]) # {} OBVIOUS
  <2> QED BY <1>1, <2>1 DEF PricedCall, ValidCatalog
<1>3. /\ catalog[i].from \in Int /\ catalog[j].from \in Int /\ call.started \in Int
      /\ catalog[i].to \in Int \cup {None} /\ catalog[j].to \in Int \cup {None}
  BY EntriesAre
<1>4. /\ catalog[i].from <= call.started /\ (catalog[i].to = None \/ call.started < catalog[i].to)
      /\ catalog[j].from <= call.started /\ (catalog[j].to = None \/ call.started < catalog[j].to)
  BY DEF Active
<1>5. catalog[j].to = None \/ catalog[i].from < catalog[j].to BY <1>3, <1>4
<1>6. catalog[i].to = None \/ catalog[j].from < catalog[i].to BY <1>3, <1>4
<1> QED BY <1>2, <1>5, <1>6 DEF Overlap

(* How specific an entry is. *)
LEMMA ClosenessIs ==
  ASSUME PricedCall, NEW i \in DOMAIN catalog, Applies(catalog[i])
  PROVE  /\ call.model \in catalog[i].ids => Closeness(catalog[i]) = Len(call.model) + 2
         /\ call.model \notin catalog[i].ids /\ call.model \in catalog[i].aliases =>
              Closeness(catalog[i]) = Len(call.model) + 1
         /\ call.model \notin catalog[i].ids \cup catalog[i].aliases =>
              /\ Closeness(catalog[i]) \in 0..Len(call.model)
              /\ \E p \in catalog[i].prefixes :
                   /\ Len(p) = Closeness(catalog[i]) /\ IsPrefix(p, call.model)
                   /\ \A q \in catalog[i].prefixes : IsPrefix(q, call.model) => Len(q) <= Closeness(catalog[i])
<1> DEFINE e == catalog[i]
           L == Len(call.model)
           fits == {p \in e.prefixes : IsPrefix(p, call.model)}
<1>1. ASSUME call.model \notin e.ids \cup e.aliases
      PROVE  /\ Closeness(e) \in 0..L
             /\ \E p \in e.prefixes : /\ Len(p) = Closeness(e) /\ IsPrefix(p, call.model)
                                      /\ \A q \in e.prefixes : IsPrefix(q, call.model) => Len(q) <= Closeness(e)
  <2>1. fits # {} BY <1>1 DEF Applies
  <2>2. L \in Nat /\ \A p \in fits : Len(p) \in 0..L BY EntriesAre DEF IsPrefix
  <2>3. PICK p \in fits : \A q \in fits : Len(q) <= Len(p)
    <3> DEFINE len == [x \in fits |-> Len(x)]
    <3>1. \A x \in fits : len[x] = Len(x) /\ len[x] \in 0..L BY <2>2
    <3> HIDE DEF fits, L, len
    <3>2. \E x \in fits : \A y \in fits : len[y] <= len[x] BY <2>1, <2>2, <3>1, GreatestLength
    <3> QED BY <3>1, <3>2
  <2>4. \E n \in 0..L : \E x \in e.prefixes :
          /\ Len(x) = n /\ IsPrefix(x, call.model)
          /\ \A q \in e.prefixes : IsPrefix(q, call.model) => Len(q) <= n
    <3>1. Len(p) \in 0..L BY <2>2, <2>3
    <3> QED BY <2>3, <3>1
  <2>5. Closeness(e) = CHOOSE n \in 0..L : \E x \in e.prefixes :
          /\ Len(x) = n /\ IsPrefix(x, call.model)
          /\ \A q \in e.prefixes : IsPrefix(q, call.model) => Len(q) <= n
    BY <1>1 DEF Closeness
  <2> QED BY <2>4, <2>5, Zenon
<1>2. call.model \in e.ids => Closeness(e) = L + 2 BY DEF Closeness
<1>3. call.model \notin e.ids /\ call.model \in e.aliases => Closeness(e) = L + 1 BY DEF Closeness
<1> QED BY <1>1, <1>2, <1>3

(* The most specific entry is the one no other is as specific as. *)
LEMMA SpecificIs ==
  ASSUME NEW i \in DOMAIN catalog, Applies(catalog[i]),
         \A j \in DOMAIN catalog : Applies(catalog[j]) => Closeness(catalog[j]) <= Closeness(catalog[i]),
         \A j \in DOMAIN catalog : Applies(catalog[j]) /\ Closeness(catalog[i]) <= Closeness(catalog[j]) => j = i
  PROVE  MostSpecific = i
<1>1. \E k \in DOMAIN catalog : /\ Applies(catalog[k])
                                /\ \A j \in DOMAIN catalog : Applies(catalog[j]) =>
                                     Closeness(catalog[j]) <= Closeness(catalog[k])
  OBVIOUS
<1>2. /\ MostSpecific \in DOMAIN catalog /\ Applies(catalog[MostSpecific])
      /\ \A j \in DOMAIN catalog : Applies(catalog[j]) =>
           Closeness(catalog[j]) <= Closeness(catalog[MostSpecific])
  BY <1>1, Zenon DEF MostSpecific
<1> QED BY <1>2, Zenon

(* The first of one. *)
LEMMA FirstOfOne ==
  ASSUME NEW i \in Int
  PROVE  FirstWith({i}) = i
  BY DEF FirstWith

(* FindEntry finds the most specific entry. *)
LEMMA FindsMostSpecific ==
  ASSUME PricedCall, FindEntry(catalog, answer.provider, call.model, call.started) # None
  PROVE  FindEntry(catalog, answer.provider, call.model, call.started) = catalog[MostSpecific]
<1> DEFINE c == catalog
           active == {i \in DOMAIN c : Active(c[i], answer.provider, call.started)}
           ids == {i \in active : call.model \in c[i].ids}
           aliases == {i \in active : call.model \in c[i].aliases}
           prefixed == {x \in active \X UNION {c[k].prefixes : k \in active} :
                          x[2] \in c[x[1]].prefixes /\ IsPrefix(x[2], call.model)}
           longest == {x \in prefixed : \A y \in prefixed : Len(y[2]) <= Len(x[2])}
           found == FindEntry(c, answer.provider, call.model, call.started)
           L == Len(call.model)
<1>0. found = CASE ids # {} -> c[FirstWith(ids)]
                [] ids = {} /\ aliases # {} -> c[FirstWith(aliases)]
                [] ids = {} /\ aliases = {} /\ prefixed # {} -> c[FirstWith({x[1] : x \in longest})]
                [] OTHER -> None
  BY Zenon DEF FindEntry
<1>1. \A i \in active : i \in DOMAIN c /\ i \in Int /\ Active(c[i], answer.provider, call.started)
  BY EntriesAre
<1>2. L \in Nat BY EntriesAre
<1>3. \A i \in DOMAIN c : Applies(c[i]) => i \in active BY DEF Applies
<1>4. CASE ids # {}
  <2>1. PICK i : i \in ids BY <1>4
  <2>2. i \in DOMAIN c /\ Applies(c[i]) /\ Closeness(c[i]) = L + 2 BY <2>1, ClosenessIs DEF Applies
  <2>3. ASSUME NEW j \in active, call.model \in c[j].ids PROVE j = i
    <3>1. call.model \in Matchers(c[i]) /\ call.model \in Matchers(c[j]) BY <2>1, <2>3 DEF Matchers
    <3> QED BY <1>1, <2>1, <2>3, <3>1, OneEntry
  <2>4. ids = {i} BY <2>1, <2>3
  <2>5. ASSUME NEW j \in DOMAIN c, Applies(c[j])
        PROVE  Closeness(c[j]) <= L + 2 /\ (L + 2 <= Closeness(c[j]) => j = i)
    <3>1. CASE call.model \in c[j].ids BY <1>2, <1>3, <2>2, <2>3, <2>5, <3>1
    <3>2. CASE call.model \notin c[j].ids /\ call.model \in c[j].aliases BY <1>2, <2>5, <3>2, ClosenessIs
    <3>3. CASE call.model \notin c[j].ids \cup c[j].aliases
      <4>1. Closeness(c[j]) \in 0..L BY <2>5, <3>3, ClosenessIs
      <4> QED BY <1>2, <4>1
    <3> QED BY <3>1, <3>2, <3>3
  <2>6. MostSpecific = i BY <2>2, <2>5, SpecificIs
  <2>7. FirstWith(ids) = i BY <1>1, <2>1, <2>4, FirstOfOne
  <2>8. found = c[FirstWith(ids)]
    <3> HIDE DEF ids, aliases, prefixed, longest, found
    <3> QED BY <1>0, <1>4
  <2> QED BY <2>6, <2>7, <2>8
<1>5. CASE ids = {} /\ aliases # {}
  <2>1. PICK i : i \in aliases BY <1>5
  <2>2. i \in DOMAIN c /\ Applies(c[i]) /\ Closeness(c[i]) = L + 1 BY <1>5, <2>1, ClosenessIs DEF Applies
  <2>3. ASSUME NEW j \in active, call.model \in c[j].aliases PROVE j = i
    <3>1. call.model \in Matchers(c[i]) /\ call.model \in Matchers(c[j]) BY <2>1, <2>3 DEF Matchers
    <3> QED BY <1>1, <2>1, <2>3, <3>1, OneEntry
  <2>4. aliases = {i} BY <2>1, <2>3
  <2>5. ASSUME NEW j \in DOMAIN c, Applies(c[j])
        PROVE  Closeness(c[j]) <= L + 1 /\ (L + 1 <= Closeness(c[j]) => j = i)
    <3>0. call.model \notin c[j].ids BY <1>3, <1>5, <2>5
    <3>1. CASE call.model \in c[j].aliases BY <1>2, <1>3, <2>2, <2>3, <2>5, <3>1
    <3>2. CASE call.model \notin c[j].aliases
      <4>1. Closeness(c[j]) \in 0..L BY <2>5, <3>0, <3>2, ClosenessIs
      <4> QED BY <1>2, <4>1
    <3> QED BY <3>1, <3>2
  <2>6. MostSpecific = i BY <2>2, <2>5, SpecificIs
  <2>7. FirstWith(aliases) = i BY <1>1, <2>1, <2>4, FirstOfOne
  <2>8. found = c[FirstWith(aliases)]
    <3> HIDE DEF ids, aliases, prefixed, longest, found
    <3> QED BY <1>0, <1>5
  <2> QED BY <2>6, <2>7, <2>8
<1>6. CASE ids = {} /\ aliases = {} /\ prefixed # {}
  <2>1. \A x \in prefixed : /\ x[1] \in active /\ x[1] \in DOMAIN c /\ x[2] \in c[x[1]].prefixes
                            /\ IsPrefix(x[2], call.model) /\ IsList(x[2]) /\ Len(x[2]) \in 0..L
    <3>1. \A x \in prefixed : /\ x[1] \in active /\ x[1] \in DOMAIN c /\ x[2] \in c[x[1]].prefixes
                              /\ IsPrefix(x[2], call.model)
      OBVIOUS
    <3>2. \A x \in prefixed : IsList(x[2]) /\ Len(x[2]) \in Nat BY <3>1, EntriesAre
    <3>3. \A x \in prefixed : Len(x[2]) <= L BY <3>1 DEF IsPrefix
    <3> QED BY <1>2, <3>1, <3>2, <3>3
  <2>2. \A i \in active : \A p : p \in c[i].prefixes /\ IsPrefix(p, call.model) => <<i, p>> \in prefixed OBVIOUS
  <2>3. PICK x \in prefixed : \A y \in prefixed : Len(y[2]) <= Len(x[2])
    <3> DEFINE len == [y \in prefixed |-> Len(y[2])]
    <3>1. \A y \in prefixed : len[y] = Len(y[2]) /\ len[y] \in 0..L BY <2>1
    <3>2. prefixed # {} BY <1>6
    <3> HIDE DEF prefixed, len, L
    <3>3. \E z \in prefixed : \A y \in prefixed : len[y] <= len[z] BY <1>2, <3>1, <3>2, GreatestLength
    <3> QED BY <3>1, <3>3
  <2> DEFINE i == x[1]
  <2>4. ASSUME NEW y \in prefixed, Len(x[2]) <= Len(y[2]) PROVE y[1] = i
    <3>1. Len(y[2]) <= Len(x[2]) BY <2>3
    <3>2. Len(x[2]) \in Int /\ Len(y[2]) \in Int BY <1>2, <2>1
    <3>3. Len(x[2]) = Len(y[2]) BY <2>4, <3>1, <3>2
    <3>4. x[2] = y[2]
      <4>1. /\ IsList(x[2]) /\ IsList(y[2]) /\ IsPrefix(x[2], call.model) /\ IsPrefix(y[2], call.model) BY <2>1
      <4> HIDE DEF prefixed
      <4> QED BY <3>3, <4>1, SamePrefix
    <3>5. x[2] \in Matchers(c[x[1]]) /\ x[2] \in Matchers(c[y[1]]) BY <2>1, <3>4 DEF Matchers
    <3>6. /\ x[1] \in DOMAIN c /\ y[1] \in DOMAIN c
          /\ Active(c[x[1]], answer.provider, call.started) /\ Active(c[y[1]], answer.provider, call.started)
      BY <1>1, <2>1
    <3> HIDE DEF prefixed, active
    <3> QED BY <3>5, <3>6, OneEntry
  <2>5. {y[1] : y \in longest} = {i}
    <3>1. x \in longest BY <2>3
    <3>2. \A y \in longest : y \in prefixed /\ Len(x[2]) <= Len(y[2]) OBVIOUS
    <3>3. \A y \in longest : y[1] = i BY <2>4, <3>2
    <3> QED BY <3>1, <3>3
  <2>6. ASSUME NEW j \in DOMAIN c, Applies(c[j])
        PROVE  /\ Closeness(c[j]) \in Int
               /\ Closeness(c[j]) <= Len(x[2]) /\ (Len(x[2]) <= Closeness(c[j]) => j = i)
    <3>1. j \in active /\ call.model \notin c[j].ids \cup c[j].aliases BY <1>3, <1>6, <2>6
    <3>2. Closeness(c[j]) \in 0..L BY <2>6, <3>1, ClosenessIs
    <3>3. PICK q \in c[j].prefixes : Len(q) = Closeness(c[j]) /\ IsPrefix(q, call.model)
      BY <2>6, <3>1, ClosenessIs
    <3>4. <<j, q>> \in prefixed BY <2>2, <3>1, <3>3
    <3>5. <<j, q>>[2] = q /\ <<j, q>>[1] = j OBVIOUS
    <3>6. Len(q) <= Len(x[2]) BY <2>3, <3>4, <3>5
    <3>7. Len(x[2]) <= Len(q) => j = i BY <2>4, <3>4, <3>5
    <3> QED BY <1>2, <3>2, <3>3, <3>6, <3>7
  <2>7. i \in DOMAIN c /\ i \in Int /\ Applies(c[i]) BY <1>1, <2>1 DEF Applies
  <2>8. Closeness(c[i]) = Len(x[2])
    <3>1. i \in active /\ call.model \notin c[i].ids \cup c[i].aliases BY <1>6, <2>1
    <3>2. \A q \in c[i].prefixes : IsPrefix(q, call.model) => Len(q) <= Closeness(c[i])
      BY <2>7, <3>1, ClosenessIs
    <3>3. Len(x[2]) <= Closeness(c[i]) BY <2>1, <3>2
    <3>4. Len(x[2]) \in Int BY <1>2, <2>1
    <3> QED BY <2>6, <2>7, <3>3, <3>4
  <2>9. MostSpecific = i
    <3> HIDE DEF i, c
    <3> QED BY <2>6, <2>7, <2>8, SpecificIs DEF c
  <2>10. FirstWith({y[1] : y \in longest}) = i BY <2>5, <2>7, FirstOfOne
  <2>11. found = c[FirstWith({y[1] : y \in longest})]
    <3> HIDE DEF ids, aliases, prefixed, longest, found
    <3> QED BY <1>0, <1>6
  <2> QED BY <2>9, <2>10, <2>11
<1>7. CASE ids = {} /\ aliases = {} /\ prefixed = {}
  <2> HIDE DEF ids, aliases, prefixed, longest
  <2>1. found = None BY <1>0, <1>7
  <2> QED BY <2>1
<1> QED BY <1>4, <1>5, <1>6, <1>7

(* The price a request is given comes from the model or from the catalogue. *)
LEMMA RateIs ==
  ASSUME PricedCall, NEW f, NEW own,
         OrEntry(own, FindEntry(catalog, answer.provider, call.model, call.started), f) # None
  PROVE  OrEntry(own, FindEntry(catalog, answer.provider, call.model, call.started), f) = Rate(own, f)
<1> DEFINE e == FindEntry(catalog, answer.provider, call.model, call.started)
<1>1. CASE own # None BY <1>1 DEF OrEntry, Rate
<1>2. CASE own = None
  <2>1. e # None /\ OrEntry(own, e, f) = e[f] BY <1>2 DEF OrEntry
  <2>2. e = catalog[MostSpecific] BY <2>1, FindsMostSpecific
  <2> HIDE DEF e
  <2>3. OrEntry(own, e, f) = catalog[MostSpecific][f] BY <2>1, <2>2
  <2> QED BY <1>2, <2>3 DEF Rate, e
<1> QED BY <1>1, <1>2

(* The price that was frozen before dispatch is that of the request, which    *)
(* has no features without a price.                                           *)
FrozenPrice ==
  LET p == ResolveSnapshot(call, answer.provider, call.estimate, draft.features) IN
  /\ call.budgeted /\ draft.features = {}
  /\ draft.frozen.input = p.input /\ draft.frozen.output = p.output

DraftFields == {"stream", "features", "selected", "frozen"}

(* A fact is priced as its request was, and its cost calculated from it; the  *)
(* settlement is what cost_from_fact makes of it.                             *)
UsageInv ==
  /\ PricedCall
  /\ stage # "resolved" => DOMAIN draft = DraftFields /\ (draft.frozen # None => FrozenPrice)
  /\ stage \in {"rewrite", "access"} => draft.frozen = None
  /\ stage \notin {"settle", "closed"} => fact = None
  /\ stage \in {"settle", "closed"} =>
       /\ fact.pricing = Pricing(fact.tokens)
       /\ fact.cost = CalculateCost(fact.pricing, ValueOf(fact.tokens.prompt), ValueOf(fact.tokens.completion),
                                    fact.tokens.source, life.attempted, fact.tokens.invalid)
  /\ stage = "settle" => draft.frozen # None
  /\ stage # "closed" => settlement = None
  /\ settlement # None => draft.frozen # None /\ settlement = CostFromFact

(* Steps that leave the draft, the fact and the settlement alone. *)
LEMMA UsageMoves ==
  ASSUME UsageInv, UNCHANGED <<call, catalog, fact, settlement, answer, draft>>,
         stage \notin {"resolved", "settle", "closed"}, stage' \notin {"resolved", "settle", "closed"},
         stage' \in {"rewrite", "access"} => stage = stage'
  PROVE  UsageInv'
<1>1. PricedCall' BY DEF UsageInv, PricedCall
<1>2. fact' = None /\ settlement' = None BY DEF UsageInv
<1>3. DOMAIN draft' = DraftFields BY DEF UsageInv
<1>4. draft'.frozen # None => FrozenPrice'
  <2>1. draft.frozen # None => FrozenPrice BY DEF UsageInv
  <2>2. FrozenPrice => FrozenPrice' BY DEF FrozenPrice, ResolveSnapshot, Limit
  <2> QED BY <2>1, <2>2
<1>5. stage' \in {"rewrite", "access"} => draft'.frozen = None BY DEF UsageInv
<1> QED BY <1>1, <1>2, <1>3, <1>4, <1>5 DEF UsageInv

(* Steps that note something of the request before its price is frozen. *)
LEMMA UsageNotes ==
  ASSUME UsageInv, UNCHANGED <<call, catalog, fact, settlement>>,
         stage \in {"resolved", "rewrite", "access"}, stage' \notin {"resolved", "settle", "closed"},
         DOMAIN draft' = DraftFields, draft'.frozen = None
  PROVE  UsageInv'
<1>1. PricedCall' BY DEF UsageInv, PricedCall
<1>2. fact' = None /\ settlement' = None BY DEF UsageInv
<1> QED BY <1>1, <1>2 DEF UsageInv

(* on_plugins_resolved, observe_request_metadata and observe_model_selection *)
LEMMA NotingUsage == ASSUME UsageInv, Begin \/ ObserveRequest \/ SelectModel PROVE UsageInv'
<1>1. CASE Begin
  <2>1. /\ stage = "resolved" /\ stage' = "rewrite" /\ UNCHANGED <<call, catalog, fact, settlement>>
        /\ draft' = [stream |-> None, features |-> {}, selected |-> FALSE, frozen |-> None]
    BY <1>1 DEF Begin, Goto, Stays
  <2>2. DOMAIN draft' = DraftFields /\ draft'.frozen = None BY <2>1 DEF DraftFields
  <2> QED BY <2>1, <2>2, UsageNotes
<1>2. CASE ObserveRequest
  <2>1. /\ stage = "rewrite" /\ stage' = "access" /\ UNCHANGED <<call, catalog, fact, settlement>>
        /\ draft' = [draft EXCEPT !.stream = answer.wanted, !.features = call.features]
    BY <1>2 DEF ObserveRequest, Goto, Stays
  <2>2. DOMAIN draft = DraftFields /\ draft.frozen = None BY <2>1 DEF UsageInv
  <2>3. DOMAIN draft' = DraftFields /\ draft'.frozen = None BY <2>1, <2>2 DEF DraftFields
  <2> QED BY <2>1, <2>3, UsageNotes
<1>3. CASE SelectModel
  <2>1. /\ stage = "access" /\ stage' = "dispatch" /\ UNCHANGED <<call, catalog, fact, settlement>>
        /\ draft' = [draft EXCEPT !.selected = TRUE, !.stream = answer.wanted]
    BY <1>3 DEF SelectModel, Goto, Stays
  <2>2. DOMAIN draft = DraftFields /\ draft.frozen = None BY <2>1 DEF UsageInv
  <2>3. DOMAIN draft' = DraftFields /\ draft'.frozen = None BY <2>1, <2>2 DEF DraftFields
  <2> QED BY <2>1, <2>3, UsageNotes
<1> QED BY <1>1, <1>2, <1>3

(* Steps of the exchange. *)
LEMMA MovingUsage ==
  ASSUME UsageInv, RejectRequest \/ PeerFails \/ ReachUpstream \/ Filtering \/ EndAnswer
  PROVE  UsageInv'
<1>1. UNCHANGED <<call, catalog, fact, settlement, answer, draft>>
  BY DEF RejectRequest, PeerFails, ReachUpstream, Filtering, EndAnswer, Stays, BodyFilter, streamVars
<1>2. /\ stage \in {"access", "dispatch", "answer"} /\ stage' \in {"answer", "finalize"}
  BY DEF RejectRequest, PeerFails, ReachUpstream, Filtering, EndAnswer, Goto, Cleared
<1> QED BY <1>1, <1>2, UsageMoves

(* freeze_pricing_snapshot keeps the price of the request. *)
LEMMA FreezingUsage == ASSUME UsageInv, FreezePrice PROVE UsageInv'
<1> DEFINE p == ResolveSnapshot(call, answer.provider, call.estimate, draft.features)
<1>1. /\ stage = "dispatch" /\ call.budgeted /\ UNCHANGED <<call, catalog, fact, settlement, answer>>
  BY DEF FreezePrice, Stays, streamVars
<1>2. CASE p.status = "Matched"
  <2>1. /\ draft' = [draft EXCEPT !.frozen = [input |-> p.input, output |-> p.output,
                                              limit |-> Limit(call, answer.provider)]]
        /\ stage' = stage
    BY <1>2 DEF FreezePrice
  <2>2. DOMAIN draft = DraftFields BY <1>1 DEF UsageInv
  <2>3. draft.features = {} BY <1>2 DEF ResolveSnapshot
  <2>4. /\ DOMAIN draft' = DraftFields /\ draft'.features = draft.features
        /\ draft'.frozen.input = p.input /\ draft'.frozen.output = p.output
    <3> HIDE DEF p
    <3> QED BY <2>1, <2>2 DEF DraftFields
  <2>5. p' = p BY <1>1, <2>4 DEF ResolveSnapshot, Limit
  <2>6. FrozenPrice' 
    <3>1. call'.budgeted /\ draft'.features = {} /\ draft'.frozen.input = p'.input /\ draft'.frozen.output = p'.output
      BY <1>1, <2>3, <2>4, <2>5
    <3> QED BY <3>1 DEF FrozenPrice
  <2>7. PricedCall' BY <1>1 DEF UsageInv, PricedCall
  <2>8. fact' = None /\ settlement' = None BY <1>1 DEF UsageInv
  <2> QED BY <1>1, <2>1, <2>4, <2>6, <2>7, <2>8 DEF UsageInv
<1>3. CASE p.status # "Matched"
  <2>1. stage' = "finalize" /\ draft' = draft BY <1>3 DEF FreezePrice, Goto
  <2> QED BY <1>1, <2>1, UsageMoves
<1> QED BY <1>2, <1>3

(* The price of a fact is the same while its request is. *)
LEMMA PricingStays ==
  ASSUME UNCHANGED <<call, catalog, answer, draft, life>>
  PROVE  (Pricing(fact.tokens))' = Pricing(fact'.tokens)
  BY DEF Pricing, ResolveSnapshot, Limit, Features

(* on_request_finalizing makes the fact. *)
LEMMA FinalizingUsage == ASSUME UsageInv, Finalize PROVE UsageInv'
<1> DEFINE t == Tokens
           p == Pricing(t)
           cost == CalculateCost(p, ValueOf(t.prompt), ValueOf(t.completion), t.source, life.attempted, t.invalid)
           outcome == ClassifyOutcome(draft.stream, StreamTerminal)
<1>1. /\ stage = "finalize" /\ UNCHANGED <<call, catalog, draft, life, settlement, answer>>
      /\ fact' = [tokens |-> t, pricing |-> p, cost |-> cost, outcome |-> outcome]
      /\ stage' = IF draft.frozen # None THEN "settle" ELSE "closed"
  BY DEF Finalize, Goto, streamVars
<1> HIDE DEF t, outcome
<1>2. fact'.tokens = t /\ fact'.pricing = Pricing(t) /\ fact'.cost = cost BY <1>1
<1>3. fact'.pricing = (Pricing(fact.tokens))' BY <1>1, <1>2, PricingStays
<1>4. fact'.cost = CalculateCost(fact'.pricing, ValueOf(fact'.tokens.prompt), ValueOf(fact'.tokens.completion),
                                 fact'.tokens.source, life'.attempted, fact'.tokens.invalid)
  <2>1. cost = CalculateCost(fact'.pricing, ValueOf(fact'.tokens.prompt), ValueOf(fact'.tokens.completion),
                             fact'.tokens.source, life.attempted, fact'.tokens.invalid)
    BY <1>2
  <2>2. life'.attempted = life.attempted BY <1>1
  <2> QED BY <1>2, <2>1, <2>2
<1>5. (CalculateCost(fact.pricing, ValueOf(fact.tokens.prompt), ValueOf(fact.tokens.completion),
                     fact.tokens.source, life.attempted, fact.tokens.invalid))'
        = CalculateCost(fact'.pricing, ValueOf(fact'.tokens.prompt), ValueOf(fact'.tokens.completion),
                        fact'.tokens.source, life'.attempted, fact'.tokens.invalid)
  BY DEF CalculateCost, ValueOf
<1>6. settlement' = None /\ DOMAIN draft' = DraftFields BY <1>1 DEF UsageInv
<1>7. PricedCall' BY <1>1 DEF UsageInv, PricedCall
<1>8. draft'.frozen # None => FrozenPrice'
  <2>1. draft.frozen # None => FrozenPrice BY <1>1 DEF UsageInv
  <2>2. FrozenPrice => FrozenPrice' BY <1>1 DEF FrozenPrice, ResolveSnapshot, Limit
  <2> QED BY <1>1, <2>1, <2>2
<1>9. stage' \in {"settle", "closed"} /\ (stage' = "settle" => draft'.frozen # None) BY <1>1
<1> HIDE DEF cost, p
<1> QED BY <1>3, <1>4, <1>5, <1>6, <1>7, <1>8, <1>9 DEF UsageInv

(* The finalizer of the budget settles the fact. *)
LEMMA SettlingUsage == ASSUME UsageInv, SettleBudget PROVE UsageInv'
<1>1. /\ stage = "settle" /\ stage' = "closed" /\ settlement' = CostFromFact
      /\ UNCHANGED <<call, catalog, draft, life, fact, answer>>
  BY DEF SettleBudget, Goto, streamVars
<1>2. draft.frozen # None /\ DOMAIN draft = DraftFields /\ FrozenPrice BY <1>1 DEF UsageInv
<1>3. FrozenPrice' BY <1>1, <1>2 DEF FrozenPrice, ResolveSnapshot, Limit
<1>4. PricedCall' BY <1>1 DEF UsageInv, PricedCall
<1>5. CostFromFact' = CostFromFact BY <1>1 DEF CostFromFact, CalculateCost, ValueOf
<1>6. /\ fact'.pricing = (Pricing(fact.tokens))'
      /\ fact'.cost = (CalculateCost(fact.pricing, ValueOf(fact.tokens.prompt), ValueOf(fact.tokens.completion),
                                     fact.tokens.source, life.attempted, fact.tokens.invalid))'
  <2>1. (Pricing(fact.tokens))' = Pricing(fact.tokens) BY <1>1, PricingStays
  <2>2. (CalculateCost(fact.pricing, ValueOf(fact.tokens.prompt), ValueOf(fact.tokens.completion),
                       fact.tokens.source, life.attempted, fact.tokens.invalid))'
          = CalculateCost(fact.pricing, ValueOf(fact.tokens.prompt), ValueOf(fact.tokens.completion),
                          fact.tokens.source, life.attempted, fact.tokens.invalid)
    BY <1>1 DEF CalculateCost, ValueOf
  <2> QED BY <1>1, <2>1, <2>2 DEF UsageInv
<1> QED BY <1>1, <1>2, <1>3, <1>4, <1>5, <1>6 DEF UsageInv

(* UsageInv is inductive. *)
LEMMA UsageInvariant == UsageSpec => []UsageInv
<1>1. StreamInit /\ UsageInit => UsageInv
  <2> SUFFICES ASSUME UsageInit PROVE UsageInv OBVIOUS
  <2>1. PricedCall BY DEF UsageInit, PricedCall
  <2>2. stage = "resolved" /\ fact = None /\ settlement = None BY DEF UsageInit
  <2> QED BY <2>1, <2>2 DEF UsageInv
<1>2. ASSUME UsageInv, [UsageNext]_<<streamVars, usageVars>> PROVE UsageInv'
  <2>1. CASE UsageNext
    BY <1>2, <2>1, NotingUsage, MovingUsage, FreezingUsage, FinalizingUsage, SettlingUsage DEF UsageNext
  <2>2. CASE UNCHANGED <<streamVars, usageVars>>
    <3>1. UNCHANGED <<call, catalog, draft, life, stage, fact, settlement, answer>> BY <2>2 DEF streamVars, usageVars
    <3>2. FrozenPrice => FrozenPrice' BY <3>1 DEF FrozenPrice, ResolveSnapshot, Limit
    <3>3. PricedCall' BY <1>2, <3>1 DEF UsageInv, PricedCall
    <3>4. CostFromFact' = CostFromFact BY <3>1 DEF CostFromFact, CalculateCost, ValueOf
    <3>5. (Pricing(fact.tokens))' = Pricing(fact.tokens) BY <3>1, PricingStays
    <3>6. (CalculateCost(fact.pricing, ValueOf(fact.tokens.prompt), ValueOf(fact.tokens.completion),
                         fact.tokens.source, life.attempted, fact.tokens.invalid))'
            = CalculateCost(fact.pricing, ValueOf(fact.tokens.prompt), ValueOf(fact.tokens.completion),
                            fact.tokens.source, life.attempted, fact.tokens.invalid)
      BY <3>1 DEF CalculateCost, ValueOf
    <3> QED BY <1>2, <3>1, <3>2, <3>3, <3>4, <3>5, <3>6 DEF UsageInv
  <2> QED BY <1>2, <2>1, <2>2
<1> QED BY <1>1, <1>2, PTL DEF UsageSpec

(* What a cost was calculated from. *)
LEMMA CostIs ==
  ASSUME NEW pricing, NEW prompt, NEW completion, NEW source, NEW attempted, NEW invalid,
         CalculateCost(pricing, prompt, completion, source, attempted, invalid).status \in {"Calculated", "Estimated"}
  PROVE  /\ attempted /\ pricing.status # "Unsupported"
         /\ None \notin {pricing.input, pricing.output} /\ None \notin {prompt, completion}
         /\ CalculateCost(pricing, prompt, completion, source, attempted, invalid).usd
              = prompt * pricing.input + completion * pricing.output
<1>1. Cost("NotIncurred", 0).status = "NotIncurred" /\ Unavailable.status = "Unavailable" BY DEF Cost, Unavailable
<1>2. attempted BY <1>1 DEF CalculateCost
<1>3. ~(\/ invalid \/ pricing.status = "Unsupported"
        \/ None \in {pricing.input, pricing.output} \/ None \in {prompt, completion})
  BY <1>1, <1>2 DEF CalculateCost
<1> DEFINE usd == prompt * pricing.input + completion * pricing.output
<1>4. CalculateCost(pricing, prompt, completion, source, attempted, invalid)
        = IF usd > MaxCost THEN Unavailable
          ELSE Cost(IF source = "Provider" THEN "Calculated" ELSE "Estimated", usd)
  BY <1>2, <1>3 DEF CalculateCost
<1> HIDE DEF usd
<1>5. \A s : Cost(s, usd).usd = usd BY DEF Cost
<1>6. CalculateCost(pricing, prompt, completion, source, attempted, invalid).usd = usd BY <1>1, <1>4, <1>5
<1> QED BY <1>2, <1>3, <1>6 DEF usd

(* A recorded amount is that of the price and the counts of the fact. *)
LEMMA AmountIs ==
  ASSUME UsageInv, fact # None, fact.cost.status \in {"Calculated", "Estimated"}
  PROVE  /\ life.attempted /\ draft.features = {}
         /\ ~call.budgeted => fact.tokens.cached = None
         /\ fact.cost.usd = fact.tokens.prompt.value * Rate(call.input, "input")
                            + fact.tokens.completion.value * Rate(call.output, "output")
<1> DEFINE e == FindEntry(catalog, answer.provider, call.model, call.started)
           prompt == ValueOf(fact.tokens.prompt)
           completion == ValueOf(fact.tokens.completion)
<1>1. /\ fact.pricing = Pricing(fact.tokens)
      /\ fact.cost = CalculateCost(fact.pricing, prompt, completion,
                                   fact.tokens.source, life.attempted, fact.tokens.invalid)
  <2>1. stage \in {"settle", "closed"} BY DEF UsageInv
  <2> QED BY <2>1 DEF UsageInv
<1>2. /\ life.attempted /\ fact.pricing.status # "Unsupported"
      /\ None \notin {fact.pricing.input, fact.pricing.output} /\ None \notin {prompt, completion}
      /\ fact.cost.usd = prompt * fact.pricing.input + completion * fact.pricing.output
  <2> HIDE DEF prompt, completion
  <2>1. CalculateCost(fact.pricing, prompt, completion, fact.tokens.source, life.attempted,
                      fact.tokens.invalid).status \in {"Calculated", "Estimated"}
    BY <1>1
  <2> QED BY <1>1, <2>1, CostIs
<1>3. prompt = fact.tokens.prompt.value /\ completion = fact.tokens.completion.value BY <1>2 DEF ValueOf
<1>4. stage # "resolved" BY DEF UsageInv
<1>5. /\ fact.pricing.input = OrEntry(call.input, e, "input") /\ fact.pricing.output = OrEntry(call.output, e, "output")
      /\ draft.features = {} /\ (~call.budgeted => fact.tokens.cached = None)
  <2>1. CASE draft.frozen # None
    <3>1. FrozenPrice BY <1>4, <2>1 DEF UsageInv
    <3>2. fact.pricing.input = draft.frozen.input /\ fact.pricing.output = draft.frozen.output
      BY <1>1, <1>2, <2>1 DEF Pricing
    <3> QED BY <3>1, <3>2 DEF FrozenPrice, ResolveSnapshot
  <2>2. CASE draft.frozen = None
    <3>1. fact.pricing = ResolveSnapshot(call, answer.provider, prompt, Features(fact.tokens))
      BY <1>1, <1>2, <2>2 DEF Pricing
    <3> HIDE DEF prompt
    <3>2. Features(fact.tokens) = {} BY <1>2, <3>1 DEF ResolveSnapshot
    <3>3. draft.features = {} /\ fact.tokens.cached = None BY <3>2 DEF Features
    <3>4. fact.pricing.input = OrEntry(call.input, e, "input") /\ fact.pricing.output = OrEntry(call.output, e, "output")
      BY <3>1 DEF ResolveSnapshot
    <3> QED BY <3>3, <3>4
  <2> QED BY <2>1, <2>2
<1>6. PricedCall BY DEF UsageInv
<1>7. fact.pricing.input = Rate(call.input, "input") BY <1>2, <1>5, <1>6, RateIs
<1>8. fact.pricing.output = Rate(call.output, "output") BY <1>2, <1>5, <1>6, RateIs
<1> HIDE DEF prompt, completion, e
<1> QED BY <1>2, <1>3, <1>5, <1>7, <1>8

(* The budget of a request that tried an upstream is charged the cost of its  *)
(* fact.                                                                      *)
LEMMA SettlesFact ==
  ASSUME UsageInv, settlement # None, life.attempted
  PROVE  settlement = fact.cost
<1> DEFINE p == [input |-> draft.frozen.input, output |-> draft.frozen.output, status |-> "Matched"]
           prompt == ValueOf(fact.tokens.prompt)
           completion == ValueOf(fact.tokens.completion)
           again == CalculateCost(p, prompt, completion, fact.tokens.source, life.attempted, fact.tokens.invalid)
           over == Exceeds(draft.frozen.limit, prompt)
<1>1. draft.frozen # None /\ settlement = CostFromFact BY DEF UsageInv
<1>2. settlement = IF over \/ fact.pricing # p \/ fact.cost # again THEN Unavailable ELSE again
  BY <1>1 DEF CostFromFact
<1>3. /\ fact.pricing = Pricing(fact.tokens)
      /\ fact.cost = CalculateCost(fact.pricing, prompt, completion,
                                   fact.tokens.source, life.attempted, fact.tokens.invalid)
  <2>1. stage = "closed" BY DEF UsageInv
  <2> QED BY <2>1 DEF UsageInv
<1>4. fact.pricing = [input |-> draft.frozen.input, output |-> draft.frozen.output,
                      status |-> IF over THEN "Unsupported" ELSE "Matched"]
  BY <1>1, <1>3 DEF Pricing
<1>5. CASE over
  <2>1. settlement = Unavailable BY <1>2, <1>5
  <2>2. fact.pricing.status = "Unsupported" BY <1>4, <1>5
  <2>3. fact.cost = Unavailable BY <1>3, <2>2 DEF CalculateCost
  <2> QED BY <2>1, <2>3
<1>6. CASE ~over
  <2>1. fact.pricing = p BY <1>4, <1>6
  <2>2. fact.cost = again BY <1>3, <2>1
  <2> HIDE DEF p, again, over
  <2> QED BY <1>2, <1>6, <2>1, <2>2
<1> QED BY <1>5, <1>6

(* TellsCost: an amount is recorded only from a complete price, that of the   *)
(* most specific entry in force when the request began or of the model        *)
(* itself, and from both counts, and a budget is charged exactly that amount: *)
(* for any catalogue that PriceCatalog accepts, any models, counts and        *)
(* answers (PriceCatalog, calculate_cost, cost_from_fact).                    *)
THEOREM TellsTrueCost == UsageSpec => []TellsCost
<1>1. UsageInv => TellsCost
  <2> SUFFICES ASSUME UsageInv PROVE TellsCost OBVIOUS
  <2>1. fact # None /\ fact.cost.status \in {"Calculated", "Estimated"} =>
          /\ life.attempted /\ draft.features = {}
          /\ ~call.budgeted => fact.tokens.cached = None
          /\ fact.cost.usd = fact.tokens.prompt.value * Rate(call.input, "input")
                             + fact.tokens.completion.value * Rate(call.output, "output")
    BY AmountIs
  <2>2. settlement # None /\ life.attempted => settlement = fact.cost BY SettlesFact
  <2> QED BY <2>1, <2>2, Zenon DEF TellsCost
<1> QED BY <1>1, UsageInvariant, PTL
=============================================================================
