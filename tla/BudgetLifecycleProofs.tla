----------------------- MODULE BudgetLifecycleProofs -----------------------
(***************************************************************************)
(* Proofs about one gateway process in front of the budget ledger, for     *)
(* every number of requests and sessions and whatever answers are lost or  *)
(* late.                                                                   *)
(***************************************************************************)
EXTENDS BudgetLifecycle, BudgetLedgerProofs

(* No entry of the registry is None. *)
LEMMA EntryIsSome == \A e \in RegistryEntry : e # None
  BY LifecycleAssumption, Zenon

-----------------------------------------------------------------------------
(* What the transactions do to a row *)

SameRow(r) ==
  /\ status'[r] = status[r] /\ dispatch'[r] = dispatch[r]
  /\ owner'[r] = owner[r] /\ terminal'[r] = terminal[r]

(* Nobody forgets a session that registered. *)
SessionsKept == \A s \in Sessions : Known(s) => Known(s)'

(* A row stays, or somebody else closes it: as an open question, by a         *)
(* reconciliation, or at nothing if it was never marked.                      *)
OthersRow(r) ==
  \/ SameRow(r)
  \/ /\ dispatch'[r] = dispatch[r] /\ owner'[r] = owner[r]
     /\ status[r] \in {"pending", "unresolved"}
     /\ \/ status'[r] \in {"unresolved", "resolved"}
        \/ status'[r] = "settled" /\ dispatch[r] = "prepared"

(* A transaction that leaves the ledger's rows and the sessions alone. *)
LEMMA UntouchedRows ==
  ASSUME UNCHANGED <<status, dispatch, owner, terminal, expires>>
  PROVE  SessionsKept /\ \A r \in Requests : SameRow(r)
  BY DEF SessionsKept, SameRow, Known

(* create_intent inserts the row of its request. *)
LEMMA CreateRow ==
  ASSUME TypeOK, NEW q \in Requests, NEW s \in Sessions, CreateIntent(q, s)
  PROVE  /\ SessionsKept /\ \A r \in Requests \ {q} : SameRow(r)
         /\ status[q] = "none" /\ status'[q] = "pending" /\ dispatch'[q] = "prepared"
         /\ owner'[q] = s /\ Known(s)
  BY DEF CreateIntent, SessionsKept, SameRow, Known, Live, ownerVars, TypeOK, LedgerTypeOK

(* mark_dispatching marks a prepared row. *)
LEMMA MarkRow ==
  ASSUME TypeOK, NEW q \in Requests, MarkDispatching(q)
  PROVE  /\ SessionsKept /\ \A r \in Requests \ {q} : SameRow(r)
         /\ status[q] = "pending" /\ dispatch[q] = "prepared" /\ dispatch'[q] = "dispatching"
         /\ status'[q] = status[q] /\ owner'[q] = owner[q] /\ terminal'[q] = terminal[q]
  BY DEF MarkDispatching, Dispatchable, SessionsKept, SameRow, Known, ownerVars, TypeOK, LedgerTypeOK

(* settle closes an open row under its command, or leaves it unresolved. *)
LEMMA SettleRow ==
  ASSUME TypeOK, NEW q \in Requests, NEW c \in Costs, Settle(q, c)
  PROVE  /\ SessionsKept /\ \A r \in Requests \ {q} : SameRow(r)
         /\ dispatch'[q] = dispatch[q] /\ owner'[q] = owner[q]
         /\ status[q] \in {"pending", "unresolved"}
         /\ status'[q] \in {"unresolved", "settled"}
         /\ status'[q] = "settled" => terminal'[q] = c
<1>1. status[q] \in {"pending", "unresolved"}
  BY DEF Settle, SettleApply, SettleUnresolved, SettleDisposition, TypeOK, LedgerTypeOK
<1>2. SessionsKept
  BY DEF Settle, SettleApply, SettleUnresolved, MarkUnresolved, SessionsKept, Known, ownerVars
<1> QED
  BY <1>1, <1>2 DEF Settle, SettleApply, SettleUnresolved, MarkUnresolved, CloseRow, SameRow,
     TypeOK, LedgerTypeOK

(* An answer of settle other than a refusal leaves no pending row behind. *)
LEMMA RunSettleRow ==
  ASSUME TypeOK, NEW q \in Requests, NEW c \in Costs, RunSettle(q, c)
  PROVE  /\ SessionsKept /\ \A r \in Requests \ {q} : SameRow(r)
         /\ dispatch'[q] = dispatch[q] /\ owner'[q] = owner[q]
         /\ \/ SameRow(q)
            \/ /\ status[q] \in {"pending", "unresolved"}
               /\ status'[q] \in {"unresolved", "settled"}
               /\ status'[q] = "settled" => terminal'[q] = c
         /\ ~Refused(q, c) => status'[q] \notin {"none", "pending"}
<1>1. CASE Settle(q, c)
  BY <1>1, SettleRow
<1>2. CASE ~Settle(q, c)
  <2>1. UNCHANGED vars
    BY <1>2 DEF RunSettle
  <2>2. SettleDisposition(q, c) \notin {"applied", "marked_unresolved", "overflow"}
    BY <1>2 DEF RunSettle
  <2>3. UNCHANGED <<status, dispatch, owner, terminal, expires>>
    BY <2>1 DEF vars, ledgerVars, ownerVars
  <2>4. ~Refused(q, c) => status[q] \notin {"none", "pending"}
    BY <2>2 DEF SettleDisposition, Refused
  <2> QED BY <2>3, <2>4, UntouchedRows DEF SameRow
<1> QED BY <1>1, <1>2

(* Other processes and administrators close rows; they mark none. *)
LEMMA EnvironmentRows ==
  ASSUME TypeOK, Environment
  PROVE  SessionsKept /\ \A r \in Requests : OthersRow(r)
<1>1. ASSUME NEW k \in Keys, Govern(k) PROVE UNCHANGED <<status, dispatch, owner, terminal, expires>>
  BY <1>1 DEF Govern, CreateAccount, UpdateAccount, DeleteAccount, Checkpoint, ledgerVars, ownerVars
<1>2. ASSUME NEW q \in Requests, RecoverStale(q)
      PROVE  SessionsKept /\ \A r \in Requests : OthersRow(r)
  BY <1>2 DEF RecoverStale, RecoverPrepared, RecoverDispatching, MarkUnresolved, CloseRow, Stale,
     SessionsKept, OthersRow, SameRow, Known, ownerVars, TypeOK, LedgerTypeOK
<1>3. ASSUME NEW o \in Operations, Reconcile(o)
      PROVE  SessionsKept /\ \A r \in Requests : OthersRow(r)
  <2> PICK q \in Requests, c \in Resolutions : ReconcileApply(o, q, c) \/ ReconcileOverflow(o, q, c)
    BY <1>3 DEF Reconcile
  <2>1. SessionsKept
    BY DEF ReconcileApply, ReconcileOverflow, SessionsKept, Known, ownerVars
  <2>2. Reconcilable(q) /\ dispatch' = dispatch /\ owner' = owner
    BY DEF ReconcileApply, ReconcileOverflow
  <2>3. status' = [status EXCEPT ![q] = "resolved"] \/ status' = [status EXCEPT ![q] = "unresolved"]
    BY DEF ReconcileApply, ReconcileOverflow
  <2>4. \A r \in Requests \ {q} : terminal'[r] = terminal[r]
    BY DEF ReconcileApply, ReconcileOverflow, TypeOK, LedgerTypeOK
  <2> QED BY <2>1, <2>2, <2>3, <2>4 DEF Reconcilable, OthersRow, SameRow, TypeOK, LedgerTypeOK
<1>4. ASSUME Tick PROVE UNCHANGED <<status, dispatch, owner, terminal, expires>>
  BY <1>4 DEF Tick, ledgerVars, ownerVars
<1> QED BY <1>1, <1>2, <1>3, <1>4, UntouchedRows DEF Environment, OthersRow

-----------------------------------------------------------------------------
(* One request moves, the others stand by *)

Held(r) == pc[r] \notin {"idle", "done"} => registry[r] # None /\ registry[r].guard

Fine(r) == Held(r) /\ Stage(r) /\ Trace(r) /\ Tried(r)

(* What the process may send for a request. *)
Sent(q) ==
  {t \in Transaction : t.request = q /\ t.session = session /\ (t.op = "settle" => t.command \in Costs)}

ShapesOK ==
  /\ pc \in [Requests -> Places]
  /\ registry \in [Requests -> RegistryEntry \cup {None}]
  /\ attempted \in [Requests -> BOOLEAN]
  /\ session \in Sessions \cup {None}
  /\ available \in BOOLEAN

(* The invariant, one request at a time. *)
LEMMA InvByRequest ==
  ProcessInv <=> ShapesOK /\ late \subseteq Transaction /\ SessionInv /\ \A r \in Requests : Fine(r)
  BY DEF ProcessInv, ProcessTypeOK, ShapesOK, Fine, Held

(* The same after a step. *)
LEMMA InvByRequestNext ==
  ASSUME ShapesOK', (late \subseteq Transaction)', SessionInv', \A r \in Requests : Fine(r)'
  PROVE  ProcessInv'
  BY DEF ProcessInv, ProcessTypeOK, ShapesOK, Fine, Held

(* A request that does nothing, while others close its row at most and what *)
(* it left behind gets no more, is as fine as before.                       *)
LEMMA Bystander ==
  ASSUME LifecycleInv, NEW r \in Requests, OthersRow(r), session' = session,
         pc'[r] = pc[r], registry'[r] = registry[r], attempted'[r] = attempted[r],
         late' \cap {t \in Transaction : t.request = r} \subseteq late, late' \subseteq Transaction
  PROVE  Fine(r)'
<1>1. Fine(r) /\ status[r] \in {"none", "pending", "unresolved", "settled", "resolved"}
  BY InvByRequest DEF LifecycleInv, LedgerInv, TypeOK, LedgerTypeOK
<1>2. Left(r)' \subseteq Left(r)
  BY DEF Left
<1>3. Held(r)'
  BY <1>1 DEF Fine, Held
<1>4. Stage(r)'
  BY <1>1, <1>2 DEF Fine, Stage, OthersRow, SameRow
<1>5. Trace(r)'
  BY <1>1, <1>2 DEF Fine, Trace, OthersRow, SameRow
<1>6. Tried(r)'
  BY <1>1, <1>2 DEF Fine, Tried, OthersRow, SameRow
<1> QED BY <1>3, <1>4, <1>5, <1>6 DEF Fine

(* The task of q, or recovery on its behalf, makes a step and may leave the   *)
(* transactions X behind: nobody else's state changes.                       *)
Moves(q, X) ==
  /\ ShapesOK'
  /\ \A r \in Requests \ {q} : /\ pc'[r] = pc[r] /\ registry'[r] = registry[r]
                               /\ attempted'[r] = attempted[r] /\ SameRow(r)
  /\ session' = session /\ SessionsKept
  /\ late' \subseteq late \cup X /\ X \subseteq Sent(q)
  /\ registry'[q] # None => session # None /\ (registry[q] # None \/ Left(q) = {})

(* It is then enough to look at q. *)
LEMMA OneMoves ==
  ASSUME LifecycleInv, NEW q \in Requests, NEW X, Moves(q, X), X # {} => session # None, Fine(q)'
  PROVE  ProcessInv'
<1>1. ShapesOK /\ late \subseteq Transaction /\ SessionInv
  BY InvByRequest DEF LifecycleInv
<1>2. late' \subseteq Transaction
  BY <1>1 DEF Moves, Sent
<1>3. ASSUME NEW r \in Requests \ {q} PROVE Fine(r)'
  <2>1. late' \cap {t \in Transaction : t.request = r} \subseteq late
    BY DEF Moves, Sent
  <2> QED BY <1>2, <2>1, Bystander DEF Moves, OthersRow
<1>4. SessionInv'
  <2>1. session # None => Known(session)
    BY <1>1 DEF SessionInv
  <2>2. (session # None => Known(session))'
    BY <1>1, <2>1 DEF Moves, SessionsKept, ShapesOK
  <2>3. ASSUME NEW t \in late' PROVE Known(t.session)' /\ (t.op = "settle" => t.command \in Costs)
    BY <1>1, <1>2, <2>2, <2>3 DEF Moves, Sent, SessionInv, SessionsKept, Transaction
  <2>4. ASSUME NEW r \in Requests, registry'[r] # None
        PROVE  session' # None /\ \A t \in Left(r)' : t.session = session'
    BY <1>1, <2>4 DEF Moves, Sent, SessionInv, Left
  <2> QED BY <2>2, <2>3, <2>4 DEF SessionInv
<1> QED BY <1>2, <1>3, <1>4, InvByRequestNext DEF Moves

(* What is known of a request before it moves. *)
LEMMA Actor ==
  ASSUME LifecycleInv, NEW q \in Requests
  PROVE  /\ TypeOK /\ ShapesOK /\ SessionInv /\ late \subseteq Transaction
         /\ Held(q) /\ Stage(q) /\ Trace(q) /\ Tried(q)
         /\ status[q] \in {"none", "pending", "unresolved", "settled", "resolved"}
         /\ registry[q] # None =>
              /\ registry[q] \in RegistryEntry
              /\ session \in Sessions /\ session # None
              /\ \A t \in Left(q) : t.session = session
  BY InvByRequest DEF LifecycleInv, LedgerInv, TypeOK, LedgerTypeOK, Fine, SessionInv, ShapesOK

(* What a caller gives up is a transaction it may send. *)
LEMMA WaitingSent ==
  ASSUME LifecycleInv, NEW q \in Requests, pc[q] \notin {"idle", "done"}
  PROVE  Waiting(q) \subseteq Sent(q) /\ session \in Sessions /\ session # None
<1>1. registry[q] \in RegistryEntry /\ session \in Sessions /\ session # None
  BY Actor DEF Held
<1>2. pc[q] \in {"abortSettle", "finalSettle"} => registry[q].settlement \in Costs
  BY <1>1, Actor DEF Stage, RegistryEntry
<1>3. \A o \in {"create", "mark"} : Tx(o, q, None) \in Sent(q)
  BY <1>1 DEF Tx, Sent, Transaction
<1>4. \A c \in Costs : Tx("settle", q, c) \in Sent(q)
  BY <1>1 DEF Tx, Sent, Transaction
<1> QED BY <1>1, <1>2, <1>3, <1>4 DEF Waiting

(* The process after a step of the task of q: at place p with entry e. *)
Goes(q, p, e, X) ==
  /\ pc' = [pc EXCEPT ![q] = p] /\ registry' = [registry EXCEPT ![q] = e]
  /\ attempted' \in {attempted, [attempted EXCEPT ![q] = TRUE]}
  /\ session' = session /\ available' = available
  /\ late' \subseteq late \cup X /\ X \subseteq Sent(q)

(* What the task of q then has, and that nobody else moved. *)
LEMMA GoesMoves ==
  ASSUME LifecycleInv, NEW q \in Requests, NEW p \in Places, NEW e \in RegistryEntry \cup {None},
         NEW X, Goes(q, p, e, X), SessionsKept, \A r \in Requests \ {q} : SameRow(r),
         e # None => session # None /\ (registry[q] # None \/ Left(q) = {})
  PROVE  /\ Moves(q, X) /\ session' = session
         /\ pc'[q] = p /\ registry'[q] = e /\ Left(q)' \subseteq Left(q) \cup X
         /\ attempted' = attempted => attempted'[q] = attempted[q]
<1>1. ShapesOK
  BY Actor
<1>2. pc'[q] = p /\ registry'[q] = e /\ attempted' \in [Requests -> BOOLEAN]
  BY <1>1 DEF ShapesOK, Goes
<1>3. \A r \in Requests \ {q} : /\ pc'[r] = pc[r] /\ registry'[r] = registry[r]
                                /\ attempted'[r] = attempted[r]
  BY <1>1 DEF ShapesOK, Goes
<1>4. ShapesOK'
  BY <1>1, <1>2 DEF ShapesOK, Goes
<1>5. Left(q)' \subseteq Left(q) \cup X
  BY DEF Left, Goes
<1> QED BY <1>2, <1>3, <1>4, <1>5 DEF Moves, Goes

(* A registry that stays is one whose entry of q stays. *)
LEMMA SameEntry ==
  ASSUME LifecycleInv, NEW q \in Requests, UNCHANGED registry
  PROVE  registry' = [registry EXCEPT ![q] = registry[q]]
  BY Actor DEF ShapesOK

(* The registry's entry when the guard drops. *)
LEMMA DroppedEntry ==
  ASSUME NEW e \in RegistryEntry
  PROVE  /\ Dropped(e) \in RegistryEntry /\ Dropped(e) # None
         /\ ~Dropped(e).guard /\ Dropped(e).intent = e.intent /\ Dropped(e).settlement = e.settlement
         /\ NoZero(e) => NoZero(Dropped(e))
<1> DEFINE s == CASE e.state = "Preparing" -> "NeedsIntentLookup"
                  [] e.state = "ActivePrepared" -> "NeedsSafeZero"
                  [] e.state \in {"DispatchCommitPending", "ActiveDispatching"} -> "NeedsUnresolved"
                  [] OTHER -> e.state
<1>1. s \in RegistryState /\ (e.state \in {"ActiveDispatching", "NeedsUnresolved"} => s = "NeedsUnresolved")
  BY DEF RegistryEntry, RegistryState
<1>2. Dropped(e) = [e EXCEPT !.guard = FALSE, !.state = s]
  BY Zenon DEF Dropped
<1> HIDE DEF s
<1>3. Dropped(e) \in RegistryEntry
  BY <1>1, <1>2 DEF RegistryEntry
<1>4. /\ Dropped(e).state = s /\ ~Dropped(e).guard
      /\ Dropped(e).intent = e.intent /\ Dropped(e).settlement = e.settlement
  BY <1>2 DEF RegistryEntry
<1>5. NoZero(e) => NoZero(Dropped(e))
  BY <1>1, <1>4 DEF NoZero
<1> QED BY <1>3, <1>4, <1>5, EntryIsSome

-----------------------------------------------------------------------------
(* The dispatch hook *)

(* A request enters the registry. *)
LEMMA BeginKeeps ==
  ASSUME LifecycleInv, NEW q \in Requests, Begin(q)
  PROVE  ProcessInv'
<1> DEFINE e == [state |-> "Preparing", intent |-> FALSE, settlement |-> None, guard |-> TRUE]
<1>1. e \in RegistryEntry /\ e # None
  <2>1. e \in RegistryEntry
    BY DEF RegistryEntry, RegistryState
  <2> QED BY <2>1, EntryIsSome
<1>2. registry' = [registry EXCEPT ![q] = e] /\ pc' = [pc EXCEPT ![q] = "create"]
  BY DEF Begin, Record, Goto
<1>3. SessionsKept /\ \A r \in Requests : SameRow(r)
  BY UntouchedRows DEF Begin, vars, ledgerVars, ownerVars
<1>4. Left(q) = {} /\ ~attempted[q] /\ status[q] = "none" /\ Left(q)' = {}
  BY Actor DEF Begin, Stage, Left
<1>5. Goes(q, "create", e, {}) /\ session # None
  BY <1>2 DEF Goes, Begin
<1> HIDE DEF e
<1>6. Moves(q, {}) /\ pc'[q] = "create" /\ registry'[q] = e /\ attempted'[q] = attempted[q]
  BY <1>1, <1>3, <1>4, <1>5, GoesMoves DEF Places, Begin
<1>7. Fine(q)'
  BY <1>1, <1>3, <1>4, <1>6 DEF Fine, Held, Stage, Trace, Tried, SameRow, e
<1> QED BY <1>6, <1>7, OneMoves

(* The answer of create_intent arrives. *)
LEMMA CreateCreatedKeeps ==
  ASSUME LifecycleInv, NEW q \in Requests, CreateCreated(q)
  PROVE  ProcessInv'
<1> DEFINE e == [registry[q] EXCEPT !.state = "DispatchCommitPending", !.intent = TRUE]
<1>0. pc[q] = "create" /\ CreateIntent(q, session)
  BY DEF CreateCreated
<1>1. registry[q] \in RegistryEntry /\ registry[q].guard /\ registry[q].settlement = None
        /\ session \in Sessions /\ session # None /\ Left(q) = {} /\ ~attempted[q]
  BY <1>0, Actor DEF Held, Stage
<1>2. e \in RegistryEntry /\ e # None /\ e.intent /\ e.guard /\ e.settlement = None
  <2>1. e \in RegistryEntry /\ e.intent /\ e.guard /\ e.settlement = None
    BY <1>1 DEF RegistryEntry, RegistryState
  <2> QED BY <2>1, EntryIsSome
<1>3. registry' = [registry EXCEPT ![q] = e] /\ pc' = [pc EXCEPT ![q] = "mark"]
  BY DEF CreateCreated, Record, Goto
<1> HIDE DEF e
<1>4. /\ SessionsKept /\ \A r \in Requests \ {q} : SameRow(r)
      /\ status'[q] = "pending" /\ dispatch'[q] = "prepared" /\ owner'[q] = session
  BY <1>0, <1>1, Actor, CreateRow
<1>5. Goes(q, "mark", e, {})
  BY <1>3 DEF Goes, CreateCreated
<1>6. /\ Moves(q, {}) /\ pc'[q] = "mark" /\ registry'[q] = e /\ attempted'[q] = attempted[q]
      /\ Left(q)' = {} /\ session' = session
  BY <1>1, <1>2, <1>4, <1>5, GoesMoves DEF Places, CreateCreated
<1>7. Fine(q)'
  BY <1>1, <1>2, <1>4, <1>6 DEF Fine, Held, Stage, Trace, Tried
<1> QED BY <1>6, <1>7, OneMoves

(* The answer of mark_dispatching arrives. *)
LEMMA MarkMarkedKeeps ==
  ASSUME LifecycleInv, NEW q \in Requests, MarkMarked(q)
  PROVE  ProcessInv'
<1> DEFINE e == [registry[q] EXCEPT !.state = "ActiveDispatching"]
<1>1. pc[q] = "mark" /\ MarkDispatching(q)
  BY DEF MarkMarked
<1>2. /\ registry[q] \in RegistryEntry /\ registry[q] # None /\ registry[q].guard
      /\ registry[q].settlement = None /\ registry[q].intent
      /\ session # None /\ Left(q) = {} /\ ~attempted[q] /\ Trace(q)
  BY <1>1, Actor DEF Held, Stage
<1>3. e \in RegistryEntry /\ e # None /\ e.intent /\ e.guard /\ e.settlement = None
        /\ e.state = "ActiveDispatching"
  <2>1. e \in RegistryEntry /\ e.intent /\ e.guard /\ e.settlement = None /\ e.state = "ActiveDispatching"
    BY <1>2 DEF RegistryEntry, RegistryState
  <2> QED BY <2>1, EntryIsSome
<1>4. Goes(q, "dispatched", e, {})
  BY DEF MarkMarked, Record, Goto, Goes
<1> HIDE DEF e
<1>5. /\ SessionsKept /\ \A r \in Requests \ {q} : SameRow(r)
      /\ status[q] = "pending" /\ status'[q] = "pending" /\ dispatch'[q] = "dispatching"
      /\ owner'[q] = owner[q]
  BY <1>1, Actor, MarkRow
<1>6. /\ Moves(q, {}) /\ pc'[q] = "dispatched" /\ registry'[q] = e /\ attempted'[q] = attempted[q]
      /\ Left(q)' = {} /\ session' = session
  BY <1>2, <1>3, <1>4, <1>5, GoesMoves DEF Places, MarkMarked
<1>7. Fine(q)'
  BY <1>2, <1>3, <1>5, <1>6 DEF Fine, Held, Stage, Trace, Tried
<1> QED BY <1>6, <1>7, OneMoves

(* The transactions that are waited for at each place. *)
LEMMA WaitingOps ==
  ASSUME NEW q \in Requests, NEW t \in Waiting(q)
  PROVE  /\ t.op = "mark" => pc[q] = "mark"
         /\ t.op = "settle" => /\ pc[q] \in {"abortSettle", "finalSettle"}
                               /\ t.command = registry[q].settlement
  BY DEF Waiting, Tx

(* The ledger and the sessions stand still. *)
LEMMA LedgerRests ==
  ASSUME UNCHANGED vars
  PROVE  SessionsKept /\ \A r \in Requests : SameRow(r)
  BY UntouchedRows DEF vars, ledgerVars, ownerVars

(* A task gives up what it waits for and goes on to compensate, to finalize   *)
(* or, dropping its guard, to its end.                                       *)
LEMMA GiveUpKeeps ==
  ASSUME LifecycleInv, NEW q \in Requests, pc[q] \notin {"idle", "done"},
         UNCHANGED <<vars, attempted>>, NEW p, NEW e, Goes(q, p, e, Waiting(q)),
         \/ p = "done" /\ e = Dropped(registry[q])
         \/ p = "finalize" /\ e = registry[q]
         \/ p = "abort" /\ e = registry[q] /\ ~attempted[q]
  PROVE  ProcessInv'
<1>1. /\ registry[q] \in RegistryEntry /\ registry[q] # None /\ registry[q].guard
      /\ Stage(q) /\ Trace(q) /\ Tried(q) /\ Waiting(q) \subseteq Sent(q) /\ session # None
  BY Actor, WaitingSent DEF Held
<1>2. /\ e \in RegistryEntry /\ e # None /\ e.intent = registry[q].intent
      /\ NoZero(registry[q]) => NoZero(e)
      /\ p # "done" => e.guard
  BY <1>1, DroppedEntry
<1>3. SessionsKept /\ \A r \in Requests : SameRow(r)
  BY LedgerRests
<1>4. p \in Places
  BY DEF Places
<1>5. /\ Moves(q, Waiting(q)) /\ pc'[q] = p /\ registry'[q] = e /\ attempted'[q] = attempted[q]
      /\ Left(q)' \subseteq Left(q) \cup Waiting(q) /\ session' = session
  BY <1>1, <1>2, <1>3, <1>4, GoesMoves
<1>6. \A t \in Left(q)' : t.op = "mark" => status[q] # "none"
  BY <1>1, <1>5, WaitingOps DEF Stage, Trace
<1>7. attempted[q] => \A t \in Left(q)' : t.op = "settle" => t.command.status # "not_incurred"
  BY <1>1, <1>5, WaitingOps DEF Stage, Tried, NoZero
<1>8. Held(q)' /\ Stage(q)'
  BY <1>2, <1>5 DEF Held, Stage
<1>9. Trace(q)'
  BY <1>1, <1>2, <1>3, <1>5, <1>6 DEF Trace, SameRow
<1>10. Tried(q)'
  BY <1>1, <1>2, <1>3, <1>5, <1>7 DEF Tried, SameRow
<1> QED BY <1>1, <1>5, <1>8, <1>9, <1>10, OneMoves DEF Fine

(* create_intent wrote nothing, and the permit is released. *)
LEMMA CreateNothingKeeps ==
  ASSUME LifecycleInv, NEW q \in Requests,
         CreateNothing(q) \/ ReplayPaused(q)
  PROVE  ProcessInv'
<1>1. Stage(q) /\ Trace(q) /\ Tried(q)
  BY Actor
<1>2. status[q] = "none" /\ ~attempted[q]
  BY <1>1 DEF CreateNothing, ReplayPaused, Paused, Stage, Tried
<1>3. Goes(q, "done", None, {}) /\ UNCHANGED <<vars, attempted>>
  BY DEF CreateNothing, ReplayPaused, Acknowledge, Record, Goto, Goes
<1>4. SessionsKept /\ \A r \in Requests : SameRow(r)
  BY <1>3, LedgerRests
<1>5. /\ Moves(q, {}) /\ pc'[q] = "done" /\ registry'[q] = None /\ attempted'[q] = attempted[q]
      /\ Left(q)' \subseteq Left(q) /\ session' = session
  BY <1>3, <1>4, GoesMoves DEF Places
<1>6. Fine(q)'
  BY <1>1, <1>2, <1>4, <1>5 DEF Fine, Held, Stage, Trace, Tried, SameRow
<1> QED BY <1>5, <1>6, OneMoves

(* The upstream is tried: from here on no zero may be chosen. *)
LEMMA AttemptKeeps ==
  ASSUME LifecycleInv, NEW q \in Requests, Attempt(q)
  PROVE  ProcessInv'
<1>1. /\ registry[q] \in RegistryEntry /\ registry[q] # None /\ registry[q].guard
      /\ Stage(q) /\ Trace(q) /\ session # None /\ pc[q] = "dispatched"
  BY Actor DEF Held, Attempt
<1>2. Goes(q, "finalize", registry[q], {})
  BY SameEntry DEF Attempt, Goto, Goes
<1>3. SessionsKept /\ \A r \in Requests : SameRow(r)
  BY LedgerRests DEF Attempt
<1>4. /\ Moves(q, {}) /\ pc'[q] = "finalize" /\ registry'[q] = registry[q]
      /\ Left(q)' \subseteq Left(q) /\ session' = session
  BY <1>1, <1>2, <1>3, GoesMoves DEF Places
<1>5. NoZero(registry[q])
  BY <1>1 DEF Stage, NoZero
<1>6. Held(q)' /\ Stage(q)' /\ Trace(q)'
  BY <1>1, <1>3, <1>4 DEF Held, Stage, Trace, SameRow
<1>7. Tried(q)'
  BY <1>1, <1>3, <1>4, <1>5 DEF Tried, Stage, SameRow
<1> QED BY <1>4, <1>6, <1>7, OneMoves DEF Fine

(* The hook gives up, or the request ends without an attempt. *)
LEMMA HookGivesUpKeeps ==
  ASSUME LifecycleInv, NEW q \in Requests,
         CreateUnknown(q) \/ MarkFails(q) \/ EndUnattempted(q)
  PROVE  ProcessInv'
<1>1. pc[q] \in {"create", "mark", "dispatched"} /\ ~attempted[q]
  BY Actor DEF CreateUnknown, MarkFails, EndUnattempted, Stage
<1>2. UNCHANGED <<vars, attempted>> /\ Waiting(q) \subseteq Sent(q)
  BY <1>1, WaitingSent DEF CreateUnknown, MarkFails, EndUnattempted
<1>3. registry' = [registry EXCEPT ![q] = registry[q]]
  BY SameEntry DEF CreateUnknown, MarkFails, EndUnattempted
<1>4. \E p \in {"abort", "finalize"} : Goes(q, p, registry[q], Waiting(q))
  BY <1>2, <1>3 DEF CreateUnknown, MarkFails, EndUnattempted, GiveUp, Goto, Goes
<1> QED BY <1>1, <1>2, <1>4, GiveUpKeeps

-----------------------------------------------------------------------------
(* The abort compensator and the finalizer *)

(* The entry that will settle at nothing. *)
LEMMA SafeZeroEntry ==
  ASSUME NEW e \in RegistryEntry
  PROVE  /\ SafeZero(e) \in RegistryEntry /\ SafeZero(e) # None
         /\ SafeZero(e).intent /\ SafeZero(e).guard = e.guard /\ SafeZero(e).settlement # None
<1>1. AbortZero \in Costs /\ AbortZero # None
  BY LifecycleAssumption, LedgerAssumption
<1>2. SafeZero(e) \in RegistryEntry /\ SafeZero(e).intent /\ SafeZero(e).guard = e.guard
        /\ SafeZero(e).settlement = AbortZero
  BY <1>1 DEF SafeZero, RegistryEntry, RegistryState
<1> QED BY <1>1, <1>2, EntryIsSome

(* A request whose upstream was not tried is about to settle at nothing. *)
LEMMA ZeroChosenKeeps ==
  ASSUME LifecycleInv, NEW q \in Requests, ReplayCreate(q) \/ PrepareAbort(q)
  PROVE  ProcessInv'
<1> DEFINE e == SafeZero(registry[q])
<1>1. /\ registry[q] \in RegistryEntry /\ registry[q] # None /\ registry[q].guard
      /\ Stage(q) /\ Trace(q) /\ session \in Sessions /\ session # None
  BY Actor DEF Held, ReplayCreate, PrepareAbort
<1>2. ~attempted[q]
  BY Actor DEF ReplayCreate, PrepareAbort, Held, Tried, NoZero
<1>3. e \in RegistryEntry /\ e # None /\ e.intent /\ e.guard /\ e.settlement # None
  BY <1>1, SafeZeroEntry
<1>4. PICK p \in {"abortSettle", "finalSettle"} : Goes(q, p, e, {})
  BY DEF ReplayCreate, PrepareAbort, Record, NextSettle, Goto, Goes
<1> HIDE DEF e
<1>5. /\ SessionsKept /\ \A r \in Requests \ {q} : SameRow(r)
      /\ status'[q] # "none" /\ owner'[q] = session
  <2>1. CASE CreateIntent(q, session)
    BY <1>1, <2>1, Actor, CreateRow
  <2>2. CASE ~CreateIntent(q, session)
    <3>1. UNCHANGED vars /\ status[q] # "none"
      BY <1>1, <2>2 DEF ReplayCreate, PrepareAbort, Trace
    <3> QED BY <1>1, <3>1, LedgerRests DEF Trace, SameRow
  <2> QED BY <2>1, <2>2
<1>6. /\ Moves(q, {}) /\ pc'[q] = p /\ registry'[q] = e /\ attempted'[q] = attempted[q]
      /\ Left(q)' \subseteq Left(q) /\ session' = session
  <2>1. p \in Places /\ attempted' = attempted
    BY DEF Places, ReplayCreate, PrepareAbort
  <2> QED BY <1>1, <1>3, <1>4, <1>5, <2>1, GoesMoves
<1>7. Fine(q)'
  BY <1>2, <1>3, <1>5, <1>6 DEF Fine, Held, Stage, Trace, Tried
<1> QED BY <1>6, <1>7, OneMoves

(* The commands that the finalizer may choose after an attempt. *)
LEMMA CostAfterAttempt ==
  ASSUME LifecycleInv, NEW q \in Requests, pc[q] = "finalize", NEW c \in FinalCommands(q)
  PROVE  c \in Costs /\ c # None /\ (attempted[q] => c.status # "not_incurred")
<1>1. registry[q] \in RegistryEntry /\ Tried(q) /\ registry[q] # None
  BY Actor DEF Held
<1>2. CASE registry[q].settlement # None
  BY <1>1, <1>2, LedgerAssumption DEF FinalCommands, RegistryEntry, Tried, NoZero
<1>3. CASE registry[q].settlement = None
  BY <1>3, LifecycleAssumption, LedgerAssumption DEF FinalCommands, CostFromFact
<1> QED BY <1>2, <1>3

(* prepare_final_settlement keeps the command chosen before, or chooses. *)
LEMMA PrepareFinalKeeps ==
  ASSUME LifecycleInv, NEW q \in Requests, PrepareFinal(q)
  PROVE  ProcessInv'
<1>1. /\ registry[q] \in RegistryEntry /\ registry[q] # None /\ registry[q].guard
      /\ registry[q].intent /\ pc[q] = "finalize" /\ session # None
      /\ Stage(q) /\ Trace(q) /\ Tried(q)
  BY Actor DEF Held, PrepareFinal
<1>2. PICK c \in FinalCommands(q) :
        registry' = [registry EXCEPT ![q] =
          [registry[q] EXCEPT
             !.state = IF @ = "ActiveDispatching" THEN "RetryWithFact" ELSE @,
             !.settlement = c]]
  BY Zenon DEF PrepareFinal, Record
<1> DEFINE s == IF registry[q].state = "ActiveDispatching" THEN "RetryWithFact" ELSE registry[q].state
           e == [registry[q] EXCEPT !.state = s, !.settlement = c]
<1>3. c \in Costs /\ c # None /\ (attempted[q] => c.status # "not_incurred")
  BY <1>1, CostAfterAttempt
<1>4. s \in RegistryState
  BY <1>1 DEF RegistryEntry, RegistryState
<1>5. registry' = [registry EXCEPT ![q] = e]
  BY <1>2
<1> HIDE DEF s
<1>6. e \in RegistryEntry /\ e.guard /\ e.intent /\ e.settlement = c
  BY <1>1, <1>3, <1>4 DEF RegistryEntry
<1> HIDE DEF e
<1>7. e # None
  BY <1>6, EntryIsSome
<1>8. Goes(q, "finalSettle", e, {}) /\ UNCHANGED <<vars, attempted>>
  BY <1>1, <1>5 DEF PrepareFinal, NextSettle, Goto, Goes
<1>9. SessionsKept /\ \A r \in Requests : SameRow(r)
  BY <1>8, LedgerRests
<1>10. /\ Moves(q, {}) /\ pc'[q] = "finalSettle" /\ registry'[q] = e /\ attempted'[q] = attempted[q]
       /\ Left(q)' \subseteq Left(q) /\ session' = session
  BY <1>1, <1>6, <1>7, <1>8, <1>9, GoesMoves DEF Places
<1>11. Held(q)' /\ Stage(q)' /\ Trace(q)'
  BY <1>1, <1>3, <1>6, <1>7, <1>9, <1>10 DEF Held, Stage, Trace, SameRow
<1>12. NoZero(e) \/ ~attempted[q]
  BY <1>3, <1>6 DEF NoZero
<1>13. Tried(q)'
  BY <1>1, <1>9, <1>10, <1>12 DEF Tried, SameRow
<1> QED BY <1>10, <1>11, <1>13, OneMoves DEF Fine

(* A settlement is answered, by whomever it was sent: the entry goes, and no  *)
(* pending row stays behind.                                                 *)
LEMMA SettledKeeps ==
  ASSUME LifecycleInv, NEW q \in Requests, registry[q] # None,
         registry[q].settlement \in Costs, RunSettle(q, registry[q].settlement),
         ~Refused(q, registry[q].settlement), Goes(q, "done", None, {}), UNCHANGED attempted,
         pc[q] \in {"abortSettle", "finalSettle", "done"}
  PROVE  ProcessInv'
<1> DEFINE c == registry[q].settlement
<1>1. Stage(q) /\ Trace(q) /\ Tried(q) /\ c # None
  BY Actor, LedgerAssumption
<1> HIDE DEF c
<1>2. /\ SessionsKept /\ \A r \in Requests \ {q} : SameRow(r)
      /\ dispatch'[q] = dispatch[q] /\ owner'[q] = owner[q]
      /\ \/ SameRow(q)
         \/ status'[q] = "settled" => terminal'[q] = c
      /\ status'[q] \notin {"none", "pending"}
  BY Actor, RunSettleRow DEF c
<1>3. /\ Moves(q, {}) /\ pc'[q] = "done" /\ registry'[q] = None /\ attempted'[q] = attempted[q]
      /\ Left(q)' \subseteq Left(q) /\ session' = session
  BY <1>2, GoesMoves DEF Places
<1>4. attempted[q] => c.status # "not_incurred"
  BY <1>1 DEF Tried, NoZero, c
<1>5. Held(q)' /\ Stage(q)' /\ Trace(q)'
  BY <1>1, <1>2, <1>3 DEF Held, Stage, Trace
<1>6. Tried(q)'
  BY <1>1, <1>2, <1>3, <1>4 DEF Tried, SameRow
<1> QED BY <1>3, <1>5, <1>6, OneMoves DEF Fine

(* A failed settlement or replay goes on as AfterFailure says. *)
LEMMA AfterFailureKeeps ==
  ASSUME LifecycleInv, NEW q \in Requests,
         pc[q] \in {"abort", "abortSettle", "finalize", "finalSettle"},
         UNCHANGED <<vars, attempted, session, available>>, AfterFailure(q),
         late' \subseteq late \cup Waiting(q)
  PROVE  ProcessInv'
<1>1. Waiting(q) \subseteq Sent(q)
  BY WaitingSent
<1>2. CASE pc[q] \in {"abort", "abortSettle"}
  <2>1. Goes(q, "finalize", registry[q], Waiting(q))
    BY <1>1, <1>2, SameEntry DEF AfterFailure, Goto, Goes
  <2> QED BY <2>1, GiveUpKeeps
<1>3. CASE pc[q] \notin {"abort", "abortSettle"}
  <2>1. Goes(q, "done", Dropped(registry[q]), Waiting(q))
    BY <1>1, <1>3 DEF AfterFailure, Goto, Record, Goes
  <2> QED BY <2>1, GiveUpKeeps
<1> QED BY <1>2, <1>3

(* Answers and failures of the compensator's and the finalizer's calls, and   *)
(* a task that is cancelled.                                                 *)
LEMMA CloseKeeps ==
  ASSUME LifecycleInv, NEW q \in Requests,
         ReplayFails(q) \/ SettleAnswered(q) \/ SettleFails(q) \/ Cancel(q)
  PROVE  ProcessInv'
<1>1. CASE ReplayFails(q) \/ SettleFails(q)
  BY <1>1, AfterFailureKeeps DEF ReplayFails, SettleFails, GiveUp
<1>2. CASE Cancel(q)
  <2>1. Goes(q, "done", Dropped(registry[q]), Waiting(q)) /\ pc[q] \notin {"idle", "done"}
    BY <1>2, WaitingSent DEF Cancel, GiveUp, Record, Goto, Goes
  <2> QED BY <1>2, <2>1, GiveUpKeeps DEF Cancel
<1>3. CASE SettleAnswered(q)
  <2> DEFINE c == registry[q].settlement
  <2>1. pc[q] \in {"abortSettle", "finalSettle"} /\ RunSettle(q, c)
    BY <1>3 DEF SettleAnswered
  <2>2. registry[q] # None /\ c \in Costs
    BY <2>1, Actor DEF Held, Stage, RegistryEntry
  <2>3. CASE Refused(q, c)
    <3>1. AfterFailure(q) /\ UNCHANGED <<attempted, late, session, available>>
      BY <1>3, <2>3 DEF SettleAnswered
    <3>2. UNCHANGED vars
      BY <2>1, <2>3 DEF RunSettle, Refused
    <3> QED BY <2>1, <3>1, <3>2, AfterFailureKeeps
  <2>4. CASE ~Refused(q, c)
    <3>1. Goes(q, "done", None, {}) /\ UNCHANGED attempted
      BY <1>3, <2>4 DEF SettleAnswered, Acknowledge, Record, Goto, Goes
    <3> QED BY <2>1, <2>2, <2>4, <3>1, SettledKeeps
  <2> QED BY <2>3, <2>4
<1> QED BY <1>1, <1>2, <1>3

-----------------------------------------------------------------------------
(* Recovery *)

(* An orphan's task is gone. *)
LEMMA OrphanPlace ==
  ASSUME LifecycleInv, NEW q \in Requests, Orphan(q)
  PROVE  /\ pc[q] = "done" /\ registry[q] \in RegistryEntry /\ registry[q] # None
         /\ ~registry[q].guard /\ session # None /\ session \in Sessions
         /\ UNCHANGED pc => pc' = [pc EXCEPT ![q] = "done"]
<1>1. pc[q] = "done"
  BY Actor DEF Orphan, Held, Stage
<1> QED BY <1>1, Actor DEF Orphan, ShapesOK

(* Recovery writes its command into an orphan's entry. *)
LEMMA RecoveryPreparedKeeps ==
  ASSUME LifecycleInv, NEW q \in Requests, Orphan(q), registry[q].settlement = None,
         NEW e \in RegistryEntry, Goes(q, "done", e, {}), UNCHANGED <<vars, attempted>>,
         e.intent, status[q] # "none", attempted[q] => NoZero(e)
  PROVE  ProcessInv'
<1>1. Stage(q) /\ Trace(q) /\ Tried(q) /\ e # None /\ registry[q] # None /\ session # None
  BY Actor, OrphanPlace, EntryIsSome
<1>2. SessionsKept /\ \A r \in Requests : SameRow(r)
  BY LedgerRests
<1>3. /\ Moves(q, {}) /\ pc'[q] = "done" /\ registry'[q] = e /\ attempted'[q] = attempted[q]
      /\ Left(q)' \subseteq Left(q) /\ session' = session
  BY <1>1, <1>2, GoesMoves DEF Places
<1>4. Held(q)' /\ Stage(q)' /\ Trace(q)'
  BY <1>1, <1>2, <1>3 DEF Held, Stage, Trace, SameRow
<1>5. Tried(q)'
  BY <1>1, <1>2, <1>3 DEF Tried, SameRow
<1> QED BY <1>3, <1>4, <1>5, OneMoves DEF Fine

(* The command recovery chooses is a cost, and no zero for what may have been *)
(* sent.                                                                     *)
LEMMA RecoveryCommandIs ==
  ASSUME NEW e
  PROVE  /\ RecoveryCommand(e) \in Costs /\ RecoveryCommand(e) # None
         /\ e.state = "NeedsUnresolved" => RecoveryCommand(e).status # "not_incurred"
<1>1. CancelUnknown \in Costs /\ CancelZero \in Costs /\ CancelUnknown.status = "unavailable"
  BY LifecycleAssumption DEF CancelUnknown
<1> QED BY <1>1, LedgerAssumption DEF RecoveryCommand

(* recovery_settlement_command with a known intent. *)
LEMMA RecoverPrepareKeeps ==
  ASSUME LifecycleInv, NEW q \in Requests, RecoverPrepare(q)
  PROVE  ProcessInv'
<1> DEFINE c == RecoveryCommand(registry[q])
           e == [registry[q] EXCEPT !.settlement = c]
<1>1. /\ registry[q] \in RegistryEntry /\ registry[q] # None /\ ~registry[q].guard
      /\ registry[q].intent /\ registry[q].settlement = None /\ Orphan(q)
      /\ Trace(q) /\ Tried(q)
  BY Actor, OrphanPlace DEF RecoverPrepare
<1>2. c \in Costs /\ c # None /\ (registry[q].state = "NeedsUnresolved" => c.status # "not_incurred")
  BY RecoveryCommandIs
<1>3. Goes(q, "done", e, {}) /\ UNCHANGED <<vars, attempted>>
  BY <1>1, OrphanPlace DEF RecoverPrepare, Record, Goes
<1> HIDE DEF c
<1>4. e \in RegistryEntry /\ e.intent /\ e.settlement = c
  BY <1>1, <1>2 DEF RegistryEntry
<1> HIDE DEF e
<1>5. status[q] # "none" /\ (attempted[q] => NoZero(e))
  BY <1>1, <1>2, <1>4 DEF Trace, Tried, NoZero
<1> QED BY <1>1, <1>3, <1>4, <1>5, RecoveryPreparedKeeps

(* Recovery looks an intent up that it does not know. *)
LEMMA RecoverLookupKeeps ==
  ASSUME LifecycleInv, NEW q \in Requests, RecoverLookup(q)
  PROVE  ProcessInv'
<1>1. /\ registry[q] \in RegistryEntry /\ registry[q] # None
      /\ ~registry[q].intent /\ registry[q].settlement = None /\ Orphan(q)
      /\ Trace(q) /\ Tried(q) /\ UNCHANGED <<vars, attempted>> /\ UNCHANGED pc
  BY Actor, OrphanPlace DEF RecoverLookup
<1>2. ~attempted[q]
  BY <1>1 DEF Tried, NoZero
<1>3. CASE status[q] = "pending"
  <2> DEFINE s == IF dispatch[q] = "dispatching" THEN "NeedsUnresolved" ELSE "NeedsSafeZero"
             d == [registry[q] EXCEPT !.intent = TRUE, !.state = s]
             e == [d EXCEPT !.settlement = RecoveryCommand(d)]
  <2>1. Goes(q, "done", e, {})
    BY <1>1, <1>3, OrphanPlace, Zenon DEF RecoverLookup, Record, Goes
  <2>2. s \in RegistryState
    BY DEF RegistryState
  <2> HIDE DEF s
  <2>3. d \in RegistryEntry /\ d.intent
    BY <1>1, <2>2 DEF RegistryEntry
  <2> HIDE DEF d
  <2>4. e \in RegistryEntry /\ e.intent
    BY <2>3, RecoveryCommandIs DEF RegistryEntry
  <2> HIDE DEF e
  <2> QED BY <1>1, <1>2, <1>3, <2>1, <2>4, RecoveryPreparedKeeps
<1>4. CASE status[q] # "pending"
  <2>1. Goes(q, "done", None, {})
    BY <1>1, <1>4, OrphanPlace DEF RecoverLookup, Acknowledge, Record, Goes
  <2>2. SessionsKept /\ \A r \in Requests : SameRow(r)
    BY <1>1, LedgerRests
  <2>3. /\ Moves(q, {}) /\ pc'[q] = "done" /\ registry'[q] = None /\ attempted'[q] = attempted[q]
        /\ Left(q)' \subseteq Left(q) /\ session' = session
    BY <1>1, <2>1, <2>2, GoesMoves DEF Places
  <2>4. Fine(q)'
    BY <1>1, <1>2, <1>4, <2>2, <2>3 DEF Fine, Held, Stage, Trace, Tried, SameRow
  <2> QED BY <2>3, <2>4, OneMoves
<1> QED BY <1>3, <1>4

(* Nothing of the process changes, and others close rows at most. *)
LEMMA RestKeeps ==
  ASSUME LifecycleInv, SessionsKept, \A r \in Requests : OthersRow(r),
         UNCHANGED <<pc, registry, attempted, late, session>>, available' \in BOOLEAN
  PROVE  ProcessInv'
<1>1. ShapesOK /\ late \subseteq Transaction /\ SessionInv
  BY InvByRequest DEF LifecycleInv
<1>2. ShapesOK' /\ (late \subseteq Transaction)'
  BY <1>1 DEF ShapesOK
<1>3. SessionInv'
  BY <1>1, <1>2 DEF SessionInv, SessionsKept, ShapesOK, Left, Transaction
<1>4. \A r \in Requests : Fine(r)'
  BY <1>2, Bystander
<1> QED BY <1>2, <1>3, <1>4, InvByRequestNext

(* Recovery's settlement is answered, or its answer is lost. *)
LEMMA RecoverSettleKeeps ==
  ASSUME LifecycleInv, NEW q \in Requests, RecoverSettle(q) \/ RecoverSettleFails(q)
  PROVE  ProcessInv'
<1> DEFINE c == registry[q].settlement
<1>1. /\ Orphan(q) /\ c # None /\ registry[q] \in RegistryEntry /\ registry[q] # None
      /\ pc[q] = "done" /\ pc' = [pc EXCEPT ![q] = "done"] /\ ~registry[q].guard
      /\ session # None /\ session \in Sessions
  BY OrphanPlace DEF RecoverSettle, RecoverSettleFails
<1>2. c \in Costs
  BY <1>1 DEF RegistryEntry
<1>3. CASE RecoverSettle(q) /\ ~Refused(q, c)
  <2>1. Goes(q, "done", None, {}) /\ UNCHANGED attempted /\ RunSettle(q, c)
    BY <1>1, <1>3 DEF RecoverSettle, Acknowledge, Record, Goes
  <2> QED BY <1>1, <1>2, <1>3, <2>1, SettledKeeps
<1>4. CASE RecoverSettle(q) /\ Refused(q, c)
  <2>1. UNCHANGED vars
    BY <1>4 DEF RecoverSettle, RunSettle, Refused
  <2>2. SessionsKept /\ \A r \in Requests : OthersRow(r)
    BY <2>1, LedgerRests DEF OthersRow
  <2>3. UNCHANGED <<pc, registry, attempted, late, session>> /\ available' \in BOOLEAN
    BY <1>4, Actor DEF RecoverSettle, ShapesOK
  <2> QED BY <2>2, <2>3, RestKeeps
<1>5. CASE RecoverSettleFails(q)
  <2> DEFINE X == {Tx("settle", q, c)}
  <2>1. X \subseteq Sent(q) /\ \A t \in X : t.op = "settle" /\ t.command = c
    BY <1>1, <1>2 DEF Tx, Sent, Transaction
  <2>2. Goes(q, "done", registry[q], X) /\ UNCHANGED <<vars, attempted>>
    BY <1>1, <1>5, <2>1, SameEntry DEF RecoverSettleFails, Goes
  <2> HIDE DEF X
  <2>3. SessionsKept /\ \A r \in Requests : SameRow(r)
    BY <2>2, LedgerRests
  <2>4. /\ Moves(q, X) /\ pc'[q] = "done" /\ registry'[q] = registry[q] /\ attempted'[q] = attempted[q]
        /\ Left(q)' \subseteq Left(q) \cup X /\ session' = session
    BY <1>1, <2>2, <2>3, GoesMoves DEF Places
  <2>5. Stage(q) /\ Trace(q) /\ Tried(q)
    BY Actor
  <2>6. Held(q)' /\ Stage(q)' /\ Trace(q)'
    BY <1>1, <2>1, <2>3, <2>4, <2>5 DEF Held, Stage, Trace, SameRow
  <2>7. Tried(q)'
    BY <1>1, <2>1, <2>3, <2>4, <2>5 DEF Tried, NoZero, SameRow
  <2> QED BY <1>1, <2>4, <2>6, <2>7, OneMoves DEF Fine
<1> QED BY <1>3, <1>4, <1>5

-----------------------------------------------------------------------------
(* Late commits, the owner session, the end of the process *)

(* A transaction given up on commits after all. *)
LEMMA LateKeeps ==
  ASSUME LifecycleInv, NEW t \in late, Late(t)
  PROVE  ProcessInv'
<1> DEFINE q == t.request
<1>1. t \in Transaction /\ q \in Requests /\ t.session \in Sessions
        /\ (t.op = "settle" => t.command \in Costs)
  BY InvByRequest DEF LifecycleInv, SessionInv, Transaction
<1>2. t \in Left(q)
  BY DEF Left
<1> HIDE DEF q
<1>3. /\ Held(q) /\ Stage(q) /\ Trace(q) /\ Tried(q) /\ TypeOK /\ ShapesOK
      /\ registry[q] # None => t.session = session /\ session # None
  BY <1>1, <1>2, Actor
<1>4. pc[q] \notin {"idle", "create", "mark", "dispatched"}
  BY <1>2, <1>3 DEF Stage
<1>5. Goes(q, pc[q], registry[q], {}) /\ UNCHANGED attempted
  BY <1>1, <1>3 DEF Late, Goes, ShapesOK
<1>6. ASSUME SessionsKept, \A r \in Requests \ {q} : SameRow(r), Trace(q)', Tried(q)'
      PROVE  ProcessInv'
  <2>1. pc[q] \in Places /\ registry[q] \in RegistryEntry \cup {None}
    BY <1>1, <1>3 DEF ShapesOK
  <2>2. Moves(q, {}) /\ pc'[q] = pc[q] /\ registry'[q] = registry[q]
    BY <1>1, <1>3, <1>5, <1>6, <2>1, GoesMoves
  <2>3. Held(q)' /\ Stage(q)'
    BY <1>3, <1>4, <2>2 DEF Held, Stage
  <2> QED BY <1>1, <1>6, <2>2, <2>3, OneMoves DEF Fine
<1>7. /\ UNCHANGED <<registry, attempted, session, pc>>
      /\ \A x \in Left(q)' : x \in Left(q)
  BY DEF Late, Left
<1>8. CASE t.op = "create" /\ CreateIntent(q, t.session)
  <2>1. /\ SessionsKept /\ \A r \in Requests \ {q} : SameRow(r)
        /\ status[q] = "none" /\ status'[q] = "pending" /\ dispatch'[q] = "prepared"
        /\ owner'[q] = t.session
    BY <1>1, <1>3, <1>8, CreateRow
  <2>2. Trace(q)' /\ Tried(q)'
    BY <1>3, <1>7, <2>1 DEF Trace, Tried
  <2> QED BY <1>6, <2>1, <2>2
<1>9. CASE t.op = "mark" /\ MarkDispatching(q)
  <2>1. /\ SessionsKept /\ \A r \in Requests \ {q} : SameRow(r)
        /\ status[q] = "pending" /\ dispatch[q] = "prepared" /\ status'[q] = "pending"
        /\ owner'[q] = owner[q]
    BY <1>1, <1>3, <1>9, MarkRow
  <2>2. Trace(q)' /\ Tried(q)'
    BY <1>2, <1>3, <1>7, <1>9, <2>1 DEF Trace, Tried
  <2> QED BY <1>6, <2>1, <2>2
<1>10. CASE t.op = "settle" /\ Settle(q, t.command)
  <2>1. /\ SessionsKept /\ \A r \in Requests \ {q} : SameRow(r)
        /\ dispatch'[q] = dispatch[q] /\ owner'[q] = owner[q]
        /\ status[q] \in {"pending", "unresolved"} /\ status'[q] \in {"unresolved", "settled"}
        /\ status'[q] = "settled" => terminal'[q] = t.command
    BY <1>1, <1>3, <1>10, SettleRow
  <2>2. Trace(q)' /\ Tried(q)'
    BY <1>2, <1>3, <1>7, <1>10, <2>1 DEF Trace, Tried
  <2> QED BY <1>6, <2>1, <2>2
<1> QED BY <1>8, <1>9, <1>10 DEF Late, q

(* A session that registers was known to nobody, and finds an empty registry. *)
LEMMA RegisterKeeps ==
  ASSUME LifecycleInv, NEW s \in Sessions, Register(s)
  PROVE  ProcessInv'
<1>1. ShapesOK /\ late \subseteq Transaction /\ SessionInv /\ RowInv /\ TypeOK
        /\ \A r \in Requests : Fine(r)
  BY InvByRequest DEF LifecycleInv, LedgerInv
<1>2. \A r \in Requests : registry[r] = None
  BY <1>1 DEF Register, MayReplace, Active, SessionInv
<1>3. ~Known(s) /\ UNCHANGED <<status, dispatch, owner, terminal>> /\ SessionsKept /\ Known(s)'
  BY <1>1, LedgerAssumption
  DEF Register, RegisterOwner, SessionsKept, Known, ledgerVars, TypeOK, OwnerTypeOK
<1>4. UNCHANGED <<pc, registry, attempted, late>> /\ session' = s /\ available' = TRUE
  BY DEF Register
<1>5. ShapesOK' /\ (late \subseteq Transaction)'
  BY <1>1, <1>4 DEF ShapesOK
<1>6. SessionInv'
  BY <1>1, <1>2, <1>3, <1>4 DEF SessionInv, SessionsKept, Transaction
<1>7. ASSUME NEW r \in Requests PROVE Fine(r)'
  <2>1. Left(r)' = Left(r)
    BY <1>4 DEF Left
  <2>2. status[r] = "pending" => owner[r] # s
    BY <1>1, <1>3 DEF RowInv
  <2>3. Fine(r) /\ registry[r] = None
    BY <1>1, <1>2
  <2>4. Held(r)' /\ Stage(r)' /\ Tried(r)'
    BY <1>3, <1>4, <2>1, <2>3 DEF Fine, Held, Stage, Tried
  <2>5. Trace(r)'
    BY <1>3, <1>4, <2>1, <2>2, <2>3 DEF Fine, Trace
  <2> QED BY <2>4, <2>5 DEF Fine
<1> QED BY <1>5, <1>6, <1>7, InvByRequestNext

(* The process ends: everything that was waited for may still commit. *)
LEMMA ExitKeeps ==
  ASSUME LifecycleInv, Exit
  PROVE  ProcessInv'
<1>1. ShapesOK /\ late \subseteq Transaction /\ SessionInv /\ RowInv /\ TypeOK
        /\ \A r \in Requests : Fine(r)
  BY InvByRequest DEF LifecycleInv, LedgerInv
<1>2. UNCHANGED <<status, dispatch, owner, terminal>> /\ SessionsKept
  BY DEF Exit, StopOwner, SessionsKept, Known, vars, ledgerVars, ownerVars
<1>3. /\ registry' = [r \in Requests |-> None] /\ session' = None /\ available' = FALSE
      /\ pc' = [r \in Requests |-> IF pc[r] = "idle" THEN "idle" ELSE "done"] /\ UNCHANGED attempted
  BY DEF Exit
<1>4. ASSUME NEW t \in late', t \notin late
      PROVE  \E r \in Requests : pc[r] \notin {"idle", "done"} /\ t \in Waiting(r)
  <2>1. PICK r \in Active : registry[r].guard /\ t \in Waiting(r)
    BY <1>4 DEF Exit
  <2> QED BY <1>1, <2>1 DEF Active, Fine, Held, Stage, Waiting
<1>5. ASSUME NEW t \in late', t \notin late
      PROVE  \E r \in Requests : /\ pc[r] \notin {"idle", "done"} /\ t \in Waiting(r)
                                 /\ t \in Sent(r) /\ session \in Sessions /\ session # None
  BY <1>4, <1>5, WaitingSent
<1>6. (late \subseteq Transaction)' /\ ShapesOK'
  BY <1>1, <1>3, <1>5 DEF Sent, ShapesOK, Places
<1>7. SessionInv'
  <2>1. ASSUME NEW t \in late' PROVE Known(t.session) /\ (t.op = "settle" => t.command \in Costs)
    BY <1>1, <1>5, <2>1 DEF SessionInv, Sent
  <2> QED BY <1>2, <1>3, <1>6, <2>1 DEF SessionInv, SessionsKept, Transaction
<1>8. ASSUME NEW r \in Requests PROVE Fine(r)'
  <2>1. pc'[r] \in {"idle", "done"} /\ (pc'[r] = "idle" <=> pc[r] = "idle") /\ registry'[r] = None
    BY <1>1, <1>3 DEF ShapesOK
  <2>2. ASSUME NEW t \in Left(r)', t \notin Left(r)
        PROVE  pc[r] \notin {"idle", "done"} /\ t \in Waiting(r)
    <3>1. t \in late' /\ t.request = r /\ t \notin late
      BY <2>2 DEF Left
    <3> QED BY <1>5, <3>1 DEF Sent
  <2>3. Fine(r) /\ (registry[r] # None => registry[r] \in RegistryEntry)
    BY <1>1 DEF ShapesOK
  <2>4. Held(r)' /\ Stage(r)'
    BY <1>2, <1>3, <2>1, <2>2, <2>3 DEF Fine, Held, Stage
  <2>5. \A t \in Left(r)' : t.op = "mark" => status[r] # "none"
    BY <2>2, <2>3, WaitingOps DEF Fine, Stage, Trace, Held
  <2>6. status[r] = "pending" => owner[r] # None
    BY <1>1, LedgerAssumption DEF RowInv
  <2>7. Trace(r)'
    BY <1>2, <1>3, <2>1, <2>5, <2>6 DEF Trace
  <2>8. attempted[r] => \A t \in Left(r)' : t.op = "settle" => t.command.status # "not_incurred"
    BY <2>2, <2>3, WaitingOps DEF Fine, Stage, Tried, NoZero, Held
  <2>9. Tried(r)'
    BY <1>2, <1>3, <2>1, <2>3, <2>8 DEF Fine, Tried, Stage
  <2> QED BY <2>4, <2>7, <2>9 DEF Fine
<1> QED BY <1>6, <1>7, <1>8, InvByRequestNext

-----------------------------------------------------------------------------
(* Every database call is a transaction of the ledger *)

(* settle, whatever its answer, is a step of the ledger or none. *)
LEMMA RunSettleStep ==
  ASSUME NEW q \in Requests, NEW c \in Costs, RunSettle(q, c)
  PROVE  [Next]_vars
<1>1. CASE Settle(q, c)
  BY <1>1 DEF Next, Serve
<1>2. CASE ~Settle(q, c)
  BY <1>2 DEF RunSettle
<1> QED BY <1>1, <1>2

(* A step of a task is a step of the ledger or none. *)
LEMMA TaskStep ==
  ASSUME LifecycleInv, NEW q \in Requests,
         Begin(q) \/ Progress(q) \/ Cancel(q) \/ Recover(q) \/ RecoverSettleFails(q)
  PROVE  [Next]_vars
<1>1. CASE CreateCreated(q) \/ ReplayCreate(q)
  <2>1. session \in Sessions
    BY <1>1, WaitingSent DEF CreateCreated, ReplayCreate
  <2> QED BY <1>1, <2>1 DEF CreateCreated, ReplayCreate, Next, Serve
<1>2. CASE MarkMarked(q)
  BY <1>2 DEF MarkMarked, Next, Serve
<1>3. CASE SettleAnswered(q) \/ RecoverSettle(q)
  <2>1. registry[q].settlement \in Costs
    BY <1>3, Actor, OrphanPlace DEF SettleAnswered, RecoverSettle, Held, Stage, RegistryEntry
  <2> QED BY <1>3, <2>1, RunSettleStep DEF SettleAnswered, RecoverSettle
<1>4. CASE UNCHANGED vars
  BY <1>4
<1> QED
  BY <1>1, <1>2, <1>3, <1>4, Zenon
  DEF Begin, Progress, Cancel, Recover, RecoverSettleFails, CreateNothing, CreateUnknown, MarkFails,
      Attempt, EndUnattempted, ReplayPaused, ReplayFails, PrepareAbort, PrepareFinal, SettleFails,
      RecoverLookup, RecoverPrepare

(* So is every other step. *)
LEMMA LedgerStep ==
  ASSUME LifecycleInv, [LifecycleNext]_allVars
  PROVE  [Next]_vars
<1>1. ASSUME NEW s \in Sessions, Register(s) PROVE [Next]_vars
  BY <1>1 DEF Register, Next, Own
<1>2. CASE Heartbeat \/ HeartbeatFails \/ Exit
  <2>1. session \in Sessions
    BY <1>2 DEF LifecycleInv, ProcessInv, ProcessTypeOK, Heartbeat, HeartbeatFails, Exit
  <2> QED BY <1>2, <2>1 DEF Heartbeat, HeartbeatFails, Exit, Next, Own
<1>3. ASSUME NEW t \in late, Late(t) PROVE [Next]_vars
  <2>1. t.request \in Requests /\ t.session \in Sessions /\ (t.op = "settle" => t.command \in Costs)
    BY InvByRequest DEF LifecycleInv, SessionInv, Transaction
  <2> QED BY <1>3, <2>1 DEF Late, Next, Serve
<1>4. CASE Environment
  BY <1>4 DEF Environment, Next, Serve
<1>5. CASE UNCHANGED allVars
  BY <1>5 DEF allVars
<1> QED BY <1>1, <1>2, <1>3, <1>4, <1>5, TaskStep DEF LifecycleNext

-----------------------------------------------------------------------------
(* The invariant *)

(* Nothing has happened yet. *)
LEMMA LifecycleInitInv == LifecycleInit => LifecycleInv
<1> SUFFICES ASSUME LifecycleInit PROVE LifecycleInv
  OBVIOUS
<1>1. LedgerInv
  BY InitInv DEF LifecycleInit
<1>2. ShapesOK /\ late \subseteq Transaction /\ SessionInv
  BY DEF LifecycleInit, ShapesOK, Places, SessionInv
<1>3. ASSUME NEW r \in Requests PROVE Fine(r)
  BY DEF LifecycleInit, Init, Fine, Held, Stage, Trace, Tried, Left
<1> QED BY <1>1, <1>2, <1>3, InvByRequest DEF LifecycleInv

(* Every step of the process, of what it left behind and of the others keeps *)
(* the invariant.                                                            *)
LEMMA LifecycleNextInv ==
  ASSUME LifecycleInv, [LifecycleNext]_allVars
  PROVE  LifecycleInv'
<1>1. LedgerInv'
  BY LedgerStep, NextInv DEF LifecycleInv
<1>2. ASSUME NEW q \in Requests,
             Begin(q) \/ Progress(q) \/ Cancel(q) \/ Recover(q) \/ RecoverSettleFails(q)
      PROVE  ProcessInv'
  <2>1. CASE Begin(q) \/ Cancel(q) \/ Recover(q) \/ RecoverSettleFails(q)
    BY <2>1, BeginKeeps, CloseKeeps, RecoverLookupKeeps, RecoverPrepareKeeps, RecoverSettleKeeps
    DEF Recover
  <2>2. CASE Progress(q)
    BY <2>2, CreateCreatedKeeps, CreateNothingKeeps, HookGivesUpKeeps, MarkMarkedKeeps, AttemptKeeps,
       ZeroChosenKeeps, PrepareFinalKeeps, CloseKeeps
    DEF Progress
  <2> QED BY <1>2, <2>1, <2>2
<1>3. ASSUME Heartbeat \/ HeartbeatFails PROVE ProcessInv'
  <2>1. /\ UNCHANGED <<status, dispatch, owner, terminal>> /\ SessionsKept
        /\ UNCHANGED <<pc, registry, attempted, late, session>> /\ available' \in BOOLEAN
    <3>1. TypeOK /\ available \in BOOLEAN /\ session \in Sessions
      BY <1>3 DEF LifecycleInv, LedgerInv, ProcessInv, ProcessTypeOK, Heartbeat, HeartbeatFails
    <3>2. CASE Heartbeat
      BY <3>1, <3>2, LedgerAssumption
      DEF Heartbeat, HeartbeatOwner, SessionsKept, Known, processVars, ledgerVars, TypeOK, OwnerTypeOK
    <3>3. CASE HeartbeatFails
      BY <3>1, <3>3 DEF HeartbeatFails, SessionsKept, Known, vars, ledgerVars, ownerVars
    <3> QED BY <1>3, <3>2, <3>3
  <2>2. \A r \in Requests : OthersRow(r)
    BY <2>1 DEF OthersRow, SameRow
  <2> QED BY <2>1, <2>2, RestKeeps
<1>4. ASSUME Environment \/ UNCHANGED allVars PROVE ProcessInv'
  <2>1. UNCHANGED <<pc, registry, attempted, late, session>> /\ available' \in BOOLEAN
    BY <1>4 DEF Environment, allVars, processVars, LifecycleInv, ProcessInv, ProcessTypeOK
  <2>2. SessionsKept /\ \A r \in Requests : OthersRow(r)
    BY <1>4, EnvironmentRows, LedgerRests DEF allVars, OthersRow, LifecycleInv, LedgerInv
  <2> QED BY <2>1, <2>2, RestKeeps
<1>5. ProcessInv'
  BY <1>2, <1>3, <1>4, RegisterKeeps, ExitKeeps, LateKeeps DEF LifecycleNext
<1> QED BY <1>1, <1>5 DEF LifecycleInv

(* The inductive invariant of process and ledger together. *)
THEOREM LifecycleInvariant == LifecycleSpec => []LifecycleInv
  BY LifecycleInitInv, LifecycleNextInv, PTL DEF LifecycleSpec

(* A request that reached its upstream was durably marked first and is never *)
(* settled as free; what may have reached it is in the registry of its       *)
(* session; and no entry is of another session (run_dispatch_hooks,          *)
(* BudgetAbortCompensator, recover_budget_registry_once), whatever answers   *)
(* are lost, whatever commits late and wherever the process ends.            *)
THEOREM AttemptsAccounted == LifecycleSpec => []UpstreamIsAccounted
<1>1. LifecycleInv => UpstreamIsAccounted
  BY DEF LifecycleInv, ProcessInv, UpstreamIsAccounted, Trace, Tried
<1> QED BY <1>1, LifecycleInvariant, PTL

(* The process does nothing to the ledger but its transactions: hooks,       *)
(* compensation, recovery, late commits and heartbeats are steps of          *)
(* PgBudgetStore, with sessions and commands it accepts.                     *)
THEOREM LifecycleImplementsLedger == LifecycleSpec => Spec
<1>1. LifecycleInit => Init
  BY DEF LifecycleInit
<1>2. LifecycleInv /\ [LifecycleNext]_allVars => [Next]_vars
  BY LedgerStep
<1> QED BY <1>1, <1>2, LifecycleInvariant, PTL DEF LifecycleSpec, Spec

(* So the gateway process keeps the promise of a budget account: whatever it *)
(* retries, gives up or leaves to recovery, a request is charged once.       *)
THEOREM ProcessKeepsAccount == LifecycleSpec => ImplementsAccount
  BY LifecycleImplementsLedger, LedgerImplementsAccount, PTL
=============================================================================
