-------------------------- MODULE BudgetLifecycle ---------------------------
(***************************************************************************)
(* One gateway process in front of the budget ledger: the dispatch hook,   *)
(* the abort compensator and the finalizer of                              *)
(* crates/kong-ai/src/enforcement/budget.rs, the in-process registry of    *)
(* active intents (budget_registry.rs) with its recovery, and the owner    *)
(* heartbeat of AiBudgetOwnerBgService (kong-server/src/main.rs).  Other   *)
(* processes appear through what they do to the ledger: stale recovery,    *)
(* checkpoints, administration.                                            *)
(*                                                                         *)
(* A call of the database is answered, or its caller gives up (timeout,    *)
(* lost connection, COMMIT without an answer).  A transaction given up on  *)
(* is in `late': it may have committed, may still commit at any later      *)
(* time, or never.                                                         *)
(***************************************************************************)
EXTENDS BudgetLedger

CONSTANTS
  FactCosts,    \* the costs the usage fact of an attempted request may give
  MaxEntries,   \* capacity of the registry
  MayCancel     \* whether request tasks may be cancelled at an await

Zero(reason) == [status |-> "not_incurred", amount |-> 0, reason |-> reason]
AbortZero == Zero("upstream_dispatch_aborted")
NoAttemptZero == Zero("upstream_not_attempted")
CancelZero == Zero("request_lifecycle_cancelled_before_dispatch")
CancelUnknown == [status |-> "unavailable", amount |-> 0,
                  reason |-> "request_lifecycle_cancelled_after_dispatch"]
PriceMismatch == [status |-> "unavailable", amount |-> 0,
                  reason |-> "usage_fact_pricing_snapshot_mismatch"]

RegistryState ==
  {"Preparing", "ActivePrepared", "DispatchCommitPending", "ActiveDispatching",
   "RetryWithFact", "NeedsIntentLookup", "NeedsSafeZero", "NeedsUnresolved"}

(* ActiveBudgetIntentData; intent says whether the intent's id is known. The *)
(* request's own context holds the same intent and settlement command.       *)
RegistryEntry == [state : RegistryState, intent : BOOLEAN,
                  settlement : Costs \cup {None}, guard : BOOLEAN]

Transaction == [op : {"create", "mark", "settle"}, request : Requests,
                session : Sessions, command : Costs \cup {None}]

ASSUME LifecycleAssumption ==
  /\ FactCosts \cup {AbortZero, NoAttemptZero, CancelZero, CancelUnknown, PriceMismatch} \subseteq Costs
  /\ \A c \in FactCosts : c.status \in {"calculated", "unavailable"}
  /\ MaxEntries \in Nat \ {0} /\ MayCancel \in BOOLEAN
  /\ None \notin RegistryEntry

VARIABLES
  pc,         \* where the task of a request is
  registry,   \* entries: request -> ActiveBudgetIntentData
  attempted,  \* lifecycle.upstream_attempted
  late,       \* transactions whose callers gave up
  session,    \* the owner session of the installed runtime; None: no process
  available   \* owner_available

processVars == <<pc, registry, attempted, late, session, available>>
allVars == <<vars, processVars>>

Places == {"idle", "create", "mark", "dispatched", "abort", "abortSettle",
           "finalize", "finalSettle", "done"}

(* The process holds what its types admit, and a running task holds its     *)
(* entry of the registry: nobody else gives it away.                         *)
ProcessTypeOK ==
  /\ pc \in [Requests -> Places]
  /\ registry \in [Requests -> RegistryEntry \cup {None}]
  /\ \A r \in Requests : pc[r] \notin {"idle", "done"} => registry[r] # None /\ registry[r].guard
  /\ attempted \in [Requests -> BOOLEAN]
  /\ late \subseteq Transaction
  /\ session \in Sessions \cup {None}
  /\ available \in BOOLEAN

LifecycleInit ==
  /\ Init
  /\ pc = [r \in Requests |-> "idle"]
  /\ registry = [r \in Requests |-> None]
  /\ attempted = [r \in Requests |-> FALSE]
  /\ late = {}
  /\ session = None
  /\ available = FALSE

-----------------------------------------------------------------------------

Active == {r \in Requests : registry[r] # None}

Goto(r, place) == pc' = [pc EXCEPT ![r] = place]

Record(r, entry) == registry' = [registry EXCEPT ![r] = entry]

Acknowledge(r) == Record(r, None)

Tx(op, r, c) == [op |-> op, request |-> r, session |-> session, command |-> c]

(* What the task of r is waiting for. *)
Waiting(r) ==
  CASE pc[r] = "create" -> {Tx("create", r, None)}
    [] pc[r] \in {"abort", "finalize"} ->
         IF registry[r].intent THEN {} ELSE {Tx("create", r, None)}
    [] pc[r] = "mark" -> {Tx("mark", r, None)}
    [] pc[r] \in {"abortSettle", "finalSettle"} -> {Tx("settle", r, registry[r].settlement)}
    [] OTHER -> {}

GiveUp(r) == late' = late \cup Waiting(r)

Dropped_Free(entry) ==
  [entry EXCEPT
    !.guard = FALSE,
    !.state = CASE @ = "Preparing" -> "NeedsIntentLookup"
                [] @ \in {"ActivePrepared", "DispatchCommitPending", "ActiveDispatching"} ->
                     "NeedsSafeZero"
                [] OTHER -> @]

(* guard_dropped: the registry keeps what recovery has to do. *)
Dropped(entry) ==
  [entry EXCEPT
    !.guard = FALSE,
    !.state = CASE @ = "Preparing" -> "NeedsIntentLookup"
                [] @ = "ActivePrepared" -> "NeedsSafeZero"
                [] @ \in {"DispatchCommitPending", "ActiveDispatching"} -> "NeedsUnresolved"
                [] OTHER -> @]

(* create_intent answered Paused: the account has no limit. *)
Paused(r) ==
  /\ presence[KeyOf[r]] = "present"
  /\ status[r] = "none"
  /\ settings = ConfigOf[session]
  /\ unresolved[KeyOf[r]] = 0 /\ pending[KeyOf[r]] = 0
  /\ tail[KeyOf[r]] < settings
  /\ limit[KeyOf[r]] = None

(* settle answered: the transaction ran, or changed nothing. *)
RunSettle(r, c) ==
  IF SettleDisposition(r, c) \in {"applied", "marked_unresolved", "overflow"}
  THEN Settle(r, c)
  ELSE UNCHANGED vars

Refused(r, c) == SettleDisposition(r, c) = "corrupt"

-----------------------------------------------------------------------------
(* The dispatch hook *)

Begin(r) ==
  /\ pc[r] = "idle"
  /\ session # None /\ available
  /\ Cardinality(Active) < MaxEntries
  /\ Record(r, [state |-> "Preparing", intent |-> FALSE, settlement |-> None, guard |-> TRUE])
  /\ Goto(r, "create")
  /\ UNCHANGED <<vars, attempted, late, session, available>>

CreateCreated(r) ==
  /\ pc[r] = "create"
  /\ CreateIntent(r, session)
  /\ Record(r, [registry[r] EXCEPT !.state = "DispatchCommitPending", !.intent = TRUE])
  /\ Goto(r, "mark")
  /\ UNCHANGED <<attempted, late, session, available>>

(* The account is paused, or the answer is an error other than               *)
(* OutcomeUnknown: nothing was written, and the permit is released.          *)
CreateNothing(r) ==
  /\ pc[r] = "create"
  /\ Acknowledge(r)
  /\ Goto(r, "done")
  /\ UNCHANGED <<vars, attempted, late, session, available>>

CreateUnknown(r) ==
  /\ pc[r] = "create"
  /\ GiveUp(r)
  /\ Goto(r, "abort")
  /\ UNCHANGED <<vars, registry, attempted, session, available>>

MarkMarked(r) ==
  /\ pc[r] = "mark"
  /\ MarkDispatching(r)
  /\ Record(r, [registry[r] EXCEPT !.state = "ActiveDispatching"])
  /\ Goto(r, "dispatched")
  /\ UNCHANGED <<attempted, late, session, available>>

MarkFails_Releases(r) ==
  /\ pc[r] = "mark"
  /\ GiveUp(r)
  /\ Acknowledge(r)
  /\ Goto(r, "done")
  /\ UNCHANGED <<vars, attempted, session, available>>

MarkFails(r) ==
  /\ pc[r] = "mark"
  /\ GiveUp(r)
  /\ Goto(r, "abort")
  /\ UNCHANGED <<vars, registry, attempted, session, available>>

(* After the hook: the upstream is tried (upstream_peer), another critical   *)
(* hook fails, or the request ends without an attempt.                       *)
Attempt(r) ==
  /\ pc[r] = "dispatched"
  /\ attempted' = [attempted EXCEPT ![r] = TRUE]
  /\ Goto(r, "finalize")
  /\ UNCHANGED <<vars, registry, late, session, available>>

EndUnattempted(r) ==
  /\ pc[r] = "dispatched"
  /\ Goto(r, "abort") \/ Goto(r, "finalize")
  /\ UNCHANGED <<vars, registry, attempted, late, session, available>>

-----------------------------------------------------------------------------
(* The abort compensator and the finalizer *)

AfterFailure(r) ==
  IF pc[r] \in {"abort", "abortSettle"}
  THEN Goto(r, "finalize") /\ UNCHANGED registry
  ELSE Goto(r, "done") /\ Record(r, Dropped(registry[r]))

NextSettle(r) == Goto(r, IF pc[r] = "abort" THEN "abortSettle" ELSE "finalSettle")

SafeZero(entry) ==
  [entry EXCEPT !.state = "NeedsSafeZero", !.intent = TRUE, !.settlement = AbortZero]

(* ensure_intent_for_safe_zero: the outcome of the create is unknown, so it  *)
(* is issued again, and the intent it names is settled at nothing.           *)
ReplayCreate(r) ==
  /\ pc[r] \in {"abort", "finalize"}
  /\ ~registry[r].intent
  /\ \/ status[r] # "none" /\ presence[KeyOf[r]] = "present" /\ UNCHANGED vars
     \/ CreateIntent(r, session)
  /\ Record(r, SafeZero(registry[r]))
  /\ NextSettle(r)
  /\ UNCHANGED <<attempted, late, session, available>>

ReplayPaused(r) ==
  /\ pc[r] \in {"abort", "finalize"}
  /\ ~registry[r].intent
  /\ Paused(r)
  /\ Acknowledge(r)
  /\ Goto(r, "done")
  /\ UNCHANGED <<vars, attempted, late, session, available>>

ReplayFails(r) ==
  /\ pc[r] \in {"abort", "finalize"}
  /\ ~registry[r].intent
  /\ GiveUp(r)
  /\ AfterFailure(r)
  /\ UNCHANGED <<vars, attempted, session, available>>

(* prepare_safe_zero_settlement *)
PrepareAbort(r) ==
  /\ pc[r] = "abort"
  /\ registry[r].intent
  /\ Record(r, SafeZero(registry[r]))
  /\ NextSettle(r)
  /\ UNCHANGED <<vars, attempted, late, session, available>>

(* cost_from_fact.  Without an upstream attempt the fact carries no price, so *)
(* it never agrees with the intent's; only a request without a fact is free.  *)
CostFromFact(r) == IF attempted[r] THEN FactCosts ELSE {NoAttemptZero, PriceMismatch}

FinalCommands_Recomputed(r) == CostFromFact(r)

(* prepare_final_settlement: a command that was chosen before is kept. *)
FinalCommands(r) ==
  IF registry[r].settlement # None THEN {registry[r].settlement} ELSE CostFromFact(r)

PrepareFinal(r) ==
  /\ pc[r] = "finalize"
  /\ registry[r].intent
  /\ \E c \in FinalCommands(r) :
       Record(r, [registry[r] EXCEPT
                    !.state = IF @ = "ActiveDispatching" THEN "RetryWithFact" ELSE @,
                    !.settlement = c])
  /\ NextSettle(r)
  /\ UNCHANGED <<vars, attempted, late, session, available>>

SettleAnswered(r) ==
  LET c == registry[r].settlement IN
  /\ pc[r] \in {"abortSettle", "finalSettle"}
  /\ RunSettle(r, c)
  /\ IF Refused(r, c) THEN AfterFailure(r) ELSE Acknowledge(r) /\ Goto(r, "done")
  /\ UNCHANGED <<attempted, late, session, available>>

SettleFails(r) ==
  /\ pc[r] \in {"abortSettle", "finalSettle"}
  /\ GiveUp(r)
  /\ AfterFailure(r)
  /\ UNCHANGED <<vars, attempted, session, available>>

(* The task is cancelled; the guard's Drop leaves the entry to recovery. *)
Cancel(r) ==
  /\ MayCancel
  /\ pc[r] \notin {"idle", "done"}
  /\ GiveUp(r)
  /\ Record(r, Dropped(registry[r]))
  /\ Goto(r, "done")
  /\ UNCHANGED <<vars, attempted, session, available>>

-----------------------------------------------------------------------------
(* Recovery of entries whose guard is gone: recover_budget_registry_once *)

Orphan(r) == registry[r] # None /\ ~registry[r].guard

RecoveryCommand(entry) ==
  IF entry.state = "NeedsUnresolved" THEN CancelUnknown ELSE CancelZero

(* recovery_settlement_command without an intent id: look the intent up. *)
RecoverLookup(r) ==
  /\ Orphan(r)
  /\ registry[r].settlement = None /\ ~registry[r].intent
  /\ IF status[r] = "pending"
     THEN LET e == [registry[r] EXCEPT
                      !.intent = TRUE,
                      !.state = IF dispatch[r] = "dispatching" THEN "NeedsUnresolved"
                                                               ELSE "NeedsSafeZero"]
          IN  Record(r, [e EXCEPT !.settlement = RecoveryCommand(e)])
     ELSE Acknowledge(r)
  /\ UNCHANGED <<vars, pc, attempted, late, session, available>>

RecoverPrepare(r) ==
  /\ Orphan(r)
  /\ registry[r].settlement = None /\ registry[r].intent
  /\ Record(r, [registry[r] EXCEPT !.settlement = RecoveryCommand(registry[r])])
  /\ UNCHANGED <<vars, pc, attempted, late, session, available>>

RecoverSettle_NoRetry(r) ==
  /\ Orphan(r)
  /\ registry[r].settlement # None
  /\ registry[r].state # "RetryWithFact"
  /\ RunSettle(r, registry[r].settlement)
  /\ IF Refused(r, registry[r].settlement) THEN UNCHANGED registry ELSE Acknowledge(r)
  /\ UNCHANGED <<pc, attempted, late, session, available>>

RecoverSettle(r) ==
  /\ Orphan(r)
  /\ registry[r].settlement # None
  /\ RunSettle(r, registry[r].settlement)
  /\ IF Refused(r, registry[r].settlement) THEN UNCHANGED registry ELSE Acknowledge(r)
  /\ UNCHANGED <<pc, attempted, late, session, available>>

RecoverSettleFails(r) ==
  /\ Orphan(r)
  /\ registry[r].settlement # None
  /\ late' = late \cup {Tx("settle", r, registry[r].settlement)}
  /\ UNCHANGED <<vars, pc, registry, attempted, session, available>>

-----------------------------------------------------------------------------
(* The owner session and the process *)

MayReplace_AnyTime == session = None \/ ~available

(* ensure_owner_runtime: a fenced session is replaced once its registry is   *)
(* empty.                                                                    *)
MayReplace == session = None \/ (~available /\ Active = {})

Register(s) ==
  /\ MayReplace
  /\ RegisterOwner(s)
  /\ session' = s
  /\ available' = TRUE
  /\ UNCHANGED <<pc, registry, attempted, late>>

Heartbeat ==
  /\ session # None /\ available
  /\ HeartbeatOwner(session)
  /\ UNCHANGED processVars

(* A session id is left for the next registration (bound). *)
Spare == \E s \in Sessions : ~Known(s)

HeartbeatFails ==
  /\ session # None /\ available
  /\ Spare
  /\ available' = FALSE
  /\ UNCHANGED <<vars, pc, registry, attempted, late, session>>

(* The process ends.  A clean shutdown with nothing active stops the owner.  *)
Exit ==
  /\ session # None /\ Spare
  /\ \/ Active = {} /\ StopOwner(session)
     \/ UNCHANGED vars
  /\ late' = late \cup UNION {Waiting(r) : r \in {q \in Active : registry[q].guard}}
  /\ registry' = [r \in Requests |-> None]
  /\ pc' = [r \in Requests |-> IF pc[r] = "idle" THEN "idle" ELSE "done"]
  /\ session' = None
  /\ available' = FALSE
  /\ UNCHANGED attempted

(* A transaction given up on commits after all. *)
Late(t) ==
  /\ t \in late
  /\ \/ t.op = "create" /\ CreateIntent(t.request, t.session)
     \/ t.op = "mark" /\ MarkDispatching(t.request)
     \/ t.op = "settle" /\ Settle(t.request, t.command)
  /\ late' = late \ {t}
  /\ UNCHANGED <<pc, registry, attempted, session, available>>

(* What other processes and administrators do to the ledger. *)
Environment ==
  /\ \/ \E k \in Keys : Govern(k)
     \/ \E r \in Requests : RecoverStale(r)
     \/ \E o \in Operations : Reconcile(o)
     \/ Tick
  /\ UNCHANGED processVars

Progress(r) ==
  \/ CreateCreated(r) \/ CreateNothing(r) \/ CreateUnknown(r)
  \/ MarkMarked(r) \/ MarkFails(r)
  \/ Attempt(r) \/ EndUnattempted(r)
  \/ ReplayCreate(r) \/ ReplayPaused(r) \/ ReplayFails(r)
  \/ PrepareAbort(r) \/ PrepareFinal(r)
  \/ SettleAnswered(r) \/ SettleFails(r)

Recover(r) == RecoverLookup(r) \/ RecoverPrepare(r) \/ RecoverSettle(r)

LifecycleNext ==
  \/ \E r \in Requests :
       Begin(r) \/ Progress(r) \/ Cancel(r) \/ Recover(r) \/ RecoverSettleFails(r)
  \/ \E s \in Sessions : Register(s)
  \/ Heartbeat \/ HeartbeatFails \/ Exit
  \/ \E t \in late : Late(t)
  \/ Environment

LifecycleSpec == LifecycleInit /\ [][LifecycleNext]_allVars

(* Request tasks run to their end; the maintenance loop and the heartbeat    *)
(* loop tick for as long as the process lives, and the database answers      *)
(* some of their calls.                                                      *)
LifecycleFairSpec ==
  /\ LifecycleSpec
  /\ \A r \in Requests : WF_allVars(Progress(r)) /\ WF_allVars(Recover(r))
  /\ \A s \in Sessions : WF_allVars(Register(s))

-----------------------------------------------------------------------------
(* Properties *)

(* A request that reached its upstream was durably marked dispatching first, *)
(* and is never settled as not incurred, whatever mixture of lost answers,   *)
(* late commits, compensation, recovery and fencing it meets.  A pending     *)
(* intent that may have reached its upstream is in the registry of the       *)
(* process that owns it, and an intent never has two owners: no request of   *)
(* an earlier session is in the registry of a later one.                     *)
UpstreamIsAccounted ==
  \A r \in Requests :
    /\ attempted[r] => /\ dispatch[r] = "dispatching"
                       /\ ~(status[r] = "settled" /\ terminal[r].status = "not_incurred")
    /\ status[r] = "pending" /\ dispatch[r] = "dispatching" /\ owner[r] = session
         => registry[r] # None
    /\ registry[r] # None /\ status[r] # "none" => owner[r] = session

(* Design: every pending intent of the current session can be found in the   *)
(* registry.                                                                 *)
PendingIsTracked ==
  \A r \in Requests :
    status[r] = "pending" /\ owner[r] = session => registry[r] # None

(* Every entry whose request is gone is closed by recovery in the end, or    *)
(* its process is.                                                           *)
OrphansClosed == \A r \in Requests : Orphan(r) ~> ~Orphan(r)

(* A process that lost its session takes budgeted requests again in the end. *)
OwnerReturns == session # None /\ ~available ~> available \/ session = None

(* Nothing waits for ever after a failure: recovery closes every entry whose *)
(* request is gone, and a fenced process, whose new session waits for the    *)
(* registry to empty, takes budgeted requests again                          *)
(* (recover_budget_registry_once, ensure_owner_runtime).                     *)
RecoveryEnds == OrphansClosed /\ OwnerReturns

-----------------------------------------------------------------------------
(* Strengthening of UpstreamIsAccounted to an inductive invariant            *)
(* (BudgetLifecycleProofs).                                                  *)

(* The transactions of r that nobody waits for any more. *)
Left(r) == {t \in late : t.request = r}

(* Sessions: an entry is of the session of the process, and so is every      *)
(* transaction that its request left behind.                                 *)
SessionInv ==
  /\ session # None => Known(session)
  /\ \A t \in late : Known(t.session) /\ (t.op = "settle" => t.command \in Costs)
  /\ \A r \in Requests : registry[r] # None =>
       session # None /\ \A t \in Left(r) : t.session = session

(* What a request has at each stage of its only life. *)
Stage(r) ==
  LET e == registry[r] IN
  /\ pc[r] \in {"idle", "create"} => status[r] = "none"
  /\ pc[r] = "idle" => e = None
  /\ pc[r] \in {"idle", "create", "mark", "dispatched"} => Left(r) = {} /\ ~attempted[r]
  /\ pc[r] \in {"create", "mark", "dispatched"} => e.settlement = None
  /\ pc[r] \in {"mark", "dispatched", "abortSettle", "finalSettle"} => e.intent
  /\ pc[r] \in {"abortSettle", "finalSettle"} => e.settlement # None
  /\ pc[r] = "dispatched" => /\ e.state = "ActiveDispatching" /\ dispatch[r] = "dispatching"
                             /\ status[r] \in {"pending", "unresolved", "resolved"}

(* Whoever knows an intent, or has tried to mark it, knows of a row; and a   *)
(* row that is marked, or may still be, is tracked while it is pending.      *)
Trace(r) ==
  LET marks == \E t \in Left(r) : t.op = "mark" IN
  /\ registry[r] # None /\ registry[r].intent => status[r] # "none"
  /\ marks => status[r] # "none"
  /\ status[r] = "pending" /\ (dispatch[r] = "dispatching" \/ marks) /\ owner[r] = session
       => registry[r] # None
  /\ registry[r] # None /\ status[r] # "none" => owner[r] = session

(* Once the upstream was tried, no command that is chosen, sent or left      *)
(* behind is a zero, and none can be chosen.                                 *)
NoZero(e) ==
  /\ e.intent
  /\ IF e.settlement = None
     THEN e.state = IF e.guard THEN "ActiveDispatching" ELSE "NeedsUnresolved"
     ELSE e.settlement.status # "not_incurred"

Tried(r) ==
  attempted[r] =>
    /\ pc[r] \in {"finalize", "finalSettle", "done"}
    /\ status[r] # "none" /\ dispatch[r] = "dispatching"
    /\ ~(status[r] = "settled" /\ terminal[r].status = "not_incurred")
    /\ \A t \in Left(r) : t.op = "settle" => t.command.status # "not_incurred"
    /\ registry[r] # None => NoZero(registry[r])

ProcessInv ==
  /\ ProcessTypeOK /\ SessionInv
  /\ \A r \in Requests : Stage(r) /\ Trace(r) /\ Tried(r)

LifecycleInv == LedgerInv /\ ProcessInv
=============================================================================
