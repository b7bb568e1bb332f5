---------------------------- MODULE BudgetLedger ----------------------------
(***************************************************************************)
(* The durable budget ledger of the AI gateway: PgBudgetStore of           *)
(* crates/kong-ai/src/budget/{postgres,admin,governance}.rs over the       *)
(* tables of migrations/core/007 and 008.                                  *)
(*                                                                         *)
(* A virtual key is an account with an aggregate (used, pending and        *)
(* unresolved counts, a revision) and a ledger with one row per request    *)
(* and one per administrator's reconciliation.  Gateway processes hold     *)
(* owner sessions, leases that fence the intents they create.              *)
(*                                                                         *)
(* Every operation is one transaction.  Operations that touch an account   *)
(* lock its row first, mark_dispatching locks the ledger row, and both     *)
(* lock the owner's row before they look at its lease, so a transaction is *)
(* one step here.  Callers are arbitrary: any command of the constants may *)
(* arrive at any time, any number of times and in any order, which covers  *)
(* retries, duplicates and answers that came too late.  A call that is     *)
(* refused, or recognised as a replay, leaves the tables as they are and   *)
(* is a stuttering step; what settle answers is SettleDisposition.  Only a *)
(* rebuild is two transactions: it scans a snapshot and applies it later.  *)
(***************************************************************************)
EXTENDS Integers, FiniteSets, FiniteSetsExt

CONSTANTS
  Keys,          \* virtual keys (accounts)
  Requests,      \* request ids; a request has one intent
  KeyOf,         \* the virtual key of a request
  Sessions,      \* owner session ids
  ConfigOf,      \* checkpoint_hard_tail_events, as configured in the session's process
  Costs,         \* the costs of the SettleBudgetIntent commands callers may issue
  Operations,    \* operation ids of reconciliations
  Resolutions,   \* the resolutions administrators may choose
  Rebuilds,      \* operation ids of rebuilds
  Limits,        \* budget limits administrators may set
  MaxAmount,     \* the largest amount NUMERIC(28,12) holds
  Lease,         \* lease_duration of an owner session
  StaleAfter,    \* stale_after of an intent
  None,          \* SQL NULL
  MaxClock, MaxRevision   \* bounds: the clock, key-only updates of an account

Amount == 0..MaxAmount

(* A command, and the fingerprint it leaves as terminal_command_fingerprint: *)
(* the fingerprint is a hash of the command's status, amount and reasons.    *)
Command == [status : STRING, amount : Amount, reason : STRING]

StaleCommand ==
  [status |-> "not_incurred", amount |-> 0, reason |-> "stale_owner_before_dispatch"]

(* The reasons of account_issue rows. *)
IssueReasons == {"checkpoint_amount_mismatch", "budget_rebuild_invariant_invalid",
                 "budget_rebuild_numeric_overflow"}

(* A reconciliation or a reconciliation_attempt row. *)
Entry == [kind : {"reconciliation", "attempt"}, parent : Requests,
          command : Command, revision : Nat]

(* RebuildScan: what a rebuild read in its snapshot, or why it could not. *)
Scan == [key : Keys, revision : Nat, used : Nat, pending : Nat, unresolved : Nat,
         fault : IssueReasons \cup {None}]

ASSUME LedgerAssumption ==
  /\ IsFiniteSet(Requests) /\ IsFiniteSet(Operations) /\ IsFiniteSet(Sessions)
  /\ Operations \subseteq STRING
  /\ KeyOf \in [Requests -> Keys]
  /\ ConfigOf \in [Sessions -> Nat \ {0}]
  /\ MaxAmount \in Nat
  /\ Costs \subseteq Command
  /\ \A c \in Costs : /\ c.status \in {"calculated", "not_incurred", "unavailable"}
                      /\ c.status = "not_incurred" => c.amount = 0
  /\ StaleCommand \in Command \ Costs
  /\ Resolutions \subseteq Command
  /\ \A c \in Resolutions : /\ c.status \in {"settle", "waive"}
                            /\ c.status = "waive" => c.amount = 0
  /\ Limits \subseteq Amount
  /\ Lease \in Nat \ {0} /\ StaleAfter \in Nat \ {0}
  /\ MaxClock \in Nat /\ MaxRevision \in Nat
  /\ None \notin Nat /\ None \notin Command /\ None \notin Entry /\ None \notin Sessions
  /\ None \notin Keys /\ None \notin Scan /\ None \notin IssueReasons

VARIABLES
  \* ai_virtual_keys, per key
  presence, limit, used, pending, unresolved, revision, tail,
  \* the latest row of ai_budget_checkpoints, per key
  cpRevision, cpAmount,
  \* the request rows of ai_budget_ledger, per request
  status, dispatch, owner, staleAt, terminal, accounted, entryRevision,
  \* the reasons of its open account_issue rows, per key, and its reconciliation
  \* rows, per operation
  issues, entries,
  \* its rebuild_audit rows, and the scans in the memory of those who rebuild
  audit, scan,
  \* ai_budget_runtime_settings and ai_budget_owner_sessions
  settings, expires, stopped,
  \* the database's clock
  clock

accountVars == <<presence, limit, used, pending, unresolved, revision, tail>>
checkpointVars == <<cpRevision, cpAmount, issues, audit, scan>>
ledgerVars == <<status, dispatch, owner, staleAt, terminal, accounted, entryRevision, entries>>
ownerVars == <<settings, expires, stopped>>
vars == <<accountVars, checkpointVars, ledgerVars, ownerVars, clock>>

AccountTypeOK ==
  /\ presence \in [Keys -> {"absent", "present", "deleted"}]
  /\ limit \in [Keys -> Amount \cup {None}]
  /\ used \in [Keys -> Amount]
  /\ pending \in [Keys -> Nat] /\ unresolved \in [Keys -> Nat]
  /\ revision \in [Keys -> Nat] /\ tail \in [Keys -> Nat]
  /\ cpRevision \in [Keys -> Nat] /\ cpAmount \in [Keys -> Amount]
  /\ issues \in [Keys -> SUBSET IssueReasons]
  /\ audit \in [Rebuilds -> Keys \cup {None}]
  /\ scan \in [Rebuilds -> Scan \cup {None}]

LedgerTypeOK ==
  /\ status \in [Requests -> {"none", "pending", "unresolved", "settled", "resolved"}]
  /\ dispatch \in [Requests -> {"none", "prepared", "dispatching"}]
  /\ owner \in [Requests -> Sessions \cup {None}]
  /\ staleAt \in [Requests -> Nat]
  /\ terminal \in [Requests -> Command \cup {None}]
  /\ accounted \in [Requests -> Amount \cup {None}]
  /\ entryRevision \in [Requests -> Nat]
  /\ entries \in [Operations -> Entry \cup {None}]

OwnerTypeOK ==
  /\ settings \in Nat \cup {None}
  /\ expires \in [Sessions -> Nat \cup {None}]
  /\ stopped \in [Sessions -> BOOLEAN]
  /\ clock \in Nat

(* The tables hold what their columns and CHECK constraints admit: counts    *)
(* are never negative and no amount leaves NUMERIC(28,12), although every    *)
(* statement only adds to what it finds.                                     *)
TypeOK == AccountTypeOK /\ LedgerTypeOK /\ OwnerTypeOK

Init ==
  /\ presence = [k \in Keys |-> "absent"]
  /\ limit = [k \in Keys |-> None]
  /\ used = [k \in Keys |-> 0]
  /\ pending = [k \in Keys |-> 0] /\ unresolved = [k \in Keys |-> 0]
  /\ revision = [k \in Keys |-> 0] /\ tail = [k \in Keys |-> 0]
  /\ cpRevision = [k \in Keys |-> 0] /\ cpAmount = [k \in Keys |-> 0]
  /\ issues = [k \in Keys |-> {}]
  /\ audit = [b \in Rebuilds |-> None]
  /\ scan = [b \in Rebuilds |-> None]
  /\ status = [r \in Requests |-> "none"]
  /\ dispatch = [r \in Requests |-> "none"]
  /\ owner = [r \in Requests |-> None]
  /\ staleAt = [r \in Requests |-> 0]
  /\ terminal = [r \in Requests |-> None]
  /\ accounted = [r \in Requests |-> None]
  /\ entryRevision = [r \in Requests |-> 0]
  /\ entries = [o \in Operations |-> None]
  /\ settings = None
  /\ expires = [s \in Sessions |-> None]
  /\ stopped = [s \in Sessions |-> FALSE]
  /\ clock = 0

-----------------------------------------------------------------------------
(* Owner sessions *)

Known(s) == expires[s] # None
Live(s) == Known(s) /\ ~stopped[s] /\ expires[s] > clock

MayAdopt_AnyTime(s) == TRUE

(* register_owner: a process whose configuration differs from the            *)
(* deployment's takes the settings over only when no owner is live.          *)
MayAdopt(s) == settings \in {None, ConfigOf[s]} \/ \A t \in Sessions : ~Live(t)


RegisterOwner(s) ==
  /\ ~Known(s)
  /\ MayAdopt(s)
  /\ settings' = ConfigOf[s]
  /\ expires' = [expires EXCEPT ![s] = clock + Lease]
  /\ UNCHANGED <<stopped, accountVars, checkpointVars, ledgerVars, clock>>

HeartbeatOwner_Revives(s) ==
  /\ Known(s) /\ ~stopped[s]
  /\ settings = ConfigOf[s]
  /\ expires' = [expires EXCEPT ![s] = clock + Lease]
  /\ UNCHANGED <<settings, stopped, accountVars, checkpointVars, ledgerVars, clock>>

HeartbeatOwner(s) ==
  /\ Live(s)
  /\ settings = ConfigOf[s]
  /\ expires' = [expires EXCEPT ![s] = clock + Lease]
  /\ UNCHANGED <<settings, stopped, accountVars, checkpointVars, ledgerVars, clock>>

StopOwner(s) ==
  /\ Known(s) /\ ~stopped[s]
  /\ stopped' = [stopped EXCEPT ![s] = TRUE]
  /\ UNCHANGED <<settings, expires, accountVars, checkpointVars, ledgerVars, clock>>

-----------------------------------------------------------------------------
(* Accounts *)

Bump(k, events) ==
  /\ revision' = [revision EXCEPT ![k] = @ + 1]
  /\ tail' = [tail EXCEPT ![k] = @ + events]

(* create_account inserts the account and its genesis checkpoint. *)
CreateAccount(k, l) ==
  /\ presence[k] = "absent"
  /\ presence' = [presence EXCEPT ![k] = "present"]
  /\ limit' = [limit EXCEPT ![k] = l]
  /\ UNCHANGED <<used, pending, unresolved, revision, tail>>
  /\ UNCHANGED <<checkpointVars, ledgerVars, ownerVars, clock>>

MayClear_Pending(k) == unresolved[k] = 0

(* update_account: the revision moves, the tail of ledger events does not.   *)
(* Clearing the limit pauses the budget; l = limit[k] is an update of other  *)
(* columns.                                                                  *)
MayClear(k) == pending[k] = 0 /\ unresolved[k] = 0


UpdateAccount(k, l) ==
  /\ presence[k] = "present"
  /\ revision[k] < MaxRevision
  /\ l = None /\ limit[k] # None => MayClear(k)
  /\ limit' = [limit EXCEPT ![k] = l]
  /\ revision' = [revision EXCEPT ![k] = @ + 1]
  /\ UNCHANGED <<presence, used, pending, unresolved, tail>>
  /\ UNCHANGED <<checkpointVars, ledgerVars, ownerVars, clock>>

DeleteAccount_OpenRows(k) ==
  /\ presence[k] = "present"
  /\ pending[k] = 0
  /\ presence' = [presence EXCEPT ![k] = "deleted"]
  /\ UNCHANGED <<limit, used, pending, unresolved, revision, tail>>
  /\ UNCHANGED <<checkpointVars, ledgerVars, ownerVars, clock>>

DeleteAccount(k) ==
  /\ presence[k] = "present"
  /\ pending[k] = 0 /\ unresolved[k] = 0
  /\ presence' = [presence EXCEPT ![k] = "deleted"]
  /\ UNCHANGED <<limit, used, pending, unresolved, revision, tail>>
  /\ UNCHANGED <<checkpointVars, ledgerVars, ownerVars, clock>>

-----------------------------------------------------------------------------
(* Intents *)

(* inspect_account: an account with open questions, or with too many ledger  *)
(* events since its checkpoint, takes no new intent; nor does a paused one.  *)
Eligible(k) ==
  /\ unresolved[k] = 0
  /\ tail[k] < settings
  /\ limit[k] # None
  /\ used[k] < limit[k]

CreateIntent(r, s) ==
  LET k == KeyOf[r] IN
  /\ presence[k] = "present"
  /\ status[r] = "none"
  /\ settings = ConfigOf[s]
  /\ Eligible(k)
  /\ Live(s)
  /\ clock + StaleAfter <= MaxClock
  /\ status' = [status EXCEPT ![r] = "pending"]
  /\ dispatch' = [dispatch EXCEPT ![r] = "prepared"]
  /\ owner' = [owner EXCEPT ![r] = s]
  /\ staleAt' = [staleAt EXCEPT ![r] = clock + StaleAfter]
  /\ entryRevision' = [entryRevision EXCEPT ![r] = revision[k] + 1]
  /\ pending' = [pending EXCEPT ![k] = @ + 1]
  /\ Bump(k, 1)
  /\ UNCHANGED <<presence, limit, used, unresolved, terminal, accounted, entries>>
  /\ UNCHANGED <<checkpointVars, ownerVars, clock>>

(* mark_dispatching: a ledger-only transaction, fenced by the owner's lease. *)
Dispatchable(r) == status[r] = "pending" /\ dispatch[r] = "prepared"

MarkDispatching(r) ==
  /\ Dispatchable(r)
  /\ Live(owner[r])
  /\ dispatch' = [dispatch EXCEPT ![r] = "dispatching"]
  /\ UNCHANGED <<status, owner, staleAt, terminal, accounted, entryRevision, entries>>
  /\ UNCHANGED <<accountVars, checkpointVars, ownerVars, clock>>

CountUnresolved_Again(k, r) ==
  /\ pending' = [pending EXCEPT ![k] = IF status[r] = "pending" THEN @ - 1 ELSE @]
  /\ unresolved' = [unresolved EXCEPT ![k] = @ + 1]

(* The aggregate side of mark_unresolved: a row that was unresolved stays so. *)
CountUnresolved(k, r) ==
  IF status[r] = "pending"
  THEN /\ pending[k] > 0
       /\ pending' = [pending EXCEPT ![k] = @ - 1]
       /\ unresolved' = [unresolved EXCEPT ![k] = @ + 1]
  ELSE unresolved[k] > 0 /\ UNCHANGED <<pending, unresolved>>

MarkUnresolved(r, command) ==
  LET k == KeyOf[r] IN
  /\ CountUnresolved(k, r)
  /\ Bump(k, 1)
  /\ status' = [status EXCEPT ![r] = "unresolved"]
  /\ terminal' = [terminal EXCEPT ![r] = command]
  /\ accounted' = [accounted EXCEPT ![r] = None]
  /\ entryRevision' = [entryRevision EXCEPT ![r] = revision[k] + 1]
  /\ UNCHANGED <<presence, limit, used, dispatch, owner, staleAt, entries>>
  /\ UNCHANGED <<checkpointVars, ownerVars, clock>>

(* The aggregate side of a settlement or a reconciliation: the amount is     *)
(* added, and the row leaves the count it was in.                            *)
Account(k, r, amount) ==
  /\ used' = [used EXCEPT ![k] = @ + amount]
  /\ IF status[r] = "pending"
     THEN /\ pending[k] > 0
          /\ pending' = [pending EXCEPT ![k] = @ - 1]
          /\ UNCHANGED unresolved
     ELSE /\ unresolved[k] > 0
          /\ unresolved' = [unresolved EXCEPT ![k] = @ - 1]
          /\ UNCHANGED pending

CloseRow_Unpriced(r, command) ==
  /\ status' = [status EXCEPT ![r] = "settled"]
  /\ terminal' = [terminal EXCEPT ![r] = command]
  /\ accounted' = [accounted EXCEPT ![r] = 0]
  /\ entryRevision' = [entryRevision EXCEPT ![r] = revision[KeyOf[r]] + 1]

(* The ledger side of a settlement: the row becomes terminal. *)
CloseRow(r, command) ==
  /\ status' = [status EXCEPT ![r] = "settled"]
  /\ terminal' = [terminal EXCEPT ![r] = command]
  /\ accounted' = [accounted EXCEPT ![r] = command.amount]
  /\ entryRevision' = [entryRevision EXCEPT ![r] = revision[KeyOf[r]] + 1]

SettleDisposition_Forgets(r, c) ==
  IF status[r] = "none" \/ presence[KeyOf[r]] # "present" THEN "corrupt"
  ELSE IF status[r] = "resolved" THEN "already_reconciled"
  ELSE IF status[r] = "settled" THEN IF terminal[r] = c THEN "replayed" ELSE "corrupt"
  ELSE IF dispatch[r] = "prepared" /\ c.status # "not_incurred" THEN "corrupt"
  ELSE IF c.status = "unavailable"
       THEN IF status[r] = "unresolved" THEN "already_unresolved" ELSE "marked_unresolved"
  ELSE IF used[KeyOf[r]] + c.amount > MaxAmount THEN "overflow"
  ELSE "applied"

SettleDisposition_AfterReconciling(r, c) ==
  IF status[r] \in {"none", "settled"} \/ presence[KeyOf[r]] # "present"
       \/ (dispatch[r] = "prepared" /\ c.status # "not_incurred")
  THEN "corrupt"
  ELSE IF c.status = "unavailable" THEN "already_unresolved"
  ELSE IF used[KeyOf[r]] + c.amount > MaxAmount THEN "overflow" ELSE "applied"

(* What settle answers.  A settled row recognises the command that closed it *)
(* by its fingerprint, also after its account was deleted.                   *)
SettleDisposition(r, c) ==
  IF status[r] = "none" THEN "corrupt"
  ELSE IF status[r] = "resolved" THEN "already_reconciled"
  ELSE IF status[r] = "settled" THEN IF terminal[r] = c THEN "replayed" ELSE "corrupt"
  ELSE IF presence[KeyOf[r]] # "present" THEN "corrupt"
  ELSE IF status[r] = "unresolved" /\ terminal[r] # None
       THEN IF terminal[r] = c THEN "already_unresolved" ELSE "corrupt"
  ELSE IF dispatch[r] = "prepared" /\ c.status # "not_incurred" THEN "corrupt"
  ELSE IF c.status = "unavailable"
       THEN IF status[r] = "unresolved" THEN "already_unresolved" ELSE "marked_unresolved"
  ELSE IF used[KeyOf[r]] + c.amount > MaxAmount THEN "overflow"
  ELSE "applied"

SettleApply(r, c) ==
  /\ SettleDisposition(r, c) = "applied"
  /\ Account(KeyOf[r], r, c.amount)
  /\ CloseRow(r, c)
  /\ Bump(KeyOf[r], 1)
  /\ UNCHANGED <<presence, limit, dispatch, owner, staleAt, entries>>
  /\ UNCHANGED <<checkpointVars, ownerVars, clock>>

SettleUnresolved(r, c) ==
  \/ SettleDisposition(r, c) = "marked_unresolved" /\ MarkUnresolved(r, None)
  \/ SettleDisposition(r, c) = "overflow" /\ MarkUnresolved(r, c)

Settle(r, c) == SettleApply(r, c) \/ SettleUnresolved(r, c)

(* recover_stale_candidate, by any process whose configuration is in force:  *)
(* an intent whose owner is gone is free if it never reached the upstream,   *)
(* and an open question if it may have.                                      *)
Stale(r) ==
  /\ settings # None
  /\ presence[KeyOf[r]] = "present"
  /\ status[r] = "pending"
  /\ staleAt[r] <= clock
  /\ ~Live(owner[r])

RecoverPrepared_AnyDispatch(r) ==
  /\ Stale(r)
  /\ Account(KeyOf[r], r, 0)
  /\ CloseRow(r, StaleCommand)
  /\ Bump(KeyOf[r], 1)
  /\ UNCHANGED <<presence, limit, dispatch, owner, staleAt, entries>>
  /\ UNCHANGED <<checkpointVars, ownerVars, clock>>

RecoverPrepared(r) ==
  /\ Stale(r)
  /\ dispatch[r] = "prepared"
  /\ Account(KeyOf[r], r, 0)
  /\ CloseRow(r, StaleCommand)
  /\ Bump(KeyOf[r], 1)
  /\ UNCHANGED <<presence, limit, dispatch, owner, staleAt, entries>>
  /\ UNCHANGED <<checkpointVars, ownerVars, clock>>

RecoverDispatching_Never(r) == FALSE

RecoverDispatching(r) ==
  /\ Stale(r)
  /\ dispatch[r] = "dispatching"
  /\ MarkUnresolved(r, None)

RecoverStale(r) == RecoverPrepared(r) \/ RecoverDispatching(r)

-----------------------------------------------------------------------------
(* Reconciliation by an administrator *)

(* An open intent may be reconciled once its owner is gone. *)
Reconcilable(r) ==
  /\ presence[KeyOf[r]] = "present"
  /\ status[r] \in {"pending", "unresolved"}
  /\ status[r] = "pending" => ~Live(owner[r])

NewEntry(o, kind, r, c) ==
  entries' = [entries EXCEPT ![o] =
    [kind |-> kind, parent |-> r,
     command |-> [status |-> c.status, amount |-> c.amount, reason |-> o],
     revision |-> revision[KeyOf[r]] + 1]]

(* reconcile_pg: the child row carries the amount, the parent is resolved.   *)
ReconcileApply(o, r, c) ==
  /\ entries[o] = None
  /\ Reconcilable(r)
  /\ used[KeyOf[r]] + c.amount <= MaxAmount
  /\ Account(KeyOf[r], r, c.amount)
  /\ NewEntry(o, "reconciliation", r, c)
  /\ status' = [status EXCEPT ![r] = "resolved"]
  /\ terminal' = [terminal EXCEPT ![r] = [status |-> c.status, amount |-> c.amount, reason |-> o]]
  /\ entryRevision' = [entryRevision EXCEPT ![r] = revision[KeyOf[r]] + 1]
  /\ Bump(KeyOf[r], 2)
  /\ UNCHANGED <<presence, limit, dispatch, owner, staleAt, accounted>>
  /\ UNCHANGED <<checkpointVars, ownerVars, clock>>

(* apply_reconciliation_overflow: the attempt is recorded, the parent stays  *)
(* (or becomes) unresolved and keeps its terminal command.                   *)
ReconcileOverflow(o, r, c) ==
  /\ entries[o] = None
  /\ Reconcilable(r)
  /\ used[KeyOf[r]] + c.amount > MaxAmount
  /\ CountUnresolved(KeyOf[r], r)
  /\ NewEntry(o, "attempt", r, c)
  /\ status' = [status EXCEPT ![r] = "unresolved"]
  /\ accounted' = [accounted EXCEPT ![r] = None]
  /\ entryRevision' = [entryRevision EXCEPT ![r] = revision[KeyOf[r]] + 1]
  /\ Bump(KeyOf[r], 2)
  /\ UNCHANGED <<presence, limit, used, dispatch, owner, staleAt, terminal>>
  /\ UNCHANGED <<checkpointVars, ownerVars, clock>>

-----------------------------------------------------------------------------
(* Checkpoints *)

(* The settled rows of an account with a revision above lo: its requests,    *)
(* and the children of its reconciliations that charged (not waived).        *)
SettledRequests(k, lo) ==
  {r \in Requests : KeyOf[r] = k /\ status[r] = "settled" /\ entryRevision[r] > lo}

SettledEntries(k, lo) ==
  {o \in Operations : /\ entries[o] # None
                      /\ entries[o].kind = "reconciliation"
                      /\ entries[o].command.status = "settle"
                      /\ KeyOf[entries[o].parent] = k
                      /\ entries[o].revision > lo}

(* SUM over a column of the rows in S. *)
Total(column, S) == MapThenSumSet(LAMBDA x : column[x], S)

EntryAmounts(S) == [o \in S |-> entries[o].command.amount]

SettledCost(k, lo) ==
  Total(accounted, SettledRequests(k, lo))
    + Total(EntryAmounts(SettledEntries(k, lo)), SettledEntries(k, lo))

(* What checkpoint_account sums: only rows newer than the last checkpoint. *)
DerivedUsed(k) == cpAmount[k] + SettledCost(k, cpRevision[k])

SettledEvents(k) ==
  Cardinality(SettledRequests(k, cpRevision[k])) + Cardinality(SettledEntries(k, cpRevision[k]))

TailReset_Forgotten(k) == UNCHANGED tail
TailReset(k) == tail' = [tail EXCEPT ![k] = 0]


(* checkpoint_account with the current revision in its operation id; any     *)
(* other operation id is refused or replays.                                 *)
CheckpointInsert(k) ==
  /\ cpRevision' = [cpRevision EXCEPT ![k] = revision[k]]
  /\ cpAmount' = [cpAmount EXCEPT ![k] = DerivedUsed(k)]
  /\ TailReset(k)
  /\ UNCHANGED <<issues, revision, unresolved>>

RecordIssue(k, reason) ==
  /\ issues' = [issues EXCEPT ![k] = @ \cup {reason}]
  /\ unresolved' = [unresolved EXCEPT ![k] = @ + 1]
  /\ Bump(k, 1)
  /\ UNCHANGED <<cpRevision, cpAmount>>

(* record_checkpoint_issue, while the account has no open issue. *)
CheckpointIssue(k) == issues[k] = {} /\ RecordIssue(k, "checkpoint_amount_mismatch")

Checkpoint(k) ==
  /\ settings # None
  /\ presence[k] = "present"
  /\ cpRevision[k] < revision[k]
  /\ SettledEvents(k) <= tail[k]
  /\ IF DerivedUsed(k) = used[k] THEN CheckpointInsert(k) ELSE CheckpointIssue(k)
  /\ UNCHANGED <<audit, scan, presence, limit, used, pending, ledgerVars, ownerVars, clock>>

-----------------------------------------------------------------------------
(* Rebuild of an account from its ledger: verify_or_rebuild_pg *)

PendingRows(k) == {r \in Requests : KeyOf[r] = k /\ status[r] = "pending"}
UnresolvedRows(k) == {r \in Requests : KeyOf[r] = k /\ status[r] = "unresolved"}

(* A row from after the revision of the account, or a sum that does not fit. *)
ScanFault(k) ==
  IF \/ SettledEntries(k, revision[k]) # {}
     \/ SettledRequests(k, revision[k]) # {}
     \/ \E r \in PendingRows(k) \cup UnresolvedRows(k) : entryRevision[r] > revision[k]
  THEN "budget_rebuild_invariant_invalid"
  ELSE IF DerivedUsed(k) > MaxAmount THEN "budget_rebuild_numeric_overflow" ELSE None

(* scan_rebuild_snapshot: one repeatable-read transaction.  A dry run ends   *)
(* here; whoever is out of attempts, or dies, leaves the scan unused.        *)
ScanRebuild(b, k) ==
  /\ presence[k] = "present"
  /\ scan' = [scan EXCEPT ![b] =
       [key |-> k, revision |-> revision[k], used |-> DerivedUsed(k),
        pending |-> Cardinality(PendingRows(k)), unresolved |-> Cardinality(UnresolvedRows(k)),
        fault |-> ScanFault(k)]]
  /\ UNCHANGED <<cpRevision, cpAmount, issues, audit>>
  /\ UNCHANGED <<accountVars, ledgerVars, ownerVars, clock>>

ScanIsCurrent_AnyRevision(b) == TRUE

ScanIsCurrent(b) == revision[scan[b].key] = scan[b].revision

(* record_account_issue: each reason is open once. *)
RebuildIssue(b) ==
  LET k == scan[b].key IN
  /\ scan[b].fault \notin issues[k]
  /\ RecordIssue(k, scan[b].fault)
  /\ UNCHANGED <<used, pending, audit>>

(* apply_rebuild_snapshot: the aggregate becomes what the scan found, the    *)
(* open issues are resolved and a checkpoint begins.  An operation id is     *)
(* used once, and a scan of another revision is thrown away and repeated.    *)
RebuildApply(b) ==
  LET k == scan[b].key IN
  /\ audit[b] = None
  /\ ScanIsCurrent(b)
  /\ used' = [used EXCEPT ![k] = scan[b].used]
  /\ pending' = [pending EXCEPT ![k] = scan[b].pending]
  /\ unresolved' = [unresolved EXCEPT ![k] = scan[b].unresolved]
  /\ issues' = [issues EXCEPT ![k] = {}]
  /\ audit' = [audit EXCEPT ![b] = k]
  /\ revision' = [revision EXCEPT ![k] = @ + 1]
  /\ cpRevision' = [cpRevision EXCEPT ![k] = revision[k] + 1]
  /\ cpAmount' = [cpAmount EXCEPT ![k] = scan[b].used]
  /\ TailReset(k)

Rebuild(b) ==
  /\ scan[b] # None
  /\ presence[scan[b].key] = "present"
  /\ IF scan[b].fault # None THEN RebuildIssue(b) ELSE RebuildApply(b)
  /\ scan' = [scan EXCEPT ![b] = None]
  /\ UNCHANGED <<presence, limit, ledgerVars, ownerVars, clock>>

-----------------------------------------------------------------------------

Tick ==
  /\ clock < MaxClock
  /\ clock' = clock + 1
  /\ UNCHANGED <<accountVars, checkpointVars, ledgerVars, ownerVars>>

Govern(k) ==
  \/ \E l \in Limits \cup {None} : CreateAccount(k, l) \/ UpdateAccount(k, l)
  \/ DeleteAccount(k)
  \/ Checkpoint(k)

Own(s) == RegisterOwner(s) \/ HeartbeatOwner(s) \/ StopOwner(s)

Serve(r) ==
  \/ \E s \in Sessions : CreateIntent(r, s)
  \/ MarkDispatching(r)
  \/ \E c \in Costs : Settle(r, c)
  \/ RecoverStale(r)

Reconcile(o) ==
  \E r \in Requests, c \in Resolutions : ReconcileApply(o, r, c) \/ ReconcileOverflow(o, r, c)

Next ==
  \/ \E k \in Keys : Govern(k)
  \/ \E s \in Sessions : Own(s)
  \/ \E r \in Requests : Serve(r)
  \/ \E o \in Operations : Reconcile(o)
  \/ \E b \in Rebuilds : Rebuild(b) \/ \E k \in Keys : ScanRebuild(b, k)
  \/ Tick

Spec == Init /\ [][Next]_vars

(* Maintenance runs in every gateway process for as long as it lives (the    *)
(* AiBudgetOwnerBgService loop of kong-server), and time passes.             *)
FairSpec == Spec /\ WF_vars(Tick) /\ \A r \in Requests : WF_vars(RecoverStale(r))

-----------------------------------------------------------------------------
(* Properties *)

(* The counters that decide whether an account may take an intent, be paused *)
(* or be deleted equal the rows of the ledger, whatever mixture of           *)
(* settlements, recoveries, reconciliations, rebuilds and their retries ran. *)
CountsMatchLedger ==
  \A k \in Keys : /\ pending[k] = Cardinality(PendingRows(k))
                  /\ unresolved[k] = Cardinality(UnresolvedRows(k)) + Cardinality(issues[k])

(* checkpoint_account never meets the inconsistencies it guards against: the *)
(* rows after the last checkpoint account for all of the aggregate, their    *)
(* number never exceeds the tail counter, and a checkpoint of the current    *)
(* revision has an empty tail.                                               *)
CheckpointSound ==
  \A k \in Keys :
    /\ issues[k] = {}
    /\ DerivedUsed(k) = used[k]
    /\ SettledEvents(k) <= tail[k]
    /\ cpRevision[k] <= revision[k]
    /\ cpRevision[k] = revision[k] => tail[k] = 0

(* A settlement that succeeded is answered as a replay ever after, also when *)
(* the key was deleted in between: a retry never charges again nor fails.    *)
ReplayForever ==
  [][\A r \in Requests, c \in Costs :
       SettleDisposition(r, c) = "replayed" => SettleDisposition(r, c)' = "replayed"]_vars

(* An intent whose owner is gone does not stay pending: maintenance closes   *)
(* it, or turns it into an open question.                                    *)
OrphansResolved ==
  \A r \in Requests :
    status[r] = "pending" /\ ~Live(owner[r]) ~> status[r] # "pending"

(* What the ledger has charged for a request: its own row when it is         *)
(* settled, and every reconciliation of it.                                  *)
Charges(r) ==
  {o \in Operations : /\ entries[o] # None
                      /\ entries[o].kind = "reconciliation" /\ entries[o].parent = r}
ChargeOf(r) ==
  (IF status[r] = "settled" THEN accounted[r] ELSE 0)
    + Total(EntryAmounts(Charges(r)), Charges(r))

PhaseOf(r) ==
  CASE status[r] = "none" -> "new"
    [] status[r] = "pending" -> IF dispatch[r] = "dispatching" THEN "sent" ELSE "prepared"
    [] status[r] = "unresolved" -> "question"
    [] OTHER -> "closed"

CloserOf(r) ==
  CASE status[r] = "settled" -> IF terminal[r] = StaleCommand THEN "maintenance" ELSE "session"
    [] status[r] = "resolved" -> "administrator"
    [] OTHER -> None

Promise == INSTANCE BudgetAccount WITH
  standing <- presence, spent <- used, terms <- settings, holder <- owner,
  phase <- [r \in Requests |-> PhaseOf(r)],
  charge <- [r \in Requests |-> ChargeOf(r)],
  closer <- [r \in Requests |-> CloserOf(r)],
  authority <- [s \in Sessions |->
                  IF Live(s) THEN "alive" ELSE IF Known(s) THEN "gone" ELSE "new"]

(* The ledger is a budget account: whatever settlements, recoveries,         *)
(* reconciliations, overflows and their retries run, a request is charged    *)
(* once and the aggregate budget_used moves by exactly its charge; nothing   *)
(* closed is reopened, nothing open is left behind by pausing or deleting an *)
(* account; what stale recovery wrote off is never sent, and no session that *)
(* lapsed works again or shares the deployment with another configuration.   *)
ImplementsAccount == Promise!Spec
-----------------------------------------------------------------------------
(* Strengthening of the invariants to an inductive one (BudgetLedgerProofs). *)

(* A row is prepared by a session that registered, carries a cost once it is     *)
(* settled, and is no newer than its account.                                *)
RowInv ==
  \A r \in Requests :
    /\ status[r] # "none" => /\ owner[r] \in Sessions /\ Known(owner[r])
                             /\ dispatch[r] # "none"
    /\ status[r] = "settled" => accounted[r] # None
    /\ entryRevision[r] <= revision[KeyOf[r]]

(* A reconciliation is no newer than its account, and resolved its parent. *)
EntryInv ==
  \A o \in Operations : entries[o] # None =>
    /\ entries[o].revision <= revision[KeyOf[entries[o].parent]]
    /\ entries[o].kind = "reconciliation" => status[entries[o].parent] = "resolved"

OwnerInv == \A s \in Sessions : stopped[s] => Known(s)

(* A scan found nothing wrong, and while its revision is the account's the   *)
(* account is still what it found.                                           *)
ScanInv ==
  \A b \in Rebuilds : scan[b] # None =>
    LET k == scan[b].key
    IN /\ scan[b].fault = None
       /\ scan[b].revision <= revision[k]
       /\ ScanIsCurrent(b) => /\ scan[b].used = used[k]
                              /\ scan[b].pending = pending[k]
                              /\ scan[b].unresolved = unresolved[k]

LedgerInv == /\ TypeOK /\ RowInv /\ EntryInv /\ OwnerInv /\ ScanInv
             /\ CountsMatchLedger /\ CheckpointSound
=============================================================================
