--------------------------- MODULE RateLimitStore ---------------------------
(***************************************************************************)
(* The in-process quota store of the AI gateway: MemoryRateLimitStore of   *)
(* crates/kong-ai/src/ratelimit/memory.rs.                                 *)
(*                                                                         *)
(* Worker threads call admit, settle and inspect concurrently.  A bucket   *)
(* (one per rate-limit key) is an Arc'ed cell in a DashMap; a thread takes *)
(* a lease on the cell (active_ops) under the map's shard lock, works      *)
(* under the cell's mutex, and releases the lease.  Cleaning runs inside   *)
(* admit/settle/inspect: it pops tickets, and removes a cell from the map  *)
(* only when nobody leases it and it has nothing left to remember.         *)
(*                                                                         *)
(* Atomic steps are what one shard lock, one mutex or one atomic           *)
(* instruction protects.  The time of an operation is read once, when it   *)
(* starts, and is stale by the time it is used.  Left out: poisoned locks, *)
(* overflow of durations, validation of malformed keys, and the wall-clock *)
(* snapshots handed to the response headers.                               *)
(***************************************************************************)
EXTENDS Integers, Sequences, FiniteSets

CONSTANTS
  Threads,          \* worker threads that call the store
  Keys,             \* rate-limit keys
  Requests,         \* request ids
  Cells,            \* heap addresses of Arc<BucketCell>, each used once
  Commands,         \* the AdmitCommands callers may issue
  Payloads,         \* the (operation id, final charge) pairs of SettleCommands
  InspectKeys,      \* the keys callers inspect
  MaxBuckets, MaxIdempotency, Headroom, MaxPerBucket, MaxLive,
  Lifetime, Grace,  \* max_request_lifetime, settlement_retry_grace
  CleanupInterval, ScanBatch,
  MaxCount,         \* the largest value of a usage counter (u64::MAX)
  None,             \* Option::None
  MaxTime, MaxDelay, MaxOps   \* bounds: clock, delay of a running call, calls

Dims == {"requests", "tokens"}
Charge == [Dims -> 0..MaxCount]

(* A limit is an Option<NonZeroU64>: 0 stands for "no limit". *)
Command == [key : Keys, request : Requests, duration : Nat \ {0},
            limits : Charge, reserve : Charge]

(* ReservationEnvelope.  The window identity is the cell and the generation: *)
(* the WindowId of a window that was rolled back was never handed out.       *)
Token == [id : Nat, cmd : Commands, cell : Cells, gen : Nat]

Settlement == [payload : Payloads, applied : BOOLEAN]

(* AdmissionRecord; a Rejected decision carries no token. *)
Record == [cmd : Commands, token : Token \cup {None},
           settlement : Settlement \cup {None}, retainUntil : Nat]

Window == [gen : Nat, duration : Nat, reset : Nat, used : Charge]
Ticket == [key : Keys, cell : Cells]

Op == [kind : {"admit"}, cmd : Commands]
        \cup [kind : {"settle"}, token : Token, payload : Payloads]
        \cup [kind : {"inspect"}, key : Keys]

Labels == {"idle", "begin", "cleanup", "scan", "uncount", "acquire", "reserve",
           "entry", "schedule", "push", "enter", "decide", "release",
           "removeEmpty", "uncountEmpty"}

(* What an admission or a settlement under the cell's mutex came to. *)
Outcome == {"none", "allowed", "rejected", "capacity", "corrupt",
            "applied", "stale", "replayed", "inspected"}

ASSUME ConstantsAssumption ==
  /\ IsFiniteSet(Threads) /\ IsFiniteSet(Requests)
  /\ Commands \subseteq Command
  /\ Payloads \subseteq [op : STRING, charge : Charge]
  /\ InspectKeys \subseteq Keys
  /\ MaxBuckets \in Nat \ {0} /\ MaxIdempotency \in Nat \ {0}
  /\ MaxPerBucket \in Nat \ {0} /\ MaxLive \in Nat \ {0}
  /\ Headroom \in Nat /\ Headroom < MaxIdempotency
  /\ Lifetime \in Nat /\ Grace \in Nat
  /\ CleanupInterval \in Nat \ {0} /\ ScanBatch \in Nat \ {0}
  /\ MaxCount \in Nat /\ MaxTime \in Nat /\ MaxDelay \in Nat /\ MaxOps \in Nat
  /\ None \notin Cells /\ None \notin Token /\ None \notin Settlement
  /\ None \notin Record /\ None \notin Window /\ None \notin Op

VARIABLES
  clock,          \* the monotonic clock
  nextCleanupAt,  \* Mutex<MonoTime>
  queue,          \* cleanup_queue
  buckets,        \* the DashMap: key -> cell
  allocated,      \* cells ever allocated
  activeOps,      \* per cell: leases
  cleanupQueued,  \* per cell: AtomicBool
  window,         \* per cell: Option<WindowState>
  generation,     \* per cell
  admissions,     \* per cell: request -> AdmissionRecord
  stats,          \* the shared atomic counters
  nextId,         \* supply of fresh reservation ids (Uuid::new_v4)
  pc, op, now, attempt, lease, tickets, requeue, result,  \* per thread
  issued,         \* tokens a caller of admit has received
  settledIds,     \* history: ids of the reservations settled so far
  started         \* calls made so far

sharedVars == <<clock, nextCleanupAt, queue, buckets, allocated>>
cellVars   == <<activeOps, cleanupQueued, window, generation, admissions>>
threadVars == <<pc, op, now, attempt, lease, tickets, requeue, result>>
ghostVars  == <<issued, settledIds, started, nextId>>
vars == <<sharedVars, cellVars, stats, threadVars, ghostVars>>

Counters == {"buckets", "idempotency", "live", "rejected", "recovery"}
Stats == [Counters -> Int]

SharedTypeOK ==
  /\ clock \in Nat /\ nextCleanupAt \in Nat
  /\ queue \in Seq(Ticket)
  /\ buckets \in [Keys -> Cells \cup {None}]
  /\ allocated \subseteq Cells
  /\ stats \in Stats

CellTypeOK ==
  /\ activeOps \in [Cells -> Int]
  /\ cleanupQueued \in [Cells -> BOOLEAN]
  /\ window \in [Cells -> Window \cup {None}]
  /\ generation \in [Cells -> Nat]
  /\ admissions \in [Cells -> [Requests -> Record \cup {None}]]

ThreadTypeOK ==
  /\ pc \in [Threads -> Labels]
  /\ op \in [Threads -> Op \cup {None}]
  /\ now \in [Threads -> Nat]
  /\ attempt \in [Threads -> {0, 1}]
  /\ lease \in [Threads -> Cells \cup {None}]
  /\ tickets \in [Threads -> Seq(Ticket)]
  /\ requeue \in [Threads -> Seq(Ticket)]
  /\ result \in [Threads -> [outcome : Outcome, token : Token \cup {None}]]

CallerTypeOK ==
  issued \subseteq Token /\ settledIds \subseteq Nat /\ started \in Nat /\ nextId \in Nat

(* The state has the shape its declarations give it; in particular a usage   *)
(* counter of a window never leaves 0..MaxCount, although settlements may    *)
(* charge more than was reserved (checked_add in admit_once and              *)
(* adjusted_count).                                                          *)
TypeOK == SharedTypeOK /\ CellTypeOK /\ ThreadTypeOK /\ CallerTypeOK

NoResult == [outcome |-> "none", token |-> None]

Init ==
  /\ clock = 0 /\ nextCleanupAt = CleanupInterval /\ queue = << >>
  /\ buckets = [k \in Keys |-> None]
  /\ allocated = {}
  /\ activeOps = [c \in Cells |-> 0]
  /\ cleanupQueued = [c \in Cells |-> FALSE]
  /\ window = [c \in Cells |-> None]
  /\ generation = [c \in Cells |-> 0]
  /\ admissions = [c \in Cells |-> [r \in Requests |-> None]]
  /\ stats = [x \in Counters |-> 0]
  /\ nextId = 0
  /\ pc = [t \in Threads |-> "idle"]
  /\ op = [t \in Threads |-> None]
  /\ now = [t \in Threads |-> 0]
  /\ attempt = [t \in Threads |-> 0]
  /\ lease = [t \in Threads |-> None]
  /\ tickets = [t \in Threads |-> << >>]
  /\ requeue = [t \in Threads |-> << >>]
  /\ result = [t \in Threads |-> NoResult]
  /\ issued = {} /\ settledIds = {} /\ started = 0

-----------------------------------------------------------------------------
(* Helpers *)

Goto(t, label) == pc' = [pc EXCEPT ![t] = label]

(* The call returns: its locals die with it.  result keeps the answer. *)
Return(t) ==
  /\ Goto(t, "idle")
  /\ op' = [op EXCEPT ![t] = None]
  /\ now' = [now EXCEPT ![t] = 0]
  /\ attempt' = [attempt EXCEPT ![t] = 0]
  /\ result' = [result EXCEPT ![t] = NoResult]

OpKey(o) == IF o.kind = "admit" THEN o.cmd.key
            ELSE IF o.kind = "settle" THEN o.token.cmd.key ELSE o.key

Bump(field, n) == stats' = [stats EXCEPT ![field] = @ + n]

(* Nobody is inside the critical section of cell c (the only region of more *)
(* than one step that holds the cell's mutex).                              *)
Unlocked(c) == \A u \in Threads : ~(pc[u] = "decide" /\ lease[u] = c)

-----------------------------------------------------------------------------
(* purge_expired *)

PurgedWindow(c, n) == IF window[c] # None /\ n >= window[c].reset THEN None ELSE window[c]

(* Mutant: retention alone decides, as if unsettled reservations expired. *)
Removable_Expired(rec, n) == rec # None /\ n >= rec.retainUntil

Removable(rec, n) ==
  /\ rec # None
  /\ rec.settlement # None \/ rec.token = None
  /\ n >= rec.retainUntil

PurgedAdmissions(c, n) ==
  [r \in Requests |-> IF Removable(admissions[c][r], n) THEN None ELSE admissions[c][r]]

PurgedStats(c, n) ==
  LET gone     == {r \in Requests : Removable(admissions[c][r], n)}
      recovery == {r \in gone : admissions[c][r].settlement # None}
  IN [stats EXCEPT !["idempotency"] = @ - Cardinality(gone),
                   !["recovery"] = @ - Cardinality(recovery),
                   !["rejected"] = @ - Cardinality(gone \ recovery)]

IsEmpty(w, adm) == w = None /\ \A r \in Requests : adm[r] = None

-----------------------------------------------------------------------------
(* Entry of a call: validation is left out; the clock is read, then          *)
(* maybe_cleanup looks at next_cleanup_at under its own mutex.               *)

Start(t, o) ==
  /\ pc[t] = "idle" /\ started < MaxOps
  /\ started' = started + 1
  /\ op' = [op EXCEPT ![t] = o]
  /\ now' = [now EXCEPT ![t] = clock]
  /\ Goto(t, "begin")
  /\ UNCHANGED <<sharedVars, cellVars, stats, attempt, lease, tickets, requeue, result,
                 issued, settledIds, nextId>>

StartAdmit(t) == \E c \in Commands : Start(t, [kind |-> "admit", cmd |-> c])

StartSettle(t) == \E tok \in issued, p \in Payloads :
                    Start(t, [kind |-> "settle", token |-> tok, payload |-> p])

StartInspect(t) == \E k \in InspectKeys : Start(t, [kind |-> "inspect", key |-> k])

MaybeCleanup(t) ==
  LET due == now[t] >= nextCleanupAt
  IN /\ pc[t] = "begin"
     /\ nextCleanupAt' = IF due THEN now[t] + CleanupInterval ELSE nextCleanupAt
     /\ Goto(t, IF due THEN "cleanup" ELSE "acquire")
     /\ UNCHANGED <<clock, queue, buckets, allocated, cellVars, stats, op, now, attempt,
                    lease, tickets, requeue, result, ghostVars>>

-----------------------------------------------------------------------------
(* cleanup_at *)

CleanupPop(t) ==
  LET n == IF Len(queue) < ScanBatch THEN Len(queue) ELSE ScanBatch
  IN /\ pc[t] = "cleanup"
     /\ tickets' = [tickets EXCEPT ![t] = SubSeq(queue, 1, n)]
     /\ queue' = SubSeq(queue, n + 1, Len(queue))
     /\ Goto(t, "scan")
     /\ UNCHANGED <<clock, nextCleanupAt, buckets, allocated, cellVars, stats, op, now,
                    attempt, lease, requeue, result, ghostVars>>

(* One ticket: DashMap::remove_if, whose closure runs under the shard's write *)
(* lock.  A ticket whose cell has left the map is dropped (its Weak fails to  *)
(* upgrade, or the pointers differ).                                         *)
ScanStale(t) ==
  /\ pc[t] = "scan" /\ tickets[t] # << >>
  /\ LET tk == Head(tickets[t])
     IN /\ buckets[tk.key] # tk.cell
        /\ cleanupQueued' = [cleanupQueued EXCEPT ![tk.cell] = FALSE]
  /\ tickets' = [tickets EXCEPT ![t] = Tail(@)]
  /\ UNCHANGED <<sharedVars, activeOps, window, generation, admissions, stats, pc, op, now,
                 attempt, lease, requeue, result, ghostVars>>

(* The removal test of cleanup_at's closure, before the state is looked at. *)
(* Mutant: the closure forgets the lease count. *)
Leased_Ignored(c) == FALSE

Leased(c) == activeOps[c] # 0

ScanBusy(t) ==
  /\ pc[t] = "scan" /\ tickets[t] # << >>
  /\ LET tk == Head(tickets[t])
     IN /\ buckets[tk.key] = tk.cell
        /\ Leased(tk.cell)
        /\ requeue' = [requeue EXCEPT ![t] = Append(@, tk)]
  /\ tickets' = [tickets EXCEPT ![t] = Tail(@)]
  /\ UNCHANGED <<sharedVars, cellVars, stats, pc, op, now, attempt, lease, result, ghostVars>>

(* The bucket counter follows in a step of its own, after remove_if. *)
ScanPurge(t) ==
  /\ pc[t] = "scan" /\ tickets[t] # << >>
  /\ LET tk  == Head(tickets[t])
         c   == tk.cell
         w   == PurgedWindow(c, now[t])
         adm == PurgedAdmissions(c, now[t])
     IN /\ buckets[tk.key] = c
        /\ ~Leased(c)
        /\ window' = [window EXCEPT ![c] = w]
        /\ admissions' = [admissions EXCEPT ![c] = adm]
        /\ stats' = PurgedStats(c, now[t])
        /\ IF IsEmpty(w, adm)
             THEN /\ buckets' = [buckets EXCEPT ![tk.key] = None]
                  /\ cleanupQueued' = [cleanupQueued EXCEPT ![c] = FALSE]
                  /\ Goto(t, "uncount")
                  /\ UNCHANGED requeue
             ELSE /\ requeue' = [requeue EXCEPT ![t] = Append(@, tk)]
                  /\ UNCHANGED <<buckets, cleanupQueued, pc>>
  /\ tickets' = [tickets EXCEPT ![t] = Tail(@)]
  /\ UNCHANGED <<clock, nextCleanupAt, queue, allocated, activeOps, generation, op, now,
                 attempt, lease, result, ghostVars>>

UncountBucket(t) ==
  /\ pc[t] = "uncount"
  /\ Bump("buckets", -1)
  /\ Goto(t, "scan")
  /\ UNCHANGED <<sharedVars, cellVars, op, now, attempt, lease, tickets, requeue, result,
                 ghostVars>>

(* A call that cleans always goes on to acquire a bucket: settle and inspect *)
(* for the first time, admit for the first or (after Capacity) second time.  *)
CleanupDone(t) ==
  /\ pc[t] = "scan" /\ tickets[t] = << >>
  /\ queue' = queue \o requeue[t]
  /\ requeue' = [requeue EXCEPT ![t] = << >>]
  /\ Goto(t, "acquire")
  /\ UNCHANGED <<clock, nextCleanupAt, buckets, allocated, cellVars, stats, op, now, attempt,
                 lease, tickets, result, ghostVars>>

-----------------------------------------------------------------------------
(* acquire_bucket, schedule_cleanup *)

TakeLease(t, c) ==
  /\ lease' = [lease EXCEPT ![t] = c]
  /\ activeOps' = [activeOps EXCEPT ![c] = @ + 1]
  /\ Goto(t, IF op[t].kind = "admit" THEN "schedule" ELSE "enter")

AcquireHit(t) ==
  /\ pc[t] = "acquire" /\ buckets[OpKey(op[t])] # None
  /\ TakeLease(t, buckets[OpKey(op[t])])
  /\ UNCHANGED <<sharedVars, cleanupQueued, window, generation, admissions, stats, op, now,
                 attempt, tickets, requeue, result, ghostVars>>

(* settle answers "reservation bucket no longer exists", inspect NotFound. *)
AcquireMiss(t) ==
  /\ pc[t] = "acquire" /\ buckets[OpKey(op[t])] = None
  /\ IF op[t].kind = "admit"
       THEN Goto(t, "reserve") /\ UNCHANGED <<op, now, attempt, result>>
       ELSE Return(t)
  /\ UNCHANGED <<sharedVars, cellVars, stats, lease, tickets, requeue, ghostVars>>

(* Mutant: the retry loop does not count its attempts. *)
RetryOrFail_Forever(t) ==
  /\ Goto(t, "cleanup")
  /\ result' = [result EXCEPT ![t] = NoResult]
  /\ UNCHANGED <<op, now, attempt>>

(* Overloaded: clean and try once more, then give up. *)
RetryOrFail(t) ==
  IF attempt[t] = 0
    THEN /\ Goto(t, "cleanup")
         /\ attempt' = [attempt EXCEPT ![t] = 1]
         /\ result' = [result EXCEPT ![t] = NoResult]
         /\ UNCHANGED <<op, now>>
    ELSE Return(t)

ReserveBucket(t) ==
  /\ pc[t] = "reserve"
  /\ IF stats["buckets"] >= MaxBuckets
       THEN RetryOrFail(t) /\ UNCHANGED stats
       ELSE Bump("buckets", 1) /\ Goto(t, "entry") /\ UNCHANGED <<op, now, attempt, result>>
  /\ UNCHANGED <<sharedVars, cellVars, lease, tickets, requeue, ghostVars>>

EntryOccupied(t) ==
  /\ pc[t] = "entry" /\ buckets[OpKey(op[t])] # None
  /\ Bump("buckets", -1)
  /\ TakeLease(t, buckets[OpKey(op[t])])
  /\ UNCHANGED <<sharedVars, cleanupQueued, window, generation, admissions, op, now, attempt,
                 tickets, requeue, result, ghostVars>>

(* Arc::new: which address the allocator picks does not matter. *)
FreshCell == CHOOSE c \in Cells \ allocated : TRUE

EntryVacant(t) ==
  /\ pc[t] = "entry" /\ buckets[OpKey(op[t])] = None
  /\ allocated # Cells
  /\ allocated' = allocated \cup {FreshCell}
  /\ buckets' = [buckets EXCEPT ![OpKey(op[t])] = FreshCell]
  /\ TakeLease(t, FreshCell)
  /\ UNCHANGED <<clock, nextCleanupAt, queue, cleanupQueued, window, generation, admissions,
                 stats, op, now, attempt, tickets, requeue, result, ghostVars>>

(* compare_exchange on cleanup_queued; the ticket is pushed under a later lock. *)
ScheduleCleanup(t) ==
  LET c == lease[t]
  IN /\ pc[t] = "schedule"
     /\ Goto(t, IF cleanupQueued[c] THEN "enter" ELSE "push")
     /\ cleanupQueued' = [cleanupQueued EXCEPT ![c] = TRUE]
     /\ UNCHANGED <<sharedVars, activeOps, window, generation, admissions, stats, op, now,
                    attempt, lease, tickets, requeue, result, ghostVars>>

PushTicket(t) ==
  /\ pc[t] = "push"
  /\ queue' = Append(queue, [key |-> OpKey(op[t]), cell |-> lease[t]])
  /\ Goto(t, "enter")
  /\ UNCHANGED <<clock, nextCleanupAt, buckets, allocated, cellVars, stats, op, now, attempt,
                 lease, tickets, requeue, result, ghostVars>>

-----------------------------------------------------------------------------
(* admit_once, under the cell's mutex *)

Finish(t, outcome, token) ==
  /\ result' = [result EXCEPT ![t] = [outcome |-> outcome, token |-> token]]
  /\ Goto(t, "release")

(* Purge, then answer a replay, or reserve one idempotency record. *)
AdmitEnter(t) ==
  LET c      == lease[t]
      cmd    == op[t].cmd
      adm    == PurgedAdmissions(c, now[t])
      purged == PurgedStats(c, now[t])
      rec    == adm[cmd.request]
      full   == \/ Cardinality({r \in Requests : adm[r] # None}) >= MaxPerBucket
                \/ purged["idempotency"] >= MaxIdempotency - Headroom
  IN /\ pc[t] = "enter" /\ op[t].kind = "admit" /\ Unlocked(c)
     /\ window' = [window EXCEPT ![c] = PurgedWindow(c, now[t])]
     /\ admissions' = [admissions EXCEPT ![c] = adm]
     /\ \/ /\ rec # None
           /\ stats' = purged
           /\ IF rec.cmd # cmd THEN Finish(t, "corrupt", None)
              ELSE Finish(t, IF rec.token = None THEN "rejected" ELSE "allowed", rec.token)
        \/ /\ rec = None /\ full
           /\ stats' = purged
           /\ Finish(t, "capacity", None)
        \/ /\ rec = None /\ ~full
           /\ stats' = [purged EXCEPT !["idempotency"] = @ + 1]
           /\ Goto(t, "decide") /\ UNCHANGED result
     /\ UNCHANGED <<sharedVars, activeOps, cleanupQueued, generation, op, now, attempt, lease,
                    tickets, requeue, ghostVars>>

NewWindow(c, cmd, n) ==
  [gen |-> generation[c] + 1, duration |-> cmd.duration, reset |-> n + cmd.duration,
   used |-> [d \in Dims |-> 0]]

(* ensure_window: the first command after a reset fixes the duration. *)
EnsuredWindow(c, cmd, n) == IF window[c] = None THEN NewWindow(c, cmd, n) ELSE window[c]

(* Mutant: the retention forgets the length of the window. *)
RetainUntil_NoWindow(w, n) == n + Lifetime + Grace

RetainUntil(w, n) == n + w.duration + Lifetime + Grace

Candidate(w, cmd) ==
  [d \in Dims |-> IF cmd.limits[d] = 0 THEN w.used[d] ELSE w.used[d] + cmd.reserve[d]]

Overflows(cand) == \E d \in Dims : cand[d] > MaxCount

(* Mutant: the limit is compared with the usage before this request. *)
Exceeds_BeforeAdding(cand, cmd) ==
  \E d \in Dims : cmd.limits[d] # 0 /\ cand[d] - cmd.reserve[d] >= cmd.limits[d]

Exceeds(cand, cmd) == \E d \in Dims : cmd.limits[d] # 0 /\ cand[d] > cmd.limits[d]

(* Mutant: a failed admission keeps its idempotency slot. *)
AdmitRollback_LeaksSlot(t, outcome) ==
  /\ Finish(t, outcome, None)
  /\ UNCHANGED <<window, generation, admissions, nextId, stats>>

(* rollback_new_window: the window (and its generation) created by this call *)
(* disappears; a window that was there stays.                                *)
AdmitRollback(t, outcome) ==
  /\ Bump("idempotency", -1)
  /\ Finish(t, outcome, None)
  /\ UNCHANGED <<window, generation, admissions, nextId>>

AdmitRecord(t, w, rec) ==
  LET c == lease[t]
  IN /\ window' = [window EXCEPT ![c] = w]
     /\ generation' = [generation EXCEPT ![c] = w.gen]
     /\ admissions' = [admissions EXCEPT ![c][op[t].cmd.request] = rec]

AdmitDecide(t) ==
  LET c    == lease[t]
      cmd  == op[t].cmd
      w    == EnsuredWindow(c, cmd, now[t])
      cand == Candidate(w, cmd)
      tok  == [id |-> nextId, cmd |-> cmd, cell |-> c, gen |-> w.gen]
      rec(tk) == [cmd |-> cmd, token |-> tk, settlement |-> None,
                  retainUntil |-> RetainUntil(w, now[t])]
  IN /\ pc[t] = "decide"
     /\ \/ /\ Overflows(cand)
           /\ AdmitRollback(t, "corrupt")
        \/ /\ ~Overflows(cand) /\ Exceeds(cand, cmd)
           /\ AdmitRecord(t, w, rec(None))
           /\ Bump("rejected", 1)
           /\ Finish(t, "rejected", None)
           /\ UNCHANGED nextId
        \/ /\ ~Overflows(cand) /\ ~Exceeds(cand, cmd)
           /\ stats["live"] >= MaxLive
           /\ AdmitRollback(t, "capacity")
        \/ /\ ~Overflows(cand) /\ ~Exceeds(cand, cmd)
           /\ stats["live"] < MaxLive
           /\ AdmitRecord(t, [w EXCEPT !.used = cand], rec(tok))
           /\ Bump("live", 1)
           /\ nextId' = nextId + 1
           /\ Finish(t, "allowed", tok)
     /\ UNCHANGED <<sharedVars, activeOps, cleanupQueued, op, now, attempt, lease, tickets,
                    requeue, issued, settledIds, started>>

-----------------------------------------------------------------------------
(* settle_inner, under the cell's mutex: one step, because nothing in it can *)
(* be observed half done (the counters it touches are only decremented or    *)
(* only reported).                                                           *)

(* adjusted_count on both dimensions: checked_sub, then checked_add. *)
Adjusted(w, cmd, charge) ==
  [d \in Dims |-> IF cmd.limits[d] = 0 THEN w.used[d]
                  ELSE w.used[d] - cmd.reserve[d] + charge[d]]

(* Mutant: the settlement arithmetic is not checked. *)
AdjustmentInvalid_Unchecked(w, cmd, charge) == FALSE

AdjustmentInvalid(w, cmd, charge) ==
  \E d \in Dims : /\ cmd.limits[d] # 0
                  /\ \/ w.used[d] < cmd.reserve[d]
                     \/ w.used[d] - cmd.reserve[d] + charge[d] > MaxCount

SettledRecord(rec, payload, applied, n) ==
  [cmd |-> rec.cmd, token |-> rec.token,
   settlement |-> [payload |-> payload, applied |-> applied],
   retainUntil |-> IF rec.retainUntil > n + Grace THEN rec.retainUntil ELSE n + Grace]

SettleApply(t, c, w, adm, purged) ==
  LET tok  == op[t].token
      p    == op[t].payload
      req  == tok.cmd.request
      same == w # None /\ w.gen = tok.gen /\ now[t] < w.reset
  IN IF same /\ AdjustmentInvalid(w, tok.cmd, p.charge)
     THEN /\ window' = [window EXCEPT ![c] = w]
          /\ admissions' = [admissions EXCEPT ![c] = adm]
          /\ stats' = purged
          /\ Finish(t, "corrupt", None)
          /\ UNCHANGED settledIds
     ELSE /\ window' = [window EXCEPT ![c] =
                          IF same THEN [w EXCEPT !.used = Adjusted(w, tok.cmd, p.charge)]
                          ELSE w]
          /\ admissions' = [admissions EXCEPT ![c] =
                              [adm EXCEPT ![req] = SettledRecord(@, p, same, now[t])]]
          /\ stats' = [purged EXCEPT !["live"] = @ - 1, !["recovery"] = @ + 1]
          /\ settledIds' = settledIds \cup {tok.id}
          /\ Finish(t, IF same THEN "applied" ELSE "stale", None)

SettleLocked(t) ==
  LET c      == lease[t]
      w      == PurgedWindow(c, now[t])
      adm    == PurgedAdmissions(c, now[t])
      purged == PurgedStats(c, now[t])
      rec    == adm[op[t].token.cmd.request]
      known  == rec # None /\ rec.token = op[t].token
  IN /\ pc[t] = "enter" /\ op[t].kind = "settle" /\ Unlocked(c)
     /\ IF known /\ rec.settlement = None
        THEN SettleApply(t, c, w, adm, purged)
        ELSE /\ window' = [window EXCEPT ![c] = w]
             /\ admissions' = [admissions EXCEPT ![c] = adm]
             /\ stats' = purged
             /\ Finish(t, IF known /\ rec.settlement.payload = op[t].payload
                          THEN "replayed" ELSE "corrupt", None)
             /\ UNCHANGED settledIds
     /\ UNCHANGED <<sharedVars, activeOps, cleanupQueued, generation, op, now, attempt, lease,
                    tickets, requeue, issued, started, nextId>>

(* inspect_inner: every query leases, purges and reads. *)
InspectLocked(t) ==
  LET c == lease[t]
  IN /\ pc[t] = "enter" /\ op[t].kind = "inspect" /\ Unlocked(c)
     /\ window' = [window EXCEPT ![c] = PurgedWindow(c, now[t])]
     /\ admissions' = [admissions EXCEPT ![c] = PurgedAdmissions(c, now[t])]
     /\ stats' = PurgedStats(c, now[t])
     /\ Finish(t, "inspected", None)
     /\ UNCHANGED <<sharedVars, activeOps, cleanupQueued, generation, op, now, attempt, lease,
                    tickets, requeue, ghostVars>>

-----------------------------------------------------------------------------
(* The lease is dropped after the guard; admit then acts on its outcome. *)

DropLease(t) ==
  /\ activeOps' = [activeOps EXCEPT ![lease[t]] = @ - 1]
  /\ lease' = [lease EXCEPT ![t] = None]

AfterRelease(t) ==
  IF result[t].outcome = "capacity" /\ attempt[t] = 0
    THEN RetryOrFail(t)
  ELSE IF result[t].outcome = "capacity"
    THEN Goto(t, "removeEmpty") /\ UNCHANGED <<op, now, attempt, result>>
  ELSE Return(t)

Release(t) ==
  /\ pc[t] = "release"
  /\ DropLease(t)
  /\ AfterRelease(t)
  /\ issued' = IF result[t].token # None THEN issued \cup {result[t].token} ELSE issued
  /\ UNCHANGED <<sharedVars, cleanupQueued, window, generation, admissions, stats, tickets,
                 requeue, settledIds, started, nextId>>

(* remove_empty_bucket after the second Capacity. *)
RemoveEmpty(t) ==
  LET k == OpKey(op[t])
      c == buckets[k]
  IN /\ pc[t] = "removeEmpty"
     /\ IF c # None /\ ~Leased(c) /\ IsEmpty(window[c], admissions[c])
        THEN /\ buckets' = [buckets EXCEPT ![k] = None]
             /\ cleanupQueued' = [cleanupQueued EXCEPT ![c] = FALSE]
             /\ Goto(t, "uncountEmpty")
             /\ UNCHANGED <<op, now, attempt, result>>
        ELSE Return(t) /\ UNCHANGED <<buckets, cleanupQueued>>
     /\ UNCHANGED <<clock, nextCleanupAt, queue, allocated, activeOps, window, generation,
                    admissions, stats, lease, tickets, requeue, ghostVars>>

UncountEmpty(t) ==
  /\ pc[t] = "uncountEmpty"
  /\ Bump("buckets", -1)
  /\ Return(t)
  /\ UNCHANGED <<sharedVars, cellVars, lease, tickets, requeue, ghostVars>>

-----------------------------------------------------------------------------
(* Time passes; MaxDelay bounds how stale a running call's clock gets. *)
Tick ==
  /\ clock < MaxTime
  /\ \A t \in Threads : pc[t] # "idle" => clock - now[t] < MaxDelay
  /\ clock' = clock + 1
  /\ UNCHANGED <<nextCleanupAt, queue, buckets, allocated, cellVars, stats, threadVars,
                 ghostVars>>

Call(t) == StartAdmit(t) \/ StartSettle(t) \/ StartInspect(t)

Run(t) ==
  \/ MaybeCleanup(t)
  \/ CleanupPop(t) \/ ScanStale(t) \/ ScanBusy(t) \/ ScanPurge(t)
  \/ UncountBucket(t) \/ CleanupDone(t)
  \/ AcquireHit(t) \/ AcquireMiss(t) \/ ReserveBucket(t)
  \/ EntryOccupied(t) \/ EntryVacant(t)
  \/ ScheduleCleanup(t) \/ PushTicket(t)
  \/ AdmitEnter(t) \/ AdmitDecide(t) \/ SettleLocked(t) \/ InspectLocked(t)
  \/ Release(t) \/ RemoveEmpty(t) \/ UncountEmpty(t)

Next == Tick \/ \E t \in Threads : Call(t) \/ Run(t)

Spec == Init /\ [][Next]_vars

(* A thread that is inside a call keeps being scheduled. *)
FairSpec == Spec /\ \A t \in Threads : WF_vars(Run(t))
-----------------------------------------------------------------------------
(* Properties *)

(* A thread never works on a cell that has left the map: from the moment it  *)
(* takes its lease (acquire_bucket) until it drops it, the cell is the one   *)
(* the map holds for the key of the call, and active_ops counts exactly the  *)
(* leases.  Otherwise cleanup_at or remove_empty_bucket could detach a cell  *)
(* under a call, which would then charge a bucket nobody reads again.        *)
LeaseSafety ==
  /\ \A t \in Threads : lease[t] # None => buckets[OpKey(op[t])] = lease[t]
  /\ \A c \in Cells : activeOps[c] = Cardinality({t \in Threads : lease[t] = c})

(* tok can still be settled. *)
Settleable(tok) ==
  /\ buckets[tok.cmd.key] = tok.cell
  /\ admissions[tok.cell][tok.cmd.request] # None
  /\ admissions[tok.cell][tok.cmd.request].token = tok
  /\ admissions[tok.cell][tok.cmd.request].settlement = None

(* A reservation handed to a caller and not settled yet can still be settled, *)
(* however many cleanups, window resets and capacity failures happen in       *)
(* between: its cell is still mapped and its record still holds the token,    *)
(* unsettled (settle_inner would otherwise answer Corrupt).                   *)
OutstandingSettleable ==
  \A tok \in issued : tok.id \notin settledIds => Settleable(tok)

(* The charge a record contributes to dimension d of the window it was       *)
(* admitted in, as a set of units (so that sums are cardinalities).          *)
ChargeOf(rec, d) ==
  IF rec.cmd.limits[d] = 0 THEN 0
  ELSE IF rec.settlement = None THEN rec.cmd.reserve[d]
  ELSE rec.settlement.payload.charge[d]

InWindow(c, r) ==
  /\ window[c] # None
  /\ admissions[c][r] # None /\ admissions[c][r].token # None
  /\ admissions[c][r].token.gen = window[c].gen

Units(c, d, S) == UNION {{r} \X (1..ChargeOf(admissions[c][r], d)) : r \in S}

(* The used counters of the current window are exactly the charges of the    *)
(* admissions remembered for it: reserved amounts while unsettled, final     *)
(* amounts after.  No call is charged twice, forgotten while it counts, or   *)
(* settled into a window it did not reserve from, although every call works  *)
(* with a stale clock; and concurrent reservations never oversubscribe it:   *)
(* what is reserved and not settled fits the limit of one of the             *)
(* reservations that hold it.                                                *)
WindowAccounting ==
  \A c \in Cells, d \in Dims :
    LET out  == {r \in Requests : InWindow(c, r) /\ admissions[c][r].settlement = None}
        held == Cardinality(Units(c, d, out))
    IN /\ window[c] # None =>
            window[c].used[d] = Cardinality(Units(c, d, {r \in Requests : InWindow(c, r)}))
       /\ held > 0 => \E r \in out : admissions[c][r].cmd.limits[d] >= held

Rec(cr) == admissions[cr[1]][cr[2]]
InUse == {cr \in Cells \X Requests : Rec(cr) # None}

(* The lock-free counters that enforce the capacities agree with what they   *)
(* count, plus the slots of calls between their increment and their effect,  *)
(* and stay within the configured limits: no path (replay, overflow,         *)
(* rollback, lost race for the map entry, cleanup) leaks or frees a slot.    *)
CounterAccounting ==
  /\ stats["buckets"] = Cardinality({k \in Keys : buckets[k] # None})
       + Cardinality({t \in Threads : pc[t] \in {"entry", "uncount", "uncountEmpty"}})
  /\ stats["idempotency"] = Cardinality(InUse) + Cardinality({t \in Threads : pc[t] = "decide"})
  /\ stats["live"] = Cardinality({x \in InUse : Rec(x).token # None /\ Rec(x).settlement = None})
  /\ stats["rejected"] = Cardinality({x \in InUse : Rec(x).token = None})
  /\ stats["recovery"] = Cardinality({x \in InUse : Rec(x).settlement # None})
  /\ stats["buckets"] <= MaxBuckets
  /\ stats["idempotency"] <= MaxIdempotency - Headroom
  /\ stats["live"] <= MaxLive

(* Every call returns: the capacity retry is bounded and no lock is held      *)
(* across a step that waits for another thread.                               *)
CallsReturn == \A t \in Threads : (pc[t] # "idle") ~> (pc[t] = "idle")
-----------------------------------------------------------------------------
(* Strengthening of LeaseSafety and OutstandingSettleable to an inductive    *)
(* invariant (RateLimitStoreProofs).                                         *)

Leasing == {"schedule", "push", "enter", "decide", "release"}
Admitting == {"reserve", "entry", "schedule", "push", "decide", "removeEmpty", "uncountEmpty"}

(* Where a thread is in its call determines what it holds. *)
ControlInv ==
  \A t \in Threads :
    /\ pc[t] # "idle" => op[t] # None
    /\ lease[t] # None <=> pc[t] \in Leasing
    /\ pc[t] \in Admitting => op[t].kind = "admit"
    /\ pc[t] = "release" /\ result[t].outcome = "capacity" => op[t].kind = "admit"

(* A cell is the bucket of at most one key, and an allocated one. *)
MapInv ==
  /\ \A k \in Keys : buckets[k] # None => buckets[k] \in allocated
  /\ \A k, j \in Keys : buckets[k] # None /\ buckets[k] = buckets[j] => k = j

(* The mutex: one thread per cell decides, and the request it decides about  *)
(* has no record yet.                                                        *)
DecideInv ==
  \A t \in Threads : pc[t] = "decide" =>
    /\ admissions[lease[t]][op[t].cmd.request] = None
    /\ \A u \in Threads : pc[u] = "decide" /\ lease[u] = lease[t] => u = t

(* A record sits in the bucket of its key, and its settlement is known. *)
RecordInv ==
  \A c \in Cells, r \in Requests : admissions[c][r] # None =>
    LET rec == admissions[c][r]
    IN /\ rec.cmd.request = r /\ buckets[rec.cmd.key] = c
       /\ rec.token # None => /\ rec.token.cmd = rec.cmd /\ rec.token.cell = c
                              /\ rec.settlement # None => rec.token.id \in settledIds

(* The same for a token on its way back to the caller. *)
ReturningInv ==
  \A t \in Threads :
    result[t].token # None /\ result[t].token.id \notin settledIds => Settleable(result[t].token)

LeaseInv == TypeOK /\ ControlInv /\ MapInv /\ LeaseSafety
ReservationInv == LeaseInv /\ DecideInv /\ RecordInv /\ ReturningInv /\ OutstandingSettleable

(* A refusal is never settled, and only finitely many slots are taken. *)
RefusedInv ==
  \A c \in Cells, r \in Requests :
    admissions[c][r] # None /\ admissions[c][r].token = None => admissions[c][r].settlement = None

FiniteInv == IsFiniteSet({k \in Keys : buckets[k] # None}) /\ IsFiniteSet(InUse)

CounterInv == ReservationInv /\ RefusedInv /\ FiniteInv /\ CounterAccounting

(* How stale the time of a running call is. *)
TimeInv == \A t \in Threads : pc[t] # "idle" => now[t] <= clock /\ clock <= now[t] + MaxDelay

(* For a cell with window w, records a and generation g, at time T and with   *)
(* n ids handed out: the records that count in the window, the reservations   *)
(* among them that are not settled, and those admitted no later than r's.     *)
Counted(w, a) ==
  {r \in Requests : w # None /\ a[r] # None /\ a[r].token # None /\ a[r].token.gen = w.gen}
Open(w, a) == {r \in Counted(w, a) : a[r].settlement = None}
Earlier(w, a, r) == {s \in Open(w, a) : a[s].token.id <= a[r].token.id}

Charged(a, d, S) == Cardinality(UNION {{r} \X (1..ChargeOf(a[r], d)) : r \in S})

(* The window is of the latest generation and ends at most one duration from  *)
(* now; no token is of a generation to come, or was not issued yet.           *)
Timely(w, g, T) == w # None => w.gen = g /\ w.reset <= T + w.duration
Known(a, g, n) ==
  \A r \in Requests : a[r] # None /\ a[r].token # None =>
    a[r].token.gen <= g /\ a[r].token.id < n

(* What counts in the window is remembered until the window ends. *)
Retained(w, a) == \A r \in Counted(w, a) : a[r].retainUntil >= w.reset

(* The counters are the charges, and a reservation fits its own limit         *)
(* together with the unsettled ones before it.                                *)
Exact(w, a) == w # None => \A d \in Dims : w.used[d] = Charged(a, d, Counted(w, a))
Fits(w, a) ==
  \A d \in Dims : \A r \in Open(w, a) :
    a[r].cmd.limits[d] # 0 => Charged(a, d, Earlier(w, a, r)) <= a[r].cmd.limits[d]

Sound(w, a, g, n, T) ==
  Timely(w, g, T) /\ Known(a, g, n) /\ Retained(w, a) /\ Exact(w, a) /\ Fits(w, a)

WindowInv ==
  /\ ReservationInv /\ TimeInv
  /\ \A c \in Cells : Sound(window[c], admissions[c], generation[c], nextId, clock)
=============================================================================
