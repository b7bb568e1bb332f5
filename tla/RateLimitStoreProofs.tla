----------------------- MODULE RateLimitStoreProofs -----------------------
(***************************************************************************)
(* Proofs about the in-process quota store for every number of threads,    *)
(* keys, requests and cells, every capacity and every delay: a thread      *)
(* never works on a bucket that cleaning has removed; a reservation that   *)
(* was handed out stays settleable until it is settled; the capacity       *)
(* counters are what is stored; and, as long as no call sleeps longer than *)
(* a record is kept, the counters of a window are the charges in it and    *)
(* every reservation fitted its limit.                                     *)
(***************************************************************************)
EXTENDS RateLimitStore, FiniteSetTheorems, SequenceTheorems, TLAPS

USE ConstantsAssumption

-----------------------------------------------------------------------------
(* Shapes *)

(* What an operation carries, by kind (AdmitCommand, SettleCommand, query). *)
LEMMA OpFields ==
  ASSUME NEW o \in Op
  PROVE  /\ o.kind = "admit" => o.cmd \in Commands
         /\ o.kind = "settle" => o.token \in Token /\ o.payload \in Payloads
         /\ o.kind \in {"admit", "settle", "inspect"}
         /\ OpKey(o) \in Keys
  BY DEF Op, OpKey, Token, Command

(* purge_expired keeps the shape of a cell and of the counters. *)
LEMMA PurgeType ==
  ASSUME TypeOK, NEW c \in Cells, NEW n \in Nat
  PROVE  /\ PurgedWindow(c, n) \in Window \cup {None}
         /\ PurgedAdmissions(c, n) \in [Requests -> Record \cup {None}]
         /\ PurgedStats(c, n) \in Stats
<1>1. PurgedWindow(c, n) \in Window \cup {None}
  BY DEF TypeOK, CellTypeOK, PurgedWindow
<1>2. PurgedAdmissions(c, n) \in [Requests -> Record \cup {None}]
  BY DEF TypeOK, CellTypeOK, PurgedAdmissions
<1>3. PurgedStats(c, n) \in Stats
  <2> DEFINE gone == {r \in Requests : Removable(admissions[c][r], n)}
             recovery == {r \in gone : admissions[c][r].settlement # None}
  <2>1. Cardinality(gone) \in Nat /\ Cardinality(recovery) \in Nat
          /\ Cardinality(gone \ recovery) \in Nat
    BY FS_Subset, FS_CardinalityType
  <2> HIDE DEF gone, recovery
  <2>2. PurgedStats(c, n) = [stats EXCEPT !["idempotency"] = @ - Cardinality(gone),
                               !["recovery"] = @ - Cardinality(recovery),
                               !["rejected"] = @ - Cardinality(gone \ recovery)]
    BY DEF PurgedStats, gone, recovery
  <2> QED BY <2>1, <2>2 DEF TypeOK, SharedTypeOK, Stats, Counters
<1> QED BY <1>1, <1>2, <1>3

(* A counter moved by fetch_add or fetch_sub stays a number. *)
LEMMA BumpType ==
  ASSUME stats \in Stats, NEW f \in Counters, NEW n \in Int, Bump(f, n) PROVE stats' \in Stats
  BY DEF Bump, Stats

TypeInv == TypeOK /\ ControlInv

(* A step of thread t to label l that leaves its lease and call alone. *)
LEMMA GotoControl ==
  ASSUME TypeInv, NEW t \in Threads, NEW l \in Labels, Goto(t, l), l # "idle", op[t] # None,
         l \in Leasing <=> lease[t] # None,
         l \in Admitting => op[t].kind = "admit",
         l = "release" /\ result'[t].outcome = "capacity" => op[t].kind = "admit",
         \A u \in Threads \ {t} : result'[u] = result[u],
         UNCHANGED <<op, lease>>
  PROVE  ControlInv'
  BY DEF TypeInv, TypeOK, ThreadTypeOK, ControlInv, Goto

(* A call returns. *)
LEMMA ReturnType ==
  ASSUME TypeInv, NEW t \in Threads, Return(t), UNCHANGED <<tickets, requeue>>,
         lease' \in [Threads -> Cells \cup {None}], lease'[t] = None,
         \A u \in Threads \ {t} : lease'[u] = lease[u]
  PROVE  ThreadTypeOK' /\ ControlInv'
<1>1. ThreadTypeOK'
  BY DEF TypeInv, TypeOK, ThreadTypeOK, Return, Goto, Labels, NoResult, Outcome
<1>2. ControlInv'
  BY DEF TypeInv, TypeOK, ThreadTypeOK, ControlInv, Return, Goto, Leasing, Admitting, NoResult
<1> QED BY <1>1, <1>2

(* The parts of the shape that a step leaves alone. *)
LEMMA SharedUnchanged == SharedTypeOK /\ UNCHANGED <<sharedVars, stats>> => SharedTypeOK'
  BY DEF SharedTypeOK, sharedVars
(* A step that leaves the cells alone keeps their types. *)
LEMMA CellUnchanged == CellTypeOK /\ UNCHANGED cellVars => CellTypeOK'
  BY DEF CellTypeOK, cellVars
(* A step that leaves the callers' own variables alone keeps their types. *)
LEMMA CallerUnchanged == CallerTypeOK /\ UNCHANGED ghostVars => CallerTypeOK'
  BY DEF CallerTypeOK, ghostVars

-----------------------------------------------------------------------------
(* TypeOK and ControlInv are preserved, action by action. *)

(* The store starts well typed. *)
LEMMA InitTypeInv == Init => TypeInv
  BY DEF Init, TypeInv, ControlInv, Leasing, Admitting, TypeOK, SharedTypeOK, CellTypeOK,
         ThreadTypeOK, CallerTypeOK, Stats, Counters, NoResult, Outcome, Labels

(* A thread begins an operation. *)
LEMMA CallType == ASSUME TypeInv, NEW t \in Threads, Call(t) PROVE TypeInv'
<1>1. PICK o \in Op : Start(t, o)
  BY DEF TypeInv, TypeOK, CallerTypeOK, Call, StartAdmit, StartSettle, StartInspect, Op
<1>2. SharedTypeOK' /\ CellTypeOK' /\ CallerTypeOK'
  BY <1>1, SharedUnchanged, CellUnchanged DEF TypeInv, TypeOK, CallerTypeOK, Start
<1>3. ThreadTypeOK'
  BY <1>1 DEF TypeInv, TypeOK, SharedTypeOK, ThreadTypeOK, Start, Goto, Labels
<1>4. ControlInv'
  BY <1>1 DEF TypeInv, TypeOK, ThreadTypeOK, ControlInv, Start, Goto, Leasing, Admitting
<1> QED BY <1>2, <1>3, <1>4 DEF TypeInv, TypeOK

(* A thread looks whether a cleaning is due. *)
LEMMA MaybeCleanupType == ASSUME TypeInv, NEW t \in Threads, MaybeCleanup(t) PROVE TypeInv'
<1>1. SharedTypeOK' /\ CellTypeOK' /\ CallerTypeOK'
  BY CellUnchanged, CallerUnchanged
     DEF TypeInv, TypeOK, SharedTypeOK, ThreadTypeOK, MaybeCleanup
<1>2. ThreadTypeOK'
  BY DEF TypeInv, TypeOK, ThreadTypeOK, MaybeCleanup, Goto, Labels
<1>3. ControlInv'
  BY GotoControl DEF TypeInv, ControlInv, MaybeCleanup, Labels, Leasing, Admitting
<1> QED BY <1>1, <1>2, <1>3 DEF TypeInv, TypeOK

(* The cleaner takes a ticket. *)
LEMMA CleanupPopType == ASSUME TypeInv, NEW t \in Threads, CleanupPop(t) PROVE TypeInv'
<1> DEFINE n == IF Len(queue) < ScanBatch THEN Len(queue) ELSE ScanBatch
<1>1. queue \in Seq(Ticket) /\ n \in 0..Len(queue)
  BY DEF TypeInv, TypeOK, SharedTypeOK
<1>2. SubSeq(queue, 1, n) \in Seq(Ticket) /\ SubSeq(queue, n + 1, Len(queue)) \in Seq(Ticket)
  BY <1>1, SubSeqProperties
<1>3. /\ pc[t] = "cleanup" /\ Goto(t, "scan")
      /\ tickets' = [tickets EXCEPT ![t] = SubSeq(queue, 1, n)]
      /\ queue' = SubSeq(queue, n + 1, Len(queue))
      /\ UNCHANGED <<clock, nextCleanupAt, buckets, allocated, cellVars, stats, op, now,
                     attempt, lease, requeue, result, ghostVars>>
  BY DEF CleanupPop
<1> HIDE DEF n
<1>4. SharedTypeOK' /\ CellTypeOK' /\ CallerTypeOK'
  BY <1>2, <1>3, CellUnchanged, CallerUnchanged DEF TypeInv, TypeOK, SharedTypeOK
<1>5. ThreadTypeOK'
  BY <1>2, <1>3 DEF TypeInv, TypeOK, ThreadTypeOK, Goto, Labels
<1>6. ControlInv'
  BY <1>3, GotoControl DEF TypeInv, ControlInv, Labels, Leasing, Admitting
<1> QED BY <1>4, <1>5, <1>6 DEF TypeInv, TypeOK

(* What a scanning thread takes from its list of tickets. *)
LEMMA ScanFacts ==
  ASSUME TypeInv, NEW t \in Threads, tickets[t] # << >>
  PROVE  /\ Head(tickets[t]) \in Ticket
         /\ Head(tickets[t]).cell \in Cells /\ Head(tickets[t]).key \in Keys
         /\ Tail(tickets[t]) \in Seq(Ticket)
         /\ Append(requeue[t], Head(tickets[t])) \in Seq(Ticket)
<1>1. Head(tickets[t]) \in Ticket /\ Tail(tickets[t]) \in Seq(Ticket)
  BY HeadTailProperties DEF TypeInv, TypeOK, ThreadTypeOK
<1>2. Append(requeue[t], Head(tickets[t])) \in Seq(Ticket)
  BY <1>1, AppendProperties DEF TypeInv, TypeOK, ThreadTypeOK
<1> QED BY <1>1, <1>2 DEF Ticket

(* The ticket is about a bucket that is gone or replaced. *)
LEMMA ScanStaleType == ASSUME TypeInv, NEW t \in Threads, ScanStale(t) PROVE TypeInv'
<1>1. SharedTypeOK' /\ CallerTypeOK'
  BY SharedUnchanged, CallerUnchanged DEF TypeInv, TypeOK, ScanStale
<1>2. CellTypeOK'
  BY ScanFacts DEF TypeInv, TypeOK, CellTypeOK, ScanStale
<1>3. ThreadTypeOK'
  BY ScanFacts DEF TypeInv, TypeOK, ThreadTypeOK, ScanStale
<1>4. ControlInv'
  BY DEF TypeInv, ControlInv, ScanStale
<1> QED BY <1>1, <1>2, <1>3, <1>4 DEF TypeInv, TypeOK

(* The bucket of the ticket is in use. *)
LEMMA ScanBusyType == ASSUME TypeInv, NEW t \in Threads, ScanBusy(t) PROVE TypeInv'
<1>1. SharedTypeOK' /\ CellTypeOK' /\ CallerTypeOK'
  BY SharedUnchanged, CellUnchanged, CallerUnchanged DEF TypeInv, TypeOK, ScanBusy
<1>2. ThreadTypeOK'
  BY ScanFacts DEF TypeInv, TypeOK, ThreadTypeOK, ScanBusy
<1>3. ControlInv'
  BY DEF TypeInv, ControlInv, ScanBusy
<1> QED BY <1>1, <1>2, <1>3 DEF TypeInv, TypeOK

(* The bucket of the ticket is purged, and removed when it is empty. *)
LEMMA ScanPurgeType == ASSUME TypeInv, NEW t \in Threads, ScanPurge(t) PROVE TypeInv'
<1> DEFINE tk == Head(tickets[t])
           w == PurgedWindow(tk.cell, now[t])
           adm == PurgedAdmissions(tk.cell, now[t])
<1>1. /\ tk.cell \in Cells /\ tk.key \in Keys /\ Tail(tickets[t]) \in Seq(Ticket)
      /\ Append(requeue[t], tk) \in Seq(Ticket)
  BY ScanFacts DEF ScanPurge
<1>2. w \in Window \cup {None} /\ adm \in [Requests -> Record \cup {None}]
        /\ PurgedStats(tk.cell, now[t]) \in Stats
  BY <1>1, PurgeType DEF TypeInv, TypeOK, ThreadTypeOK
<1>3. /\ pc[t] = "scan"
      /\ window' = [window EXCEPT ![tk.cell] = w]
      /\ admissions' = [admissions EXCEPT ![tk.cell] = adm]
      /\ stats' = PurgedStats(tk.cell, now[t])
      /\ tickets' = [tickets EXCEPT ![t] = Tail(@)]
      /\ \/ /\ buckets' = [buckets EXCEPT ![tk.key] = None]
            /\ cleanupQueued' = [cleanupQueued EXCEPT ![tk.cell] = FALSE]
            /\ Goto(t, "uncount") /\ UNCHANGED requeue
         \/ /\ requeue' = [requeue EXCEPT ![t] = Append(@, tk)]
            /\ UNCHANGED <<buckets, cleanupQueued, pc>>
      /\ UNCHANGED <<clock, nextCleanupAt, queue, allocated, activeOps, generation, op, now,
                     attempt, lease, result, ghostVars>>
  BY DEF ScanPurge
<1> HIDE DEF w, adm, tk
<1>4. SharedTypeOK'
  BY <1>1, <1>2, <1>3 DEF TypeInv, TypeOK, SharedTypeOK
<1>5. CellTypeOK' /\ CallerTypeOK'
  BY <1>1, <1>2, <1>3, CallerUnchanged DEF TypeInv, TypeOK, CellTypeOK
<1>6. ThreadTypeOK'
  BY <1>1, <1>3 DEF TypeInv, TypeOK, ThreadTypeOK, Goto, Labels
<1>7. ControlInv'
  BY <1>3, GotoControl DEF TypeInv, ControlInv, Labels, Leasing, Admitting
<1> QED BY <1>4, <1>5, <1>6, <1>7 DEF TypeInv, TypeOK

(* The removed bucket is counted off. *)
LEMMA UncountBucketType == ASSUME TypeInv, NEW t \in Threads, UncountBucket(t) PROVE TypeInv'
<1>1. SharedTypeOK' /\ CellTypeOK' /\ CallerTypeOK'
  BY CellUnchanged, CallerUnchanged
     DEF TypeInv, TypeOK, SharedTypeOK, UncountBucket, Bump, Stats, Counters, sharedVars
<1>2. ThreadTypeOK'
  BY DEF TypeInv, TypeOK, ThreadTypeOK, UncountBucket, Goto, Labels
<1>3. ControlInv'
  BY GotoControl DEF TypeInv, ControlInv, UncountBucket, Labels, Leasing, Admitting
<1> QED BY <1>1, <1>2, <1>3 DEF TypeInv, TypeOK

(* The batch of tickets is done: those to keep go back to the queue. *)
LEMMA CleanupDoneType == ASSUME TypeInv, NEW t \in Threads, CleanupDone(t) PROVE TypeInv'
<1>1. queue' \in Seq(Ticket)
  BY ConcatProperties DEF TypeInv, TypeOK, SharedTypeOK, ThreadTypeOK, CleanupDone
<1>2. SharedTypeOK' /\ CellTypeOK' /\ CallerTypeOK'
  BY <1>1, CellUnchanged, CallerUnchanged DEF TypeInv, TypeOK, SharedTypeOK, CleanupDone
<1>3. ThreadTypeOK'
  BY DEF TypeInv, TypeOK, ThreadTypeOK, CleanupDone, Goto, Labels
<1>4. ControlInv'
  BY GotoControl DEF TypeInv, ControlInv, CleanupDone, Labels, Leasing, Admitting
<1> QED BY <1>2, <1>3, <1>4 DEF TypeInv, TypeOK

(* acquire_bucket hands out a lease. *)
LEMMA TakeLeaseType ==
  ASSUME TypeInv, NEW t \in Threads, NEW c \in Cells, TakeLease(t, c),
         pc[t] \in {"acquire", "entry"},
         UNCHANGED <<cleanupQueued, window, generation, admissions, op, now, attempt, tickets,
                     requeue, result>>
  PROVE  CellTypeOK' /\ ThreadTypeOK' /\ ControlInv'
<1>1. CellTypeOK'
  BY DEF TypeInv, TypeOK, CellTypeOK, TakeLease
<1>2. ThreadTypeOK'
  BY DEF TypeInv, TypeOK, ThreadTypeOK, TakeLease, Goto, Labels
<1>3. ControlInv'
  BY DEF TypeInv, TypeOK, ThreadTypeOK, ControlInv, TakeLease, Goto, Labels, Leasing, Admitting
<1> QED BY <1>1, <1>2, <1>3

(* The bucket is in the map. *)
LEMMA AcquireHitType == ASSUME TypeInv, NEW t \in Threads, AcquireHit(t) PROVE TypeInv'
<1>1. op[t] \in Op
  BY DEF TypeInv, TypeOK, ThreadTypeOK, ControlInv, AcquireHit
<1>2. buckets[OpKey(op[t])] \in Cells
  BY <1>1, OpFields DEF TypeInv, TypeOK, SharedTypeOK, AcquireHit
<1>3. SharedTypeOK' /\ CallerTypeOK'
  BY SharedUnchanged, CallerUnchanged DEF TypeInv, TypeOK, AcquireHit
<1>4. CellTypeOK' /\ ThreadTypeOK' /\ ControlInv'
  BY <1>2, TakeLeaseType DEF AcquireHit
<1> QED BY <1>3, <1>4 DEF TypeInv, TypeOK

(* The bucket is not in the map. *)
LEMMA AcquireMissType == ASSUME TypeInv, NEW t \in Threads, AcquireMiss(t) PROVE TypeInv'
<1>1. SharedTypeOK' /\ CellTypeOK' /\ CallerTypeOK'
  BY SharedUnchanged, CellUnchanged, CallerUnchanged DEF TypeInv, TypeOK, AcquireMiss
<1>2. lease[t] = None
  BY DEF TypeInv, ControlInv, AcquireMiss, Leasing
<1>3. CASE op[t].kind = "admit"
  <2>1. ThreadTypeOK'
    BY <1>3 DEF TypeInv, TypeOK, ThreadTypeOK, AcquireMiss, Goto, Labels
  <2>2. op[t] # None /\ Goto(t, "reserve") /\ UNCHANGED <<op, lease, result>>
    BY <1>3 DEF TypeInv, ControlInv, AcquireMiss
  <2>3. ControlInv'
    BY <1>2, <1>3, <2>2, GotoControl DEF TypeInv, ControlInv, Labels, Leasing, Admitting
  <2> QED BY <1>1, <2>1, <2>3 DEF TypeInv, TypeOK
<1>4. CASE op[t].kind # "admit"
  <2>1. ThreadTypeOK' /\ ControlInv'
    BY <1>2, <1>4, ReturnType DEF TypeInv, TypeOK, ThreadTypeOK, AcquireMiss
  <2> QED BY <1>1, <2>1 DEF TypeInv, TypeOK
<1> QED BY <1>3, <1>4

(* The retry after Overloaded or Capacity, with the lease already dropped. *)
LEMMA RetryType ==
  ASSUME TypeInv, NEW t \in Threads, RetryOrFail(t), UNCHANGED <<tickets, requeue>>,
         op[t] # None,
         lease' \in [Threads -> Cells \cup {None}], lease'[t] = None,
         \A u \in Threads \ {t} : lease'[u] = lease[u]
  PROVE  ThreadTypeOK' /\ ControlInv'
<1>1. CASE attempt[t] = 0
  <2>1. NoResult \in [outcome : Outcome, token : Token \cup {None}]
    BY DEF NoResult, Outcome
  <2>2. /\ pc' = [pc EXCEPT ![t] = "cleanup"]
        /\ attempt' = [attempt EXCEPT ![t] = 1]
        /\ result' = [result EXCEPT ![t] = NoResult]
        /\ UNCHANGED <<op, now>>
    BY <1>1 DEF RetryOrFail, Goto
  <2>3. ThreadTypeOK'
    BY <2>1, <2>2 DEF TypeInv, TypeOK, ThreadTypeOK, Labels
  <2>4. ControlInv'
    BY <2>2 DEF TypeInv, TypeOK, ThreadTypeOK, ControlInv, Leasing, Admitting, NoResult
  <2> QED BY <2>3, <2>4
<1>2. CASE attempt[t] # 0
  BY <1>2, ReturnType DEF RetryOrFail
<1> QED BY <1>1, <1>2

(* A place for a new bucket is reserved, or refused. *)
LEMMA ReserveBucketType == ASSUME TypeInv, NEW t \in Threads, ReserveBucket(t) PROVE TypeInv'
<1>1. CellTypeOK' /\ CallerTypeOK'
  BY CellUnchanged, CallerUnchanged DEF TypeInv, TypeOK, ReserveBucket
<1>2. SharedTypeOK'
  BY DEF TypeInv, TypeOK, SharedTypeOK, ReserveBucket, Bump, Stats, Counters, sharedVars
<1>3. lease[t] = None /\ op[t] # None
  BY DEF TypeInv, ControlInv, ReserveBucket, Leasing
<1>4. CASE stats["buckets"] >= MaxBuckets
  <2>1. ThreadTypeOK' /\ ControlInv'
    BY <1>3, <1>4, RetryType DEF TypeInv, TypeOK, ThreadTypeOK, ReserveBucket
  <2> QED BY <1>1, <1>2, <2>1 DEF TypeInv, TypeOK
<1>5. CASE ~(stats["buckets"] >= MaxBuckets)
  <2>1. ThreadTypeOK'
    BY <1>5 DEF TypeInv, TypeOK, ThreadTypeOK, ReserveBucket, Goto, Labels
  <2>2. ControlInv'
    BY <1>3, <1>5, GotoControl
       DEF TypeInv, ControlInv, ReserveBucket, Labels, Leasing, Admitting
  <2> QED BY <1>1, <1>2, <2>1, <2>2 DEF TypeInv, TypeOK
<1> QED BY <1>4, <1>5

(* Another thread has made the bucket meanwhile. *)
LEMMA EntryOccupiedType == ASSUME TypeInv, NEW t \in Threads, EntryOccupied(t) PROVE TypeInv'
<1>1. op[t] \in Op
  BY DEF TypeInv, TypeOK, ThreadTypeOK, ControlInv, EntryOccupied
<1>2. buckets[OpKey(op[t])] \in Cells
  BY <1>1, OpFields DEF TypeInv, TypeOK, SharedTypeOK, EntryOccupied
<1>3. SharedTypeOK' /\ CallerTypeOK'
  BY CallerUnchanged
     DEF TypeInv, TypeOK, SharedTypeOK, EntryOccupied, Bump, Stats, Counters, sharedVars
<1>4. CellTypeOK' /\ ThreadTypeOK' /\ ControlInv'
  BY <1>2, TakeLeaseType DEF EntryOccupied
<1> QED BY <1>3, <1>4 DEF TypeInv, TypeOK

(* A fresh cell is a cell. *)
LEMMA FreshCellType ==
  ASSUME SharedTypeOK, allocated # Cells PROVE FreshCell \in Cells \ allocated
  BY DEF SharedTypeOK, FreshCell

(* The bucket is inserted. *)
LEMMA EntryVacantType == ASSUME TypeInv, NEW t \in Threads, EntryVacant(t) PROVE TypeInv'
<1>1. op[t] \in Op
  BY DEF TypeInv, TypeOK, ThreadTypeOK, ControlInv, EntryVacant
<1>2. OpKey(op[t]) \in Keys /\ FreshCell \in Cells
  BY <1>1, OpFields, FreshCellType DEF TypeInv, TypeOK, EntryVacant
<1>3. SharedTypeOK' /\ CallerTypeOK'
  BY <1>2, CallerUnchanged DEF TypeInv, TypeOK, SharedTypeOK, EntryVacant
<1>4. CellTypeOK' /\ ThreadTypeOK' /\ ControlInv'
  BY <1>2, TakeLeaseType DEF EntryVacant
<1> QED BY <1>3, <1>4 DEF TypeInv, TypeOK

(* The new bucket schedules its cleaning. *)
LEMMA ScheduleCleanupType == ASSUME TypeInv, NEW t \in Threads, ScheduleCleanup(t) PROVE TypeInv'
<1>1. SharedTypeOK' /\ CallerTypeOK'
  BY SharedUnchanged, CallerUnchanged DEF TypeInv, TypeOK, ScheduleCleanup
<1>2. CellTypeOK'
  BY DEF TypeInv, TypeOK, CellTypeOK, ScheduleCleanup
<1>3. ThreadTypeOK'
  BY DEF TypeInv, TypeOK, ThreadTypeOK, ScheduleCleanup, Goto, Labels
<1>4. ControlInv'
  BY GotoControl DEF TypeInv, ControlInv, ScheduleCleanup, Labels, Leasing, Admitting
<1> QED BY <1>1, <1>2, <1>3, <1>4 DEF TypeInv, TypeOK

(* The ticket is queued. *)
LEMMA PushTicketType == ASSUME TypeInv, NEW t \in Threads, PushTicket(t) PROVE TypeInv'
<1>1. op[t] \in Op /\ lease[t] \in Cells
  BY DEF TypeInv, TypeOK, ThreadTypeOK, ControlInv, PushTicket, Leasing
<1>2. [key |-> OpKey(op[t]), cell |-> lease[t]] \in Ticket
  BY <1>1, OpFields DEF Ticket
<1>3. queue' \in Seq(Ticket)
  BY <1>2, AppendProperties DEF TypeInv, TypeOK, SharedTypeOK, PushTicket
<1>4. SharedTypeOK' /\ CellTypeOK' /\ CallerTypeOK'
  BY <1>3, CellUnchanged, CallerUnchanged DEF TypeInv, TypeOK, SharedTypeOK, PushTicket
<1>5. ThreadTypeOK'
  BY DEF TypeInv, TypeOK, ThreadTypeOK, PushTicket, Goto, Labels
<1>6. ControlInv'
  BY GotoControl DEF TypeInv, ControlInv, PushTicket, Labels, Leasing, Admitting
<1> QED BY <1>4, <1>5, <1>6 DEF TypeInv, TypeOK

(* A call leaves the critical section with an outcome. *)
LEMMA FinishType ==
  ASSUME TypeInv, NEW t \in Threads, NEW x \in Outcome, NEW tok \in Token \cup {None},
         Finish(t, x, tok), pc[t] \in Leasing, x = "capacity" => op[t].kind = "admit",
         UNCHANGED <<op, now, attempt, lease, tickets, requeue>>
  PROVE  ThreadTypeOK' /\ ControlInv'
<1>1. ThreadTypeOK'
  BY DEF TypeInv, TypeOK, ThreadTypeOK, Finish, Goto, Labels
<1>2. ControlInv'
  BY GotoControl
     DEF TypeInv, TypeOK, ThreadTypeOK, ControlInv, Finish, Labels, Leasing, Admitting
<1> QED BY <1>1, <1>2

(* What a thread in the critical section knows. *)
LEMMA EnterFacts ==
  ASSUME TypeInv, NEW t \in Threads, pc[t] \in {"enter", "decide"}
  PROVE  /\ op[t] \in Op /\ lease[t] \in Cells /\ now[t] \in Nat
         /\ pc[t] = "decide" => op[t].cmd \in Commands
         /\ op[t].kind = "admit" => op[t].cmd \in Commands
         /\ op[t].kind = "settle" => op[t].token \in Token /\ op[t].payload \in Payloads
  BY OpFields DEF TypeInv, TypeOK, ThreadTypeOK, ControlInv, Leasing, Admitting

(* The thread has the cell's lock and expires what is past. *)
LEMMA AdmitEnterType == ASSUME TypeInv, NEW t \in Threads, AdmitEnter(t) PROVE TypeInv'
<1> DEFINE c == lease[t]
           adm == PurgedAdmissions(c, now[t])
           purged == PurgedStats(c, now[t])
           rec == adm[op[t].cmd.request]
<1>1. op[t] \in Op /\ c \in Cells /\ now[t] \in Nat /\ op[t].cmd.request \in Requests
  BY EnterFacts DEF AdmitEnter, Command
<1>2. /\ PurgedWindow(c, now[t]) \in Window \cup {None}
      /\ adm \in [Requests -> Record \cup {None}] /\ purged \in Stats
  BY <1>1, PurgeType DEF TypeInv
<1>3. rec # None => rec.token \in Token \cup {None}
  BY <1>1, <1>2 DEF Record
<1>4. /\ pc[t] = "enter" /\ op[t].kind = "admit"
      /\ window' = [window EXCEPT ![c] = PurgedWindow(c, now[t])]
      /\ admissions' = [admissions EXCEPT ![c] = adm]
      /\ \/ /\ stats' = purged
            /\ \/ Finish(t, "corrupt", None)
               \/ Finish(t, "rejected", None)
               \/ rec # None /\ Finish(t, "allowed", rec.token)
               \/ Finish(t, "capacity", None)
         \/ /\ stats' = [purged EXCEPT !["idempotency"] = @ + 1]
            /\ Goto(t, "decide") /\ UNCHANGED result
      /\ UNCHANGED <<sharedVars, activeOps, cleanupQueued, generation, op, now, attempt, lease,
                     tickets, requeue, ghostVars>>
  BY Zenon DEF AdmitEnter
<1> HIDE DEF adm, purged, rec, c
<1>5. SharedTypeOK' /\ CallerTypeOK'
  <2>1. stats' \in Stats
    BY <1>2, <1>4 DEF Stats, Counters
  <2> QED BY <1>4, <2>1, CallerUnchanged DEF TypeInv, TypeOK, SharedTypeOK, sharedVars
<1>6. CellTypeOK'
  BY <1>1, <1>2, <1>4 DEF TypeInv, TypeOK, CellTypeOK
<1>7. ThreadTypeOK' /\ ControlInv'
  <2>1. CASE Goto(t, "decide") /\ UNCHANGED result
    <3>1. ThreadTypeOK'
      BY <1>4, <2>1 DEF TypeInv, TypeOK, ThreadTypeOK, Goto, Labels
    <3>2. lease[t] # None /\ op[t] # None
      BY <1>1, <1>4 DEF TypeInv, ControlInv, Leasing
    <3>3. ControlInv'
      BY <1>4, <2>1, <3>2, GotoControl DEF TypeInv, ControlInv, Labels, Leasing, Admitting
    <3> QED BY <3>1, <3>3
  <2>2. CASE \E x \in Outcome, tok \in Token \cup {None} : Finish(t, x, tok)
    BY <1>4, <2>2, FinishType DEF Leasing
  <2> QED BY <1>3, <1>4, <2>1, <2>2 DEF Outcome
<1> QED BY <1>5, <1>6, <1>7 DEF TypeInv, TypeOK

(* The window an admission works with, and the usage it proposes. *)
LEMMA EnsuredWindowType ==
  ASSUME TypeInv, NEW c \in Cells, NEW cmd \in Commands, NEW n \in Nat
  PROVE  EnsuredWindow(c, cmd, n) \in Window
  BY DEF TypeInv, TypeOK, CellTypeOK, EnsuredWindow, NewWindow, Window, Charge, Command, Dims

(* The counters that an admission would give are typed. *)
LEMMA CandidateType ==
  ASSUME NEW w \in Window, NEW cmd \in Commands, ~Overflows(Candidate(w, cmd))
  PROVE  Candidate(w, cmd) \in Charge
  BY DEF Overflows, Candidate, Window, Charge, Command, Dims

(* The request is admitted or refused. *)
LEMMA AdmitDecideType == ASSUME TypeInv, NEW t \in Threads, AdmitDecide(t) PROVE TypeInv'
<1> DEFINE c == lease[t]
           cmd == op[t].cmd
           w == EnsuredWindow(c, cmd, now[t])
           cand == Candidate(w, cmd)
           tok == [id |-> nextId, cmd |-> cmd, cell |-> c, gen |-> w.gen]
           rec(tk) == [cmd |-> cmd, token |-> tk, settlement |-> None,
                       retainUntil |-> RetainUntil(w, now[t])]
<1>1. c \in Cells /\ now[t] \in Nat /\ cmd \in Commands /\ cmd.request \in Requests
  BY EnterFacts DEF AdmitDecide, Command
<1>2. w \in Window
  BY <1>1, EnsuredWindowType
<1>3. tok \in Token /\ tok # None
  BY <1>1, <1>2 DEF TypeInv, TypeOK, CallerTypeOK, Token, Window
<1>4. rec(None) \in Record /\ rec(tok) \in Record
  BY <1>1, <1>2, <1>3 DEF Record, RetainUntil, Window
<1>5. ~Overflows(cand) => [w EXCEPT !.used = cand] \in Window /\ [w EXCEPT !.used = cand].gen = w.gen
  BY <1>1, <1>2, CandidateType DEF Window
<1>6. /\ pc[t] = "decide"
      /\ UNCHANGED <<sharedVars, activeOps, cleanupQueued, op, now, attempt, lease, tickets,
                     requeue, issued, settledIds, started>>
      /\ \/ AdmitRollback(t, "corrupt") \/ AdmitRollback(t, "capacity")
         \/ /\ AdmitRecord(t, w, rec(None)) /\ Bump("rejected", 1)
            /\ Finish(t, "rejected", None) /\ UNCHANGED nextId
         \/ /\ ~Overflows(cand)
            /\ AdmitRecord(t, [w EXCEPT !.used = cand], rec(tok)) /\ Bump("live", 1)
            /\ nextId' = nextId + 1 /\ Finish(t, "allowed", tok)
  BY Zenon DEF AdmitDecide
<1> HIDE DEF w, cand, tok, rec, c, cmd
<1>7. SharedTypeOK' /\ CallerTypeOK'
  <2>1. stats' \in Stats
    BY <1>6, BumpType DEF TypeInv, TypeOK, SharedTypeOK, AdmitRollback, Counters
  <2>2. nextId' \in Nat
    BY <1>6 DEF TypeInv, TypeOK, CallerTypeOK, AdmitRollback
  <2> QED BY <1>6, <2>1, <2>2 DEF TypeInv, TypeOK, SharedTypeOK, CallerTypeOK, sharedVars
<1>8. CellTypeOK'
  <2>1. ASSUME NEW v \in Window, NEW x \in Record, AdmitRecord(t, v, x) PROVE CellTypeOK'
    BY <1>1, <1>6, <2>1 DEF TypeInv, TypeOK, CellTypeOK, AdmitRecord, Window, c, cmd
  <2> QED BY <1>2, <1>4, <1>5, <1>6, <2>1 DEF TypeInv, TypeOK, CellTypeOK, AdmitRollback
<1>9. ThreadTypeOK' /\ ControlInv'
  <2>1. op[t].kind = "admit" /\ pc[t] \in Leasing
    BY <1>6 DEF TypeInv, ControlInv, Admitting, Leasing
  <2>2. \E x \in Outcome, tk \in Token \cup {None} : Finish(t, x, tk)
    BY <1>3, <1>6 DEF AdmitRollback, Outcome
  <2> QED BY <1>6, <2>1, <2>2, FinishType
<1> QED BY <1>7, <1>8, <1>9 DEF TypeInv, TypeOK

(* adjusted_count stays in range when it does not fail. *)
LEMMA AdjustedType ==
  ASSUME NEW w \in Window, NEW cmd \in Commands, NEW p \in Payloads,
         ~AdjustmentInvalid(w, cmd, p.charge)
  PROVE  Adjusted(w, cmd, p.charge) \in Charge
  BY DEF AdjustmentInvalid, Adjusted, Window, Charge, Command, Dims

(* The cells after a settlement, whichever way it ends. *)
LEMMA SettleLockedType == ASSUME TypeInv, NEW t \in Threads, SettleLocked(t) PROVE TypeInv'
<1> DEFINE c == lease[t]
           w == PurgedWindow(c, now[t])
           adm == PurgedAdmissions(c, now[t])
           purged == PurgedStats(c, now[t])
           tok == op[t].token
           p == op[t].payload
           req == tok.cmd.request
           same == w # None /\ w.gen = tok.gen /\ now[t] < w.reset
           adjusted == IF same THEN [w EXCEPT !.used = Adjusted(w, tok.cmd, p.charge)] ELSE w
           settled == SettledRecord(adm[req], p, same, now[t])
<1>1. /\ op[t] \in Op /\ c \in Cells /\ now[t] \in Nat /\ tok \in Token /\ p \in Payloads
      /\ tok.cmd \in Commands /\ req \in Requests
  BY EnterFacts DEF SettleLocked, Token, Command
<1>2. w \in Window \cup {None} /\ adm \in [Requests -> Record \cup {None}] /\ purged \in Stats
  BY <1>1, PurgeType DEF TypeInv
<1>3. /\ pc[t] = "enter" /\ op[t].kind = "settle"
      /\ UNCHANGED <<sharedVars, activeOps, cleanupQueued, generation, op, now, attempt, lease,
                     tickets, requeue, issued, started, nextId>>
      /\ \/ /\ window' = [window EXCEPT ![c] = w]
            /\ admissions' = [admissions EXCEPT ![c] = adm]
            /\ stats' = purged /\ UNCHANGED settledIds
            /\ Finish(t, "corrupt", None) \/ Finish(t, "replayed", None)
         \/ /\ adm[req] # None /\ ~(same /\ AdjustmentInvalid(w, tok.cmd, p.charge))
            /\ window' = [window EXCEPT ![c] = adjusted]
            /\ admissions' = [admissions EXCEPT ![c] = [adm EXCEPT ![req] = settled]]
            /\ stats' = [purged EXCEPT !["live"] = @ - 1, !["recovery"] = @ + 1]
            /\ settledIds' = settledIds \cup {tok.id}
            /\ Finish(t, "applied", None) \/ Finish(t, "stale", None)
  BY Zenon DEF SettleLocked, SettleApply
<1>4. ~(same /\ AdjustmentInvalid(w, tok.cmd, p.charge)) => adjusted \in Window \cup {None}
  <2>1. CASE same
    BY <1>1, <1>2, <2>1, AdjustedType DEF Window
  <2>2. CASE ~same
    BY <1>2, <2>2
  <2> QED BY <2>1, <2>2
<1>5. adm[req] # None => settled \in Record
  <2> SUFFICES ASSUME adm[req] # None PROVE settled \in Record
    OBVIOUS
  <2>1. adm[req] \in Record /\ same \in BOOLEAN
    BY <1>1, <1>2
  <2>2. [payload |-> p, applied |-> same] \in Settlement
    BY <1>1, <2>1 DEF Settlement
  <2> HIDE DEF same, adm, p, req
  <2> QED BY <1>1, <2>1, <2>2 DEF SettledRecord, Record
<1> HIDE DEF c, w, adm, purged, tok, p, req, same, adjusted, settled
<1>6. SharedTypeOK' /\ CallerTypeOK'
  <2>1. stats' \in Stats
    BY <1>2, <1>3 DEF Stats, Counters
  <2>2. settledIds' \subseteq Nat
    BY <1>1, <1>3 DEF TypeInv, TypeOK, CallerTypeOK, Token
  <2> QED BY <1>3, <2>1, <2>2 DEF TypeInv, TypeOK, SharedTypeOK, CallerTypeOK, sharedVars
<1>7. CellTypeOK'
  <2>1. window' \in [Cells -> Window \cup {None}]
    BY <1>1, <1>2, <1>3, <1>4 DEF TypeInv, TypeOK, CellTypeOK
  <2>2. admissions' \in [Cells -> [Requests -> Record \cup {None}]]
    BY <1>1, <1>2, <1>3, <1>5 DEF TypeInv, TypeOK, CellTypeOK
  <2> QED BY <1>3, <2>1, <2>2 DEF TypeInv, TypeOK, CellTypeOK
<1>8. ThreadTypeOK' /\ ControlInv'
  <2>1. \E x \in Outcome \ {"capacity"} : Finish(t, x, None)
    BY <1>3 DEF Outcome
  <2> QED BY <1>3, <2>1, FinishType DEF Leasing
<1> QED BY <1>6, <1>7, <1>8 DEF TypeInv, TypeOK

(* The cell is read under its lock. *)
LEMMA InspectLockedType == ASSUME TypeInv, NEW t \in Threads, InspectLocked(t) PROVE TypeInv'
<1>1. lease[t] \in Cells /\ now[t] \in Nat
  BY EnterFacts DEF InspectLocked
<1>2. /\ PurgedWindow(lease[t], now[t]) \in Window \cup {None}
      /\ PurgedAdmissions(lease[t], now[t]) \in [Requests -> Record \cup {None}]
      /\ PurgedStats(lease[t], now[t]) \in Stats
  BY <1>1, PurgeType DEF TypeInv
<1>3. SharedTypeOK' /\ CallerTypeOK'
  BY <1>2, CallerUnchanged DEF TypeInv, TypeOK, SharedTypeOK, InspectLocked, sharedVars
<1>4. CellTypeOK'
  BY <1>1, <1>2 DEF TypeInv, TypeOK, CellTypeOK, InspectLocked
<1>5. ThreadTypeOK' /\ ControlInv'
  BY FinishType DEF InspectLocked, Leasing, Outcome
<1> QED BY <1>3, <1>4, <1>5 DEF TypeInv, TypeOK

(* The lease is dropped, and the call returns or tries again. *)
LEMMA ReleaseType == ASSUME TypeInv, NEW t \in Threads, Release(t) PROVE TypeInv'
<1>1. lease[t] \in Cells /\ op[t] \in Op
  BY DEF TypeInv, TypeOK, ThreadTypeOK, ControlInv, Release, Leasing
<1>2. SharedTypeOK' /\ CallerTypeOK'
  BY SharedUnchanged DEF TypeInv, TypeOK, ThreadTypeOK, CallerTypeOK, Release
<1>3. CellTypeOK'
  BY <1>1 DEF TypeInv, TypeOK, CellTypeOK, Release, DropLease
<1>4. /\ lease' \in [Threads -> Cells \cup {None}] /\ lease'[t] = None
      /\ \A u \in Threads \ {t} : lease'[u] = lease[u]
      /\ UNCHANGED <<tickets, requeue>> /\ AfterRelease(t) /\ pc[t] = "release"
  BY DEF TypeInv, TypeOK, ThreadTypeOK, Release, DropLease
<1>5. ThreadTypeOK' /\ ControlInv'
  <2>1. CASE result[t].outcome = "capacity" /\ attempt[t] = 0
    BY <1>1, <1>4, <2>1, RetryType DEF AfterRelease
  <2>2. CASE result[t].outcome = "capacity" /\ attempt[t] # 0
    <3>1. Goto(t, "removeEmpty") /\ UNCHANGED <<op, now, attempt, result>>
      BY <1>4, <2>2 DEF AfterRelease
    <3>2. ThreadTypeOK'
      BY <1>4, <3>1 DEF TypeInv, TypeOK, ThreadTypeOK, Goto, Labels
    <3>3. ControlInv'
      BY <1>1, <1>4, <2>2, <3>1 DEF TypeInv, TypeOK, ThreadTypeOK, ControlInv, Goto, Leasing, Admitting
    <3> QED BY <3>2, <3>3
  <2>3. CASE result[t].outcome # "capacity"
    BY <1>4, <2>3, ReturnType DEF AfterRelease
  <2> QED BY <2>1, <2>2, <2>3
<1> QED BY <1>2, <1>3, <1>5 DEF TypeInv, TypeOK

(* An empty bucket is removed. *)
LEMMA RemoveEmptyType == ASSUME TypeInv, NEW t \in Threads, RemoveEmpty(t) PROVE TypeInv'
<1> DEFINE k == OpKey(op[t])
<1>1. op[t] \in Op /\ lease[t] = None /\ k \in Keys
  BY OpFields DEF TypeInv, TypeOK, ThreadTypeOK, ControlInv, RemoveEmpty, Leasing
<1>2. /\ pc[t] = "removeEmpty"
      /\ \/ /\ buckets[k] # None
            /\ buckets' = [buckets EXCEPT ![k] = None]
            /\ cleanupQueued' = [cleanupQueued EXCEPT ![buckets[k]] = FALSE]
            /\ Goto(t, "uncountEmpty") /\ UNCHANGED <<op, now, attempt, result>>
         \/ Return(t) /\ UNCHANGED <<buckets, cleanupQueued>>
      /\ UNCHANGED <<clock, nextCleanupAt, queue, allocated, activeOps, window, generation,
                     admissions, stats, lease, tickets, requeue, ghostVars>>
  BY Zenon DEF RemoveEmpty
<1>3. SharedTypeOK' /\ CallerTypeOK'
  BY <1>1, <1>2, CallerUnchanged DEF TypeInv, TypeOK, SharedTypeOK
<1>4. CellTypeOK'
  BY <1>1, <1>2 DEF TypeInv, TypeOK, SharedTypeOK, CellTypeOK
<1>5. ThreadTypeOK' /\ ControlInv'
  <2>1. CASE Return(t)
    BY <1>1, <1>2, <2>1, ReturnType DEF TypeInv, TypeOK, ThreadTypeOK
  <2>2. CASE Goto(t, "uncountEmpty") /\ UNCHANGED <<op, now, attempt, result>>
    <3>1. ThreadTypeOK'
      BY <1>2, <2>2 DEF TypeInv, TypeOK, ThreadTypeOK, Goto, Labels
    <3>2. op[t].kind = "admit" /\ op[t] # None
      BY <1>1, <1>2 DEF TypeInv, ControlInv, Admitting
    <3>3. ControlInv'
      BY <1>1, <1>2, <2>2, <3>2, GotoControl DEF Labels, Leasing
    <3> QED BY <3>1, <3>3
  <2> QED BY <1>2, <2>1, <2>2
<1> QED BY <1>3, <1>4, <1>5 DEF TypeInv, TypeOK

(* The removed bucket is counted off. *)
LEMMA UncountEmptyType == ASSUME TypeInv, NEW t \in Threads, UncountEmpty(t) PROVE TypeInv'
<1>1. stats' \in Stats
  BY BumpType DEF TypeInv, TypeOK, SharedTypeOK, UncountEmpty, Counters
<1>2. SharedTypeOK' /\ CellTypeOK' /\ CallerTypeOK'
  BY <1>1, CellUnchanged, CallerUnchanged DEF TypeInv, TypeOK, SharedTypeOK, UncountEmpty, sharedVars
<1>3. ThreadTypeOK' /\ ControlInv'
  BY ReturnType DEF TypeInv, TypeOK, ThreadTypeOK, ControlInv, UncountEmpty, Leasing
<1> QED BY <1>2, <1>3 DEF TypeInv, TypeOK

(* Time passes. *)
LEMMA TickType == TypeInv /\ Tick => TypeInv'
  BY DEF TypeInv, TypeOK, SharedTypeOK, CellTypeOK, ThreadTypeOK, CallerTypeOK, ControlInv, Tick,
         cellVars, threadVars, ghostVars

(* Nothing happens. *)
LEMMA StutterType == TypeInv /\ UNCHANGED vars => TypeInv'
  BY DEF TypeInv, TypeOK, SharedTypeOK, CellTypeOK, ThreadTypeOK, CallerTypeOK, ControlInv, vars,
         sharedVars, cellVars, threadVars, ghostVars

(* Every step keeps the types. *)
LEMMA NextTypeInv == TypeInv /\ [Next]_vars => TypeInv'
<1> SUFFICES ASSUME TypeInv, [Next]_vars PROVE TypeInv'
  OBVIOUS
<1>1. ASSUME NEW t \in Threads, Run(t) PROVE TypeInv'
  BY <1>1, MaybeCleanupType, CleanupPopType, ScanStaleType, ScanBusyType, ScanPurgeType,
     UncountBucketType, CleanupDoneType, AcquireHitType, AcquireMissType, ReserveBucketType,
     EntryOccupiedType, EntryVacantType, ScheduleCleanupType, PushTicketType, AdmitEnterType,
     AdmitDecideType, SettleLockedType, InspectLockedType, ReleaseType, RemoveEmptyType,
     UncountEmptyType
     DEF Run
<1> QED BY <1>1, CallType, TickType, StutterType DEF Next

(* The store's state keeps its shape whatever the threads do: a window's     *)
(* usage counters stay within u64 although settlements may charge more than  *)
(* they reserved (checked arithmetic of admit_once and adjusted_count).      *)
THEOREM TypeCorrect == Spec => []TypeOK
<1>1. Init => TypeInv
  BY InitTypeInv
<1>2. TypeInv /\ [Next]_vars => TypeInv'
  BY NextTypeInv
<1>3. TypeInv => TypeOK
  BY DEF TypeInv
<1> QED BY <1>1, <1>2, <1>3, PTL DEF Spec

-----------------------------------------------------------------------------
(* Leases *)

(* active_ops = 0 means that nobody holds a lease. *)
LEMMA NotLeased ==
  ASSUME LeaseSafety, NEW c \in Cells, ~Leased(c)
  PROVE  \A t \in Threads : lease[t] # c
<1> DEFINE H == {t \in Threads : lease[t] = c}
<1>1. IsFiniteSet(H) /\ Cardinality(H) = 0
  BY FS_Subset DEF LeaseSafety, Leased
<1>2. H = {}
  BY <1>1, FS_EmptySet
<1> QED BY <1>2

(* A leasing thread is inside a call, and its cell is the bucket of its key. *)
LEMMA LeaseFacts ==
  ASSUME TypeInv, LeaseSafety, NEW u \in Threads, lease[u] # None
  PROVE  op[u] \in Op /\ OpKey(op[u]) \in Keys /\ buckets[OpKey(op[u])] = lease[u]
<1>1. pc[u] # "idle"
  BY DEF TypeInv, ControlInv, Leasing
<1>2. op[u] \in Op
  BY <1>1 DEF TypeInv, TypeOK, ThreadTypeOK, ControlInv
<1> QED BY <1>2, OpFields DEF LeaseSafety

(* Steps that touch neither the map nor a lease. *)
LEMMA QuietLease ==
  ASSUME MapInv, LeaseSafety, UNCHANGED <<lease, activeOps, buckets, allocated>>,
         \A u \in Threads : lease[u] # None => op'[u] = op[u]
  PROVE  MapInv' /\ LeaseSafety'
  BY DEF MapInv, LeaseSafety

(* A lease is taken on a cell that is in the map. *)
LEMMA TakeLeaseSafe ==
  ASSUME TypeInv, LeaseSafety, NEW t \in Threads, NEW c \in Cells, TakeLease(t, c),
         lease[t] = None, UNCHANGED op, buckets'[OpKey(op[t])] = c,
         \A u \in Threads : lease[u] # None => buckets'[OpKey(op[u])] = buckets[OpKey(op[u])]
  PROVE  LeaseSafety'
<1>1. \A u \in Threads : lease'[u] # None => buckets'[OpKey(op'[u])] = lease'[u]
  BY DEF TypeInv, TypeOK, ThreadTypeOK, LeaseSafety, TakeLease
<1>2. \A d \in Cells : activeOps'[d] = Cardinality({u \in Threads : lease'[u] = d})
  <2> TAKE d \in Cells
  <2> DEFINE H == {u \in Threads : lease[u] = d}
  <2>1. IsFiniteSet(H) /\ Cardinality(H) \in Nat
    BY FS_Subset, FS_CardinalityType
  <2>2. CASE d = c
    <3>1. {u \in Threads : lease'[u] = d} = H \cup {t} /\ t \notin H
      BY <2>2 DEF TypeInv, TypeOK, ThreadTypeOK, TakeLease
    <3>2. Cardinality(H \cup {t}) = Cardinality(H) + 1
      BY <2>1, <3>1, FS_AddElement
    <3> QED BY <2>2, <3>1, <3>2 DEF TypeInv, TypeOK, CellTypeOK, LeaseSafety, TakeLease
  <2>3. CASE d # c
    <3>1. {u \in Threads : lease'[u] = d} = H
      BY <2>3 DEF TypeInv, TypeOK, ThreadTypeOK, TakeLease
    <3> QED BY <2>3, <3>1 DEF TypeInv, TypeOK, CellTypeOK, LeaseSafety, TakeLease
  <2> QED BY <2>2, <2>3
<1> QED BY <1>1, <1>2 DEF LeaseSafety

(* A cell that nobody leases leaves the map. *)
LEMMA UnmapSafe ==
  ASSUME TypeInv, MapInv, LeaseSafety, NEW k \in Keys, buckets[k] # None, ~Leased(buckets[k]),
         buckets' = [buckets EXCEPT ![k] = None], UNCHANGED <<lease, activeOps, allocated>>,
         \A u \in Threads : lease[u] # None => op'[u] = op[u]
  PROVE  MapInv' /\ LeaseSafety'
<1>1. MapInv'
  BY DEF TypeInv, TypeOK, SharedTypeOK, MapInv
<1>2. \A u \in Threads : lease[u] # buckets[k]
  BY NotLeased DEF TypeInv, TypeOK, SharedTypeOK
<1>3. \A u \in Threads : lease'[u] # None => buckets'[OpKey(op'[u])] = lease'[u]
  <2> TAKE u \in Threads
  <2> HAVE lease'[u] # None
  <2>1. op[u] \in Op /\ OpKey(op[u]) \in Keys /\ buckets[OpKey(op[u])] = lease[u]
    BY LeaseFacts
  <2> QED BY <1>2, <2>1 DEF TypeInv, TypeOK, SharedTypeOK
<1> QED BY <1>1, <1>3 DEF LeaseSafety

(* Every step keeps the map injective and the leases safe. *)
LEMMA NextLease ==
  ASSUME TypeInv, MapInv, LeaseSafety, [Next]_vars
  PROVE  MapInv' /\ LeaseSafety'
<1>1. ASSUME NEW t \in Threads, Call(t) PROVE MapInv' /\ LeaseSafety'
  <2>1. PICK o \in Op : Start(t, o)
    BY <1>1 DEF TypeInv, TypeOK, CallerTypeOK, Call, StartAdmit, StartSettle, StartInspect, Op
  <2>2. lease[t] = None
    BY <2>1 DEF TypeInv, ControlInv, Start, Leasing
  <2> QED BY <2>1, <2>2, QuietLease DEF TypeInv, TypeOK, ThreadTypeOK, Start, sharedVars, cellVars
<1>2. ASSUME NEW t \in Threads,
             \/ MaybeCleanup(t) \/ CleanupPop(t) \/ ScanStale(t) \/ ScanBusy(t)
             \/ UncountBucket(t) \/ CleanupDone(t) \/ ScheduleCleanup(t) \/ PushTicket(t)
             \/ AdmitEnter(t) \/ AdmitDecide(t) \/ SettleLocked(t) \/ InspectLocked(t)
      PROVE  MapInv' /\ LeaseSafety'
  <2>1. UNCHANGED <<lease, activeOps, buckets, allocated, op>>
    BY <1>2 DEF MaybeCleanup, CleanupPop, ScanStale, ScanBusy, UncountBucket, CleanupDone,
                ScheduleCleanup, PushTicket, AdmitEnter, AdmitDecide, SettleLocked,
                InspectLocked, sharedVars, cellVars
  <2> QED BY <2>1, QuietLease
<1>3. ASSUME NEW t \in Threads, AcquireMiss(t) \/ ReserveBucket(t) \/ UncountEmpty(t)
      PROVE  MapInv' /\ LeaseSafety'
  <2>1. lease[t] = None
    BY <1>3 DEF TypeInv, ControlInv, AcquireMiss, ReserveBucket, UncountEmpty, Leasing
  <2>2. UNCHANGED <<lease, activeOps, buckets, allocated>>
    BY <1>3 DEF AcquireMiss, ReserveBucket, UncountEmpty, sharedVars, cellVars
  <2>3. \A u \in Threads \ {t} : op'[u] = op[u]
    BY <1>3 DEF TypeInv, TypeOK, ThreadTypeOK, AcquireMiss, ReserveBucket, UncountEmpty,
                RetryOrFail, Return
  <2> QED BY <2>1, <2>2, <2>3, QuietLease
<1>4. ASSUME NEW t \in Threads, AcquireHit(t) \/ EntryOccupied(t)
      PROVE  MapInv' /\ LeaseSafety'
  <2>1. op[t] \in Op /\ lease[t] = None
    BY <1>4 DEF TypeInv, TypeOK, ThreadTypeOK, ControlInv, AcquireHit, EntryOccupied, Leasing
  <2>2. buckets[OpKey(op[t])] \in Cells
    BY <1>4, <2>1, OpFields DEF TypeInv, TypeOK, SharedTypeOK, AcquireHit, EntryOccupied
  <2>3. TakeLease(t, buckets[OpKey(op[t])]) /\ UNCHANGED <<op, buckets, allocated>>
    BY <1>4 DEF AcquireHit, EntryOccupied, sharedVars
  <2>4. LeaseSafety'
    BY <2>1, <2>2, <2>3, TakeLeaseSafe
  <2> QED BY <2>3, <2>4 DEF MapInv
<1>5. ASSUME NEW t \in Threads, EntryVacant(t) PROVE MapInv' /\ LeaseSafety'
  <2>1. op[t] \in Op /\ lease[t] = None
    BY <1>5 DEF TypeInv, TypeOK, ThreadTypeOK, ControlInv, EntryVacant, Leasing
  <2>2. OpKey(op[t]) \in Keys /\ FreshCell \in Cells \ allocated
    BY <1>5, <2>1, OpFields, FreshCellType DEF TypeInv, TypeOK, EntryVacant
  <2>3. /\ buckets[OpKey(op[t])] = None
        /\ buckets' = [buckets EXCEPT ![OpKey(op[t])] = FreshCell]
        /\ allocated' = allocated \cup {FreshCell}
        /\ TakeLease(t, FreshCell) /\ UNCHANGED op
    BY <1>5 DEF EntryVacant
  <2>4. MapInv'
    BY <2>2, <2>3 DEF TypeInv, TypeOK, SharedTypeOK, MapInv
  <2>5. \A u \in Threads : lease[u] # None => buckets'[OpKey(op[u])] = buckets[OpKey(op[u])]
    <3> TAKE u \in Threads
    <3> HAVE lease[u] # None
    <3>1. op[u] \in Op /\ OpKey(op[u]) \in Keys /\ buckets[OpKey(op[u])] = lease[u]
      BY LeaseFacts
    <3> QED BY <2>2, <2>3, <3>1 DEF TypeInv, TypeOK, SharedTypeOK
  <2>6. buckets'[OpKey(op[t])] = FreshCell
    BY <2>2, <2>3 DEF TypeInv, TypeOK, SharedTypeOK
  <2>7. LeaseSafety'
    BY <2>1, <2>2, <2>3, <2>5, <2>6, TakeLeaseSafe
  <2> QED BY <2>4, <2>7
<1>6. ASSUME NEW t \in Threads, Release(t) PROVE MapInv' /\ LeaseSafety'
  <2> DEFINE c == lease[t]
  <2>1. c \in Cells
    BY <1>6 DEF TypeInv, TypeOK, ThreadTypeOK, ControlInv, Release, Leasing
  <2>2. /\ activeOps' = [activeOps EXCEPT ![c] = @ - 1]
        /\ lease' = [lease EXCEPT ![t] = None]
        /\ UNCHANGED <<buckets, allocated>>
    BY <1>6 DEF Release, DropLease, sharedVars
  <2>3. \A u \in Threads \ {t} : op'[u] = op[u]
    BY <1>6 DEF TypeInv, TypeOK, ThreadTypeOK, Release, AfterRelease, RetryOrFail, Return
  <2>4. \A u \in Threads : lease'[u] # None => buckets'[OpKey(op'[u])] = lease'[u]
    BY <2>2, <2>3 DEF TypeInv, TypeOK, ThreadTypeOK, LeaseSafety
  <2>5. \A d \in Cells : activeOps'[d] = Cardinality({u \in Threads : lease'[u] = d})
    <3> TAKE d \in Cells
    <3> DEFINE H == {u \in Threads : lease[u] = d}
    <3>1. IsFiniteSet(H) /\ Cardinality(H) \in Nat
      BY FS_Subset, FS_CardinalityType
    <3>2. CASE d = c
      <4>1. {u \in Threads : lease'[u] = d} = H \ {t} /\ t \in H
        BY <2>1, <2>2, <3>2 DEF TypeInv, TypeOK, ThreadTypeOK
      <4>2. Cardinality(H \ {t}) = Cardinality(H) - 1
        BY <3>1, <4>1, FS_RemoveElement
      <4> QED BY <2>2, <3>2, <4>1, <4>2 DEF TypeInv, TypeOK, CellTypeOK, LeaseSafety
    <3>3. CASE d # c
      <4>1. {u \in Threads : lease'[u] = d} = H
        BY <2>2, <3>3 DEF TypeInv, TypeOK, ThreadTypeOK
      <4> QED BY <2>2, <3>3, <4>1 DEF TypeInv, TypeOK, CellTypeOK, LeaseSafety
    <3> QED BY <3>2, <3>3
  <2>6. MapInv'
    BY <2>2 DEF MapInv
  <2> QED BY <2>4, <2>5, <2>6 DEF LeaseSafety
<1>7. ASSUME NEW t \in Threads, ScanPurge(t) PROVE MapInv' /\ LeaseSafety'
  <2> DEFINE tk == Head(tickets[t])
  <2>1. tk.cell \in Cells /\ tk.key \in Keys
    BY <1>7, ScanFacts DEF ScanPurge
  <2>2. /\ buckets[tk.key] = tk.cell /\ ~Leased(tk.cell)
        /\ \/ buckets' = [buckets EXCEPT ![tk.key] = None]
           \/ UNCHANGED buckets
        /\ UNCHANGED <<lease, activeOps, allocated, op>>
    BY <1>7 DEF ScanPurge
  <2> QED BY <2>1, <2>2, UnmapSafe, QuietLease
<1>8. ASSUME NEW t \in Threads, RemoveEmpty(t) PROVE MapInv' /\ LeaseSafety'
  <2> DEFINE k == OpKey(op[t])
  <2>1. op[t] \in Op /\ lease[t] = None /\ k \in Keys
    BY <1>8, OpFields DEF TypeInv, TypeOK, ThreadTypeOK, ControlInv, RemoveEmpty, Leasing
  <2>2. /\ \/ /\ buckets[k] # None /\ ~Leased(buckets[k])
              /\ buckets' = [buckets EXCEPT ![k] = None]
           \/ UNCHANGED buckets
        /\ UNCHANGED <<lease, activeOps, allocated>>
    BY <1>8, Zenon DEF RemoveEmpty
  <2>3. \A u \in Threads \ {t} : op'[u] = op[u]
    BY <1>8 DEF TypeInv, TypeOK, ThreadTypeOK, RemoveEmpty, Return
  <2> QED BY <2>1, <2>2, <2>3, UnmapSafe, QuietLease
<1>9. ASSUME Tick \/ UNCHANGED vars PROVE MapInv' /\ LeaseSafety'
  <2>1. UNCHANGED <<lease, activeOps, buckets, allocated, op>>
    BY <1>9 DEF Tick, vars, sharedVars, cellVars, threadVars
  <2> QED BY <2>1, QuietLease
<1> QED
  BY <1>1, <1>2, <1>3, <1>4, <1>5, <1>6, <1>7, <1>8, <1>9 DEF Next, Run

(* The store starts without leases. *)
LEMMA InitLease == Init => MapInv /\ LeaseSafety
<1> SUFFICES ASSUME Init PROVE MapInv /\ LeaseSafety
  OBVIOUS
<1>1. MapInv
  BY DEF Init, MapInv
<1>2. \A c \in Cells : {t \in Threads : lease[t] = c} = {}
  BY DEF Init
<1>3. \A c \in Cells : activeOps[c] = Cardinality({t \in Threads : lease[t] = c})
  BY <1>2, FS_EmptySet DEF Init
<1>4. \A t \in Threads : lease[t] = None
  BY DEF Init
<1> QED BY <1>1, <1>3, <1>4 DEF LeaseSafety

(* No call ever works on a bucket that cleaning removed, for any number of   *)
(* threads, keys and cells: the lease taken under the shard lock in          *)
(* acquire_bucket keeps cleanup_at and remove_empty_bucket away until it is  *)
(* dropped.  The invariant LeaseSafety needs the shape of the state, what a  *)
(* thread holds at each label, and that no two keys share a cell.            *)
THEOREM LeasesSafe == Spec => []LeaseSafety
<1>1. Init => LeaseInv
  BY InitTypeInv, InitLease DEF LeaseInv, TypeInv
<1>2. LeaseInv /\ [Next]_vars => LeaseInv'
  BY NextTypeInv, NextLease DEF LeaseInv, TypeInv
<1>3. LeaseInv => LeaseSafety
  BY DEF LeaseInv
<1> QED BY <1>1, <1>2, <1>3, PTL DEF Spec

-----------------------------------------------------------------------------
(* Reservations *)

(* What a step may do to the reservations that can still be settled: the     *)
(* record and the map entry of each stay as they are, or it is settled.      *)
Kept ==
  \A c \in Cells, r \in Requests :
    LET rec == admissions[c][r] IN
    rec # None /\ rec.token # None /\ rec.settlement = None =>
      \/ admissions'[c][r] = rec /\ buckets'[rec.cmd.key] = buckets[rec.cmd.key]
      \/ rec.token.id \in settledIds'

(* The fields of a token (ReservationEnvelope). *)
LEMMA TokenFields ==
  ASSUME NEW tok \in Token
  PROVE  /\ tok.id \in Nat /\ tok.cell \in Cells /\ tok.cmd \in Commands
         /\ tok.cmd.key \in Keys /\ tok.cmd.request \in Requests
  BY DEF Token, Command

(* A reservation stays settleable when its record stays. *)
LEMMA SettleableKept ==
  ASSUME TypeOK, RecordInv, Kept, NEW tok \in Token, Settleable(tok)
  PROVE  Settleable(tok)' \/ tok.id \in settledIds'
<1> DEFINE rec == admissions[tok.cell][tok.cmd.request]
<1>1. /\ tok.cell \in Cells /\ tok.cmd.request \in Requests
      /\ rec # None /\ rec.token = tok /\ rec.settlement = None
      /\ buckets[tok.cmd.key] = tok.cell
  BY TokenFields DEF Settleable
<1>2. tok # None
  OBVIOUS
<1>3. rec.cmd = tok.cmd
  BY <1>1, <1>2 DEF RecordInv
<1>4. \/ admissions'[tok.cell][tok.cmd.request] = rec /\ buckets'[rec.cmd.key] = buckets[rec.cmd.key]
      \/ tok.id \in settledIds'
  BY <1>1, <1>2 DEF Kept
<1> QED BY <1>1, <1>3, <1>4 DEF Settleable

(* A step that keeps reservations, and neither returns nor issues a token    *)
(* that was not on its way already, keeps them settleable.                   *)
LEMMA TokensKept ==
  ASSUME TypeOK, RecordInv, ReturningInv, OutstandingSettleable, Kept,
         settledIds \subseteq settledIds',
         \A t \in Threads : \A tok : tok = result'[t].token /\ tok # None =>
            tok = result[t].token \/ tok.id \in settledIds' \/ Settleable(tok)',
         \A tok \in issued' : tok \in issued \/ \E t \in Threads : tok = result[t].token /\ tok # None
  PROVE  ReturningInv' /\ OutstandingSettleable'
<1>1. ASSUME NEW tok, NEW t \in Threads, tok = result[t].token, tok # None, tok.id \notin settledIds'
      PROVE  Settleable(tok)'
  <2>1. tok \in Token /\ Settleable(tok)
    BY <1>1 DEF TypeOK, ThreadTypeOK, ReturningInv
  <2> QED BY <1>1, <2>1, SettleableKept
<1>2. ASSUME NEW tok \in issued, tok.id \notin settledIds' PROVE Settleable(tok)'
  <2>1. tok \in Token /\ Settleable(tok)
    BY <1>2 DEF TypeOK, CallerTypeOK, OutstandingSettleable
  <2> QED BY <1>2, <2>1, SettleableKept
<1>3. ASSUME NEW tok, NEW t \in Threads, tok = result'[t].token, tok # None, tok.id \notin settledIds'
      PROVE  Settleable(tok)'
  BY <1>1, <1>3
<1>4. ReturningInv'
  BY <1>3 DEF ReturningInv
<1>5. ASSUME NEW tok \in issued', tok.id \notin settledIds' PROVE Settleable(tok)'
  BY <1>1, <1>2, <1>5
<1>6. OutstandingSettleable'
  BY <1>5 DEF OutstandingSettleable
<1> QED BY <1>4, <1>6

(* purge_expired removes no reservation that can still be settled, and adds   *)
(* nothing.                                                                  *)
LEMMA PurgeKeeps ==
  ASSUME NEW c \in Cells, NEW n, NEW r \in Requests
  PROVE  /\ PurgedAdmissions(c, n)[r] \in {admissions[c][r], None}
         /\ /\ admissions[c][r] # None /\ admissions[c][r].token # None
            /\ admissions[c][r].settlement = None
            => PurgedAdmissions(c, n)[r] = admissions[c][r]
  BY DEF PurgedAdmissions, Removable

(* The purge of cell c, alone: every record that is left was there, and      *)
(* every reservation that can still be settled is left.                      *)
LEMMA PurgeStep ==
  ASSUME TypeOK, RecordInv, NEW c \in Cells, NEW n \in Nat,
         admissions' = [admissions EXCEPT ![c] = PurgedAdmissions(c, n)],
         UNCHANGED <<buckets, settledIds>>
  PROVE  /\ Kept /\ RecordInv'
         /\ \A d \in Cells, r \in Requests : admissions[d][r] = None => admissions'[d][r] = None
<1>1. admissions \in [Cells -> [Requests -> Record \cup {None}]]
  BY DEF TypeOK, CellTypeOK
<1>2. \A d \in Cells, r \in Requests : admissions'[d][r] \in {admissions[d][r], None}
  BY <1>1, PurgeKeeps
<1>3. Kept
  BY <1>1, PurgeKeeps DEF Kept
<1>4. RecordInv'
  BY <1>2 DEF RecordInv
<1> QED BY <1>2, <1>3, <1>4

ReserveInv == DecideInv /\ RecordInv /\ ReturningInv /\ OutstandingSettleable

(* Steps that touch no reservation, no map entry and no token. *)
LEMMA QuietReserve ==
  ASSUME TypeOK, ReserveInv, UNCHANGED <<admissions, buckets, issued, settledIds>>,
         \A u \in Threads : pc'[u] = "decide" =>
            pc[u] = "decide" /\ lease'[u] = lease[u] /\ op'[u] = op[u],
         \A u \in Threads : result'[u].token \in {result[u].token, None}
  PROVE  ReserveInv'
<1>1. DecideInv'
  BY DEF ReserveInv, DecideInv
<1>2. RecordInv'
  BY DEF ReserveInv, RecordInv
<1>3. Kept
  BY DEF Kept
<1>4. ReturningInv' /\ OutstandingSettleable'
  BY <1>3, TokensKept DEF ReserveInv
<1> QED BY <1>1, <1>2, <1>4 DEF ReserveInv
(* A call that returns, or starts over, forgets its answer and decides nothing. *)
LEMMA ReturnQuiet ==
  ASSUME TypeInv, NEW t \in Threads, Return(t) \/ RetryOrFail(t)
  PROVE  /\ \A u \in Threads : pc'[u] = "decide" => pc[u] = "decide" /\ u # t /\ op'[u] = op[u]
         /\ \A u \in Threads : result'[u].token \in {result[u].token, None}
<1>1. /\ \E l \in {"idle", "cleanup"} : pc' = [pc EXCEPT ![t] = l]
      /\ result' = [result EXCEPT ![t] = NoResult]
      /\ UNCHANGED op \/ op' = [op EXCEPT ![t] = None]
  BY DEF Return, RetryOrFail, Goto
<1> QED BY <1>1 DEF TypeInv, TypeOK, ThreadTypeOK, NoResult

(* A reservation sits in the bucket of its key, so a cell that leaves the    *)
(* map, being empty, takes none with it (cleanup_at, remove_empty_bucket).   *)
LEMMA UnmapReserve ==
  ASSUME TypeOK, MapInv, ReserveInv, NEW k \in Keys, buckets[k] # None,
         \A r \in Requests : admissions[buckets[k]][r] = None \/ admissions'[buckets[k]][r] = None,
         \A d \in Cells, r \in Requests : admissions'[d][r] \in {admissions[d][r], None},
         \A d \in Cells, r \in Requests :
            admissions[d][r] # None /\ admissions[d][r].token # None
              /\ admissions[d][r].settlement = None => admissions'[d][r] = admissions[d][r],
         buckets' = [buckets EXCEPT ![k] = None], UNCHANGED settledIds
  PROVE  Kept /\ RecordInv'
<1>1. \A d \in Cells, r \in Requests : admissions[d][r] # None => admissions[d][r].cmd.key \in Keys
  BY DEF TypeOK, CellTypeOK, Record, Command
<1>2. \A d \in Cells, r \in Requests :
        admissions'[d][r] # None =>
          buckets'[admissions[d][r].cmd.key] = buckets[admissions[d][r].cmd.key]
  <2> TAKE d \in Cells, r \in Requests
  <2> HAVE admissions'[d][r] # None
  <2>1. admissions[d][r] # None /\ admissions'[d][r] = admissions[d][r]
    OBVIOUS
  <2>2. buckets[admissions[d][r].cmd.key] = d
    BY <2>1 DEF ReserveInv, RecordInv
  <2>3. d # buckets[k]
    BY <2>1
  <2> QED BY <1>1, <2>1, <2>2, <2>3 DEF TypeOK, SharedTypeOK
<1>3. Kept
  BY <1>2 DEF Kept
<1>4. RecordInv'
  BY <1>2 DEF ReserveInv, RecordInv
<1> QED BY <1>3, <1>4

(* Purging takes no record that is still outstanding. *)
LEMMA ScanPurgeReserve ==
  ASSUME TypeInv, MapInv, LeaseSafety, ReserveInv, NEW t \in Threads, ScanPurge(t)
  PROVE  ReserveInv'
<1> DEFINE tk == Head(tickets[t])
           c == tk.cell
           adm == PurgedAdmissions(c, now[t])
<1>1. tk.cell \in Cells /\ tk.key \in Keys /\ now[t] \in Nat
  BY ScanFacts DEF TypeInv, TypeOK, ThreadTypeOK, ScanPurge
<1>2. /\ pc[t] = "scan" /\ buckets[tk.key] = c /\ ~Leased(c)
      /\ admissions' = [admissions EXCEPT ![c] = adm]
      /\ \/ /\ IsEmpty(PurgedWindow(c, now[t]), adm)
            /\ buckets' = [buckets EXCEPT ![tk.key] = None]
            /\ Goto(t, "uncount")
         \/ UNCHANGED <<buckets, pc>>
      /\ UNCHANGED <<op, lease, result, issued, settledIds>>
  BY Zenon DEF ScanPurge, ghostVars
<1>3. admissions \in [Cells -> [Requests -> Record \cup {None}]] /\ TypeOK
  BY DEF TypeInv, TypeOK, CellTypeOK
<1> HIDE DEF tk, adm
<1>4. /\ \A d \in Cells, r \in Requests : admissions'[d][r] \in {admissions[d][r], None}
      /\ \A d \in Cells, r \in Requests :
            admissions[d][r] # None /\ admissions[d][r].token # None
              /\ admissions[d][r].settlement = None => admissions'[d][r] = admissions[d][r]
  BY <1>1, <1>2, <1>3, PurgeKeeps DEF adm
<1>5. Kept /\ RecordInv'
  <2>1. CASE UNCHANGED buckets
    BY <1>1, <1>2, <1>3, <2>1, PurgeStep DEF ReserveInv, adm
  <2>2. CASE IsEmpty(PurgedWindow(c, now[t]), adm) /\ buckets' = [buckets EXCEPT ![tk.key] = None]
    <3>1. \A r \in Requests : admissions'[buckets[tk.key]][r] = None
      BY <1>1, <1>2, <1>3, <2>2 DEF IsEmpty
    <3>2. buckets[tk.key] # None
      BY <1>1, <1>2
    <3> QED BY <1>1, <1>2, <1>3, <1>4, <2>2, <3>1, <3>2, UnmapReserve
  <2> QED BY <1>2, <2>1, <2>2
<1>6. ReturningInv' /\ OutstandingSettleable'
  BY <1>2, <1>3, <1>5, TokensKept DEF ReserveInv
<1>7. DecideInv'
  <2>1. \A u \in Threads : pc'[u] = "decide" => pc[u] = "decide"
    BY <1>2 DEF TypeInv, TypeOK, ThreadTypeOK, Goto
  <2>2. \A u \in Threads : pc[u] = "decide" =>
           lease[u] \in Cells /\ op[u].cmd.request \in Requests
    BY EnterFacts DEF Command
  <2> QED BY <1>2, <1>4, <2>1, <2>2 DEF ReserveInv, DecideInv
<1> QED BY <1>5, <1>6, <1>7 DEF ReserveInv

(* An empty bucket holds no record. *)
LEMMA RemoveEmptyReserve ==
  ASSUME TypeInv, MapInv, LeaseSafety, ReserveInv, NEW t \in Threads, RemoveEmpty(t)
  PROVE  ReserveInv'
<1> DEFINE k == OpKey(op[t])
<1>1. op[t] \in Op /\ k \in Keys /\ TypeOK
  BY OpFields DEF TypeInv, TypeOK, ThreadTypeOK, ControlInv, RemoveEmpty
<1>2. /\ pc[t] = "removeEmpty"
      /\ \/ /\ buckets[k] # None
            /\ \A r \in Requests : admissions[buckets[k]][r] = None
            /\ buckets' = [buckets EXCEPT ![k] = None]
            /\ Goto(t, "uncountEmpty") /\ UNCHANGED <<op, result>>
         \/ Return(t) /\ UNCHANGED buckets
      /\ UNCHANGED <<lease, admissions, issued, settledIds>>
  BY Zenon DEF RemoveEmpty, IsEmpty, ghostVars
<1>3. /\ \A u \in Threads : pc'[u] = "decide" => pc[u] = "decide" /\ u # t /\ op'[u] = op[u]
      /\ \A u \in Threads : result'[u].token \in {result[u].token, None}
  <2>1. CASE Return(t)
    BY <2>1, ReturnQuiet
  <2>2. CASE Goto(t, "uncountEmpty") /\ UNCHANGED <<op, result>>
    BY <2>2 DEF TypeInv, TypeOK, ThreadTypeOK, Goto
  <2> QED BY <1>2, <2>1, <2>2
<1>4. CASE UNCHANGED buckets
  BY <1>1, <1>2, <1>3, <1>4, QuietReserve
<1>5. CASE /\ buckets[k] # None /\ buckets' = [buckets EXCEPT ![k] = None]
           /\ \A r \in Requests : admissions[buckets[k]][r] = None
  <2>1. Kept /\ RecordInv'
    BY <1>1, <1>2, <1>5, UnmapReserve
  <2>2. ReturningInv' /\ OutstandingSettleable'
    BY <1>1, <1>2, <1>3, <2>1, TokensKept DEF ReserveInv
  <2>3. DecideInv'
    BY <1>2, <1>3 DEF ReserveInv, DecideInv
  <2> QED BY <2>1, <2>2, <2>3 DEF ReserveInv
<1> QED BY <1>2, <1>4, <1>5

(* A new bucket replaces none. *)
LEMMA EntryVacantReserve ==
  ASSUME TypeInv, MapInv, LeaseSafety, ReserveInv, NEW t \in Threads, EntryVacant(t)
  PROVE  ReserveInv'
<1> DEFINE k == OpKey(op[t])
<1>1. op[t] \in Op /\ k \in Keys /\ TypeOK
  BY OpFields DEF TypeInv, TypeOK, ThreadTypeOK, ControlInv, EntryVacant
<1>2. /\ pc[t] = "entry" /\ buckets[k] = None
      /\ buckets' = [buckets EXCEPT ![k] = FreshCell]
      /\ TakeLease(t, FreshCell)
      /\ UNCHANGED <<op, result, admissions, issued, settledIds>>
  BY DEF EntryVacant, ghostVars
<1> HIDE DEF k
<1>3. /\ \A u \in Threads : pc'[u] = "decide" => pc[u] = "decide" /\ u # t
      /\ \A u \in Threads \ {t} : lease'[u] = lease[u]
  BY <1>2 DEF TypeInv, TypeOK, ThreadTypeOK, TakeLease, Goto
<1>4. \A d \in Cells, r \in Requests : admissions[d][r] # None =>
        buckets'[admissions[d][r].cmd.key] = buckets[admissions[d][r].cmd.key]
  <2> TAKE d \in Cells, r \in Requests
  <2> HAVE admissions[d][r] # None
  <2>1. admissions[d][r].cmd.key \in Keys
    BY DEF TypeInv, TypeOK, CellTypeOK, Record, Command
  <2>2. buckets[admissions[d][r].cmd.key] = d
    BY DEF ReserveInv, RecordInv
  <2> QED BY <1>1, <1>2, <2>1, <2>2 DEF TypeOK, SharedTypeOK
<1>5. Kept /\ RecordInv'
  BY <1>2, <1>4 DEF ReserveInv, Kept, RecordInv
<1>6. ReturningInv' /\ OutstandingSettleable'
  BY <1>1, <1>2, <1>5, TokensKept DEF ReserveInv
<1>7. DecideInv'
  BY <1>2, <1>3 DEF ReserveInv, DecideInv
<1> QED BY <1>5, <1>6, <1>7 DEF ReserveInv
(* The purge a call makes when it enters the critical section. *)
LEMMA EnterPurge ==
  ASSUME TypeInv, ReserveInv, NEW t \in Threads, pc[t] = "enter", Unlocked(lease[t]),
         admissions' = [admissions EXCEPT ![lease[t]] = PurgedAdmissions(lease[t], now[t])],
         UNCHANGED <<buckets, issued, settledIds>>
  PROVE  /\ lease[t] \in Cells /\ TypeOK /\ Kept /\ RecordInv'
         /\ \A r \in Requests : admissions'[lease[t]][r] = PurgedAdmissions(lease[t], now[t])[r]
         /\ \A d \in Cells, r \in Requests : admissions[d][r] = None => admissions'[d][r] = None
<1>1. lease[t] \in Cells /\ now[t] \in Nat /\ TypeOK
  BY EnterFacts DEF TypeInv
<1>2. Kept /\ RecordInv'
        /\ \A d \in Cells, r \in Requests : admissions[d][r] = None => admissions'[d][r] = None
  BY <1>1, PurgeStep DEF ReserveInv
<1> QED BY <1>1, <1>2 DEF TypeOK, CellTypeOK

(* A call that leaves the critical section decides nothing any more. *)
LEMMA FinishDecide ==
  ASSUME TypeInv, ReserveInv, NEW t \in Threads, NEW x, NEW tok, Finish(t, x, tok),
         UNCHANGED <<op, lease>>,
         \A u \in Threads \ {t}, r \in Requests :
            pc[u] = "decide" /\ admissions[lease[u]][r] = None => admissions'[lease[u]][r] = None
  PROVE  /\ DecideInv'
         /\ result'[t].token = tok
         /\ \A u \in Threads \ {t} : result'[u] = result[u]
<1>1. /\ \A u \in Threads : pc'[u] = "decide" => pc[u] = "decide" /\ u # t
      /\ result'[t].token = tok
      /\ \A u \in Threads \ {t} : result'[u] = result[u]
  BY DEF TypeInv, TypeOK, ThreadTypeOK, Finish, Goto
<1>2. \A u \in Threads : pc[u] = "decide" => op[u].cmd.request \in Requests
  BY EnterFacts DEF Command
<1> QED BY <1>1, <1>2 DEF ReserveInv, DecideInv

(* Expiry takes no record that is still outstanding. *)
LEMMA AdmitEnterReserve ==
  ASSUME TypeInv, MapInv, LeaseSafety, ReserveInv, NEW t \in Threads, AdmitEnter(t)
  PROVE  ReserveInv'
<1> DEFINE c == lease[t]
           adm == PurgedAdmissions(c, now[t])
           req == op[t].cmd.request
           rec == adm[req]
<1>1. op[t] \in Op /\ op[t].cmd \in Commands /\ req \in Requests
  BY EnterFacts DEF AdmitEnter, Command
<1>2. /\ pc[t] = "enter" /\ Unlocked(c)
      /\ admissions' = [admissions EXCEPT ![c] = adm]
      /\ \/ Finish(t, "corrupt", None) \/ Finish(t, "rejected", None)
         \/ rec # None /\ rec.token # None /\ Finish(t, "allowed", rec.token)
         \/ Finish(t, "capacity", None)
         \/ rec = None /\ Goto(t, "decide") /\ UNCHANGED result
      /\ UNCHANGED <<buckets, op, lease, issued, settledIds>>
  BY Zenon DEF AdmitEnter, sharedVars, ghostVars
<1>3. /\ c \in Cells /\ TypeOK /\ Kept /\ RecordInv'
      /\ \A r \in Requests : admissions'[c][r] = adm[r]
      /\ \A d \in Cells, r \in Requests : admissions[d][r] = None => admissions'[d][r] = None
  BY <1>2, EnterPurge
<1>4. \A u \in Threads : pc[u] = "decide" => lease[u] \in Cells /\ op[u].cmd.request \in Requests
  BY EnterFacts DEF Command
<1> HIDE DEF adm, rec, c, req
<1>5. CASE rec = None /\ Goto(t, "decide") /\ UNCHANGED result
  <2>1. \A u \in Threads : pc'[u] = "decide" <=> (pc[u] = "decide" \/ u = t)
    BY <1>5 DEF TypeInv, TypeOK, ThreadTypeOK, Goto
  <2>2. admissions'[lease'[t]][op'[t].cmd.request] = None
    BY <1>1, <1>2, <1>3, <1>5 DEF rec, c, req
  <2>3. \A u \in Threads : pc[u] = "decide" => lease[u] # c
    BY <1>2 DEF Unlocked
  <2>4. DecideInv'
    BY <1>2, <1>3, <1>4, <2>1, <2>2, <2>3 DEF ReserveInv, DecideInv, c
  <2>5. ReturningInv' /\ OutstandingSettleable'
    BY <1>2, <1>3, <1>5, TokensKept DEF ReserveInv
  <2> QED BY <1>3, <2>4, <2>5 DEF ReserveInv
<1>6. ASSUME NEW x, NEW tok, Finish(t, x, tok),
             tok = None \/ (rec # None /\ rec.token # None /\ tok = rec.token)
      PROVE  ReserveInv'
  <2>1. DecideInv' /\ result'[t].token = tok /\ \A u \in Threads \ {t} : result'[u] = result[u]
    BY <1>2, <1>3, <1>4, <1>6, FinishDecide
  <2>2. tok = None \/ tok.id \in settledIds' \/ Settleable(tok)'
    <3>1. CASE rec # None /\ rec.token # None /\ tok = rec.token
      <4>1. admissions'[c][req] = rec
        BY <1>1, <1>3 DEF rec
      <4>2. /\ rec.cmd.request = req /\ buckets'[rec.cmd.key] = c
            /\ rec.token.cmd = rec.cmd /\ rec.token.cell = c
            /\ rec.settlement # None => rec.token.id \in settledIds'
        BY <1>1, <1>3, <3>1, <4>1 DEF RecordInv
      <4> QED BY <3>1, <4>1, <4>2 DEF Settleable
    <3> QED BY <1>6, <3>1
  <2>3. ReturningInv' /\ OutstandingSettleable'
    BY <1>2, <1>3, <2>1, <2>2, TokensKept DEF ReserveInv
  <2> QED BY <1>3, <2>1, <2>3 DEF ReserveInv
<1> QED BY <1>2, <1>5, <1>6

(* Reading a cell expires only what is past. *)
LEMMA InspectLockedReserve ==
  ASSUME TypeInv, MapInv, LeaseSafety, ReserveInv, NEW t \in Threads, InspectLocked(t)
  PROVE  ReserveInv'
<1>1. /\ pc[t] = "enter" /\ Unlocked(lease[t])
      /\ admissions' = [admissions EXCEPT ![lease[t]] = PurgedAdmissions(lease[t], now[t])]
      /\ Finish(t, "inspected", None)
      /\ UNCHANGED <<buckets, op, lease, issued, settledIds>>
  BY DEF InspectLocked, sharedVars, ghostVars
<1>2. /\ TypeOK /\ Kept /\ RecordInv'
      /\ \A d \in Cells, r \in Requests : admissions[d][r] = None => admissions'[d][r] = None
  BY <1>1, EnterPurge
<1>3. \A u \in Threads : pc[u] = "decide" => lease[u] \in Cells
  BY EnterFacts
<1>4. DecideInv' /\ result'[t].token = None /\ \A u \in Threads \ {t} : result'[u] = result[u]
  BY <1>1, <1>2, <1>3, FinishDecide
<1>5. ReturningInv' /\ OutstandingSettleable'
  BY <1>1, <1>2, <1>4, TokensKept DEF ReserveInv
<1> QED BY <1>2, <1>4, <1>5 DEF ReserveInv

(* A record enters the slot the deciding thread found empty. *)
LEMMA AdmitDecideReserve ==
  ASSUME TypeInv, MapInv, LeaseSafety, ReserveInv, NEW t \in Threads, AdmitDecide(t)
  PROVE  ReserveInv'
<1> DEFINE c == lease[t]
           cmd == op[t].cmd
           req == cmd.request
<1>1. c \in Cells /\ cmd \in Commands /\ req \in Requests /\ cmd.key \in Keys /\ TypeOK
  BY EnterFacts DEF TypeInv, AdmitDecide, Command
<1>2. PICK x, tok, rec :
        /\ pc[t] = "decide" /\ Finish(t, x, tok)
        /\ \/ tok = None /\ UNCHANGED admissions
           \/ /\ rec.cmd = cmd /\ rec.token = tok /\ rec.settlement = None /\ rec # None
              /\ tok # None => tok.cmd = cmd /\ tok.cell = c
              /\ admissions' = [admissions EXCEPT ![c][req] = rec]
        /\ UNCHANGED <<buckets, op, lease, issued, settledIds>>
  <2> DEFINE w == EnsuredWindow(c, cmd, now[t])
             cand == Candidate(w, cmd)
             tk == [id |-> nextId, cmd |-> cmd, cell |-> c, gen |-> w.gen]
             rec(y) == [cmd |-> cmd, token |-> y, settlement |-> None,
                        retainUntil |-> RetainUntil(w, now[t])]
  <2>1. /\ pc[t] = "decide"
        /\ \/ AdmitRollback(t, "corrupt") \/ AdmitRollback(t, "capacity")
           \/ AdmitRecord(t, w, rec(None)) /\ Finish(t, "rejected", None)
           \/ AdmitRecord(t, [w EXCEPT !.used = cand], rec(tk)) /\ Finish(t, "allowed", tk)
        /\ UNCHANGED <<buckets, op, lease, issued, settledIds>>
    BY Zenon DEF AdmitDecide, sharedVars
  <2>2. \A y : rec(y).cmd = cmd /\ rec(y).token = y /\ rec(y).settlement = None
    OBVIOUS
  <2>3. tk.cmd = cmd /\ tk.cell = c
    OBVIOUS
  <2>4. w.gen \in Nat /\ RetainUntil(w, now[t]) \in Nat
    <3>1. w \in Window /\ now[t] \in Nat
      BY <1>1, EnsuredWindowType DEF TypeOK, ThreadTypeOK
    <3> QED BY <3>1 DEF Window, RetainUntil
  <2>5. tk \in Token
    BY <1>1, <2>4 DEF TypeOK, CallerTypeOK, Token
  <2>6. rec(None) \in Record /\ rec(tk) \in Record
    BY <1>1, <2>4, <2>5 DEF Record
  <2> HIDE DEF rec, tk, w, cand
  <2>7. CASE AdmitRollback(t, "corrupt") \/ AdmitRollback(t, "capacity")
    BY <2>1, <2>7 DEF AdmitRollback
  <2>8. CASE AdmitRecord(t, w, rec(None)) /\ Finish(t, "rejected", None)
    BY <2>1, <2>2, <2>6, <2>8 DEF AdmitRecord
  <2>9. CASE AdmitRecord(t, [w EXCEPT !.used = cand], rec(tk)) /\ Finish(t, "allowed", tk)
    BY <2>1, <2>2, <2>3, <2>6, <2>9 DEF AdmitRecord
  <2> QED BY <2>1, <2>7, <2>8, <2>9
<1>3. admissions[c][req] = None /\ \A u \in Threads : pc[u] = "decide" /\ lease[u] = c => u = t
  BY <1>2 DEF ReserveInv, DecideInv
<1>4. buckets[cmd.key] = c
  <2>1. op[t].kind = "admit" /\ op[t] \in Op
    BY <1>2, EnterFacts DEF TypeInv, ControlInv, Admitting
  <2> QED BY <1>1, <2>1, LeaseFacts DEF OpKey
<1>5. \A u \in Threads : pc[u] = "decide" => lease[u] \in Cells
  BY EnterFacts
<1>6. admissions \in [Cells -> [Requests -> Record \cup {None}]]
  BY <1>1 DEF TypeOK, CellTypeOK
<1> HIDE DEF c, cmd, req
<1>7. DecideInv' /\ result'[t].token = tok /\ \A u \in Threads \ {t} : result'[u] = result[u]
  <2>1. \A u \in Threads \ {t}, r \in Requests :
           pc[u] = "decide" /\ admissions[lease[u]][r] = None => admissions'[lease[u]][r] = None
    BY <1>1, <1>2, <1>3, <1>5, <1>6
  <2> QED BY <1>2, <2>1, FinishDecide
<1>8. Kept
  BY <1>1, <1>2, <1>3, <1>6 DEF Kept
<1>9. RecordInv'
  <2>1. CASE UNCHANGED admissions
    BY <1>2, <2>1 DEF ReserveInv, RecordInv
  <2>2. CASE admissions' # admissions
    <3>1. /\ rec.cmd = cmd /\ rec.token = tok /\ rec.settlement = None
          /\ tok # None => tok.cmd = cmd /\ tok.cell = c
          /\ admissions' = [admissions EXCEPT ![c][req] = rec]
          /\ UNCHANGED <<buckets, settledIds>>
      BY <1>2, <2>2
    <3> SUFFICES ASSUME NEW d \in Cells, NEW r \in Requests, admissions'[d][r] # None
                 PROVE  LET x1 == admissions'[d][r]
                        IN /\ x1.cmd.request = r /\ buckets'[x1.cmd.key] = d
                           /\ x1.token # None =>
                                /\ x1.token.cmd = x1.cmd /\ x1.token.cell = d
                                /\ x1.settlement # None => x1.token.id \in settledIds'
      BY DEF RecordInv
    <3>2. CASE d = c /\ r = req
      <4>1. admissions'[d][r] = rec
        BY <1>1, <1>6, <3>1, <3>2
      <4>2. cmd.request = req
        BY DEF req
      <4> QED BY <1>4, <3>1, <3>2, <4>1, <4>2
    <3>3. CASE ~(d = c /\ r = req)
      <4>1. admissions'[d][r] = admissions[d][r]
        BY <1>1, <1>6, <3>1, <3>3
      <4> QED BY <3>1, <4>1 DEF ReserveInv, RecordInv
    <3> QED BY <3>2, <3>3
  <2> QED BY <2>1, <2>2
<1>10. tok # None => Settleable(tok)'
  <2> SUFFICES ASSUME tok # None PROVE Settleable(tok)'
    OBVIOUS
  <2>1. /\ rec.cmd = cmd /\ rec.token = tok /\ rec.settlement = None /\ rec # None
        /\ tok.cmd = cmd /\ tok.cell = c
        /\ admissions' = [admissions EXCEPT ![c][req] = rec]
        /\ UNCHANGED buckets
    BY <1>2
  <2>2. admissions'[c][req] = rec
    BY <1>1, <1>6, <2>1
  <2> QED BY <1>4, <2>1, <2>2 DEF Settleable, req
<1>11. ReturningInv' /\ OutstandingSettleable'
  BY <1>1, <1>2, <1>7, <1>8, <1>10, TokensKept DEF ReserveInv
<1> QED BY <1>7, <1>9, <1>11 DEF ReserveInv

(* A settlement closes the one record that holds its token. *)
LEMMA SettleLockedReserve ==
  ASSUME TypeInv, MapInv, LeaseSafety, ReserveInv, NEW t \in Threads, SettleLocked(t)
  PROVE  ReserveInv'
<1> DEFINE c == lease[t]
           adm == PurgedAdmissions(c, now[t])
           tok == op[t].token
           req == tok.cmd.request
<1>1. /\ c \in Cells /\ now[t] \in Nat /\ tok \in Token /\ req \in Requests /\ TypeOK
      /\ op[t].payload \in Payloads
  BY EnterFacts, TokenFields DEF TypeInv, SettleLocked
<1>2. adm \in [Requests -> Record \cup {None}]
        /\ admissions \in [Cells -> [Requests -> Record \cup {None}]]
  BY <1>1, PurgeType DEF TypeOK, CellTypeOK
<1>3. PICK x, rec :
        /\ pc[t] = "enter" /\ Unlocked(c) /\ Finish(t, x, None)
        /\ \/ /\ admissions' = [admissions EXCEPT ![c] = adm]
              /\ UNCHANGED settledIds
           \/ /\ adm[req] # None /\ adm[req].token = tok /\ adm[req].settlement = None
              /\ rec.cmd = adm[req].cmd /\ rec.token = tok
              /\ admissions' = [admissions EXCEPT ![c] = [adm EXCEPT ![req] = rec]]
              /\ settledIds' = settledIds \cup {tok.id}
        /\ UNCHANGED <<buckets, op, lease, issued>>
  <2> DEFINE w == PurgedWindow(c, now[t])
             same == w # None /\ w.gen = tok.gen /\ now[t] < w.reset
             settled == SettledRecord(adm[req], op[t].payload, same, now[t])
  <2>1. /\ pc[t] = "enter" /\ Unlocked(c) /\ UNCHANGED <<buckets, op, lease, issued>>
        /\ \/ /\ admissions' = [admissions EXCEPT ![c] = adm]
              /\ UNCHANGED settledIds
              /\ Finish(t, "corrupt", None) \/ Finish(t, "replayed", None)
           \/ /\ adm[req] # None /\ adm[req].token = tok /\ adm[req].settlement = None
              /\ admissions' = [admissions EXCEPT ![c] = [adm EXCEPT ![req] = settled]]
              /\ settledIds' = settledIds \cup {tok.id}
              /\ Finish(t, "applied", None) \/ Finish(t, "stale", None)
    BY <1>1, <1>2, Zenon DEF SettleLocked, SettleApply, sharedVars
  <2>2. settled.cmd = adm[req].cmd /\ settled.token = adm[req].token
    BY DEF SettledRecord
  <2> HIDE DEF c, adm, tok, req, settled
  <2> QED BY <2>1, <2>2
<1> HIDE DEF adm, c, tok, req
<1>4. \A r \in Requests : adm[r] \in {admissions[c][r], None}
  BY <1>1, PurgeKeeps DEF adm
<1>5. /\ \A d \in Cells, r \in Requests : admissions[d][r] = None => admissions'[d][r] = None
      /\ \A d \in Cells, r \in Requests : d # c => admissions'[d][r] = admissions[d][r]
  BY <1>1, <1>2, <1>3, <1>4
<1>6. DecideInv' /\ result'[t].token = None /\ \A u \in Threads \ {t} : result'[u] = result[u]
  <2>1. \A u \in Threads : pc[u] = "decide" => lease[u] \in Cells
    BY EnterFacts
  <2> QED BY <1>3, <1>5, <2>1, FinishDecide
<1>7. Kept /\ RecordInv'
  <2>1. CASE admissions' = [admissions EXCEPT ![c] = adm] /\ UNCHANGED settledIds
    BY <1>1, <1>3, <2>1, PurgeStep DEF ReserveInv, adm
  <2>2. CASE /\ adm[req] # None /\ adm[req].token = tok /\ adm[req].settlement = None
             /\ rec.cmd = adm[req].cmd /\ rec.token = tok
             /\ admissions' = [admissions EXCEPT ![c] = [adm EXCEPT ![req] = rec]]
             /\ settledIds' = settledIds \cup {tok.id}
    <3>1. admissions'[c][req] = rec /\ admissions[c][req] = adm[req] /\ tok # None
      BY <1>1, <1>2, <1>4, <2>2
    <3>2. \A r \in Requests : r # req => admissions'[c][r] = adm[r]
      BY <1>1, <1>2, <2>2
    <3>3. Kept
      <4> SUFFICES ASSUME NEW d \in Cells, NEW r \in Requests, admissions[d][r] # None,
                          admissions[d][r].token # None, admissions[d][r].settlement = None
                   PROVE  admissions'[d][r] = admissions[d][r]
                            \/ admissions[d][r].token.id \in settledIds'
        BY <1>3 DEF Kept
      <4>1. CASE d = c /\ r = req
        BY <2>2, <3>1, <4>1
      <4>2. CASE d = c /\ r # req
        BY <1>1, <3>2, <4>2, PurgeKeeps DEF adm
      <4>3. CASE d # c
        BY <1>5, <4>3
      <4> QED BY <4>1, <4>2, <4>3
    <3>4. RecordInv'
      <4> SUFFICES ASSUME NEW d \in Cells, NEW r \in Requests, admissions'[d][r] # None
                   PROVE  LET y == admissions'[d][r]
                          IN /\ y.cmd.request = r /\ buckets'[y.cmd.key] = d
                             /\ y.token # None =>
                                  /\ y.token.cmd = y.cmd /\ y.token.cell = d
                                  /\ y.settlement # None => y.token.id \in settledIds'
        BY DEF RecordInv
      <4>1. CASE d = c /\ r = req
        BY <1>1, <1>3, <2>2, <3>1, <4>1 DEF ReserveInv, RecordInv
      <4>2. CASE ~(d = c /\ r = req)
        <5>1. admissions'[d][r] = admissions[d][r]
          BY <1>4, <1>5, <3>2, <4>2
        <5> QED BY <1>3, <2>2, <5>1 DEF ReserveInv, RecordInv
      <4> QED BY <4>1, <4>2
    <3> QED BY <3>3, <3>4
  <2> QED BY <1>3, <2>1, <2>2
<1>8. ReturningInv' /\ OutstandingSettleable'
  BY <1>1, <1>3, <1>6, <1>7, TokensKept DEF ReserveInv
<1> QED BY <1>6, <1>7, <1>8 DEF ReserveInv

(* admit hands the token to its caller. *)
LEMMA ReleaseReserve ==
  ASSUME TypeInv, MapInv, LeaseSafety, ReserveInv, NEW t \in Threads, Release(t)
  PROVE  ReserveInv'
<1>1. /\ pc[t] = "release" /\ lease' = [lease EXCEPT ![t] = None] /\ AfterRelease(t)
      /\ issued' = IF result[t].token # None THEN issued \cup {result[t].token} ELSE issued
      /\ UNCHANGED <<buckets, admissions, settledIds>> /\ TypeOK
  BY DEF TypeInv, Release, DropLease, sharedVars
<1>2. /\ \A u \in Threads : pc'[u] = "decide" => pc[u] = "decide" /\ u # t /\ op'[u] = op[u]
      /\ \A u \in Threads : result'[u].token \in {result[u].token, None}
  <2>1. CASE Return(t) \/ RetryOrFail(t)
    BY <2>1, ReturnQuiet
  <2>2. CASE Goto(t, "removeEmpty") /\ UNCHANGED <<op, result>>
    BY <2>2 DEF TypeInv, TypeOK, ThreadTypeOK, Goto
  <2> QED BY <1>1, <2>1, <2>2 DEF AfterRelease
<1>3. \A u \in Threads \ {t} : lease'[u] = lease[u]
  BY <1>1 DEF TypeInv, TypeOK, ThreadTypeOK
<1>4. DecideInv'
  BY <1>1, <1>2, <1>3 DEF ReserveInv, DecideInv
<1>5. Kept /\ RecordInv'
  BY <1>1 DEF ReserveInv, Kept, RecordInv
<1>6. ReturningInv' /\ OutstandingSettleable'
  BY <1>1, <1>2, <1>5, TokensKept DEF ReserveInv
<1> QED BY <1>4, <1>5, <1>6 DEF ReserveInv

(* Every step keeps the reservations settleable. *)
LEMMA NextReserve ==
  ASSUME TypeInv, MapInv, LeaseSafety, ReserveInv, [Next]_vars
  PROVE  ReserveInv'
<1>1. TypeOK
  BY DEF TypeInv
<1>2. ASSUME NEW t \in Threads, Call(t) PROVE ReserveInv'
  <2>1. PICK o : Start(t, o)
    BY <1>2 DEF Call, StartAdmit, StartSettle, StartInspect
  <2>2. /\ UNCHANGED <<admissions, buckets, issued, settledIds, result, lease>>
        /\ \A u \in Threads : pc'[u] = "decide" => pc[u] = "decide" /\ op'[u] = op[u]
    BY <2>1 DEF TypeInv, TypeOK, ThreadTypeOK, Start, Goto, sharedVars, cellVars
  <2> QED BY <1>1, <2>2, QuietReserve
<1>3. ASSUME NEW t \in Threads,
             \/ MaybeCleanup(t) \/ CleanupPop(t) \/ ScanStale(t) \/ ScanBusy(t)
             \/ UncountBucket(t) \/ CleanupDone(t) \/ ScheduleCleanup(t) \/ PushTicket(t)
      PROVE  ReserveInv'
  <2>1. /\ UNCHANGED <<admissions, buckets, issued, settledIds, result, lease, op>>
        /\ UNCHANGED pc \/ \E l \in Labels \ {"decide"} : pc' = [pc EXCEPT ![t] = l]
    BY <1>3 DEF MaybeCleanup, CleanupPop, ScanStale, ScanBusy, UncountBucket, CleanupDone,
                ScheduleCleanup, PushTicket, Goto, Labels, sharedVars, cellVars, ghostVars
  <2>2. \A u \in Threads : pc'[u] = "decide" => pc[u] = "decide"
    BY <2>1 DEF TypeInv, TypeOK, ThreadTypeOK
  <2> QED BY <1>1, <2>1, <2>2, QuietReserve
<1>4. ASSUME NEW t \in Threads, AcquireHit(t) \/ EntryOccupied(t) PROVE ReserveInv'
  <2>1. /\ UNCHANGED <<admissions, buckets, issued, settledIds, result, op>>
        /\ TakeLease(t, buckets[OpKey(op[t])])
    BY <1>4 DEF AcquireHit, EntryOccupied, sharedVars, ghostVars
  <2>2. \A u \in Threads : pc'[u] = "decide" => pc[u] = "decide" /\ lease'[u] = lease[u]
    BY <2>1 DEF TypeInv, TypeOK, ThreadTypeOK, TakeLease, Goto
  <2> QED BY <1>1, <2>1, <2>2, QuietReserve
<1>5. ASSUME NEW t \in Threads, AcquireMiss(t) \/ ReserveBucket(t) \/ UncountEmpty(t)
      PROVE  ReserveInv'
  <2>1. /\ UNCHANGED <<admissions, buckets, issued, settledIds, lease>>
        /\ \/ Return(t) \/ RetryOrFail(t)
           \/ /\ \E l \in {"reserve", "entry"} : pc' = [pc EXCEPT ![t] = l]
              /\ UNCHANGED <<op, result>>
    BY <1>5 DEF AcquireMiss, ReserveBucket, UncountEmpty, Goto, sharedVars, cellVars, ghostVars
  <2>2. /\ \A u \in Threads : pc'[u] = "decide" => pc[u] = "decide" /\ op'[u] = op[u]
        /\ \A u \in Threads : result'[u].token \in {result[u].token, None}
    BY <2>1, ReturnQuiet DEF TypeInv, TypeOK, ThreadTypeOK
  <2> QED BY <1>1, <2>1, <2>2, QuietReserve
<1>6. ASSUME Tick \/ UNCHANGED vars PROVE ReserveInv'
  <2>1. UNCHANGED <<admissions, buckets, issued, settledIds, result, pc, lease, op>>
    BY <1>6 DEF Tick, vars, sharedVars, cellVars, threadVars, ghostVars
  <2> QED BY <1>1, <2>1, QuietReserve
<1> QED
  BY <1>2, <1>3, <1>4, <1>5, <1>6, ScanPurgeReserve, RemoveEmptyReserve, EntryVacantReserve,
     AdmitEnterReserve, AdmitDecideReserve, SettleLockedReserve, InspectLockedReserve,
     ReleaseReserve
     DEF Next, Run

(* ReservationInv holds at the start, and every step keeps it. *)
LEMMA InitReservation == Init => ReservationInv
<1> SUFFICES ASSUME Init PROVE ReservationInv
  OBVIOUS
<1>1. TypeOK /\ ControlInv /\ MapInv /\ LeaseSafety
  BY InitTypeInv, InitLease DEF TypeInv
<1>2. DecideInv /\ RecordInv /\ ReturningInv /\ OutstandingSettleable
  BY DEF Init, DecideInv, RecordInv, ReturningInv, OutstandingSettleable, NoResult
<1> QED BY <1>1, <1>2 DEF ReservationInv, LeaseInv

(* The step of the same induction. *)
LEMMA NextReservation == ReservationInv /\ [Next]_vars => ReservationInv'
  BY NextTypeInv, NextLease, NextReserve DEF ReservationInv, LeaseInv, TypeInv, ReserveInv

(* A reservation that admit handed out can be settled until it is settled,   *)
(* for any number of threads, keys and cells, any capacity, any retention    *)
(* and however late a call uses the time it read: cleaning, window resets    *)
(* and capacity failures never lose it.  OutstandingSettleable needs the     *)
(* leases, that one thread per cell decides and finds its slot empty, that a *)
(* record sits in the bucket of its key and is settled only as its history   *)
(* says, and the same promise for tokens still on their way to the caller.   *)
THEOREM ReservationsSettleable == Spec => []OutstandingSettleable
<1>1. ReservationInv => OutstandingSettleable
  BY DEF ReservationInv
<1> QED BY <1>1, InitReservation, NextReservation, PTL DEF Spec

-----------------------------------------------------------------------------
(* Counters *)

In(x, S) == IF x \in S THEN 1 ELSE 0

(* A count follows one member that comes or goes. *)
LEMMA OneMoves ==
  ASSUME NEW A, IsFiniteSet(A), NEW B, NEW x, \A y : y # x => (y \in B <=> y \in A)
  PROVE  /\ IsFiniteSet(B) /\ Cardinality(A) \in Nat
         /\ Cardinality(B) = Cardinality(A) + In(x, B) - In(x, A)
<1>1. Cardinality(A) \in Nat
  BY FS_CardinalityType
<1>2. CASE x \in A <=> x \in B
  <2>1. \A y : y \in B <=> y \in A
    BY <1>2
  <2>2. B = A
    BY <2>1, Zenon
  <2> QED BY <1>1, <1>2, <2>2 DEF In
<1>3. CASE x \in B /\ x \notin A
  <2>1. B = A \cup {x}
    BY <1>3
  <2> QED BY <1>1, <1>3, <2>1, FS_AddElement DEF In
<1>4. CASE x \in A /\ x \notin B
  <2>1. B = A \ {x}
    BY <1>4
  <2> QED BY <1>1, <1>4, <2>1, FS_RemoveElement DEF In
<1> QED BY <1>2, <1>3, <1>4

(* The kind of an admission record, and the slots of the kinds in K. *)
Kind(rec) ==
  IF rec = None THEN "free" ELSE IF rec.settlement # None THEN "recovery"
  ELSE IF rec.token = None THEN "rejected" ELSE "live"
Used == {"live", "rejected", "recovery"}
Slots(a, K) == {x \in Cells \X Requests : Kind(a[x[1]][x[2]]) \in K}
Number(a, K) == Cardinality(Slots(a, K))

(* b is a with v in one slot; b is a with the slots G of one bucket freed. *)
Writes(a, b, c, r, v) ==
  \A d \in Cells, s \in Requests : b[d][s] = IF d = c /\ s = r THEN v ELSE a[d][s]
Frees(a, b, c, G) ==
  \A d \in Cells, s \in Requests : b[d][s] = IF d = c /\ s \in G THEN None ELSE a[d][s]
OfKinds(a, c, G, K) == {s \in G : Kind(a[c][s]) \in K}

Moves(q, p, t, l) == p = [q EXCEPT ![t] = l]
Standing(q, P) == Cardinality({t \in Threads : q[t] \in P})

Refusals(a) ==
  \A c \in Cells, r \in Requests : a[c][r] # None /\ a[c][r].token = None => a[c][r].settlement = None

(* The counters s agree with the records a and the threads at q. *)
Tallied(a, q, s) ==
  /\ Refusals(a) /\ IsFiniteSet(Slots(a, Used))
  /\ s["idempotency"] = Number(a, Used) + Standing(q, {"decide"})
  /\ s["live"] = Number(a, {"live"})
  /\ s["rejected"] = Number(a, {"rejected"})
  /\ s["recovery"] = Number(a, {"recovery"})

Mapped(b) == {k \in Keys : b[k] # None}
BucketSteps == {"entry", "uncount", "uncountEmpty"}

MapTallied(b, q, s) ==
  IsFiniteSet(Mapped(b)) /\ s["buckets"] = Cardinality(Mapped(b)) + Standing(q, BucketSteps)

WithinLimits(s) ==
  s["buckets"] <= MaxBuckets /\ s["idempotency"] <= MaxIdempotency - Headroom /\ s["live"] <= MaxLive

TallyInv == Tallied(admissions, pc, stats) /\ MapTallied(buckets, pc, stats) /\ WithinLimits(stats)

(* CounterInv, in these words. *)
LEMMA CounterInvIs == CounterInv <=> ReservationInv /\ TallyInv
<1>1. InUse = Slots(admissions, Used)
  BY DEF InUse, Rec, Slots, Kind, Used
<1>2. RefusedInv <=> Refusals(admissions)
  BY DEF RefusedInv, Refusals
<1>3. ASSUME RefusedInv
      PROVE  /\ {x \in InUse : Rec(x).token # None /\ Rec(x).settlement = None} = Slots(admissions, {"live"})
             /\ {x \in InUse : Rec(x).token = None} = Slots(admissions, {"rejected"})
             /\ {x \in InUse : Rec(x).settlement # None} = Slots(admissions, {"recovery"})
  <2>1. \A x \in Cells \X Requests : Rec(x) # None /\ Rec(x).token = None => Rec(x).settlement = None
    BY <1>3 DEF RefusedInv, Rec
  <2>2. \A x : x \in InUse <=> x \in Cells \X Requests /\ Rec(x) # None
    BY DEF InUse
  <2>3. \A K, x : x \in Slots(admissions, K) <=> x \in Cells \X Requests /\ Kind(Rec(x)) \in K
    BY DEF Slots, Rec
  <2>4. ASSUME NEW x \in Cells \X Requests, Rec(x) # None
        PROVE  /\ Kind(Rec(x)) = "live" <=> Rec(x).token # None /\ Rec(x).settlement = None
               /\ Kind(Rec(x)) = "rejected" <=> Rec(x).token = None
               /\ Kind(Rec(x)) = "recovery" <=> Rec(x).settlement # None
    BY <2>1, <2>4 DEF Kind
  <2>5. Kind(None) = "free"
    BY DEF Kind
  <2> QED BY <2>2, <2>3, <2>4, <2>5
<1>4. {t \in Threads : pc[t] = "decide"} = {t \in Threads : pc[t] \in {"decide"}}
  OBVIOUS
<1> QED BY <1>1, <1>2, <1>3, <1>4, Zenon
        DEF CounterInv, FiniteInv, CounterAccounting, TallyInv, Tallied, MapTallied, WithinLimits,
            Number, Standing, Mapped, BucketSteps

(* The numbers of threads follow the thread that moves. *)
LEMMA StandingMoves ==
  ASSUME NEW q \in [Threads -> Labels], NEW p, NEW t \in Threads, NEW l, Moves(q, p, t, l), NEW P
  PROVE  /\ Standing(q, P) \in Nat
         /\ Standing(p, P)
              = Standing(q, P) + In(l, P) - In(q[t], P)
<1> DEFINE A == {u \in Threads : q[u] \in P}
           B == {u \in Threads : p[u] \in P}
<1>1. IsFiniteSet(A)
  BY FS_Subset
<1>2. (t \in A <=> q[t] \in P) /\ (t \in B <=> l \in P) /\ \A u : u # t => (u \in B <=> u \in A)
  BY DEF Moves
<1>3. Standing(q, P) = Cardinality(A) /\ Standing(p, P) = Cardinality(B)
  BY DEF Standing
<1>4. In(t, A) = In(q[t], P) /\ In(t, B) = In(l, P)
  BY <1>2 DEF In
<1> HIDE DEF A, B
<1>5. Cardinality(A) \in Nat /\ Cardinality(B) = Cardinality(A) + In(t, B) - In(t, A)
  BY <1>1, <1>2, OneMoves
<1> QED BY <1>3, <1>4, <1>5

(* One slot of the records changes. *)
LEMMA SlotMoves ==
  ASSUME NEW a, NEW b, NEW c \in Cells, NEW r \in Requests, NEW v,
         Writes(a, b, c, r, v), NEW K, IsFiniteSet(Slots(a, K))
  PROVE  /\ IsFiniteSet(Slots(b, K)) /\ Number(a, K) \in Nat
         /\ Number(b, K) = Number(a, K) + In(Kind(v), K) - In(Kind(a[c][r]), K)
<1> DEFINE x == <<c, r>>
<1>1. (x \in Slots(a, K) <=> Kind(a[c][r]) \in K) /\ (x \in Slots(b, K) <=> Kind(v) \in K)
  BY DEF Slots, Writes
<1>2. \A y : y # x => (y \in Slots(b, K) <=> y \in Slots(a, K))
  BY DEF Slots, Writes
<1> HIDE DEF x
<1>3. In(x, Slots(a, K)) = In(Kind(a[c][r]), K) /\ In(x, Slots(b, K)) = In(Kind(v), K)
  BY <1>1 DEF In
<1> QED BY <1>2, <1>3, OneMoves DEF Number

(* The slots G of one bucket are freed. *)
LEMMA SlotsFreed ==
  ASSUME NEW a, NEW b, NEW c \in Cells, NEW G \in SUBSET Requests,
         Frees(a, b, c, G), NEW K, "free" \notin K, IsFiniteSet(Slots(a, K))
  PROVE  /\ IsFiniteSet(Slots(b, K)) /\ Number(a, K) \in Nat
         /\ Number(b, K) = Number(a, K) - Cardinality(OfKinds(a, c, G, K))
<1> DEFINE H == {s \in G : Kind(a[c][s]) \in K}
           P == {<<c, s>> : s \in H}
<1>1. IsFiniteSet(H)
  BY FS_Subset
<1>2. Kind(None) = "free"
  BY DEF Kind
<1>3. Slots(b, K) = Slots(a, K) \ P /\ P \subseteq Slots(a, K)
  BY <1>2 DEF Slots, Frees
<1>4. IsFiniteSet(P) /\ Cardinality(P) = Cardinality(H)
  <2> DEFINE f == [s \in H |-> <<c, s>>]
  <2>1. f \in Bijection(H, P)
    <3>1. f \in [H -> P]
      OBVIOUS
    <3>2. \A s, u \in H : f[s] = f[u] => s = u
      OBVIOUS
    <3>3. \A y \in P : \E s \in H : f[s] = y
      OBVIOUS
    <3> HIDE DEF f, P, H
    <3> QED BY <3>1, <3>2, <3>3 DEF Bijection, Injection, Surjection, IsInjective
  <2>2. ExistsBijection(H, P)
    BY <2>1 DEF ExistsBijection
  <2> HIDE DEF f, P, H
  <2> QED BY <1>1, <2>2, FS_Bijection
<1> HIDE DEF P, H
<1>5. /\ IsFiniteSet(Slots(a, K) \ P)
      /\ Cardinality(Slots(a, K) \ P) = Cardinality(Slots(a, K)) - Cardinality(Slots(a, K) \cap P)
  BY FS_Difference
<1>6. Slots(a, K) \cap P = P
  BY <1>3
<1>7. Cardinality(H) \in Nat /\ Cardinality(Slots(a, K)) \in Nat
  BY <1>1, FS_CardinalityType
<1>8. /\ IsFiniteSet(Slots(b, K)) /\ Number(a, K) \in Nat
      /\ Number(b, K) = Number(a, K) - Cardinality(H)
  BY <1>3, <1>4, <1>5, <1>6, <1>7 DEF Number
<1> QED BY <1>8 DEF H, OfKinds

(* What purge_expired removes is what it takes off the counters: records     *)
(* that were settled off "recovery", the others off "rejected".              *)
LEMMA PurgeTallied ==
  ASSUME TypeOK, Tallied(admissions, pc, stats), NEW c \in Cells, NEW n \in Nat,
         NEW a, a = [admissions EXCEPT ![c] = PurgedAdmissions(c, n)]
  PROVE  /\ Tallied(a, pc, PurgedStats(c, n))
         /\ PurgedStats(c, n)["buckets"] = stats["buckets"]
         /\ PurgedStats(c, n)["live"] = stats["live"]
         /\ PurgedStats(c, n)["idempotency"] <= stats["idempotency"]
<1> DEFINE G == {r \in Requests : Removable(admissions[c][r], n)}
           R == {r \in G : admissions[c][r].settlement # None}
           s == PurgedStats(c, n)
<1>1. admissions \in [Cells -> [Requests -> Record \cup {None}]] /\ stats \in Stats
  BY DEF TypeOK, CellTypeOK, SharedTypeOK
<1>2. Frees(admissions, a, c, G)
  BY <1>1 DEF PurgedAdmissions, Frees
<1>3. G \in SUBSET Requests /\ R \in SUBSET Requests /\ G \ R \in SUBSET Requests
  OBVIOUS
<1>4. Cardinality(G) \in Nat /\ Cardinality(R) \in Nat /\ Cardinality(G \ R) \in Nat
  BY <1>3, FS_Subset, FS_CardinalityType
<1>5. \A r \in G : Kind(admissions[c][r]) = IF r \in R THEN "recovery" ELSE "rejected"
  BY DEF Removable, Kind
<1>6. s = [stats EXCEPT !["idempotency"] = @ - Cardinality(G),
                        !["recovery"] = @ - Cardinality(R),
                        !["rejected"] = @ - Cardinality(G \ R)]
  BY DEF PurgedStats
<1>7. R \subseteq G
  OBVIOUS
<1> HIDE DEF G, R, s
<1>8. /\ s["buckets"] = stats["buckets"] /\ s["live"] = stats["live"]
      /\ s["idempotency"] = stats["idempotency"] - Cardinality(G)
      /\ s["recovery"] = stats["recovery"] - Cardinality(R)
      /\ s["rejected"] = stats["rejected"] - Cardinality(G \ R)
  BY <1>1, <1>6 DEF Stats, Counters
<1>9. /\ OfKinds(admissions, c, G, Used) = G
      /\ OfKinds(admissions, c, G, {"live"}) = {}
      /\ OfKinds(admissions, c, G, {"recovery"}) = R
      /\ OfKinds(admissions, c, G, {"rejected"}) = G \ R
  BY <1>5, <1>7 DEF Used, OfKinds
<1>10. ASSUME NEW K, K \subseteq Used
       PROVE  /\ IsFiniteSet(Slots(a, K)) /\ Number(admissions, K) \in Nat
              /\ Number(a, K) = Number(admissions, K) - Cardinality(OfKinds(admissions, c, G, K))
  <2>1. Slots(admissions, K) \subseteq Slots(admissions, Used) /\ "free" \notin K
    BY <1>10 DEF Slots, Used
  <2>2. IsFiniteSet(Slots(admissions, K))
    BY <2>1, FS_Subset DEF Tallied
  <2> QED BY <1>2, <1>3, <2>1, <2>2, SlotsFreed
<1>11. /\ IsFiniteSet(Slots(a, Used)) /\ Number(a, Used) = Number(admissions, Used) - Cardinality(G)
       /\ Number(a, {"live"}) = Number(admissions, {"live"}) - Cardinality({})
       /\ Number(a, {"recovery"}) = Number(admissions, {"recovery"}) - Cardinality(R)
       /\ Number(a, {"rejected"}) = Number(admissions, {"rejected"}) - Cardinality(G \ R)
  <2>1. Used \subseteq Used /\ {"live"} \subseteq Used /\ {"recovery"} \subseteq Used /\ {"rejected"} \subseteq Used
    BY DEF Used
  <2> QED BY <1>9, <1>10, <2>1
<1>12. /\ Number(admissions, Used) \in Nat /\ Number(admissions, {"live"}) \in Nat
       /\ Number(admissions, {"recovery"}) \in Nat /\ Number(admissions, {"rejected"}) \in Nat
  BY <1>10 DEF Used
<1>13. Cardinality({}) = 0 /\ Standing(pc, {"decide"}) \in Nat
  <2>1. IsFiniteSet({t \in Threads : pc[t] \in {"decide"}})
    BY FS_Subset
  <2> QED BY <2>1, FS_EmptySet, FS_CardinalityType DEF Standing
<1>14. Refusals(a)
  BY <1>2 DEF Tallied, Refusals, Frees
<1>15. /\ s["idempotency"] = Number(a, Used) + Standing(pc, {"decide"})
       /\ s["live"] = Number(a, {"live"})
       /\ s["rejected"] = Number(a, {"rejected"}) /\ s["recovery"] = Number(a, {"recovery"})
       /\ s["idempotency"] <= stats["idempotency"]
  BY <1>4, <1>8, <1>11, <1>12, <1>13 DEF Tallied
<1> QED BY <1>8, <1>11, <1>14, <1>15 DEF Tallied, s

(* The counters go from s to z as a slot changes its kind and a thread its label. *)
Follows(s, z, old, new, from, to) ==
  /\ z["idempotency"] = s["idempotency"] + In(new, Used) - In(old, Used)
                           + In(to, {"decide"}) - In(from, {"decide"})
  /\ \A k \in Used : z[k] = s[k] + In(new, {k}) - In(old, {k})

(* The counters follow a thread that moves and the slot it writes. *)
LEMMA TallyStep ==
  ASSUME NEW a, NEW q \in [Threads -> Labels], NEW s \in Stats, Tallied(a, q, s),
         NEW t \in Threads, NEW l, NEW p, Moves(q, p, t, l), NEW c \in Cells, NEW r \in Requests, NEW v, NEW b, NEW z \in Stats,
         Writes(a, b, c, r, v), v # None /\ v.token = None => v.settlement = None,
         Follows(s, z, Kind(a[c][r]), Kind(v), q[t], l)
  PROVE  Tallied(b, p, z)
<1>1. ASSUME NEW K, K \subseteq Used
      PROVE  /\ IsFiniteSet(Slots(b, K)) /\ Number(a, K) \in Nat
             /\ Number(b, K) = Number(a, K) + In(Kind(v), K) - In(Kind(a[c][r]), K)
  <2>1. Slots(a, K) \subseteq Slots(a, Used)
    BY <1>1 DEF Slots
  <2>2. IsFiniteSet(Slots(a, K))
    BY <2>1, FS_Subset DEF Tallied
  <2> QED BY <2>2, SlotMoves
<1>2. Used \subseteq Used /\ {"live"} \subseteq Used /\ {"recovery"} \subseteq Used /\ {"rejected"} \subseteq Used
  BY DEF Used
<1>3. /\ Standing(q, {"decide"}) \in Nat
      /\ Standing(p, {"decide"})
           = Standing(q, {"decide"}) + In(l, {"decide"}) - In(q[t], {"decide"})
  BY StandingMoves
<1>4. Refusals(b)
  BY DEF Tallied, Refusals, Writes
<1>5. \A x, S : In(x, S) \in {0, 1}
  BY DEF In
<1>6. z["idempotency"] = Number(b, Used) + Standing(p, {"decide"})
  <2>1. Number(a, Used) \in Nat /\ Number(b, Used) = Number(a, Used) + In(Kind(v), Used) - In(Kind(a[c][r]), Used)
    BY <1>1, <1>2
  <2>2. s["idempotency"] = Number(a, Used) + Standing(q, {"decide"})
    BY DEF Tallied
  <2>3. z["idempotency"] = s["idempotency"] + In(Kind(v), Used) - In(Kind(a[c][r]), Used)
                             + In(l, {"decide"}) - In(q[t], {"decide"})
    BY DEF Follows
  <2> QED BY <1>3, <1>5, <2>1, <2>2, <2>3
<1>7. ASSUME NEW k \in {"live", "rejected", "recovery"} PROVE z[k] = Number(b, {k})
  <2>1. Number(a, {k}) \in Nat /\ Number(b, {k}) = Number(a, {k}) + In(Kind(v), {k}) - In(Kind(a[c][r]), {k})
    BY <1>1, <1>2
  <2>2. s[k] = Number(a, {k})
    BY DEF Tallied
  <2>3. z[k] = s[k] + In(Kind(v), {k}) - In(Kind(a[c][r]), {k})
    BY DEF Follows, Used
  <2> QED BY <2>1, <2>2, <2>3
<1> QED BY <1>1, <1>2, <1>4, <1>6, <1>7 DEF Tallied

(* The counters of the records follow a thread that moves. *)
LEMMA TallyMoves ==
  ASSUME NEW a, NEW q \in [Threads -> Labels], NEW s, Tallied(a, q, s),
         NEW t \in Threads, NEW l, NEW p, Moves(q, p, t, l), NEW z,
         z["idempotency"] = s["idempotency"] + In(l, {"decide"}) - In(q[t], {"decide"}),
         z["live"] = s["live"], z["rejected"] = s["rejected"], z["recovery"] = s["recovery"]
  PROVE  Tallied(a, p, z)
<1>1. /\ Standing(q, {"decide"}) \in Nat
      /\ Standing(p, {"decide"})
           = Standing(q, {"decide"}) + In(l, {"decide"}) - In(q[t], {"decide"})
  BY StandingMoves
<1>2. Number(a, Used) \in Nat
  BY FS_CardinalityType DEF Tallied, Number
<1>3. In(l, {"decide"}) \in {0, 1} /\ In(q[t], {"decide"}) \in {0, 1}
  BY DEF In
<1> QED BY <1>1, <1>2, <1>3 DEF Tallied

(* The bucket counter follows a thread that moves and the map entry it writes. *)
LEMMA MapTallyStep ==
  ASSUME NEW b \in [Keys -> Cells \cup {None}], NEW q \in [Threads -> Labels], NEW s, MapTallied(b, q, s),
         NEW t \in Threads, NEW l, NEW p, Moves(q, p, t, l), NEW k \in Keys, NEW v \in Cells \cup {None}, NEW z,
         z["buckets"] = s["buckets"] + In(l, BucketSteps) - In(q[t], BucketSteps)
                          + In(v, Cells) - In(b[k], Cells)
  PROVE  MapTallied([b EXCEPT ![k] = v], p, z)
<1> DEFINE e == [b EXCEPT ![k] = v]
<1>1. In(k, Mapped(b)) = In(b[k], Cells) /\ In(k, Mapped(e)) = In(v, Cells)
  BY DEF Mapped, In
<1>2. \A y : y # k => (y \in Mapped(e) <=> y \in Mapped(b))
  BY DEF Mapped
<1> HIDE DEF e
<1>3. IsFiniteSet(Mapped(b))
  BY DEF MapTallied
<1>4. /\ IsFiniteSet(Mapped(e)) /\ Cardinality(Mapped(b)) \in Nat
      /\ Cardinality(Mapped(e)) = Cardinality(Mapped(b)) + In(v, Cells) - In(b[k], Cells)
  BY <1>1, <1>2, <1>3, OneMoves
<1>5. /\ Standing(q, BucketSteps) \in Nat
      /\ Standing(p, BucketSteps)
           = Standing(q, BucketSteps) + In(l, BucketSteps) - In(q[t], BucketSteps)
  BY StandingMoves
<1>6. \A x, S : In(x, S) \in {0, 1}
  BY DEF In
<1>7. s["buckets"] = Cardinality(Mapped(b)) + Standing(q, BucketSteps)
  BY DEF MapTallied
<1> QED BY <1>4, <1>5, <1>6, <1>7 DEF MapTallied, e

(* The same without a write. *)
LEMMA MapTallyMoves ==
  ASSUME NEW b, NEW q \in [Threads -> Labels], NEW s, MapTallied(b, q, s),
         NEW t \in Threads, NEW l, NEW p, Moves(q, p, t, l), NEW z,
         z["buckets"] = s["buckets"] + In(l, BucketSteps) - In(q[t], BucketSteps)
  PROVE  MapTallied(b, p, z)
<1>1. /\ Standing(q, BucketSteps) \in Nat
      /\ Standing(p, BucketSteps)
           = Standing(q, BucketSteps) + In(l, BucketSteps) - In(q[t], BucketSteps)
  BY StandingMoves
<1>2. Cardinality(Mapped(b)) \in Nat
  BY FS_CardinalityType DEF MapTallied
<1>3. In(l, BucketSteps) \in {0, 1} /\ In(q[t], BucketSteps) \in {0, 1}
  BY DEF In
<1> QED BY <1>1, <1>2, <1>3 DEF MapTallied

(* The labels that no counter tells apart. *)
Uncounted == Labels \ ({"decide"} \cup BucketSteps)

(* A thread at one of them is in neither count. *)
LEMMA UncountedIn ==
  ASSUME NEW l \in Uncounted PROVE In(l, {"decide"}) = 0 /\ In(l, BucketSteps) = 0
  BY DEF Uncounted, In

(* A step that leaves what is counted alone. *)
LEMMA QuietTally ==
  ASSUME TypeOK, TallyInv, NEW t \in Threads, UNCHANGED <<admissions, buckets, stats>>,
         UNCHANGED pc \/ (pc[t] \in Uncounted /\ \E l \in Uncounted : Goto(t, l))
  PROVE  TallyInv'
<1>1. CASE UNCHANGED pc
  BY <1>1 DEF TallyInv
<1>2. CASE pc[t] \in Uncounted /\ \E l \in Uncounted : Goto(t, l)
  <2>1. PICK l \in Uncounted : Goto(t, l)
    BY <1>2
  <2>2. Moves(pc, pc', t, l) /\ pc \in [Threads -> Labels] /\ stats \in Stats
    BY <2>1 DEF Moves, Goto, TypeOK, ThreadTypeOK, SharedTypeOK
  <2>3. stats["idempotency"] \in Int /\ stats["buckets"] \in Int
    BY <2>2 DEF Stats, Counters
  <2>4. /\ stats["idempotency"] = stats["idempotency"] + In(l, {"decide"}) - In(pc[t], {"decide"})
        /\ stats["buckets"] = stats["buckets"] + In(l, BucketSteps) - In(pc[t], BucketSteps)
    BY <1>2, <2>3, UncountedIn
  <2>5. Tallied(admissions, pc', stats)
    BY <2>2, <2>4, TallyMoves DEF TallyInv
  <2>6. MapTallied(buckets, pc', stats)
    BY <2>2, <2>4, MapTallyMoves DEF TallyInv
  <2> QED BY <2>5, <2>6 DEF TallyInv
<1> QED BY <1>1, <1>2

(* The bucket counter moves with the thread that reserves, gives back or     *)
(* uncounts a bucket.                                                        *)
LEMMA BumpTally ==
  ASSUME TypeOK, TallyInv, NEW t \in Threads, NEW l \in Labels \ {"decide"}, pc[t] # "decide",
         Goto(t, l), NEW n \in Int, Bump("buckets", n),
         n = In(l, BucketSteps) - In(pc[t], BucketSteps),
         n <= 0 \/ (n = 1 /\ stats["buckets"] < MaxBuckets), UNCHANGED <<admissions, buckets>>
  PROVE  TallyInv'
<1>1. Moves(pc, pc', t, l) /\ pc \in [Threads -> Labels] /\ stats \in Stats
  BY DEF Moves, Goto, TypeOK, ThreadTypeOK, SharedTypeOK
<1>2. /\ stats'["buckets"] = stats["buckets"] + n /\ stats["buckets"] \in Int
      /\ stats'["idempotency"] = stats["idempotency"] /\ stats["idempotency"] \in Int
      /\ stats'["live"] = stats["live"] /\ stats'["rejected"] = stats["rejected"]
      /\ stats'["recovery"] = stats["recovery"]
  BY <1>1 DEF Bump, Stats, Counters
<1>3. \A x, S : In(x, S) \in {0, 1}
  BY DEF In
<1>4. In(l, {"decide"}) = 0 /\ In(pc[t], {"decide"}) = 0
  BY DEF In
<1>5. Tallied(admissions, pc', stats')
  <2>1. stats'["idempotency"] = stats["idempotency"] + In(l, {"decide"}) - In(pc[t], {"decide"})
    BY <1>2, <1>4
  <2> QED BY <1>1, <1>2, <2>1, TallyMoves DEF TallyInv
<1>6. MapTallied(buckets, pc', stats')
  <2>1. stats'["buckets"] = stats["buckets"] + In(l, BucketSteps) - In(pc[t], BucketSteps)
    BY <1>2, <1>3
  <2> QED BY <1>1, <2>1, MapTallyMoves DEF TallyInv
<1>7. WithinLimits(stats')
  BY <1>2 DEF TallyInv, WithinLimits
<1> QED BY <1>5, <1>6, <1>7 DEF TallyInv

(* A bucket enters or leaves the map as its thread enters or leaves the      *)
(* steps that are counted instead of it.                                     *)
LEMMA MapTally ==
  ASSUME TypeOK, MapTallied(buckets, pc, stats), NEW t \in Threads, NEW l, Goto(t, l),
         NEW k \in Keys, NEW v \in Cells \cup {None}, buckets' = [buckets EXCEPT ![k] = v],
         In(l, BucketSteps) + In(v, Cells) = In(pc[t], BucketSteps) + In(buckets[k], Cells),
         stats'["buckets"] = stats["buckets"]
  PROVE  MapTallied(buckets', pc', stats')
<1>1. /\ Moves(pc, pc', t, l) /\ pc \in [Threads -> Labels] /\ stats["buckets"] \in Int
      /\ buckets \in [Keys -> Cells \cup {None}]
  BY DEF Moves, Goto, TypeOK, ThreadTypeOK, SharedTypeOK, Stats, Counters
<1>2. \A x, S : In(x, S) \in {0, 1}
  BY DEF In
<1>3. stats'["buckets"] = stats["buckets"] + In(l, BucketSteps) - In(pc[t], BucketSteps)
                            + In(v, Cells) - In(buckets[k], Cells)
  BY <1>1, <1>2
<1> QED BY <1>1, <1>3, MapTallyStep

(* A call that purges and then leaves the mutex, or reserves a record.       *)
LEMMA PurgeTally ==
  ASSUME TypeOK, TallyInv, NEW t \in Threads, NEW c \in Cells, NEW n \in Nat, pc[t] = "enter",
         admissions' = [admissions EXCEPT ![c] = PurgedAdmissions(c, n)], UNCHANGED buckets,
         \/ Goto(t, "release") /\ stats' = PurgedStats(c, n)
         \/ /\ Goto(t, "decide") /\ stats' = [PurgedStats(c, n) EXCEPT !["idempotency"] = @ + 1]
            /\ ~(PurgedStats(c, n)["idempotency"] >= MaxIdempotency - Headroom)
  PROVE  TallyInv'
<1> DEFINE z == PurgedStats(c, n)
<1>1. z \in Stats
  BY PurgeType
<1>2. PICK l \in {"release", "decide"} :
        /\ Goto(t, l) /\ stats'["idempotency"] = z["idempotency"] + In(l, {"decide"})
        /\ \A x \in Counters \ {"idempotency"} : stats'[x] = z[x]
        /\ l = "release" \/ z["idempotency"] < MaxIdempotency - Headroom
  <2>1. CASE Goto(t, "release") /\ stats' = z
    <3>1. In("release", {"decide"}) = 0
      BY DEF In
    <3> HIDE DEF z
    <3> QED BY <1>1, <2>1, <3>1 DEF Stats, Counters
  <2>2. CASE /\ Goto(t, "decide") /\ stats' = [z EXCEPT !["idempotency"] = @ + 1]
             /\ ~(z["idempotency"] >= MaxIdempotency - Headroom)
    <3>1. In("decide", {"decide"}) = 1
      BY DEF In
    <3> HIDE DEF z
    <3> QED BY <1>1, <2>2, <3>1 DEF Stats, Counters
  <2> QED BY <2>1, <2>2
<1>3. /\ Tallied(admissions', pc, z) /\ z["buckets"] = stats["buckets"]
      /\ z["live"] = stats["live"] /\ z["idempotency"] <= stats["idempotency"]
  BY PurgeTallied DEF TallyInv
<1> HIDE DEF z
<1>4. Moves(pc, pc', t, l) /\ pc \in [Threads -> Labels] /\ stats \in Stats
  BY <1>2 DEF Moves, Goto, TypeOK, ThreadTypeOK, SharedTypeOK
<1>5. /\ In(pc[t], {"decide"}) = 0 /\ In(pc[t], BucketSteps) = 0 /\ In(l, BucketSteps) = 0
      /\ In(l, {"decide"}) \in {0, 1} /\ (l = "release" => In(l, {"decide"}) = 0)
  BY <1>2 DEF In, BucketSteps
<1>6. /\ stats'["buckets"] = stats["buckets"] /\ stats["buckets"] \in Int
      /\ stats'["live"] = z["live"] /\ stats'["rejected"] = z["rejected"]
      /\ stats'["recovery"] = z["recovery"] /\ z["idempotency"] \in Int
      /\ stats["idempotency"] \in Int
  BY <1>1, <1>2, <1>3, <1>4 DEF Stats, Counters
<1>7. Tallied(admissions', pc', stats')
  <2>1. stats'["idempotency"] = z["idempotency"] + In(l, {"decide"}) - In(pc[t], {"decide"})
    BY <1>2, <1>5, <1>6
  <2> QED BY <1>3, <1>4, <1>6, <2>1, TallyMoves
<1>8. MapTallied(buckets, pc', stats')
  <2>1. stats'["buckets"] = stats["buckets"] + In(l, BucketSteps) - In(pc[t], BucketSteps)
    BY <1>5, <1>6
  <2> QED BY <1>4, <2>1, MapTallyMoves DEF TallyInv
<1>9. WithinLimits(stats')
  BY <1>2, <1>3, <1>5, <1>6 DEF TallyInv, WithinLimits
<1> QED BY <1>7, <1>8, <1>9 DEF TallyInv

(* admit's entry: purge, then replay, refuse or reserve a record. *)
LEMMA AdmitEnterTally ==
  ASSUME TypeInv, TallyInv, NEW t \in Threads, AdmitEnter(t) PROVE TallyInv'
<1>1. TypeOK /\ lease[t] \in Cells /\ now[t] \in Nat
  BY EnterFacts DEF AdmitEnter, TypeInv, TypeOK, ThreadTypeOK
<1>2. /\ pc[t] = "enter" /\ UNCHANGED buckets
      /\ admissions' = [admissions EXCEPT ![lease[t]] = PurgedAdmissions(lease[t], now[t])]
      /\ \/ Goto(t, "release") /\ stats' = PurgedStats(lease[t], now[t])
         \/ /\ Goto(t, "decide")
            /\ stats' = [PurgedStats(lease[t], now[t]) EXCEPT !["idempotency"] = @ + 1]
            /\ ~(PurgedStats(lease[t], now[t])["idempotency"] >= MaxIdempotency - Headroom)
  BY Zenon DEF AdmitEnter, Finish, sharedVars
<1> QED BY <1>1, <1>2, PurgeTally

(* inspect purges and reads. *)
LEMMA InspectLockedTally ==
  ASSUME TypeInv, TallyInv, NEW t \in Threads, InspectLocked(t) PROVE TallyInv'
<1>1. TypeOK /\ lease[t] \in Cells /\ now[t] \in Nat
  BY EnterFacts DEF InspectLocked, TypeInv, TypeOK, ThreadTypeOK
<1>2. /\ pc[t] = "enter" /\ UNCHANGED buckets
      /\ admissions' = [admissions EXCEPT ![lease[t]] = PurgedAdmissions(lease[t], now[t])]
      /\ Goto(t, "release") /\ stats' = PurgedStats(lease[t], now[t])
  BY Zenon DEF InspectLocked, Finish, sharedVars
<1> QED BY <1>1, <1>2, PurgeTally

(* Cleaning takes off the counters what it removes; the bucket it removes is *)
(* taken off later.                                                          *)
LEMMA ScanPurgeTally ==
  ASSUME TypeInv, TallyInv, NEW t \in Threads, ScanPurge(t) PROVE TallyInv'
<1> DEFINE tk == Head(tickets[t])
           c == tk.cell
           z == PurgedStats(c, now[t])
<1>1. /\ TypeOK /\ now[t] \in Nat /\ pc \in [Threads -> Labels] /\ stats \in Stats
      /\ buckets \in [Keys -> Cells \cup {None}]
  BY DEF TypeInv, TypeOK, ThreadTypeOK, SharedTypeOK
<1>2. tk \in Ticket
  BY ScanFacts DEF ScanPurge, TypeInv
<1>3. tk.key \in Keys /\ c \in Cells
  BY <1>2 DEF Ticket
<1>4. /\ pc[t] = "scan" /\ buckets[tk.key] = c /\ stats' = z
      /\ admissions' = [admissions EXCEPT ![c] = PurgedAdmissions(c, now[t])]
      /\ \/ buckets' = [buckets EXCEPT ![tk.key] = None] /\ Goto(t, "uncount")
         \/ UNCHANGED <<buckets, pc>>
  BY Zenon DEF ScanPurge
<1>5. /\ Tallied(admissions', pc, z) /\ z["buckets"] = stats["buckets"]
      /\ z["live"] = stats["live"] /\ z["idempotency"] <= stats["idempotency"]
  BY <1>1, <1>3, <1>4, PurgeTallied DEF TallyInv
<1>6. z \in Stats
  BY <1>1, <1>3, PurgeType
<1> HIDE DEF z, c, tk
<1>7. WithinLimits(stats')
  <2>1. z["idempotency"] \in Int /\ stats["idempotency"] \in Int
    BY <1>1, <1>6 DEF Stats, Counters
  <2> QED BY <1>4, <1>5, <2>1 DEF TallyInv, WithinLimits
<1>8. CASE UNCHANGED <<buckets, pc>>
  <2>1. MapTallied(buckets', pc', stats')
    BY <1>4, <1>5, <1>8 DEF TallyInv, MapTallied
  <2> QED BY <1>4, <1>5, <1>7, <1>8, <2>1 DEF TallyInv
<1>9. CASE buckets' = [buckets EXCEPT ![tk.key] = None] /\ Goto(t, "uncount")
  <2>1. /\ In("uncount", BucketSteps) = 1 /\ In(None, Cells) = 0 /\ In(pc[t], BucketSteps) = 0
        /\ In(buckets[tk.key], Cells) = 1
        /\ In("uncount", {"decide"}) = 0 /\ In(pc[t], {"decide"}) = 0
    BY <1>3, <1>4 DEF In, BucketSteps
  <2>2. MapTallied(buckets', pc', stats')
    <3>1. In("uncount", BucketSteps) + In(None, Cells)
            = In(pc[t], BucketSteps) + In(buckets[tk.key], Cells)
      BY <2>1
    <3>2. MapTallied(buckets, pc, stats) /\ stats'["buckets"] = stats["buckets"]
      BY <1>4, <1>5 DEF TallyInv
    <3> QED BY ONLY <1>1, <1>3, <1>9, <3>1, <3>2, MapTally
  <2>3. Moves(pc, pc', t, "uncount")
    BY <1>9 DEF Moves, Goto
  <2>4. z["idempotency"] = z["idempotency"] + In("uncount", {"decide"}) - In(pc[t], {"decide"})
    BY <1>6, <2>1 DEF Stats, Counters
  <2>5. Tallied(admissions', pc', stats')
    BY <1>1, <1>4, <1>5, <2>3, <2>4, TallyMoves
  <2> QED BY <1>7, <2>2, <2>5 DEF TallyInv
<1> QED BY <1>4, <1>8, <1>9

(* Which counters a record of each kind is in. *)
LEMMA KindIn ==
  /\ In("free", Used) = 0 /\ In("live", Used) = 1 /\ In("rejected", Used) = 1
  /\ In("recovery", Used) = 1
  /\ \A k, j \in Used \cup {"free"} : In(k, {j}) = IF k = j THEN 1 ELSE 0
  /\ In("release", {"decide"}) = 0 /\ In("decide", {"decide"}) = 1 /\ In("enter", {"decide"}) = 0
  /\ In("release", BucketSteps) = 0 /\ In("decide", BucketSteps) = 0 /\ In("enter", BucketSteps) = 0
  BY DEF In, Used, BucketSteps

(* The decision: a reserved record is given back, or becomes the record of   *)
(* a refusal or of a live reservation.                                       *)
LEMMA AdmitDecideTally ==
  ASSUME TypeInv, DecideInv, TallyInv, NEW t \in Threads, AdmitDecide(t) PROVE TallyInv'
<1> DEFINE c == lease[t]
           cmd == op[t].cmd
           req == cmd.request
<1>1. c \in Cells /\ cmd \in Commands /\ req \in Requests /\ TypeOK
  BY EnterFacts DEF TypeInv, AdmitDecide, Command
<1>2. PICK rec :
        /\ pc[t] = "decide" /\ Goto(t, "release") /\ UNCHANGED buckets
        /\ \/ UNCHANGED admissions /\ Bump("idempotency", -1)
           \/ /\ rec # None /\ rec.token = None /\ rec.settlement = None
              /\ admissions' = [admissions EXCEPT ![c][req] = rec] /\ Bump("rejected", 1)
           \/ /\ rec # None /\ rec.token # None /\ rec.settlement = None
              /\ admissions' = [admissions EXCEPT ![c][req] = rec] /\ Bump("live", 1)
              /\ stats["live"] < MaxLive
  <2> DEFINE w == EnsuredWindow(c, cmd, now[t])
             cand == Candidate(w, cmd)
             tk == [id |-> nextId, cmd |-> cmd, cell |-> c, gen |-> w.gen]
             rec(y) == [cmd |-> cmd, token |-> y, settlement |-> None,
                        retainUntil |-> RetainUntil(w, now[t])]
  <2>1. /\ pc[t] = "decide" /\ UNCHANGED buckets
        /\ \/ AdmitRollback(t, "corrupt") \/ AdmitRollback(t, "capacity")
           \/ /\ AdmitRecord(t, w, rec(None)) /\ Bump("rejected", 1)
              /\ Finish(t, "rejected", None)
           \/ /\ AdmitRecord(t, [w EXCEPT !.used = cand], rec(tk)) /\ Bump("live", 1)
              /\ stats["live"] < MaxLive /\ Finish(t, "allowed", tk)
    BY Zenon DEF AdmitDecide, sharedVars
  <2>2. \A y : rec(y).token = y /\ rec(y).settlement = None
    OBVIOUS
  <2>3. w.gen \in Nat /\ RetainUntil(w, now[t]) \in Nat
    <3>1. w \in Window /\ now[t] \in Nat
      BY <1>1, EnsuredWindowType DEF TypeOK, ThreadTypeOK
    <3> QED BY <3>1 DEF Window, RetainUntil
  <2>4. tk \in Token
    BY <1>1, <2>3 DEF TypeOK, CallerTypeOK, Token
  <2>5. rec(None) \in Record /\ rec(tk) \in Record
    BY <1>1, <2>3, <2>4 DEF Record
  <2>6. rec(None) # None /\ rec(tk) # None /\ tk # None
    BY <2>4, <2>5
  <2> HIDE DEF rec, tk, w, cand
  <2>7. CASE AdmitRollback(t, "corrupt") \/ AdmitRollback(t, "capacity")
    BY <2>1, <2>7 DEF AdmitRollback, Finish
  <2>8. CASE /\ AdmitRecord(t, w, rec(None)) /\ Bump("rejected", 1)
             /\ Finish(t, "rejected", None)
    BY <2>1, <2>2, <2>6, <2>8 DEF AdmitRecord, Finish
  <2>9. CASE /\ AdmitRecord(t, [w EXCEPT !.used = cand], rec(tk)) /\ Bump("live", 1)
             /\ stats["live"] < MaxLive /\ Finish(t, "allowed", tk)
    BY <2>1, <2>2, <2>6, <2>9 DEF AdmitRecord, Finish
  <2> QED BY <2>1, <2>7, <2>8, <2>9
<1>3. Kind(admissions[c][req]) = "free"
  BY <1>2 DEF DecideInv, Kind
<1>4. /\ Moves(pc, pc', t, "release") /\ pc \in [Threads -> Labels] /\ stats \in Stats
      /\ admissions \in [Cells -> [Requests -> Record \cup {None}]]
  BY <1>1, <1>2 DEF Moves, Goto, TypeOK, ThreadTypeOK, SharedTypeOK, CellTypeOK
<1>5. \A x \in Counters : stats[x] \in Int
  BY <1>4 DEF Stats
<1> HIDE DEF c, cmd, req
<1>6. stats' \in Stats /\ stats'["buckets"] = stats["buckets"]
  BY <1>2, <1>4 DEF Bump, Stats, Counters
<1>7. MapTallied(buckets', pc', stats')
  <2>1. stats'["buckets"] = stats["buckets"] + In("release", BucketSteps) - In(pc[t], BucketSteps)
    BY <1>2, <1>5, <1>6, KindIn DEF Counters
  <2> QED BY <1>2, <1>4, <2>1, MapTallyMoves DEF TallyInv
<1>8. CASE UNCHANGED admissions /\ Bump("idempotency", -1)
  <2>1. /\ stats'["idempotency"] = stats["idempotency"] - 1
        /\ stats'["live"] = stats["live"] /\ stats'["rejected"] = stats["rejected"]
        /\ stats'["recovery"] = stats["recovery"]
    BY <1>4, <1>8 DEF Bump, Stats, Counters
  <2>2. stats'["idempotency"]
          = stats["idempotency"] + In("release", {"decide"}) - In(pc[t], {"decide"})
    BY <1>2, <1>5, <2>1, KindIn DEF Counters
  <2>3. Tallied(admissions', pc', stats')
    BY <1>4, <1>8, <2>1, <2>2, TallyMoves DEF TallyInv
  <2>4. WithinLimits(stats')
    BY <1>5, <1>6, <2>1 DEF TallyInv, WithinLimits, Counters
  <2> QED BY <1>7, <2>3, <2>4 DEF TallyInv
<1>9. ASSUME NEW k \in {"live", "rejected"}, Kind(rec) = k, Bump(k, 1), rec # None,
             rec.settlement = None, admissions' = [admissions EXCEPT ![c][req] = rec],
             k = "live" => stats["live"] < MaxLive
      PROVE  TallyInv'
  <2>1. /\ stats'[k] = stats[k] + 1
        /\ \A x \in Counters \ {k} : stats'[x] = stats[x]
    BY <1>4, <1>9 DEF Bump, Stats, Counters
  <2>2. Writes(admissions, admissions', c, req, rec)
    BY <1>1, <1>4, <1>9 DEF Writes
  <2>3. stats'["idempotency"] = stats["idempotency"] + In(Kind(rec), Used)
           - In(Kind(admissions[c][req]), Used) + In("release", {"decide"}) - In(pc[t], {"decide"})
    BY <1>2, <1>3, <1>5, <1>9, <2>1, KindIn DEF Counters
  <2>4. ASSUME NEW x \in Used
        PROVE  stats'[x] = stats[x] + In(Kind(rec), {x}) - In(Kind(admissions[c][req]), {x})
    <3>1. x \in Counters /\ stats[x] \in Int
      BY <1>5 DEF Used, Counters
    <3>2. In("free", {x}) = 0 /\ In(k, {x}) = IF k = x THEN 1 ELSE 0
      BY KindIn DEF Used
    <3> QED BY <1>3, <1>9, <2>1, <3>1, <3>2
  <2>5. Tallied(admissions', pc', stats')
    <3>1. Follows(stats, stats', Kind(admissions[c][req]), Kind(rec), pc[t], "release")
      BY <2>3, <2>4 DEF Follows
    <3>2. Tallied(admissions, pc, stats) /\ (rec # None /\ rec.token = None => rec.settlement = None)
      BY <1>9 DEF TallyInv
    <3> QED BY ONLY <1>1, <1>4, <1>6, <2>2, <3>1, <3>2, TallyStep
  <2>6. WithinLimits(stats')
    BY <1>5, <1>9, <2>1 DEF TallyInv, WithinLimits, Counters
  <2> QED BY <1>7, <2>5, <2>6 DEF TallyInv
<1>10. /\ rec # None /\ rec.token = None /\ rec.settlement = None => Kind(rec) = "rejected"
       /\ rec # None /\ rec.token # None /\ rec.settlement = None => Kind(rec) = "live"
  BY DEF Kind
<1> QED BY <1>2, <1>8, <1>9, <1>10

(* A settlement turns a live reservation into a record kept for retries. *)
LEMMA SettleLockedTally ==
  ASSUME TypeInv, TallyInv, NEW t \in Threads, SettleLocked(t) PROVE TallyInv'
<1> DEFINE c == lease[t]
           adm == PurgedAdmissions(c, now[t])
           z == PurgedStats(c, now[t])
           tok == op[t].token
           req == tok.cmd.request
           w == PurgedWindow(c, now[t])
           same == w # None /\ w.gen = tok.gen /\ now[t] < w.reset
           settled == SettledRecord(adm[req], op[t].payload, same, now[t])
<1>1. c \in Cells /\ now[t] \in Nat /\ tok \in Token /\ req \in Requests /\ TypeOK
        /\ op[t].payload \in Payloads /\ tok # None
  BY EnterFacts, TokenFields DEF TypeInv, SettleLocked
<1>2. /\ adm \in [Requests -> Record \cup {None}] /\ z \in Stats /\ stats \in Stats
      /\ admissions \in [Cells -> [Requests -> Record \cup {None}]] /\ pc \in [Threads -> Labels]
  BY <1>1, PurgeType DEF TypeOK, CellTypeOK, SharedTypeOK, ThreadTypeOK
<1>3. /\ pc[t] = "enter" /\ Goto(t, "release") /\ UNCHANGED buckets
      /\ \/ admissions' = [admissions EXCEPT ![c] = adm] /\ stats' = z
         \/ /\ adm[req] # None /\ adm[req].token = tok /\ adm[req].settlement = None
            /\ admissions' = [admissions EXCEPT ![c] = [adm EXCEPT ![req] = settled]]
            /\ stats' = [z EXCEPT !["live"] = @ - 1, !["recovery"] = @ + 1]
  BY <1>1, <1>2, Zenon DEF SettleLocked, SettleApply, Finish, sharedVars
<1>4. /\ adm[req] # None => settled # None
      /\ settled.settlement # None /\ settled.token = adm[req].token
  <2>1. same \in BOOLEAN
    OBVIOUS
  <2> HIDE DEF same
  <2>2. settled.settlement = [payload |-> op[t].payload, applied |-> same]
          /\ settled.token = adm[req].token
    BY DEF SettledRecord
  <2>3. settled.settlement \in Settlement
    BY <1>1, <2>1, <2>2 DEF Settlement
  <2>4. adm[req] # None => settled \in Record
    <3> SUFFICES ASSUME adm[req] # None PROVE settled \in Record
      OBVIOUS
    <3>1. adm[req] \in Record
      BY <1>1, <1>2
    <3> HIDE DEF adm
    <3> QED BY <1>1, <2>1, <2>3, <3>1 DEF Record, SettledRecord
  <2> HIDE DEF settled
  <2> QED BY <2>2, <2>3, <2>4
<1>5. CASE admissions' = [admissions EXCEPT ![c] = adm] /\ stats' = z
  BY <1>1, <1>3, <1>5, PurgeTally
<1>6. CASE /\ adm[req] # None /\ adm[req].token = tok /\ adm[req].settlement = None
           /\ admissions' = [admissions EXCEPT ![c] = [adm EXCEPT ![req] = settled]]
           /\ stats' = [z EXCEPT !["live"] = @ - 1, !["recovery"] = @ + 1]
  <2>1. PICK a : a = [admissions EXCEPT ![c] = adm]
    OBVIOUS
  <2>2. /\ Tallied(a, pc, z) /\ z["buckets"] = stats["buckets"]
        /\ z["live"] = stats["live"] /\ z["idempotency"] <= stats["idempotency"]
    BY <1>1, <2>1, PurgeTallied DEF TallyInv
  <2> HIDE DEF c, adm, z, tok, req, settled
  <2>3. Writes(a, admissions', c, req, settled) /\ a[c][req] = adm[req]
    BY <1>1, <1>2, <1>6, <2>1 DEF Writes
  <2>4. Kind(a[c][req]) = "live" /\ Kind(settled) = "recovery"
    BY <1>1, <1>4, <1>6, <2>3 DEF Kind
  <2>5. /\ stats' \in Stats /\ \A x \in Counters : z[x] \in Int /\ stats[x] \in Int
        /\ stats'["live"] = z["live"] - 1 /\ stats'["recovery"] = z["recovery"] + 1
        /\ stats'["idempotency"] = z["idempotency"] /\ stats'["rejected"] = z["rejected"]
        /\ stats'["buckets"] = z["buckets"]
    BY <1>2, <1>6 DEF Stats, Counters
  <2>6. Follows(z, stats', Kind(a[c][req]), Kind(settled), pc[t], "release")
    <3>1. /\ z["idempotency"] \in Int /\ z["live"] \in Int /\ z["rejected"] \in Int
          /\ z["recovery"] \in Int
      BY <2>5 DEF Counters
    <3>2. /\ In("recovery", {"live"}) = 0 /\ In("live", {"live"}) = 1
          /\ In("recovery", {"rejected"}) = 0 /\ In("live", {"rejected"}) = 0
          /\ In("recovery", {"recovery"}) = 1 /\ In("live", {"recovery"}) = 0
      BY DEF In
    <3>3. stats'["idempotency"] = z["idempotency"] + In("recovery", Used) - In("live", Used)
            + In("release", {"decide"}) - In(pc[t], {"decide"})
      BY <1>3, <2>5, <3>1, KindIn
    <3>4. \A k \in Used : stats'[k] = z[k] + In("recovery", {k}) - In("live", {k})
      <4>1. /\ stats'["live"] = z["live"] + In("recovery", {"live"}) - In("live", {"live"})
            /\ stats'["rejected"] = z["rejected"] + In("recovery", {"rejected"}) - In("live", {"rejected"})
            /\ stats'["recovery"] = z["recovery"] + In("recovery", {"recovery"}) - In("live", {"recovery"})
        BY <2>5, <3>1, <3>2
      <4>2. \A k \in Used : k = "live" \/ k = "rejected" \/ k = "recovery"
        BY DEF Used
      <4> QED BY ONLY <4>1, <4>2, Zenon
    <3> QED BY <2>4, <3>3, <3>4 DEF Follows
  <2>7. Tallied(admissions', pc', stats')
    <3>1. Moves(pc, pc', t, "release")
      BY <1>3 DEF Moves, Goto
    <3>2. settled # None /\ settled.token = None => settled.settlement = None
      BY <1>1, <1>4, <1>6
    <3> QED BY ONLY <1>1, <1>2, <2>2, <2>3, <2>5, <2>6, <3>1, <3>2, TallyStep
  <2>8. MapTallied(buckets', pc', stats')
    <3>1. Moves(pc, pc', t, "release")
      BY <1>3 DEF Moves, Goto
    <3>2. stats'["buckets"] = stats["buckets"] + In("release", BucketSteps) - In(pc[t], BucketSteps)
      BY <1>3, <2>2, <2>5, KindIn DEF Counters
    <3> QED BY <1>2, <1>3, <3>1, <3>2, MapTallyMoves DEF TallyInv
  <2>9. WithinLimits(stats')
    BY <2>2, <2>5 DEF TallyInv, WithinLimits, Counters
  <2> QED BY <2>7, <2>8, <2>9 DEF TallyInv
<1> QED BY <1>3, <1>5, <1>6

(* The reserved bucket enters the map. *)
LEMMA EntryVacantTally ==
  ASSUME TypeInv, TallyInv, NEW t \in Threads, EntryVacant(t) PROVE TallyInv'
<1> DEFINE k == OpKey(op[t])
           v == FreshCell
<1>1. PICK l \in Uncounted :
        /\ pc[t] = "entry" /\ buckets[k] = None /\ allocated # Cells
        /\ buckets' = [buckets EXCEPT ![k] = v] /\ Goto(t, l) /\ UNCHANGED <<admissions, stats>>
  BY DEF EntryVacant, TakeLease, Uncounted, Labels, BucketSteps
<1>2. TypeOK /\ k \in Keys /\ v \in Cells /\ pc \in [Threads -> Labels] /\ stats \in Stats
  <2>1. op[t] \in Op
    BY <1>1 DEF TypeInv, TypeOK, ThreadTypeOK, ControlInv
  <2> QED BY <1>1, <2>1, OpFields, FreshCellType DEF TypeInv, TypeOK, ThreadTypeOK, SharedTypeOK
<1> HIDE DEF k, v
<1>3. /\ In(l, BucketSteps) = 0 /\ In(l, {"decide"}) = 0 /\ In(pc[t], BucketSteps) = 1
      /\ In(pc[t], {"decide"}) = 0 /\ In(v, Cells) = 1 /\ In(buckets[k], Cells) = 0
  BY <1>1, <1>2, UncountedIn DEF In, BucketSteps
<1>4. MapTallied(buckets', pc', stats')
  <2>1. In(l, BucketSteps) + In(v, Cells) = In(pc[t], BucketSteps) + In(buckets[k], Cells)
    BY <1>3
  <2>2. MapTallied(buckets, pc, stats) /\ stats'["buckets"] = stats["buckets"]
    BY <1>1 DEF TallyInv
  <2> QED BY ONLY <1>1, <1>2, <2>1, <2>2, MapTally
<1>5. Tallied(admissions', pc', stats')
  <2>1. stats["idempotency"] = stats["idempotency"] + In(l, {"decide"}) - In(pc[t], {"decide"})
    BY <1>2, <1>3 DEF Stats, Counters
  <2>2. Moves(pc, pc', t, l)
    BY <1>1 DEF Moves, Goto
  <2> QED BY <1>1, <1>2, <2>1, <2>2, TallyMoves DEF TallyInv
<1> QED BY <1>1, <1>4, <1>5 DEF TallyInv

(* An empty bucket leaves the map; it is uncounted later. *)
LEMMA RemoveEmptyTally ==
  ASSUME TypeInv, TallyInv, NEW t \in Threads, RemoveEmpty(t) PROVE TallyInv'
<1> DEFINE k == OpKey(op[t])
<1>1. /\ pc[t] = "removeEmpty" /\ UNCHANGED <<admissions, stats>>
      /\ \/ /\ buckets[k] # None /\ buckets' = [buckets EXCEPT ![k] = None]
            /\ Goto(t, "uncountEmpty")
         \/ UNCHANGED buckets /\ Goto(t, "idle")
  BY Zenon DEF RemoveEmpty, Return
<1>2. /\ TypeOK /\ k \in Keys /\ pc \in [Threads -> Labels] /\ stats \in Stats
      /\ buckets \in [Keys -> Cells \cup {None}]
  <2>1. op[t] \in Op
    BY <1>1 DEF TypeInv, TypeOK, ThreadTypeOK, ControlInv
  <2> QED BY <2>1, OpFields DEF TypeInv, TypeOK, ThreadTypeOK, SharedTypeOK
<1> HIDE DEF k
<1>3. CASE UNCHANGED buckets /\ Goto(t, "idle")
  <2>1. pc[t] \in Uncounted /\ "idle" \in Uncounted
    BY <1>1 DEF Uncounted, Labels, BucketSteps
  <2> QED BY <1>1, <1>2, <1>3, <2>1, QuietTally
<1>4. CASE /\ buckets[k] # None /\ buckets' = [buckets EXCEPT ![k] = None]
           /\ Goto(t, "uncountEmpty")
  <2> DEFINE l == "uncountEmpty"
  <2>1. /\ In(l, BucketSteps) = 1 /\ In(l, {"decide"}) = 0 /\ In(pc[t], BucketSteps) = 0
        /\ In(pc[t], {"decide"}) = 0 /\ In(None, Cells) = 0 /\ In(buckets[k], Cells) = 1
    BY <1>1, <1>2, <1>4 DEF In, BucketSteps
  <2>2. MapTallied(buckets', pc', stats')
    <3>1. In(l, BucketSteps) + In(None, Cells) = In(pc[t], BucketSteps) + In(buckets[k], Cells)
      BY <2>1
    <3>2. MapTallied(buckets, pc, stats) /\ stats'["buckets"] = stats["buckets"]
      BY <1>1 DEF TallyInv
    <3> QED BY ONLY <1>2, <1>4, <3>1, <3>2, MapTally
  <2>3. Tallied(admissions', pc', stats')
    <3>1. stats["idempotency"] = stats["idempotency"] + In(l, {"decide"}) - In(pc[t], {"decide"})
      BY <1>2, <2>1 DEF Stats, Counters
    <3>2. Moves(pc, pc', t, l)
      BY <1>4 DEF Moves, Goto
    <3> QED BY <1>1, <1>2, <3>1, <3>2, TallyMoves DEF TallyInv
  <2> QED BY <1>1, <2>2, <2>3 DEF TallyInv
<1> QED BY <1>1, <1>3, <1>4

(* Every step keeps the tallies. *)
LEMMA NextTally ==
  ASSUME TypeInv, DecideInv, TallyInv, [Next]_vars PROVE TallyInv'
<1>1. TypeOK /\ \A l \in Labels : l # "decide" /\ l \notin BucketSteps => l \in Uncounted
  BY DEF TypeInv, Uncounted
<1>2. ASSUME NEW t \in Threads, Call(t) PROVE TallyInv'
  <2>1. PICK o : Start(t, o)
    BY <1>2 DEF Call, StartAdmit, StartSettle, StartInspect
  <2>2. pc[t] \in Uncounted /\ (\E l \in Uncounted : Goto(t, l)) /\ UNCHANGED <<admissions, buckets, stats>>
    BY <2>1 DEF Start, sharedVars, cellVars, Uncounted, Labels, BucketSteps
  <2> QED BY <1>1, <2>2, QuietTally
<1>3. ASSUME NEW t \in Threads,
             \/ MaybeCleanup(t) \/ CleanupPop(t) \/ ScanStale(t) \/ ScanBusy(t)
             \/ CleanupDone(t) \/ ScheduleCleanup(t) \/ PushTicket(t)
             \/ AcquireHit(t) \/ AcquireMiss(t) \/ Release(t)
      PROVE  TallyInv'
  <2>1. UNCHANGED <<admissions, buckets, stats>>
    BY <1>3 DEF MaybeCleanup, CleanupPop, ScanStale, ScanBusy, CleanupDone, ScheduleCleanup,
                PushTicket, AcquireHit, AcquireMiss, Release, sharedVars, cellVars
  <2>2. UNCHANGED pc \/ (pc[t] \in Uncounted /\ \E l \in Uncounted : Goto(t, l))
    BY <1>3 DEF MaybeCleanup, CleanupPop, ScanStale, ScanBusy, CleanupDone, ScheduleCleanup,
                PushTicket, AcquireHit, AcquireMiss, Release, AfterRelease, RetryOrFail, Return,
                TakeLease, Uncounted, Labels, BucketSteps
  <2> QED BY <1>1, <2>1, <2>2, QuietTally
<1>4. ASSUME NEW t \in Threads, ReserveBucket(t) PROVE TallyInv'
  <2>1. pc[t] = "reserve" /\ UNCHANGED <<admissions, buckets>>
    BY <1>4 DEF ReserveBucket, sharedVars, cellVars
  <2>2. CASE RetryOrFail(t) /\ UNCHANGED stats
    <3>1. pc[t] \in Uncounted /\ \E l \in Uncounted : Goto(t, l)
      BY <2>1, <2>2 DEF RetryOrFail, Return, Uncounted, Labels, BucketSteps
    <3> QED BY <1>1, <2>1, <2>2, <3>1, QuietTally
  <2>3. CASE Bump("buckets", 1) /\ Goto(t, "entry") /\ stats["buckets"] < MaxBuckets
    <3>1. In("entry", BucketSteps) - In(pc[t], BucketSteps) = 1 /\ "entry" \in Labels
      BY <2>1 DEF In, BucketSteps, Labels
    <3> QED BY <1>1, <2>1, <2>3, <3>1, BumpTally
  <2>4. stats["buckets"] \in Int
    BY <1>1 DEF TypeOK, SharedTypeOK, Stats, Counters
  <2> QED BY <1>4, <2>2, <2>3, <2>4 DEF ReserveBucket
<1>5. ASSUME NEW t \in Threads, EntryOccupied(t) \/ UncountBucket(t) \/ UncountEmpty(t)
      PROVE  TallyInv'
  <2>1. PICK l \in Uncounted :
          /\ Goto(t, l) /\ pc[t] \in BucketSteps /\ Bump("buckets", -1)
          /\ UNCHANGED <<admissions, buckets>>
    BY <1>5 DEF EntryOccupied, UncountBucket, UncountEmpty, TakeLease, Return, sharedVars, cellVars,
                Uncounted, Labels, BucketSteps
  <2>2. /\ In(l, BucketSteps) - In(pc[t], BucketSteps) = -1 /\ l \in Labels \ {"decide"}
        /\ pc[t] # "decide"
    BY <2>1 DEF In, BucketSteps, Uncounted
  <2> QED BY <1>1, <2>1, <2>2, BumpTally
<1>6. ASSUME Tick \/ UNCHANGED vars PROVE TallyInv'
  BY <1>6 DEF Tick, TallyInv, vars, sharedVars, cellVars, threadVars
<1> QED
  BY <1>2, <1>3, <1>4, <1>5, <1>6, ScanPurgeTally, RemoveEmptyTally, EntryVacantTally,
     AdmitEnterTally, AdmitDecideTally, SettleLockedTally, InspectLockedTally
     DEF Next, Run

(* At the start nothing is counted. *)
LEMMA InitTally == Init => TallyInv
<1> SUFFICES ASSUME Init PROVE TallyInv
  OBVIOUS
<1>1. Kind(None) = "free"
  BY DEF Kind
<1>2. \A K : "free" \notin K => Slots(admissions, K) = {}
  BY <1>1 DEF Init, Slots
<1>3. "free" \notin Used /\ Mapped(buckets) = {}
  BY DEF Init, Used, Mapped
<1>4. {t \in Threads : pc[t] \in {"decide"}} = {} /\ {t \in Threads : pc[t] \in BucketSteps} = {}
  BY DEF Init, BucketSteps
<1>5. IsFiniteSet({}) /\ Cardinality({}) = 0
  BY FS_EmptySet
<1>6. /\ Slots(admissions, Used) = {} /\ Slots(admissions, {"live"}) = {}
      /\ Slots(admissions, {"rejected"}) = {} /\ Slots(admissions, {"recovery"}) = {}
  BY <1>2, <1>3
<1>7. \A k \in Counters : stats[k] = 0
  BY DEF Init
<1>8. Refusals(admissions)
  BY DEF Init, Refusals
<1>9. Tallied(admissions, pc, stats) /\ MapTallied(buckets, pc, stats)
  <2>1. /\ Standing(pc, {"decide"}) = 0 /\ Standing(pc, BucketSteps) = 0
        /\ Cardinality(Mapped(buckets)) = 0 /\ IsFiniteSet(Mapped(buckets))
    BY <1>3, <1>4, <1>5 DEF Standing
  <2>2. /\ Number(admissions, Used) = 0 /\ Number(admissions, {"live"}) = 0
        /\ Number(admissions, {"rejected"}) = 0 /\ Number(admissions, {"recovery"}) = 0
        /\ IsFiniteSet(Slots(admissions, Used))
    BY <1>5, <1>6 DEF Number
  <2> QED BY <1>7, <1>8, <2>1, <2>2 DEF Tallied, MapTallied, Counters
<1>10. WithinLimits(stats)
  BY <1>7 DEF WithinLimits, Counters
<1> QED BY <1>9, <1>10 DEF TallyInv

(* The lock-free counters are exact, and the capacities they enforce hold,   *)
(* for any number of threads, keys and cells and any capacities: whatever    *)
(* calls interleave, each counter is the number of things it counts plus the *)
(* calls between their increment and its effect.  CounterAccounting needs    *)
(* ReservationInv (a deciding thread still finds its slot empty), that a     *)
(* refusal is never settled, and that only finitely many slots are in use.   *)
THEOREM CountersExact == Spec => []CounterAccounting
<1>1. Init => CounterInv
  BY InitReservation, InitTally, CounterInvIs
<1>2. ReservationInv /\ TallyInv /\ [Next]_vars => TallyInv'
  BY NextTally DEF ReservationInv, LeaseInv, TypeInv
<1>3. (ReservationInv /\ TallyInv)' => CounterInv'
  BY CounterInvIs, PTL
<1>4. CounterInv /\ [Next]_vars => CounterInv'
  BY <1>2, <1>3, NextReservation, CounterInvIs
<1>5. CounterInv => CounterAccounting
  BY DEF CounterInv
<1> QED BY <1>1, <1>4, <1>5, PTL DEF Spec

-----------------------------------------------------------------------------
(* Windows *)

Shelf == [Requests -> Record \cup {None}]

(* What the records S of one cell charge to a dimension. *)
Pairs(a, d, S) == UNION {{r} \X (1..ChargeOf(a[r], d)) : r \in S}
Present(a) == {r \in Requests : a[r] # None}

(* Charged, in these words. *)
LEMMA ChargedIs == \A a, d, S : Charged(a, d, S) = Cardinality(Pairs(a, d, S))
  BY DEF Charged, Pairs

(* A charge is a count. *)
LEMMA ChargeType ==
  ASSUME NEW rec \in Record, NEW d \in Dims
  PROVE  /\ ChargeOf(rec, d) \in 0..MaxCount
         /\ rec.cmd.limits[d] \in Nat /\ rec.cmd.reserve[d] \in Nat
<1>1. rec.cmd \in Command /\ rec.settlement \in Settlement \cup {None}
  BY DEF Record
<1>2. rec.cmd.limits[d] \in 0..MaxCount /\ rec.cmd.reserve[d] \in 0..MaxCount
  BY <1>1 DEF Command, Charge
<1>3. rec.settlement # None => rec.settlement.payload.charge[d] \in 0..MaxCount
  BY <1>1 DEF Settlement, Charge
<1> QED BY <1>2, <1>3 DEF ChargeOf

(* The pairs that stand for a sum are finitely many. *)
LEMMA PairsFinite ==
  ASSUME NEW a \in Shelf, NEW d \in Dims, NEW S \in SUBSET Present(a)
  PROVE  IsFiniteSet(Pairs(a, d, S)) /\ Charged(a, d, S) \in Nat
<1>1. \A r \in S : r \in Requests /\ ChargeOf(a[r], d) \in 0..MaxCount
  BY ChargeType DEF Present, Shelf
<1>2. Pairs(a, d, S) \subseteq Requests \X (1..MaxCount)
  BY <1>1 DEF Pairs
<1>3. IsFiniteSet(1..MaxCount)
  BY FS_Interval
<1>4. IsFiniteSet(Requests \X (1..MaxCount))
  BY <1>3, FS_Product
<1> QED BY <1>2, <1>4, FS_Subset, FS_CardinalityType, ChargedIs

(* A sum with one more record. *)
LEMMA ChargedAdd ==
  ASSUME NEW a \in Shelf, NEW d \in Dims, NEW S \in SUBSET Present(a), NEW r \in Present(a), r \notin S
  PROVE  Charged(a, d, S \cup {r}) = Charged(a, d, S) + ChargeOf(a[r], d)
<1> DEFINE B == {r} \X (1..ChargeOf(a[r], d))
           P == Pairs(a, d, S)
<1>1. ChargeOf(a[r], d) \in Nat
  BY ChargeType DEF Present, Shelf
<1>2. IsFiniteSet({r}) /\ Cardinality({r}) = 1
  BY FS_Singleton
<1>3. IsFiniteSet(1..ChargeOf(a[r], d)) /\ Cardinality(1..ChargeOf(a[r], d)) = ChargeOf(a[r], d)
  BY <1>1, FS_Interval
<1>4. IsFiniteSet(B) /\ Cardinality(B) = ChargeOf(a[r], d)
  <2>1. PICK U, V : U = {r} /\ V = 1..ChargeOf(a[r], d)
    OBVIOUS
  <2>2. IsFiniteSet(U \X V) /\ Cardinality(U \X V) = 1 * ChargeOf(a[r], d)
    <3>1. /\ IsFiniteSet(U) /\ Cardinality(U) = 1
          /\ IsFiniteSet(V) /\ Cardinality(V) = ChargeOf(a[r], d)
      BY <1>2, <1>3, <2>1
    <3>2. IsFiniteSet(U \X V) /\ Cardinality(U \X V) = Cardinality(U) * Cardinality(V)
      BY ONLY <3>1, FS_Product
    <3> QED BY <3>1, <3>2
  <2> QED BY <1>1, <2>1, <2>2
<1>5. IsFiniteSet(P) /\ Cardinality(P) \in Nat
  BY PairsFinite, ChargedIs
<1>6. Pairs(a, d, S \cup {r}) = P \cup B
  BY DEF Pairs
<1>7. P \cap B = {}
  BY DEF Pairs
<1> HIDE DEF P, B
<1>8. Cardinality(P \cup B) = Cardinality(P) + Cardinality(B) - Cardinality(P \cap B)
  BY <1>4, <1>5, FS_Union
<1>9. Cardinality(P \cap B) = 0
  BY <1>7, FS_EmptySet
<1>10. Cardinality(P \cup B) = Cardinality(P) + ChargeOf(a[r], d)
  BY ONLY <1>1, <1>4, <1>5, <1>8, <1>9
<1> QED BY <1>6, <1>10, ChargedIs DEF P

(* A sum looks only at its records, and grows with them. *)
LEMMA ChargedSame ==
  ASSUME NEW a, NEW b, NEW d, NEW S, \A r \in S : ChargeOf(a[r], d) = ChargeOf(b[r], d)
  PROVE  Charged(a, d, S) = Charged(b, d, S)
<1>1. Pairs(a, d, S) = Pairs(b, d, S)
  BY DEF Pairs
<1> QED BY <1>1, ChargedIs

(* A part charges no more than the whole. *)
LEMMA ChargedMono ==
  ASSUME NEW a \in Shelf, NEW d \in Dims, NEW T \in SUBSET Present(a), NEW S \in SUBSET T
  PROVE  Charged(a, d, S) <= Charged(a, d, T)
<1>1. Pairs(a, d, S) \subseteq Pairs(a, d, T)
  BY DEF Pairs
<1> QED BY <1>1, PairsFinite, FS_Subset, ChargedIs

(* Nothing charges nothing. *)
LEMMA ChargedNone == ASSUME NEW a, NEW d PROVE Charged(a, d, {}) = 0
<1>1. Pairs(a, d, {}) = {}
  BY DEF Pairs
<1> QED BY <1>1, FS_EmptySet, ChargedIs

(* Which records count depends on tokens and settlements only. *)
LEMMA CountedFacts ==
  ASSUME NEW w, NEW a \in Shelf
  PROVE  /\ Counted(w, a) \subseteq Present(a) /\ Open(w, a) \subseteq Counted(w, a)
         /\ \A r : Earlier(w, a, r) \subseteq Open(w, a)
         /\ \A r \in Counted(w, a) : r \in Requests /\ a[r] \in Record
  BY DEF Counted, Open, Earlier, Present, Shelf

(* Later, and with more ids handed out. *)
LEMMA SoundLater ==
  ASSUME NEW w \in Window \cup {None}, NEW a \in Shelf, NEW g, NEW n \in Nat, NEW T \in Nat,
         Sound(w, a, g, n, T), NEW m \in Nat, n <= m, NEW U \in Nat, T <= U
  PROVE  Sound(w, a, g, m, U)
<1>1. Timely(w, g, U)
  BY DEF Sound, Timely, Window
<1>2. Known(a, g, m)
  <2>1. \A r \in Requests : a[r] # None /\ a[r].token # None => a[r].token.id \in Nat
    BY DEF Shelf, Record, Token
  <2> QED BY <2>1 DEF Sound, Known
<1> QED BY <1>1, <1>2 DEF Sound

(* The same records count, and they did not change. *)
LEMMA SoundAgree ==
  ASSUME NEW w, NEW a \in Shelf, NEW b, NEW g, NEW n, NEW T, Sound(w, a, g, n, T), Known(b, g, n),
         Counted(w, b) = Counted(w, a), \A r \in Counted(w, a) : b[r] = a[r]
  PROVE  Sound(w, b, g, n, T)
<1>1. Open(w, b) = Open(w, a) /\ \A r \in Open(w, a) : Earlier(w, b, r) = Earlier(w, a, r)
  BY DEF Open, Earlier
<1>2. \A d, S : S \subseteq Counted(w, a) => Charged(b, d, S) = Charged(a, d, S)
  <2> SUFFICES ASSUME NEW d, NEW S, S \subseteq Counted(w, a)
               PROVE  Charged(b, d, S) = Charged(a, d, S)
    OBVIOUS
  <2>1. \A r \in S : ChargeOf(b[r], d) = ChargeOf(a[r], d)
    OBVIOUS
  <2> QED BY <2>1, ChargedSame
<1>3. Retained(w, b) /\ Exact(w, b)
  BY <1>2 DEF Sound, Retained, Exact
<1>4. Fits(w, b)
  <2> SUFFICES ASSUME NEW d \in Dims, NEW r \in Open(w, a), b[r].cmd.limits[d] # 0
               PROVE  Charged(b, d, Earlier(w, b, r)) <= b[r].cmd.limits[d]
    BY <1>1 DEF Fits
  <2>1. Earlier(w, a, r) \subseteq Counted(w, a) /\ r \in Counted(w, a)
    BY CountedFacts
  <2>2. Charged(b, d, Earlier(w, b, r)) = Charged(a, d, Earlier(w, a, r)) /\ b[r] = a[r]
    BY <1>1, <1>2, <2>1
  <2> QED BY <2>2 DEF Sound, Fits
<1> QED BY <1>3, <1>4 DEF Sound

(* A purge forgets a record that counts only together with its window. *)
LEMMA PurgeSound ==
  ASSUME NEW w \in Window \cup {None}, NEW a \in Shelf, NEW g, NEW n, NEW T, Sound(w, a, g, n, T),
         NEW k \in Nat, NEW v, v = IF w # None /\ k >= w.reset THEN None ELSE w,
         NEW b \in Shelf, \A r \in Requests : b[r] = IF Removable(a[r], k) THEN None ELSE a[r]
  PROVE  Sound(v, b, g, n, T)
<1>1. Known(b, g, n)
  BY DEF Sound, Known
<1>2. CASE v = None
  <2>1. Counted(v, b) = {} /\ Open(v, b) = {}
    BY <1>2 DEF Counted, Open
  <2> QED BY <1>1, <1>2, <2>1 DEF Sound, Timely, Retained, Exact, Fits
<1>3. CASE v # None
  <2>1. v = w /\ w \in Window /\ k < w.reset
    BY <1>3 DEF Window
  <2>2. \A r \in Counted(w, a) : b[r] = a[r]
    <3> SUFFICES ASSUME NEW r \in Counted(w, a) PROVE b[r] = a[r]
      OBVIOUS
    <3>1. a[r] \in Record /\ r \in Requests
      BY CountedFacts
    <3>2. a[r].retainUntil >= w.reset /\ a[r].retainUntil \in Nat /\ w.reset \in Nat
      BY <2>1, <3>1 DEF Sound, Retained, Record, Window
    <3>3. ~Removable(a[r], k)
      BY <2>1, <3>2 DEF Removable
    <3> QED BY <3>1, <3>3
  <2>3. Counted(v, b) = Counted(w, a)
    <3>1. \A r \in Requests : b[r] # None => b[r] = a[r]
      OBVIOUS
    <3> QED BY <2>1, <2>2, <3>1 DEF Counted
  <2> QED BY <1>1, <2>1, <2>2, <2>3, SoundAgree
<1> QED BY <1>2, <1>3

(* A new window counts nothing: every token is of an earlier generation. *)
LEMMA EnsureSound ==
  ASSUME NEW a \in Shelf, NEW g \in Nat, NEW n, NEW T \in Nat, Sound(None, a, g, n, T),
         NEW w \in Window, w.gen = g + 1, w.reset <= T + w.duration, \A d \in Dims : w.used[d] = 0
  PROVE  Sound(w, a, w.gen, n, T)
<1>1. \A r \in Requests : a[r] # None /\ a[r].token # None => a[r].token.gen \in Nat /\ a[r].token.gen <= g
  BY DEF Shelf, Record, Token, Sound, Known
<1>2. Counted(w, a) = {} /\ Open(w, a) = {}
  BY <1>1 DEF Counted, Open
<1>3. Known(a, w.gen, n)
  BY <1>1 DEF Sound, Known
<1> QED BY <1>2, <1>3, ChargedNone DEF Sound, Timely, Retained, Exact, Fits

(* The record of a refusal counts nowhere. *)
LEMMA RefuseSound ==
  ASSUME NEW w, NEW a \in Shelf, NEW g, NEW n, NEW T, Sound(w, a, g, n, T),
         NEW r \in Requests, a[r] = None, NEW b, b[r].token = None,
         \A s \in Requests \ {r} : b[s] = a[s]
  PROVE  Sound(w, b, g, n, T)
<1>1. Counted(w, b) = Counted(w, a) /\ r \notin Counted(w, a)
  BY DEF Counted
<1>2. \A s \in Counted(w, a) : b[s] = a[s]
  BY <1>1 DEF Counted
<1>3. Known(b, g, n)
  BY DEF Sound, Known
<1> QED BY <1>1, <1>2, <1>3, SoundAgree

(* An admission adds its reservation to the window, fits its limit together  *)
(* with what was there, and comes after it.                                  *)
LEMMA AdmitSound ==
  ASSUME NEW w \in Window, NEW a \in Shelf, NEW g, NEW n \in Nat, NEW T, Sound(w, a, g, n, T),
         NEW r \in Requests, a[r] = None, NEW b \in Shelf, \A s \in Requests \ {r} : b[s] = a[s],
         b[r] # None, b[r].token # None, b[r].token.gen = w.gen, b[r].token.id = n,
         b[r].settlement = None, b[r].retainUntil >= w.reset, ~Exceeds(Candidate(w, b[r].cmd), b[r].cmd),
         NEW v \in Window, v.gen = w.gen, v.reset = w.reset, v.duration = w.duration,
         v.used = Candidate(w, b[r].cmd)
  PROVE  Sound(v, b, g, n + 1, T)
<1> DEFINE C == Counted(w, a)
           O == Open(w, a)
<1>1. w # None /\ v # None /\ b[r] \in Record
  BY DEF Shelf
<1>2. Counted(v, b) = C \cup {r} /\ r \notin C /\ C \subseteq Requests
  BY <1>1 DEF Counted
<1>3. \A s \in C : b[s] = a[s] /\ s # r
  BY <1>2 DEF Counted
<1>4. Open(v, b) = O \cup {r} /\ r \notin O /\ O \subseteq C
  BY <1>2, <1>3 DEF Open
<1>5. C \subseteq Present(b) /\ O \subseteq Present(b) /\ r \in Present(b) /\ C \subseteq Present(a)
        /\ O \subseteq Present(a)
  BY <1>2, <1>3, <1>4, CountedFacts DEF Present
<1>6. \A s \in C : a[s].token.id \in Nat /\ a[s].token.id < n /\ s \in Requests
  BY CountedFacts DEF Sound, Known, Counted, Record, Token
<1>7. \A d, S : S \subseteq C => Charged(b, d, S) = Charged(a, d, S)
  <2> SUFFICES ASSUME NEW d, NEW S, S \subseteq C PROVE Charged(b, d, S) = Charged(a, d, S)
    OBVIOUS
  <2>1. \A s \in S : ChargeOf(b[s], d) = ChargeOf(a[s], d)
    BY <1>3
  <2> QED BY <2>1, ChargedSame
<1> HIDE DEF C, O
<1>8. ASSUME NEW d \in Dims, NEW S \in SUBSET C
      PROVE  /\ Charged(b, d, S \cup {r}) = Charged(a, d, S) + ChargeOf(b[r], d)
             /\ Charged(a, d, S) \in Nat /\ ChargeOf(b[r], d) \in Nat
  <2>1. S \in SUBSET Present(b) /\ S \in SUBSET Present(a) /\ r \notin S
    BY <1>2, <1>5
  <2>2. Charged(b, d, S \cup {r}) = Charged(b, d, S) + ChargeOf(b[r], d)
    BY <1>5, <2>1, ChargedAdd
  <2> QED BY <1>1, <1>7, <2>1, <2>2, PairsFinite, ChargeType
<1>9. ASSUME NEW d \in Dims
      PROVE  /\ v.used[d] = w.used[d] + ChargeOf(b[r], d) /\ w.used[d] = Charged(a, d, C)
             /\ b[r].cmd.limits[d] # 0 => v.used[d] <= b[r].cmd.limits[d]
             /\ v.used[d] \in Nat
  <2>1. w.used[d] \in Nat /\ v.used[d] \in Nat /\ b[r].cmd.limits[d] \in Nat /\ b[r].cmd.reserve[d] \in Nat
    BY <1>1, ChargeType DEF Window, Charge
  <2>2. ChargeOf(b[r], d) = IF b[r].cmd.limits[d] = 0 THEN 0 ELSE b[r].cmd.reserve[d]
    BY DEF ChargeOf
  <2>3. v.used[d] = IF b[r].cmd.limits[d] = 0 THEN w.used[d] ELSE w.used[d] + b[r].cmd.reserve[d]
    BY DEF Candidate
  <2>4. b[r].cmd.limits[d] # 0 => ~(v.used[d] > b[r].cmd.limits[d])
    BY DEF Exceeds
  <2>5. w.used[d] = Charged(a, d, C)
    BY <1>1 DEF Sound, Exact, C
  <2> QED BY <2>1, <2>2, <2>3, <2>4, <2>5
<1>10. Timely(v, g, T)
  BY <1>1 DEF Sound, Timely
<1>11. Known(b, g, n + 1)
  <2>1. \A s \in Requests : a[s] # None /\ a[s].token # None => a[s].token.id \in Nat
    BY DEF Shelf, Record, Token
  <2>2. w.gen = g
    BY <1>1 DEF Sound, Timely
  <2>3. w.gen \in Nat
    BY DEF Window
  <2> SUFFICES ASSUME NEW s \in Requests, b[s] # None, b[s].token # None
               PROVE  b[s].token.gen <= g /\ b[s].token.id < n + 1
    BY DEF Known
  <2>4. CASE s = r
    BY <2>2, <2>3, <2>4
  <2>5. CASE s # r
    BY <2>1, <2>5 DEF Sound, Known
  <2> QED BY <2>4, <2>5
<1>12. Retained(v, b)
  <2>1. \A s \in C : a[s].retainUntil >= w.reset
    BY DEF Sound, Retained, C
  <2> QED BY <1>2, <1>3, <2>1 DEF Retained
<1>13. Exact(v, b)
  BY <1>2, <1>8, <1>9 DEF Exact
<1>14. Fits(v, b)
  <2> SUFFICES ASSUME NEW d \in Dims, NEW s \in Open(v, b), b[s].cmd.limits[d] # 0
               PROVE  Charged(b, d, Earlier(v, b, s)) <= b[s].cmd.limits[d]
    BY DEF Fits
  <2>1. CASE s = r
    <3>1. Earlier(v, b, r) = O \cup {r}
      BY <1>3, <1>4, <1>6 DEF Earlier
    <3>2. Charged(b, d, O \cup {r}) = Charged(a, d, O) + ChargeOf(b[r], d) /\ Charged(a, d, O) \in Nat
            /\ ChargeOf(b[r], d) \in Nat
      BY <1>4, <1>8
    <3>3. Charged(a, d, O) <= Charged(a, d, C)
      BY <1>4, <1>5, ChargedMono
    <3>4. Charged(a, d, C) \in Nat /\ b[r].cmd.limits[d] \in Nat
      BY <1>1, <1>5, PairsFinite, ChargeType
    <3> QED BY <1>9, <2>1, <3>1, <3>2, <3>3, <3>4
  <2>2. CASE s # r
    <3>1. s \in O /\ s \in C
      BY <1>4, <2>2
    <3>2. Earlier(v, b, s) = Earlier(w, a, s)
      <4>1. Earlier(w, a, s) = {u \in O : a[u].token.id <= a[s].token.id}
        BY DEF Earlier, O
      <4>2. a[s].token.id \in Nat /\ a[s].token.id < n /\ b[s] = a[s]
        BY <1>3, <1>6, <3>1
      <4>3. \A u \in O : b[u] = a[u]
        BY <1>3, <1>4
      <4> QED BY <1>4, <4>1, <4>2, <4>3 DEF Earlier
    <3>3. Earlier(w, a, s) \subseteq C
      BY <1>4, CountedFacts DEF O
    <3>4. Charged(b, d, Earlier(v, b, s)) = Charged(a, d, Earlier(w, a, s)) /\ b[s] = a[s]
      BY <1>3, <1>7, <3>1, <3>2, <3>3
    <3> QED BY <3>1, <3>4 DEF Sound, Fits, O
  <2> QED BY <2>1, <2>2
<1> QED BY <1>10, <1>11, <1>12, <1>13, <1>14 DEF Sound

(* A settlement exchanges a reservation for its final charge, if the window  *)
(* it was reserved in is still the current one.                              *)
LEMMA SettleSound ==
  ASSUME NEW w \in Window \cup {None}, NEW a \in Shelf, NEW g, NEW n, NEW T, Sound(w, a, g, n, T),
         NEW r \in Requests, a[r] # None, a[r].token # None, a[r].settlement = None,
         NEW b \in Shelf, \A s \in Requests \ {r} : b[s] = a[s],
         b[r] # None, b[r].cmd = a[r].cmd, b[r].token = a[r].token, b[r].settlement # None,
         b[r].retainUntil >= a[r].retainUntil,
         NEW v \in Window \cup {None},
         \/ r \notin Counted(w, a) /\ v = w
         \/ /\ r \in Counted(w, a) /\ v # None
            /\ v.gen = w.gen /\ v.reset = w.reset /\ v.duration = w.duration
            /\ v.used = Adjusted(w, a[r].cmd, b[r].settlement.payload.charge)
  PROVE  Sound(v, b, g, n, T)
<1>1. Known(b, g, n)
  BY DEF Sound, Known
<1>2. CASE r \notin Counted(w, a) /\ v = w
  <2>1. Counted(w, b) = Counted(w, a)
    BY DEF Counted
  <2>2. \A s \in Counted(w, a) : b[s] = a[s]
    BY <1>2 DEF Counted
  <2> QED BY <1>1, <1>2, <2>1, <2>2, SoundAgree
<1>3. CASE /\ r \in Counted(w, a) /\ v # None
           /\ v.gen = w.gen /\ v.reset = w.reset /\ v.duration = w.duration
           /\ v.used = Adjusted(w, a[r].cmd, b[r].settlement.payload.charge)
  <2> DEFINE C == Counted(w, a)
             D == C \ {r}
             O == Open(w, a)
  <2>1. w # None /\ w \in Window /\ v \in Window /\ a[r] \in Record /\ b[r] \in Record
    BY <1>3 DEF Counted, Shelf
  <2>2. Counted(v, b) = C
    BY <1>3, <2>1 DEF Counted
  <2>3. /\ C \subseteq Present(a) /\ C \subseteq Present(b) /\ C \subseteq Requests
        /\ \A s \in D : b[s] = a[s]
    BY <2>2, CountedFacts
  <2>4. Open(v, b) = O \ {r} /\ O \subseteq C
    BY <2>2, <2>3 DEF Open
  <2>5. D \subseteq C /\ C = D \cup {r} /\ r \notin D /\ r \in C
    BY <1>3
  <2>6. \A d, S : S \subseteq D => Charged(b, d, S) = Charged(a, d, S)
    <3> SUFFICES ASSUME NEW d, NEW S, S \subseteq D PROVE Charged(b, d, S) = Charged(a, d, S)
      OBVIOUS
    <3>1. \A s \in S : ChargeOf(b[s], d) = ChargeOf(a[s], d)
      BY <2>3
    <3> QED BY <3>1, ChargedSame
  <2>7. \A s \in C : a[s].retainUntil >= w.reset
    BY DEF Sound, Retained
  <2>8. \A d \in Dims : w.used[d] = Charged(a, d, C)
    BY <2>1 DEF Sound, Exact
  <2> HIDE DEF C, D, O
  <2>9. Timely(v, g, T)
    BY <1>3, <2>1 DEF Sound, Timely
  <2>10. Retained(v, b)
    <3>1. w.reset \in Nat /\ a[r].retainUntil \in Nat /\ b[r].retainUntil \in Nat
      BY <2>1 DEF Window, Record
    <3>2. b[r].retainUntil >= w.reset
      BY <2>5, <2>7, <3>1
    <3>3. \A s \in C : s = r \/ s \in D
      BY <2>5
    <3> QED BY <1>3, <2>2, <2>3, <2>5, <2>7, <3>2, <3>3 DEF Retained
  <2>11. Exact(v, b)
    <3> SUFFICES ASSUME NEW d \in Dims PROVE v.used[d] = Charged(b, d, C)
      BY <2>2 DEF Exact
    <3>1. D \in SUBSET Present(a) /\ D \in SUBSET Present(b) /\ r \in Present(a) /\ r \in Present(b)
      BY <2>3, <2>5
    <3>2. Charged(a, d, C) = Charged(a, d, D) + ChargeOf(a[r], d)
      BY <2>5, <3>1, ChargedAdd
    <3>3. Charged(b, d, C) = Charged(b, d, D) + ChargeOf(b[r], d)
      BY <2>5, <3>1, ChargedAdd
    <3>4. Charged(b, d, D) = Charged(a, d, D) /\ Charged(a, d, D) \in Nat
      BY <2>6, <3>1, PairsFinite
    <3>5. /\ ChargeOf(a[r], d) = IF a[r].cmd.limits[d] = 0 THEN 0 ELSE a[r].cmd.reserve[d]
          /\ ChargeOf(b[r], d) = IF a[r].cmd.limits[d] = 0 THEN 0 ELSE b[r].settlement.payload.charge[d]
      BY DEF ChargeOf
    <3>6. ChargeOf(a[r], d) \in Nat /\ ChargeOf(b[r], d) \in Nat
      BY <2>1, ChargeType
    <3>7. v.used[d] = IF a[r].cmd.limits[d] = 0 THEN w.used[d]
                      ELSE w.used[d] - a[r].cmd.reserve[d] + b[r].settlement.payload.charge[d]
      BY <1>3 DEF Adjusted
    <3>8. w.used[d] = Charged(a, d, C)
      BY <2>8
    <3> QED BY ONLY <3>2, <3>3, <3>4, <3>5, <3>6, <3>7, <3>8
  <2>12. Fits(v, b)
    <3> SUFFICES ASSUME NEW d \in Dims, NEW s \in Open(v, b), b[s].cmd.limits[d] # 0
                 PROVE  Charged(b, d, Earlier(v, b, s)) <= b[s].cmd.limits[d]
      BY DEF Fits
    <3>1. s \in O /\ s \in D /\ b[s] = a[s] /\ O \ {r} \subseteq D
      BY <2>3, <2>4, <2>5 DEF D
    <3>2. Earlier(v, b, s) \subseteq Earlier(w, a, s) /\ Earlier(v, b, s) \subseteq D
      <4>1. Earlier(w, a, s) = {u \in O : a[u].token.id <= a[s].token.id}
        BY DEF Earlier, O
      <4>2. Earlier(v, b, s) = {u \in O \ {r} : b[u].token.id <= b[s].token.id}
        BY <2>4 DEF Earlier
      <4> QED BY <2>3, <3>1, <4>1, <4>2
    <3>3. Earlier(w, a, s) \subseteq Present(a)
      BY <2>3, <2>4, CountedFacts DEF O
    <3>4. Charged(a, d, Earlier(v, b, s)) <= Charged(a, d, Earlier(w, a, s))
      BY <3>2, <3>3, ChargedMono
    <3>5. Charged(b, d, Earlier(v, b, s)) = Charged(a, d, Earlier(v, b, s))
      BY <2>6, <3>2
    <3>6. Charged(a, d, Earlier(w, a, s)) <= a[s].cmd.limits[d]
      BY <3>1 DEF Sound, Fits, O
    <3>7. /\ Charged(a, d, Earlier(v, b, s)) \in Nat /\ Charged(a, d, Earlier(w, a, s)) \in Nat
          /\ a[s].cmd.limits[d] \in Nat
      <4>1. Earlier(v, b, s) \subseteq Present(a) /\ a[s] \in Record
        BY <2>3, <2>5, <3>1, <3>2, <3>3 DEF Present, Shelf
      <4> QED BY <3>3, <4>1, PairsFinite, ChargeType
    <3> QED BY <3>1, <3>4, <3>5, <3>6, <3>7
  <2> QED BY <1>1, <2>9, <2>10, <2>11, <2>12 DEF Sound
<1> QED BY <1>2, <1>3

(* A running call's time is as stale as the delay allows. *)
LEMMA NextTime ==
  ASSUME TypeInv, TimeInv, [Next]_vars PROVE TimeInv'
<1>1. /\ pc \in [Threads -> Labels] /\ now \in [Threads -> Nat] /\ clock \in Nat
  BY DEF TypeInv, TypeOK, ThreadTypeOK, SharedTypeOK
<1>2. ASSUME NEW t \in Threads, Call(t) PROVE TimeInv'
  <2>1. PICK o : Start(t, o)
    BY <1>2 DEF Call, StartAdmit, StartSettle, StartInspect
  <2>2. /\ clock' = clock /\ now' = [now EXCEPT ![t] = clock]
        /\ pc' = [pc EXCEPT ![t] = "begin"]
    BY <2>1 DEF Start, Goto, sharedVars
  <2> QED BY <1>1, <2>2 DEF TimeInv
<1>3. ASSUME NEW t \in Threads, Run(t) PROVE TimeInv'
  <2>1. UNCHANGED clock /\ pc[t] # "idle"
    BY <1>3 DEF Run, MaybeCleanup, CleanupPop, ScanStale, ScanBusy, ScanPurge, UncountBucket,
         CleanupDone, AcquireHit, AcquireMiss, ReserveBucket, EntryOccupied, EntryVacant,
         ScheduleCleanup, PushTicket, AdmitEnter, AdmitDecide, SettleLocked, InspectLocked,
         Release, RemoveEmpty, UncountEmpty, sharedVars
  <2>2. UNCHANGED now \/ Return(t)
    BY <1>3, Zenon DEF Run, MaybeCleanup, CleanupPop, ScanStale, ScanBusy, ScanPurge, UncountBucket,
         CleanupDone, AcquireHit, AcquireMiss, ReserveBucket, EntryOccupied, EntryVacant,
         ScheduleCleanup, PushTicket, AdmitEnter, AdmitDecide, SettleLocked, InspectLocked,
         Release, AfterRelease, RetryOrFail, RemoveEmpty, UncountEmpty
  <2>3. UNCHANGED pc \/ \E l : Goto(t, l)
    BY <1>3, Zenon DEF Run, MaybeCleanup, CleanupPop, ScanStale, ScanBusy, ScanPurge, UncountBucket,
         CleanupDone, AcquireHit, AcquireMiss, TakeLease, ReserveBucket, EntryOccupied, EntryVacant,
         ScheduleCleanup, PushTicket, AdmitEnter, AdmitDecide, AdmitRollback, Finish, SettleLocked,
         SettleApply, InspectLocked, Release, AfterRelease, RetryOrFail, Return, RemoveEmpty, UncountEmpty
  <2>4. \A u \in Threads : pc'[u] # "idle" => pc[u] # "idle"
    BY <1>1, <2>1, <2>3 DEF Goto
  <2>5. \A u \in Threads : pc'[u] # "idle" => now'[u] = now[u]
    BY <1>1, <2>2 DEF Return, Goto
  <2> QED BY <2>1, <2>4, <2>5 DEF TimeInv
<1>4. ASSUME Tick PROVE TimeInv'
  <2>1. /\ clock' = clock + 1 /\ UNCHANGED <<pc, now>>
        /\ \A t \in Threads : pc[t] # "idle" => clock - now[t] < MaxDelay
    BY <1>4 DEF Tick, threadVars
  <2> QED BY <1>1, <2>1 DEF TimeInv
<1>5. ASSUME UNCHANGED vars PROVE TimeInv'
  BY <1>5 DEF TimeInv, vars, sharedVars, threadVars
<1> QED BY <1>2, <1>3, <1>4, <1>5 DEF Next

ShelfInv == \A c \in Cells : Sound(window[c], admissions[c], generation[c], nextId, clock)

(* What a cell holds, when the state has its shape. *)
LEMMA CellShapes ==
  TypeOK => /\ \A c \in Cells : /\ window[c] \in Window \cup {None} /\ admissions[c] \in Shelf
                                /\ generation[c] \in Nat
            /\ nextId \in Nat /\ clock \in Nat
  BY DEF TypeOK, CellTypeOK, SharedTypeOK, CallerTypeOK, Shelf

(* A step inside one cell. *)
LEMMA OneCellSound ==
  ASSUME TypeOK, ShelfInv, nextId' \in Nat, nextId <= nextId', clock' \in Nat, clock <= clock', NEW c \in Cells,
         Sound(window'[c], admissions'[c], generation'[c], nextId', clock'),
         \A e \in Cells \ {c} : /\ window'[e] = window[e] /\ admissions'[e] = admissions[e]
                                /\ generation'[e] = generation[e]
  PROVE  ShelfInv'
<1> SUFFICES ASSUME NEW e \in Cells
             PROVE  Sound(window'[e], admissions'[e], generation'[e], nextId', clock')
  BY DEF ShelfInv
<1>1. CASE e = c
  BY <1>1
<1>2. CASE e # c
  <2>1. Sound(window[e], admissions[e], generation[e], nextId', clock')
    BY CellShapes, SoundLater DEF ShelfInv
  <2> QED BY <1>2, <2>1
<1> QED BY <1>1, <1>2

(* A step that leaves the cells alone. *)
LEMMA QuietSound ==
  ASSUME TypeOK, ShelfInv, nextId' = nextId, clock' \in Nat, clock <= clock',
         UNCHANGED <<window, admissions, generation>>
  PROVE  ShelfInv'
<1> SUFFICES ASSUME NEW e \in Cells
             PROVE  Sound(window'[e], admissions'[e], generation'[e], nextId', clock')
  BY DEF ShelfInv
<1>1. Sound(window[e], admissions[e], generation[e], nextId', clock')
  BY CellShapes, SoundLater DEF ShelfInv
<1> QED BY <1>1

(* A purge of one cell, whatever else the step does outside the cells. *)
LEMMA PurgedSound ==
  ASSUME TypeOK, ShelfInv, NEW c \in Cells, NEW k \in Nat
  PROVE  /\ Sound(PurgedWindow(c, k), PurgedAdmissions(c, k), generation[c], nextId, clock)
         /\ PurgedWindow(c, k) \in Window \cup {None} /\ PurgedAdmissions(c, k) \in Shelf
<1>1. PurgedWindow(c, k) \in Window \cup {None} /\ PurgedAdmissions(c, k) \in Shelf
  BY PurgeType DEF Shelf
<1>2. PurgedWindow(c, k) = IF window[c] # None /\ k >= window[c].reset THEN None ELSE window[c]
  BY DEF PurgedWindow
<1>3. \A r \in Requests : PurgedAdmissions(c, k)[r]
                            = IF Removable(admissions[c][r], k) THEN None ELSE admissions[c][r]
  BY DEF PurgedAdmissions
<1>4. Sound(window[c], admissions[c], generation[c], nextId, clock)
  BY DEF ShelfInv
<1> HIDE DEF PurgedWindow, PurgedAdmissions
<1> QED BY <1>1, <1>2, <1>3, <1>4, CellShapes, PurgeSound

(* The calls that only purge. *)
LEMMA PurgeShelf ==
  ASSUME TypeOK, ShelfInv, NEW c \in Cells, NEW k \in Nat,
         window' = [window EXCEPT ![c] = PurgedWindow(c, k)],
         admissions' = [admissions EXCEPT ![c] = PurgedAdmissions(c, k)],
         UNCHANGED <<generation, nextId, clock>>
  PROVE  ShelfInv'
<1>1. window \in [Cells -> Window \cup {None}] /\ admissions \in [Cells -> [Requests -> Record \cup {None}]]
  BY DEF TypeOK, CellTypeOK
<1>2. /\ window'[c] = PurgedWindow(c, k) /\ admissions'[c] = PurgedAdmissions(c, k)
      /\ \A e \in Cells \ {c} : window'[e] = window[e] /\ admissions'[e] = admissions[e]
  BY <1>1
<1>3. Sound(window'[c], admissions'[c], generation'[c], nextId', clock')
  BY <1>2, PurgedSound
<1> QED BY <1>2, <1>3, CellShapes, OneCellSound

(* A decision: the window is made if there is none, and the record enters.   *)
LEMMA AdmitDecideSound ==
  ASSUME MaxDelay <= Lifetime + Grace, TypeInv, TypeOK', DecideInv, TimeInv, ShelfInv,
         NEW t \in Threads, AdmitDecide(t)
  PROVE  ShelfInv'
<1> DEFINE c == lease[t]
           cmd == op[t].cmd
           req == cmd.request
           w == EnsuredWindow(c, cmd, now[t])
           cand == Candidate(w, cmd)
           tk == [id |-> nextId, cmd |-> cmd, cell |-> c, gen |-> w.gen]
           rec(y) == [cmd |-> cmd, token |-> y, settlement |-> None,
                      retainUntil |-> RetainUntil(w, now[t])]
<1>1. /\ c \in Cells /\ cmd \in Commands /\ req \in Requests /\ TypeOK /\ now[t] \in Nat
      /\ pc[t] = "decide"
  BY EnterFacts DEF TypeInv, AdmitDecide, Command
<1>2. /\ clock' = clock
      /\ \/ UNCHANGED <<window, generation, admissions, nextId>>
         \/ AdmitRecord(t, w, rec(None)) /\ UNCHANGED nextId
         \/ /\ AdmitRecord(t, [w EXCEPT !.used = cand], rec(tk)) /\ nextId' = nextId + 1
            /\ ~Overflows(cand) /\ ~Exceeds(cand, cmd)
  BY Zenon DEF AdmitDecide, AdmitRollback, sharedVars
<1>3. /\ window \in [Cells -> Window \cup {None}] /\ generation \in [Cells -> Nat]
      /\ admissions \in [Cells -> Shelf] /\ nextId \in Nat /\ clock \in Nat
      /\ admissions' \in [Cells -> Shelf]
  BY <1>1 DEF TypeOK, CellTypeOK, CallerTypeOK, SharedTypeOK, Shelf
<1>4. w \in Window
  BY <1>1, EnsuredWindowType
<1>5. now[t] <= clock /\ clock <= now[t] + MaxDelay
  BY <1>1 DEF TimeInv
<1>6. Sound(w, admissions[c], w.gen, nextId, clock)
  <2>1. Sound(window[c], admissions[c], generation[c], nextId, clock)
    BY <1>1 DEF ShelfInv
  <2>2. CASE window[c] # None
    <3>1. w = window[c]
      BY <2>2 DEF EnsuredWindow
    <3>2. w.gen = generation[c]
      BY <2>1, <2>2, <3>1 DEF Sound, Timely
    <3> QED BY <2>1, <3>1, <3>2
  <2>3. CASE window[c] = None
    <3>1. w = NewWindow(c, cmd, now[t])
      BY <2>3 DEF EnsuredWindow
    <3>2. /\ w.gen = generation[c] + 1 /\ w.reset = now[t] + cmd.duration /\ w.duration = cmd.duration
          /\ \A d \in Dims : w.used[d] = 0
      BY <3>1 DEF NewWindow
    <3>3. cmd.duration \in Nat
      BY <1>1 DEF Command
    <3> HIDE DEF w
    <3>4. w.reset <= clock + w.duration
      BY <1>1, <1>3, <1>5, <3>2, <3>3
    <3>5. Sound(None, admissions[c], generation[c], nextId, clock)
      BY <2>1, <2>3
    <3> QED BY <1>1, <1>3, <1>4, <3>2, <3>4, <3>5, EnsureSound
  <2> QED BY <2>2, <2>3
<1>7. /\ w.gen \in Nat /\ RetainUntil(w, now[t]) \in Nat
      /\ RetainUntil(w, now[t]) >= w.reset
  <2>1. w.reset <= clock + w.duration
    BY <1>4, <1>6 DEF Sound, Timely
  <2>2. w.gen \in Nat /\ w.duration \in Nat /\ w.reset \in Nat
    BY <1>4 DEF Window
  <2>3. RetainUntil(w, now[t]) = now[t] + w.duration + Lifetime + Grace
    BY DEF RetainUntil
  <2> QED BY <1>1, <1>3, <1>5, <2>1, <2>2, <2>3
<1>8. admissions[c][req] = None
  BY <1>1 DEF DecideInv
<1>9. tk \in Token /\ tk.id = nextId /\ tk.gen = w.gen
  BY <1>1, <1>3, <1>7 DEF Token
<1>10. \A y : rec(y).cmd = cmd /\ rec(y).token = y /\ rec(y).settlement = None
                /\ rec(y).retainUntil = RetainUntil(w, now[t])
  OBVIOUS
<1>11. \A y \in Token \cup {None} : rec(y) \in Record
  BY <1>1, <1>7 DEF Record
<1> HIDE DEF rec, tk, w, cand, cmd, req, c
<1>12. ASSUME UNCHANGED <<window, generation, admissions, nextId>> PROVE ShelfInv'
  BY <1>1, <1>2, <1>3, <1>12, QuietSound
<1>13. ASSUME NEW v, NEW y, AdmitRecord(t, v, y), v.gen = w.gen
       PROVE  /\ window'[c] = v /\ generation'[c] = w.gen /\ admissions'[c][req] = y
              /\ \A r \in Requests \ {req} : admissions'[c][r] = admissions[c][r]
              /\ \A e \in Cells \ {c} : /\ window'[e] = window[e] /\ admissions'[e] = admissions[e]
                                        /\ generation'[e] = generation[e]
  <2>1. /\ window' = [window EXCEPT ![c] = v] /\ generation' = [generation EXCEPT ![c] = v.gen]
        /\ admissions' = [admissions EXCEPT ![c][req] = y]
    BY <1>13 DEF AdmitRecord, c, req, cmd
  <2>2. window'[c] = v /\ \A e \in Cells \ {c} : window'[e] = window[e]
    BY <1>1, <1>3, <2>1
  <2>3. generation'[c] = w.gen /\ \A e \in Cells \ {c} : generation'[e] = generation[e]
    BY <1>1, <1>3, <1>13, <2>1
  <2>4. /\ admissions'[c][req] = y
        /\ \A r \in Requests \ {req} : admissions'[c][r] = admissions[c][r]
        /\ \A e \in Cells \ {c} : admissions'[e] = admissions[e]
    BY <1>1, <1>3, <2>1 DEF Shelf
  <2> QED BY <2>2, <2>3, <2>4
<1>14. ASSUME AdmitRecord(t, w, rec(None)), UNCHANGED nextId PROVE ShelfInv'
  <2>1. /\ window'[c] = w /\ generation'[c] = w.gen /\ admissions'[c][req] = rec(None)
        /\ \A r \in Requests \ {req} : admissions'[c][r] = admissions[c][r]
        /\ \A e \in Cells \ {c} : /\ window'[e] = window[e] /\ admissions'[e] = admissions[e]
                                  /\ generation'[e] = generation[e]
    BY <1>13, <1>14
  <2>2. admissions'[c][req].token = None
    BY <1>10, <2>1
  <2>3. Sound(w, admissions'[c], w.gen, nextId, clock)
    <3>1. PICK b : b = admissions'[c]
      OBVIOUS
    <3>2. b[req].token = None /\ \A r \in Requests \ {req} : b[r] = admissions[c][r]
      BY <2>1, <2>2, <3>1
    <3>3. Sound(w, b, w.gen, nextId, clock)
      BY <1>1, <1>3, <1>6, <1>8, <3>2, RefuseSound
    <3> QED BY <3>1, <3>3
  <2> QED BY <1>1, <1>2, <1>3, <1>14, <2>1, <2>3, OneCellSound
<1>15. ASSUME AdmitRecord(t, [w EXCEPT !.used = cand], rec(tk)), nextId' = nextId + 1,
              ~Overflows(cand), ~Exceeds(cand, cmd)
       PROVE  ShelfInv'
  <2>1. PICK v : v = [w EXCEPT !.used = cand]
    OBVIOUS
  <2>2. v.gen = w.gen /\ v.reset = w.reset /\ v.duration = w.duration /\ v.used = cand
    BY <1>4, <2>1 DEF Window
  <2>3. /\ window'[c] = v /\ generation'[c] = w.gen /\ admissions'[c][req] = rec(tk)
        /\ \A r \in Requests \ {req} : admissions'[c][r] = admissions[c][r]
        /\ \A e \in Cells \ {c} : /\ window'[e] = window[e] /\ admissions'[e] = admissions[e]
                                  /\ generation'[e] = generation[e]
    BY <1>13, <1>15, <2>1, <2>2
  <2>4. Sound(v, admissions'[c], w.gen, nextId + 1, clock)
    <3>1. PICK b : b = admissions'[c]
      OBVIOUS
    <3>2. /\ b[req] = rec(tk) /\ \A r \in Requests \ {req} : b[r] = admissions[c][r]
          /\ b \in Shelf
      BY <1>1, <1>3, <2>3, <3>1
    <3>3. rec(tk) \in Record /\ rec(tk) # None /\ tk # None
      BY <1>9, <1>11
    <3>4. /\ b[req] # None /\ b[req].token # None /\ b[req].token.gen = w.gen
          /\ b[req].token.id = nextId /\ b[req].settlement = None
          /\ b[req].retainUntil >= w.reset /\ b[req].cmd = cmd
      BY <1>7, <1>9, <1>10, <3>2, <3>3
    <3>5. v \in Window
      <4>1. cand \in Charge
        BY <1>1, <1>4, <1>15, CandidateType DEF cand
      <4> QED BY <1>4, <2>1, <4>1 DEF Window
    <3>6. v.used = Candidate(w, b[req].cmd) /\ ~Exceeds(Candidate(w, b[req].cmd), b[req].cmd)
      BY <1>15, <2>2, <3>4 DEF cand
    <3>7. admissions[c] \in Shelf
      BY <1>1, <1>3
    <3>8. Sound(v, b, w.gen, nextId + 1, clock)
      BY <1>1, <1>3, <1>4, <1>6, <1>8, <2>2, <3>2, <3>4, <3>5, <3>6, <3>7, AdmitSound
    <3> QED BY <3>1, <3>8
  <2> QED BY <1>1, <1>2, <1>3, <1>15, <2>3, <2>4, OneCellSound
<1> QED BY <1>2, <1>12, <1>14, <1>15

(* A settlement is applied exactly to the window it reserved from. *)
LEMMA SettleLockedSound ==
  ASSUME TypeInv, RecordInv, ShelfInv, NEW t \in Threads, SettleLocked(t)
  PROVE  ShelfInv'
<1> DEFINE c == lease[t]
           w == PurgedWindow(c, now[t])
           adm == PurgedAdmissions(c, now[t])
           tok == op[t].token
           p == op[t].payload
           req == tok.cmd.request
           same == w # None /\ w.gen = tok.gen /\ now[t] < w.reset
           adjusted == IF same THEN [w EXCEPT !.used = Adjusted(w, tok.cmd, p.charge)] ELSE w
           settled == SettledRecord(adm[req], p, same, now[t])
<1>1. /\ c \in Cells /\ now[t] \in Nat /\ tok \in Token /\ p \in Payloads /\ TypeOK
      /\ tok.cmd \in Commands /\ req \in Requests /\ tok # None
  BY EnterFacts DEF SettleLocked, Token, Command, TypeInv
<1>2. /\ Sound(w, adm, generation[c], nextId, clock)
      /\ w \in Window \cup {None} /\ adm \in Shelf
  BY <1>1, PurgedSound
<1>3. /\ UNCHANGED <<generation, nextId, clock>>
      /\ \/ /\ window' = [window EXCEPT ![c] = w]
            /\ admissions' = [admissions EXCEPT ![c] = adm]
         \/ /\ adm[req] # None /\ adm[req].token = tok /\ adm[req].settlement = None
            /\ ~(same /\ AdjustmentInvalid(w, tok.cmd, p.charge))
            /\ window' = [window EXCEPT ![c] = adjusted]
            /\ admissions' = [admissions EXCEPT ![c] = [adm EXCEPT ![req] = settled]]
  BY <1>1, <1>2, Zenon DEF SettleLocked, SettleApply, sharedVars
<1>4. CASE /\ window' = [window EXCEPT ![c] = w]
           /\ admissions' = [admissions EXCEPT ![c] = adm]
  BY <1>1, <1>3, <1>4, PurgeShelf
<1>5. w # None => now[t] < w.reset
  <2>1. window[c] \in Window \cup {None}
    BY <1>1 DEF TypeOK, CellTypeOK
  <2> QED BY <1>1, <2>1 DEF PurgedWindow, Window
<1>6. same \in BOOLEAN
  OBVIOUS
<1>7. adm[req] # None =>
        adm[req] = admissions[c][req]
          /\ (adm[req].token # None => adm[req].token.cmd = adm[req].cmd)
  BY <1>1, PurgeKeeps DEF RecordInv
<1>8. ~(same /\ AdjustmentInvalid(w, tok.cmd, p.charge)) =>
        \/ ~same /\ adjusted = w
        \/ /\ same /\ adjusted \in Window /\ adjusted.gen = w.gen /\ adjusted.reset = w.reset
           /\ adjusted.duration = w.duration /\ adjusted.used = Adjusted(w, tok.cmd, p.charge)
  <2>1. CASE same
    <3>1. w \in Window
      BY <1>2, <2>1
    <3>2. ~AdjustmentInvalid(w, tok.cmd, p.charge) => Adjusted(w, tok.cmd, p.charge) \in Charge
      BY <1>1, <3>1, AdjustedType
    <3> QED BY <2>1, <3>1, <3>2 DEF Window
  <2>2. CASE ~same
    BY <2>2
  <2> QED BY <2>1, <2>2
<1>9. window \in [Cells -> Window \cup {None}] /\ admissions \in [Cells -> Shelf]
  BY <1>1 DEF TypeOK, CellTypeOK, Shelf
<1>10. same <=> w # None /\ w.gen = tok.gen
  BY <1>5
<1>11. /\ settled.cmd = adm[req].cmd /\ settled.token = adm[req].token
       /\ settled.settlement = [payload |-> p, applied |-> same]
       /\ settled.retainUntil = IF adm[req].retainUntil > now[t] + Grace
                                THEN adm[req].retainUntil ELSE now[t] + Grace
  BY DEF SettledRecord
<1>12. adm[req] # None => settled \in Record /\ settled # None
  <2> SUFFICES ASSUME adm[req] # None PROVE settled \in Record /\ settled # None
    OBVIOUS
  <2>1. adm[req] \in Record
    BY <1>1, <1>2 DEF Shelf
  <2>2. [payload |-> p, applied |-> same] \in Settlement
    BY <1>1, <1>6 DEF Settlement
  <2>3. settled \in Record
    <3> HIDE DEF same, adm, p, req
    <3> QED BY <1>1, <2>1, <2>2 DEF SettledRecord, Record
  <2> HIDE DEF settled
  <2> QED BY <2>3
<1> HIDE DEF c, w, adm, tok, p, req, same, adjusted, settled
<1>13. CASE /\ adm[req] # None /\ adm[req].token = tok /\ adm[req].settlement = None
            /\ ~(same /\ AdjustmentInvalid(w, tok.cmd, p.charge))
            /\ window' = [window EXCEPT ![c] = adjusted]
            /\ admissions' = [admissions EXCEPT ![c] = [adm EXCEPT ![req] = settled]]
  <2>1. PICK b : b = [adm EXCEPT ![req] = settled]
    OBVIOUS
  <2>2. b \in Shelf /\ b[req] = settled /\ \A r \in Requests \ {req} : b[r] = adm[r]
    BY <1>1, <1>2, <1>12, <1>13, <2>1 DEF Shelf
  <2>3. window'[c] = adjusted /\ \A e \in Cells \ {c} : window'[e] = window[e]
    BY <1>1, <1>9, <1>13
  <2>4. admissions'[c] = b /\ \A e \in Cells \ {c} : admissions'[e] = admissions[e]
    BY <1>1, <1>9, <1>13, <2>1
  <2>5. req \in Counted(w, adm) <=> same
    BY <1>1, <1>10, <1>13 DEF Counted
  <2>6. /\ b[req] # None /\ b[req].cmd = adm[req].cmd /\ b[req].token = adm[req].token
        /\ b[req].settlement # None /\ b[req].settlement.payload = p
        /\ b[req].retainUntil >= adm[req].retainUntil
    <3>1. settled.settlement \in Settlement /\ settled.settlement.payload = p
      BY <1>1, <1>6, <1>11 DEF Settlement
    <3>2. adm[req] \in Record
      BY <1>1, <1>2, <1>13 DEF Shelf
    <3>3. settled.retainUntil >= adm[req].retainUntil
      <4>1. adm[req].retainUntil \in Nat
        BY <3>2 DEF Record
      <4> QED BY <1>1, <1>11, <4>1
    <3> QED BY <1>11, <1>12, <1>13, <2>2, <3>1, <3>3
  <2>7. \/ req \notin Counted(w, adm) /\ adjusted = w
        \/ /\ req \in Counted(w, adm) /\ adjusted # None
           /\ adjusted.gen = w.gen /\ adjusted.reset = w.reset /\ adjusted.duration = w.duration
           /\ adjusted.used = Adjusted(w, adm[req].cmd, b[req].settlement.payload.charge)
    BY <1>1, <1>7, <1>8, <1>13, <2>5, <2>6
  <2>8. adjusted \in Window \cup {None}
    BY <1>2, <1>8, <1>13
  <2>9. Sound(adjusted, b, generation[c], nextId, clock)
    BY <1>1, <1>2, <1>13, <2>2, <2>6, <2>7, <2>8, SettleSound
  <2>10. Sound(window'[c], admissions'[c], generation'[c], nextId', clock')
    BY <1>3, <2>3, <2>4, <2>9
  <2> QED BY <1>1, <1>3, <2>3, <2>4, <2>10, CellShapes, OneCellSound
<1> QED BY <1>3, <1>4, <1>13

(* Every step keeps the cells sound. *)
LEMMA NextShelf ==
  ASSUME MaxDelay <= Lifetime + Grace, TypeInv, TypeOK', DecideInv, RecordInv, TimeInv, ShelfInv,
         [Next]_vars
  PROVE  ShelfInv'
<1>1. TypeOK /\ clock \in Nat
  BY DEF TypeInv, TypeOK, SharedTypeOK
<1>2. ASSUME UNCHANGED <<window, admissions, generation, nextId, clock>> PROVE ShelfInv'
  BY <1>1, <1>2, QuietSound
<1>3. ASSUME NEW t \in Threads, Call(t) PROVE ShelfInv'
  <2>1. UNCHANGED <<window, admissions, generation, nextId, clock>>
    BY <1>3 DEF Call, StartAdmit, StartSettle, StartInspect, Start, cellVars, sharedVars
  <2> QED BY <1>2, <2>1
<1>4. ASSUME NEW t \in Threads,
             \/ MaybeCleanup(t) \/ CleanupPop(t) \/ ScanStale(t) \/ ScanBusy(t) \/ UncountBucket(t)
             \/ CleanupDone(t) \/ AcquireHit(t) \/ AcquireMiss(t) \/ ReserveBucket(t)
             \/ EntryOccupied(t) \/ EntryVacant(t) \/ ScheduleCleanup(t) \/ PushTicket(t)
             \/ Release(t) \/ RemoveEmpty(t) \/ UncountEmpty(t)
      PROVE  ShelfInv'
  <2>1. UNCHANGED <<window, admissions, generation, nextId, clock>>
    BY <1>4 DEF MaybeCleanup, CleanupPop, ScanStale, ScanBusy, UncountBucket, CleanupDone,
         AcquireHit, AcquireMiss, ReserveBucket, EntryOccupied, EntryVacant, ScheduleCleanup,
         PushTicket, Release, RemoveEmpty, UncountEmpty, cellVars, sharedVars, ghostVars
  <2> QED BY <1>2, <2>1
<1>5. ASSUME NEW t \in Threads, AdmitEnter(t) \/ InspectLocked(t) PROVE ShelfInv'
  <2>1. lease[t] \in Cells /\ now[t] \in Nat
    BY <1>5, EnterFacts DEF AdmitEnter, InspectLocked
  <2>2. /\ window' = [window EXCEPT ![lease[t]] = PurgedWindow(lease[t], now[t])]
        /\ admissions' = [admissions EXCEPT ![lease[t]] = PurgedAdmissions(lease[t], now[t])]
        /\ UNCHANGED <<generation, nextId, clock>>
    BY <1>5, Zenon DEF AdmitEnter, InspectLocked, sharedVars, ghostVars
  <2> QED BY <1>1, <2>1, <2>2, PurgeShelf
<1>6. ASSUME NEW t \in Threads, ScanPurge(t) PROVE ShelfInv'
  <2>1. Head(tickets[t]).cell \in Cells /\ now[t] \in Nat
    BY <1>6, ScanFacts DEF ScanPurge, TypeInv, TypeOK, ThreadTypeOK
  <2>2. /\ window' = [window EXCEPT ![Head(tickets[t]).cell] = PurgedWindow(Head(tickets[t]).cell, now[t])]
        /\ admissions' = [admissions EXCEPT ![Head(tickets[t]).cell] = PurgedAdmissions(Head(tickets[t]).cell, now[t])]
        /\ UNCHANGED <<generation, nextId, clock>>
    BY <1>6, Zenon DEF ScanPurge, ghostVars
  <2> QED BY <1>1, <2>1, <2>2, PurgeShelf
<1>7. ASSUME Tick PROVE ShelfInv'
  <2>1. clock' = clock + 1 /\ UNCHANGED <<window, admissions, generation, nextId>>
    BY <1>7 DEF Tick, cellVars, ghostVars
  <2> QED BY <1>1, <2>1, QuietSound
<1>8. ASSUME UNCHANGED vars PROVE ShelfInv'
  BY <1>2, <1>8 DEF vars, cellVars, sharedVars, ghostVars
<1> QED
  BY <1>3, <1>4, <1>5, <1>6, <1>7, <1>8, AdmitDecideSound, SettleLockedSound DEF Next, Run

(* A set of naturals has a least member. *)
LEMMA LeastNat ==
  ASSUME NEW T \in SUBSET Nat, T # {}
  PROVE  \E m \in T : \A j \in T : m <= j
<1> DEFINE Less == {ss \in Nat \X Nat : ss[1] < ss[2]}
<1>1. IsWellFoundedOn(Less, Nat)
  BY NatLessThanWellFounded DEF OpToRel
<1>2. \A i, j \in Nat : <<j, i>> \in Less <=> j < i
  OBVIOUS
<1> HIDE DEF Less
<1>3. PICK m \in T : \A j \in T : ~ (<<j, m>> \in Less)
  BY <1>1, WFMin
<1>4. \A j \in T : ~(j < m)
  BY <1>2, <1>3, Zenon
<1>5. \A j \in T : m <= j
  BY <1>4
<1> QED BY <1>5

(* The last of the unsettled reservations that hold something has a limit    *)
(* that all of them fit together.                                            *)
LEMMA LatestFits ==
  ASSUME NEW w, NEW a \in Shelf, NEW g, NEW n \in Nat, NEW T, Sound(w, a, g, n, T), NEW d \in Dims,
         Charged(a, d, Open(w, a)) > 0
  PROVE  \E r \in Open(w, a) : a[r].cmd.limits[d] >= Charged(a, d, Open(w, a))
<1> DEFINE O == Open(w, a)
           P == {r \in O : ChargeOf(a[r], d) > 0}
           M == {m \in Nat : \E r \in P : m = n - a[r].token.id}
<1>1. O \subseteq Present(a) /\ \A r \in O : a[r] \in Record /\ a[r].token.id \in Nat /\ a[r].token.id < n
  <2>1. O \subseteq Counted(w, a) /\ Counted(w, a) \subseteq Present(a)
    BY CountedFacts
  <2>2. \A r \in Counted(w, a) : r \in Requests /\ a[r] \in Record /\ a[r] # None /\ a[r].token # None
    BY CountedFacts DEF Counted
  <2> QED BY <2>1, <2>2 DEF Sound, Known, Record, Token
<1>2. Charged(a, d, O) = Charged(a, d, P)
  <2>1. \A r \in O : ChargeOf(a[r], d) \in Nat
    BY <1>1, ChargeType
  <2>2. Pairs(a, d, O) = Pairs(a, d, P)
    <3>1. \A r \in O \ P : 1..ChargeOf(a[r], d) = {}
      BY <2>1
    <3> QED BY <3>1 DEF Pairs
  <2> QED BY <2>2, ChargedIs
<1>3. P # {}
  <2>1. SUFFICES ASSUME P = {} PROVE FALSE
    OBVIOUS
  <2> HIDE DEF P, O
  <2>2. Charged(a, d, O) = 0
    BY <1>2, <2>1, ChargedNone
  <2> QED BY <2>2 DEF O
<1>4. \A r \in P : r \in O /\ a[r].token.id \in Nat /\ n - a[r].token.id \in M
  BY <1>1
<1>5. M \in SUBSET Nat /\ M # {}
  BY <1>3, <1>4
<1>6. PICK m \in M : \A j \in M : m <= j
  <2> HIDE DEF M
  <2> QED BY <1>5, LeastNat
<1>7. PICK r \in P : m = n - a[r].token.id
  BY <1>6
<1>8. \A s \in P : a[s].token.id <= a[r].token.id
  BY <1>4, <1>6, <1>7
<1>9. P \subseteq Earlier(w, a, r) /\ Earlier(w, a, r) \subseteq O /\ r \in O
  BY <1>8 DEF Earlier
<1>10. Charged(a, d, P) <= Charged(a, d, Earlier(w, a, r))
  BY <1>1, <1>9, ChargedMono
<1>11. a[r].cmd.limits[d] # 0
  BY <1>7 DEF ChargeOf
<1>12. Charged(a, d, Earlier(w, a, r)) <= a[r].cmd.limits[d]
  BY <1>9, <1>11 DEF Sound, Fits
<1>13. /\ Charged(a, d, P) \in Nat /\ Charged(a, d, Earlier(w, a, r)) \in Nat
       /\ a[r].cmd.limits[d] \in Nat
  <2>1. P \subseteq Present(a) /\ Earlier(w, a, r) \subseteq Present(a) /\ a[r] \in Record
    BY <1>1, <1>9
  <2> QED BY <2>1, PairsFinite, ChargeType
<1>14. a[r].cmd.limits[d] >= Charged(a, d, O)
  BY <1>2, <1>10, <1>12, <1>13
<1> QED BY <1>9, <1>14

(* Sound cells account for what their windows show. *)
LEMMA ShelfAccounts == TypeOK /\ ShelfInv => WindowAccounting
<1> SUFFICES ASSUME TypeOK, ShelfInv, NEW c \in Cells, NEW d \in Dims
             PROVE  LET out  == {r \in Requests : InWindow(c, r) /\ admissions[c][r].settlement = None}
                        held == Cardinality(Units(c, d, out))
                    IN /\ window[c] # None =>
                            window[c].used[d] = Cardinality(Units(c, d, {r \in Requests : InWindow(c, r)}))
                       /\ held > 0 => \E r \in out : admissions[c][r].cmd.limits[d] >= held
  BY DEF WindowAccounting
<1>1. \A S : Cardinality(Units(c, d, S)) = Charged(admissions[c], d, S)
  BY DEF Units, Charged
<1>2. {r \in Requests : InWindow(c, r)} = Counted(window[c], admissions[c])
  BY DEF InWindow, Counted
<1>3. {r \in Requests : InWindow(c, r) /\ admissions[c][r].settlement = None}
        = Open(window[c], admissions[c])
  BY DEF InWindow, Open, Counted
<1>4. Sound(window[c], admissions[c], generation[c], nextId, clock)
  BY DEF ShelfInv
<1>5. window[c] # None =>
        window[c].used[d] = Charged(admissions[c], d, Counted(window[c], admissions[c]))
  BY <1>4 DEF Sound, Exact
<1>6. Charged(admissions[c], d, Open(window[c], admissions[c])) > 0 =>
        \E r \in Open(window[c], admissions[c]) :
          admissions[c][r].cmd.limits[d] >= Charged(admissions[c], d, Open(window[c], admissions[c]))
  BY <1>4, CellShapes, LatestFits
<1> QED BY <1>1, <1>2, <1>3, <1>5, <1>6

(* The counters of a window are exactly the charges remembered for it, and   *)
(* what is reserved in it fits the limit of one of its reservations, for any *)
(* threads, keys, commands and capacities, as long as no call is delayed for *)
(* longer than a settled record is kept (MaxDelay <= Lifetime + Grace:       *)
(* retain_until is computed from the time the call read, so a slower call    *)
(* could be forgotten while its window still counts it).  WindowAccounting   *)
(* needs that tokens are never of a later generation than their cell, that   *)
(* what counts is retained until its window ends, and that each reservation  *)
(* fitted its own limit together with the unsettled ones admitted before it. *)
THEOREM WindowsExact ==
  ASSUME MaxDelay <= Lifetime + Grace
  PROVE  Spec => []WindowAccounting
<1>1. Init => WindowInv
  <2> SUFFICES ASSUME Init PROVE WindowInv
    OBVIOUS
  <2>1. TimeInv
    BY DEF Init, TimeInv
  <2>2. ASSUME NEW c \in Cells
        PROVE  Sound(window[c], admissions[c], generation[c], nextId, clock)
    <3>1. window[c] = None /\ \A r \in Requests : admissions[c][r] = None
      BY DEF Init
    <3>2. Counted(None, admissions[c]) = {} /\ Open(None, admissions[c]) = {}
      BY DEF Counted, Open
    <3> QED BY <3>1, <3>2 DEF Sound, Timely, Known, Retained, Exact, Fits
  <2> QED BY <2>1, <2>2, InitReservation DEF WindowInv
<1>2. WindowInv /\ [Next]_vars => WindowInv'
  <2> SUFFICES ASSUME WindowInv, [Next]_vars PROVE WindowInv'
    OBVIOUS
  <2>1. ReservationInv /\ TimeInv /\ ShelfInv
    BY DEF WindowInv, ShelfInv
  <2>2. ReservationInv'
    BY <2>1, NextReservation
  <2>3. TypeInv /\ TypeOK' /\ DecideInv /\ RecordInv
    BY <2>1, <2>2 DEF ReservationInv, LeaseInv, TypeInv
  <2>4. TimeInv' /\ ShelfInv'
    BY <2>1, <2>3, NextTime, NextShelf
  <2> QED BY <2>2, <2>4 DEF WindowInv, ShelfInv
<1>3. WindowInv => WindowAccounting
  BY ShelfAccounts DEF WindowInv, ShelfInv, ReservationInv, LeaseInv
<1> QED BY <1>1, <1>2, <1>3, PTL DEF Spec
=============================================================================
