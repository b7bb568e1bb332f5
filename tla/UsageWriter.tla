---------------------------- MODULE UsageWriter -----------------------------
(***************************************************************************)
(* The usage pipeline of the AI gateway: AiUsageWriter and its runner      *)
(* (crates/kong-ai/src/usage/writer.rs) in several processes, over one     *)
(* PostgreSQL store (usage/postgres.rs).                                   *)
(*                                                                         *)
(* A request that ends hands its fact to a bounded queue; one runner per   *)
(* process moves facts into a batch and writes the batch, with retries.    *)
(* A write is a transaction: it takes the advisory lock, inserts (which    *)
(* draws ingest_seq numbers), commits.  A caller that times out leaves a   *)
(* transaction behind: it holds the lock until the server ends it, and if  *)
(* its COMMIT was sent, it may still commit.  Readers of the analytics     *)
(* page through what a high watermark of ingest_seq delimits.              *)
(*                                                                         *)
(* Left out: the DB-less store, the end of the channel when every sender   *)
(* is dropped (the collector keeps one), counters no property is about.    *)
(***************************************************************************)
EXTENDS Integers, Sequences, SequencesExt, FiniteSets, FiniteSetsExt

CONSTANTS
  Processes,
  Facts,        \* usage facts; a request has one
  HomeOf,       \* the process a fact arises in
  Capacity,     \* queue_capacity
  BatchSize,    \* batch_size
  MaxRetries,   \* the number of RETRY_DELAYS
  None

ASSUME WriterAssumption ==
  /\ IsFiniteSet(Facts)
  /\ HomeOf \in [Facts -> Processes]
  /\ Capacity \in Nat \ {0} /\ BatchSize \in 1..Capacity
  /\ MaxRetries \in Nat

VARIABLES
  caller,     \* per fact: where its try_enqueue is
  queue,      \* per process: the channel
  accepting,  \* per process: AtomicBool; the channel is closed when it is reset
  depth,      \* per process: queue_depth
  stats,      \* per process: the other counters
  runner,     \* per process: where the runner is
  batch,      \* per process
  retries,    \* per process: delays used by the flush under way (0: none)
  unknown,    \* per process: saw_unknown_outcome
  bounded,    \* per process: the flush under way has a deadline
  shutdown,   \* per process: how far the shutdown has come
  tx,         \* per process: the transaction of the attempt under way
  zombie,     \* a transaction whose caller is gone and that holds the lock
  seq,        \* the committed rows: ingest_seq of a fact, 0 for none
  nextSeq,    \* the identity sequence of ingest_seq
  snapshot,   \* history: a snapshot handed to a reader, with the rows it saw
  outcome     \* history: what the runner concluded about a fact

callerVars == <<caller>>
queueVars == <<queue, accepting, depth, stats>>
runnerVars == <<runner, batch, retries, unknown, bounded, shutdown>>
storeVars == <<tx, zombie, seq, nextSeq>>
vars == <<callerVars, queueVars, runnerVars, storeVars, snapshot, outcome>>

Counters == {"enqueued", "written", "duplicate", "exhausted", "timeout"}

Transaction == [phase : {"none", "begun", "locked", "inserted", "committing"},
                facts : SUBSET Facts, drawn : [Facts -> Nat]]

NoTransaction == [phase |-> "none", facts |-> {}, drawn |-> [f \in Facts |-> 0]]

(* The pipeline is well typed; in particular the unsigned queue_depth never  *)
(* goes below zero, and no batch exceeds what one INSERT can bind.           *)
TypeOK ==
  /\ caller \in [Facts -> {"idle", "accepted", "counted", "full", "closed", "sent", "done"}]
  /\ queue \in [Processes -> Seq(Facts)] /\ batch \in [Processes -> Seq(Facts)]
  /\ \A p \in Processes : Len(queue[p]) <= Capacity /\ Len(batch[p]) <= BatchSize
  /\ accepting \in [Processes -> BOOLEAN]
  /\ depth \in [Processes -> Nat]
  /\ stats \in [Processes -> [Counters -> Nat]]
  /\ runner \in [Processes -> {"select", "received", "flush", "stop", "stopped"}]
  /\ retries \in [Processes -> 0..MaxRetries]
  /\ unknown \in [Processes -> BOOLEAN] /\ bounded \in [Processes -> BOOLEAN]
  /\ shutdown \in [Processes -> {"none", "signalled", "draining", "expired"}]
  /\ tx \in [Processes -> Transaction]
  /\ zombie \in Transaction
  /\ seq \in [Facts -> Nat] /\ nextSeq \in Nat \ {0}
  /\ snapshot \in [watermark : Nat, rows : SUBSET Facts] \cup {None}
  /\ outcome \in [Facts -> {"none", "stored", "dropped", "unknown"}]

Init ==
  /\ caller = [f \in Facts |-> "idle"]
  /\ queue = [p \in Processes |-> <<>>]
  /\ accepting = [p \in Processes |-> TRUE]
  /\ depth = [p \in Processes |-> 0]
  /\ stats = [p \in Processes |-> [c \in Counters |-> 0]]
  /\ runner = [p \in Processes |-> "select"]
  /\ batch = [p \in Processes |-> <<>>]
  /\ retries = [p \in Processes |-> 0]
  /\ unknown = [p \in Processes |-> FALSE]
  /\ bounded = [p \in Processes |-> FALSE]
  /\ shutdown = [p \in Processes |-> "none"]
  /\ tx = [p \in Processes |-> NoTransaction]
  /\ zombie = NoTransaction
  /\ seq = [f \in Facts |-> 0]
  /\ nextSeq = 1
  /\ snapshot = None
  /\ outcome = [f \in Facts |-> "none"]

Count(p, counter, n) == stats' = [stats EXCEPT ![p][counter] = @ + n]
Move(f, place) == caller' = [caller EXCEPT ![f] = place]
Goto(p, place) == runner' = [runner EXCEPT ![p] = place]

-----------------------------------------------------------------------------
(* try_enqueue *)

CheckAccepting(f) ==
  /\ caller[f] = "idle"
  /\ Move(f, IF accepting[HomeOf[f]] THEN "accepted" ELSE "done")
  /\ UNCHANGED <<queueVars, runnerVars, storeVars, snapshot, outcome>>

CountDepth(f) ==
  /\ caller[f] = "accepted"
  /\ depth' = [depth EXCEPT ![HomeOf[f]] = @ + 1]
  /\ Move(f, "counted")
  /\ UNCHANGED <<queue, accepting, stats, runnerVars, storeVars, snapshot, outcome>>

(* The depth was counted before: the runner can take the fact at once. *)
TrySend(f) ==
  LET p == HomeOf[f] IN
  /\ caller[f] = "counted"
  /\ IF ~accepting[p] THEN Move(f, "closed") /\ UNCHANGED queue
     ELSE IF Len(queue[p]) = Capacity THEN Move(f, "full") /\ UNCHANGED queue
     ELSE Move(f, "sent") /\ queue' = [queue EXCEPT ![p] = Append(@, f)]
  /\ UNCHANGED <<accepting, depth, stats, runnerVars, storeVars, snapshot, outcome>>

SendFailed_KeepsDepth(f) ==
  /\ caller[f] \in {"full", "closed"}
  /\ Move(f, "done")
  /\ UNCHANGED <<queueVars, runnerVars, storeVars, snapshot, outcome>>

SendFailed(f) ==
  /\ caller[f] \in {"full", "closed"}
  /\ depth' = [depth EXCEPT ![HomeOf[f]] = @ - 1]
  /\ Move(f, "done")
  /\ UNCHANGED <<queue, accepting, stats, runnerVars, storeVars, snapshot, outcome>>

SendCounted(f) ==
  /\ caller[f] = "sent"
  /\ Count(HomeOf[f], "enqueued", 1)
  /\ Move(f, "done")
  /\ UNCHANGED <<queue, accepting, depth, runnerVars, storeVars, snapshot, outcome>>

-----------------------------------------------------------------------------
(* The select loop of the runner *)

Receive(p) ==
  /\ runner[p] = "select"
  /\ queue[p] # <<>>
  /\ queue' = [queue EXCEPT ![p] = Tail(@)]
  /\ batch' = [batch EXCEPT ![p] = Append(@, Head(queue[p]))]
  /\ Goto(p, "received")
  /\ UNCHANGED <<callerVars, accepting, depth, stats, retries, unknown, bounded, shutdown>>
  /\ UNCHANGED <<storeVars, snapshot, outcome>>

StartFlush(p) ==
  /\ Goto(p, "flush")
  /\ bounded' = [bounded EXCEPT ![p] = shutdown[p] \in {"draining", "expired"}]

BatchFull(p) == Len(batch[p]) >= BatchSize

Received(p) ==
  /\ runner[p] = "received"
  /\ depth' = [depth EXCEPT ![p] = @ - 1]
  /\ \/ /\ BatchFull(p)
        /\ StartFlush(p)
     \/ /\ ~BatchFull(p)
        /\ Goto(p, "select")
        /\ UNCHANGED bounded
  /\ UNCHANGED <<callerVars, queue, accepting, stats, batch, retries, unknown, shutdown>>
  /\ UNCHANGED <<storeVars, snapshot, outcome>>

(* next_flush is set while the batch is not empty. *)
FlushInterval(p) ==
  /\ runner[p] = "select"
  /\ batch[p] # <<>>
  /\ StartFlush(p)
  /\ UNCHANGED <<callerVars, queueVars, batch, retries, unknown, shutdown, storeVars, snapshot, outcome>>

ShutdownChanged_WithBatch(p) ==
  /\ runner[p] = "select" /\ batch[p] # <<>>
  /\ shutdown[p] = "signalled"
  /\ shutdown' = [shutdown EXCEPT ![p] = "draining"]
  /\ UNCHANGED <<callerVars, queueVars, runner, batch, retries, unknown, bounded>>
  /\ UNCHANGED <<storeVars, snapshot, outcome>>

ShutdownChanged(p) ==
  /\ runner[p] = "select"
  /\ shutdown[p] = "signalled"
  /\ shutdown' = [shutdown EXCEPT ![p] = "draining"]
  /\ UNCHANGED <<callerVars, queueVars, runner, batch, retries, unknown, bounded>>
  /\ UNCHANGED <<storeVars, snapshot, outcome>>

ShutdownDeadline(p) ==
  /\ runner[p] = "select"
  /\ shutdown[p] = "expired"
  /\ Goto(p, "stop")
  /\ UNCHANGED <<callerVars, queueVars, batch, retries, unknown, bounded, shutdown>>
  /\ UNCHANGED <<storeVars, snapshot, outcome>>

Conclude(facts, verdict) ==
  outcome' = [f \in Facts |-> IF f \in facts THEN verdict ELSE outcome[f]]

StopAndCountRemaining_Queue(p) ==
  /\ runner[p] = "stop"
  /\ accepting' = [accepting EXCEPT ![p] = FALSE]
  /\ Count(p, "timeout", Len(queue[p]))
  /\ Conclude(ToSet(queue[p]), "dropped")
  /\ depth' = [depth EXCEPT ![p] = @ - Len(queue[p])]
  /\ queue' = [queue EXCEPT ![p] = <<>>]
  /\ batch' = [batch EXCEPT ![p] = <<>>]
  /\ Goto(p, "stopped")
  /\ UNCHANGED <<callerVars, retries, unknown, bounded, shutdown, storeVars, snapshot>>

(* The channel is closed before it is drained, so no fact arrives after the  *)
(* count.                                                                    *)
StopAndCountRemaining(p) ==
  /\ runner[p] = "stop"
  /\ accepting' = [accepting EXCEPT ![p] = FALSE]
  /\ Count(p, "timeout", Len(batch[p]) + Len(queue[p]))
  /\ Conclude(ToSet(batch[p]) \cup ToSet(queue[p]), "dropped")
  /\ depth' = [depth EXCEPT ![p] = @ - Len(queue[p])]
  /\ queue' = [queue EXCEPT ![p] = <<>>]
  /\ batch' = [batch EXCEPT ![p] = <<>>]
  /\ Goto(p, "stopped")
  /\ UNCHANGED <<callerVars, retries, unknown, bounded, shutdown, storeVars, snapshot>>

-----------------------------------------------------------------------------
(* flush: one transaction per attempt (insert_batch of usage/postgres.rs) *)

HoldsLock(t) == t.phase \in {"locked", "inserted", "committing"}

LockFree_Always == TRUE

(* pg_advisory_xact_lock: one transaction at a time, until its end. *)
LockFree == ~HoldsLock(zombie) /\ \A p \in Processes : ~HoldsLock(tx[p])

Begin(p) ==
  /\ runner[p] = "flush"
  /\ tx[p].phase = "none"
  /\ tx' = [tx EXCEPT ![p] = [@ EXCEPT !.phase = "begun", !.facts = ToSet(batch[p])]]
  /\ UNCHANGED <<callerVars, queueVars, runnerVars, zombie, seq, nextSeq, snapshot, outcome>>

TakeLock(p) ==
  /\ tx[p].phase = "begun"
  /\ LockFree
  /\ tx' = [tx EXCEPT ![p].phase = "locked"]
  /\ UNCHANGED <<callerVars, queueVars, runnerVars, zombie, seq, nextSeq, snapshot, outcome>>

(* INSERT ... ON CONFLICT (request_id) DO NOTHING: every row draws a number, *)
(* in the order of the batch; a row that is there already keeps its own.     *)
Drawn(p) ==
  [f \in Facts |->
     IF f \in tx[p].facts /\ seq[f] = 0
     THEN nextSeq + SelectInSeq(batch[p], LAMBDA g : g = f) - 1 ELSE 0]

Insert(p) ==
  /\ tx[p].phase = "locked"
  /\ tx' = [tx EXCEPT ![p] = [@ EXCEPT !.phase = "inserted", !.drawn = Drawn(p)]]
  /\ nextSeq' = nextSeq + Len(batch[p])
  /\ UNCHANGED <<callerVars, queueVars, runnerVars, zombie, seq, snapshot, outcome>>

SendCommit(p) ==
  /\ tx[p].phase = "inserted"
  /\ tx' = [tx EXCEPT ![p].phase = "committing"]
  /\ UNCHANGED <<callerVars, queueVars, runnerVars, zombie, seq, nextSeq, snapshot, outcome>>

Committed(t) ==
  seq' = [f \in Facts |-> IF t.drawn[f] # 0 THEN t.drawn[f] ELSE seq[f]]

NewRows(t) == {f \in Facts : t.drawn[f] # 0}

EndFlush(p, verdict) ==
  /\ Conclude(ToSet(batch[p]), verdict)
  /\ batch' = [batch EXCEPT ![p] = <<>>]
  /\ retries' = [retries EXCEPT ![p] = 0]
  /\ unknown' = [unknown EXCEPT ![p] = FALSE]
  /\ bounded' = [bounded EXCEPT ![p] = FALSE]

Persisted(p) ==
  /\ tx[p].phase = "committing"
  /\ Committed(tx[p])
  /\ tx' = [tx EXCEPT ![p] = NoTransaction]
  /\ stats' = [stats EXCEPT
                 ![p]["written"] = @ + Cardinality(NewRows(tx[p])),
                 ![p]["duplicate"] = @ + Len(batch[p]) - Cardinality(NewRows(tx[p]))]
  /\ EndFlush(p, "stored")
  /\ Goto(p, "select")
  /\ UNCHANGED <<callerVars, queue, accepting, depth, shutdown, zombie, nextSeq, snapshot>>

ConfirmedFailure_AnyOutcome(p) == TRUE

(* A batch is given up for lost only if every attempt certainly failed. *)
ConfirmedFailure(p) == ~unknown[p]

(* The retries are used up, or the error is not worth one. *)
GiveUp(p, sawUnknown) ==
  /\ IF ConfirmedFailure(p) /\ ~sawUnknown
     THEN Count(p, "exhausted", Len(batch[p])) /\ EndFlush(p, "dropped")
     ELSE UNCHANGED stats /\ EndFlush(p, "unknown")
  /\ Goto(p, "select")
  /\ UNCHANGED <<queue, accepting, depth, shutdown>>

Retry_Forever(p, sawUnknown) ==
  /\ unknown' = [unknown EXCEPT ![p] = @ \/ sawUnknown]
  /\ UNCHANGED <<queueVars, runner, batch, retries, bounded, shutdown, outcome>>

Retry(p, sawUnknown) ==
  /\ retries' = [retries EXCEPT ![p] = @ + 1]
  /\ unknown' = [unknown EXCEPT ![p] = @ \/ sawUnknown]
  /\ UNCHANGED <<queueVars, runner, batch, bounded, shutdown, outcome>>

(* The attempt failed and was rolled back. *)
AttemptFails(p, transient) ==
  /\ tx[p].phase # "none"
  /\ tx' = [tx EXCEPT ![p] = NoTransaction]
  /\ IF transient /\ retries[p] < MaxRetries THEN Retry(p, FALSE) ELSE GiveUp(p, FALSE)
  /\ UNCHANGED <<callerVars, zombie, seq, nextSeq, snapshot>>

(* The caller of the transaction is gone: WRITE_TIMEOUT, or a COMMIT without *)
(* an answer.                                                                *)
Abandon(p) ==
  /\ tx' = [tx EXCEPT ![p] = NoTransaction]
  /\ IF HoldsLock(tx[p]) THEN zombie' = tx[p] ELSE UNCHANGED zombie

AttemptUnknown(p) ==
  /\ tx[p].phase # "none"
  /\ Abandon(p)
  /\ IF retries[p] < MaxRetries THEN Retry(p, TRUE) ELSE GiveUp(p, TRUE)
  /\ UNCHANGED <<callerVars, seq, nextSeq, snapshot>>

(* flush_with_deadline: the shutdown window ends during the flush. *)
FlushDeadline(p) ==
  /\ runner[p] = "flush"
  /\ bounded[p] /\ shutdown[p] = "expired"
  /\ Abandon(p)
  /\ EndFlush(p, "unknown")
  /\ Goto(p, "stop")
  /\ UNCHANGED <<callerVars, queueVars, shutdown, seq, nextSeq, snapshot>>

(* The server ends an abandoned transaction. *)
ZombieEnds ==
  /\ zombie.phase # "none"
  /\ \/ zombie.phase = "committing" /\ Committed(zombie)
     \/ UNCHANGED seq
  /\ zombie' = NoTransaction
  /\ UNCHANGED <<callerVars, queueVars, runnerVars, tx, nextSeq, snapshot, outcome>>

-----------------------------------------------------------------------------

(* current_high_watermark, in a snapshot of the analytics. *)
Rows(watermark) == {f \in Facts : seq[f] \in 1..watermark}
Watermark == Max({seq[f] : f \in Facts} \cup {0})

TakeSnapshot ==
  /\ snapshot = None
  /\ snapshot' = [watermark |-> Watermark, rows |-> Rows(Watermark)]
  /\ UNCHANGED <<callerVars, queueVars, runnerVars, storeVars, outcome>>

Signal(p) ==
  /\ shutdown[p] = "none"
  /\ shutdown' = [shutdown EXCEPT ![p] = "signalled"]
  /\ UNCHANGED <<callerVars, queueVars, runner, batch, retries, unknown, bounded>>
  /\ UNCHANGED <<storeVars, snapshot, outcome>>

WindowEnds(p) ==
  /\ shutdown[p] = "draining"
  /\ shutdown' = [shutdown EXCEPT ![p] = "expired"]
  /\ UNCHANGED <<callerVars, queueVars, runner, batch, retries, unknown, bounded>>
  /\ UNCHANGED <<storeVars, snapshot, outcome>>

TryEnqueue(f) ==
  CheckAccepting(f) \/ CountDepth(f) \/ TrySend(f) \/ SendFailed(f) \/ SendCounted(f)

Attempt(p) ==
  \/ Begin(p) \/ TakeLock(p) \/ Insert(p) \/ SendCommit(p) \/ Persisted(p)
  \/ \E transient \in BOOLEAN : AttemptFails(p, transient)
  \/ AttemptUnknown(p)
  \/ FlushDeadline(p)

Run(p) ==
  \/ Receive(p) \/ Received(p) \/ FlushInterval(p)
  \/ ShutdownChanged(p) \/ ShutdownDeadline(p) \/ StopAndCountRemaining(p)
  \/ Attempt(p)

Next ==
  \/ \E f \in Facts : TryEnqueue(f)
  \/ \E p \in Processes : Run(p) \/ Signal(p) \/ WindowEnds(p)
  \/ ZombieEnds
  \/ TakeSnapshot

Spec == Init /\ [][Next]_vars

(* The runner's task is scheduled, its timers fire, and the database or a    *)
(* timeout ends every attempt.                                               *)
FairSpec ==
  Spec /\ \A p \in Processes : WF_vars(Run(p)) /\ WF_vars(WindowEnds(p))

-----------------------------------------------------------------------------
(* Properties *)

FactsOf(p) == {f \in Facts : HomeOf[f] = p}

(* Every fact that entered the queue is in the queue, in the batch, or       *)
(* counted exactly once as written, duplicate or dropped, or belongs to a    *)
(* batch whose outcome is unknown: none vanishes in a retry or a shutdown.   *)
(* What was counted as dropped is not in the database, and no transaction    *)
(* left behind will bring it there.  The gauge queue_depth follows the       *)
(* channel, up to the calls between counting and sending (or taking back)    *)
(* and the fact the runner has just taken.                                   *)
FactsConserved ==
  /\ \A p \in Processes :
       /\ stats[p]["enqueued"] + Cardinality({f \in FactsOf(p) : caller[f] = "sent"})
            = Len(queue[p]) + Len(batch[p])
              + stats[p]["written"] + stats[p]["duplicate"]
              + stats[p]["exhausted"] + stats[p]["timeout"]
              + Cardinality({f \in FactsOf(p) : outcome[f] = "unknown"})
       /\ depth[p] = Len(queue[p])
            + Cardinality({f \in FactsOf(p) : caller[f] \in {"counted", "full", "closed"}})
            + (IF runner[p] = "received" THEN 1 ELSE 0)
  /\ \A f \in Facts : outcome[f] = "dropped" => seq[f] = 0 /\ zombie.drawn[f] = 0

(* A snapshot's rows are settled: what its watermark delimits never changes, *)
(* although several processes draw numbers and commit, also long after their *)
(* callers gave up.                                                          *)
SnapshotStable == snapshot # None => Rows(snapshot.watermark) = snapshot.rows

(* A fact in the queue is written or given up in the end, and a runner that  *)
(* is told to stop does.                                                     *)
FactsLeave ==
  /\ \A f \in Facts : caller[f] = "sent" ~> outcome[f] # "none"
  /\ \A p \in Processes : shutdown[p] = "signalled" ~> runner[p] = "stopped"
-----------------------------------------------------------------------------
(* The inductive invariant *)

Waiting(p) == ToSet(queue[p])
InFlush(p) == ToSet(batch[p])
Unsent == {"idle", "accepted", "counted", "full", "closed"}

(* A fact is in one place of its own process: the sequences repeat nothing,  *)
(* share nothing, and hold only facts that were sent and are not concluded.  *)
HeldInv ==
  /\ \A p \in Processes :
       /\ IsInjective(queue[p]) /\ IsInjective(batch[p])
       /\ Waiting(p) \cap InFlush(p) = {}
       /\ \A f \in Waiting(p) \cup InFlush(p) :
            HomeOf[f] = p /\ caller[f] \notin Unsent /\ outcome[f] = "none"
  /\ \A f \in Facts : caller[f] \in Unsent => outcome[f] = "none"

(* Only a flush has a transaction, which is about its batch, or an attempt   *)
(* of unknown outcome behind it; the batch has room where it is added to.    *)
FlushInv ==
  \A p \in Processes :
    /\ runner[p] # "flush" => ~unknown[p] /\ tx[p].phase = "none"
    /\ tx[p].phase # "none" => tx[p].facts = InFlush(p)
    /\ runner[p] = "select" => Len(batch[p]) < BatchSize

(* The advisory lock has one holder, a process or what one left behind, and  *)
(* only the holder has drawn numbers.                                        *)
LockInv ==
  /\ zombie.phase # "none" => HoldsLock(zombie)
  /\ \A p \in Processes :
       /\ ~(HoldsLock(zombie) /\ HoldsLock(tx[p]))
       /\ \A q \in Processes : HoldsLock(tx[p]) /\ HoldsLock(tx[q]) => p = q
       /\ tx[p].phase \in {"none", "begun", "locked"} => NewRows(tx[p]) = {}
       /\ NewRows(tx[p]) \subseteq tx[p].facts
  /\ zombie.phase \in {"none", "locked"} => NewRows(zombie) = {}

(* The numbers a transaction has drawn lie above every committed row and     *)
(* above the watermark of a snapshot, and below the next number.             *)
Ahead(t) ==
  \A f \in NewRows(t) :
    /\ seq[f] = 0 /\ t.drawn[f] < nextSeq
    /\ \A g \in Facts : seq[g] < t.drawn[f]
    /\ snapshot # None => snapshot.watermark < t.drawn[f]

SeqInv ==
  /\ \A f \in Facts : seq[f] < nextSeq
  /\ snapshot # None => snapshot.watermark < nextSeq
  /\ Ahead(zombie)
  /\ \A p \in Processes : Ahead(tx[p])

(* A fact that no attempt of unknown outcome has touched is in no row, nor   *)
(* will a transaction left behind make it one.                               *)
Untouched(f) == seq[f] = 0 /\ f \notin NewRows(zombie)

CleanInv ==
  /\ \A f \in Facts : caller[f] \in Unsent => Untouched(f)
  /\ \A p \in Processes :
       /\ \A f \in Waiting(p) : Untouched(f)
       /\ ~unknown[p] => \A f \in InFlush(p) : Untouched(f)

WriterInv ==
  /\ TypeOK /\ HeldInv /\ FlushInv /\ LockInv /\ SeqInv /\ CleanInv
  /\ FactsConserved /\ SnapshotStable
=============================================================================
