------------------------- MODULE UsageWriterProofs --------------------------
(***************************************************************************)
(* Proofs about the usage pipeline for every number of processes and       *)
(* facts, every queue capacity, batch size and number of retries: no fact  *)
(* vanishes or is counted twice, what was counted as dropped never reaches *)
(* the database, and the rows of a snapshot never change.                  *)
(***************************************************************************)
EXTENDS UsageWriter, FiniteSetTheorems, FunctionTheorems, SequenceTheorems,
        WellFoundedInduction, TLAPS

-----------------------------------------------------------------------------
(* Sequences and finite sets *)

(* A set of naturals has a least member. *)
LEMMA LeastNat ==
  ASSUME NEW T \in SUBSET Nat, T # {}
  PROVE  \E m \in T : \A j \in T : m <= j
<1> DEFINE Less == {ss \in Nat \X Nat : ss[1] < ss[2]}
<1>1. IsWellFoundedOn(Less, Nat)
  BY NatLessThanWellFounded DEF OpToRel
<1>2. \A i, j \in Nat : <<j, i>> \in Less <=> j < i
  OBVIOUS
<1> HIDE DEF Less
<1>3. PICK m \in T : \A j \in T : ~ (<<j, m>> \in Less)
  BY <1>1, WFMin
<1>4. \A j \in T : ~(j < m)
  BY <1>2, <1>3, Zenon
<1>5. \A j \in T : m <= j
  BY <1>4
<1> QED BY <1>5

(* Max of a bounded set of naturals is its greatest member. *)
LEMMA MaxOfBounded ==
  ASSUME NEW S \in SUBSET Nat, S # {}, NEW n \in Nat, \A x \in S : x < n
  PROVE  Max(S) \in S /\ \A x \in S : x <= Max(S)
<1> DEFINE Bounds == {b \in Nat : \A x \in S : x <= b}
<1>1. n \in Bounds
  OBVIOUS
<1>2. PICK m \in Bounds : \A j \in Bounds : m <= j
  BY <1>1, LeastNat
<1>3. m \in S
  <2> SUFFICES ASSUME m \notin S PROVE FALSE
    OBVIOUS
  <2>1. PICK y \in S : TRUE
    OBVIOUS
  <2>2. m \in Nat /\ m # 0
    BY <1>2, <2>1
  <2>3. m - 1 \in Bounds
    BY <1>2, <2>2
  <2> QED BY <1>2, <2>2, <2>3
<1>4. \A x \in S : m >= x
  BY <1>2
<1>5. Max(S) \in S /\ \A x \in S : Max(S) >= x
  BY <1>3, <1>4, Zenon DEF Max
<1> QED BY <1>5

(* An empty sequence holds nothing, twice neither. *)
LEMMA EmptyHolds == ToSet(<<>>) = {} /\ IsInjective(<<>>) /\ Len(<<>>) = 0
  BY EmptySeq DEF ToSet, IsInjective

(* What a sequence holds, by index. *)
LEMMA HoldsByIndex ==
  ASSUME NEW s \in Seq(Facts)
  PROVE  /\ ToSet(s) = {s[i] : i \in 1..Len(s)} /\ ToSet(s) \in SUBSET Facts
         /\ Len(s) \in Nat
         /\ IsInjective(s) <=> \A i, j \in 1..Len(s) : s[i] = s[j] => i = j
  BY LenProperties, ElementOfSeq DEF ToSet, IsInjective

(* Append adds one fact. *)
LEMMA AppendHolds ==
  ASSUME NEW s \in Seq(Facts), NEW f \in Facts
  PROVE  /\ Append(s, f) \in Seq(Facts) /\ Len(Append(s, f)) = Len(s) + 1
         /\ ToSet(Append(s, f)) = ToSet(s) \cup {f}
         /\ IsInjective(s) /\ f \notin ToSet(s) => IsInjective(Append(s, f))
<1> DEFINE t == Append(s, f)
<1>1. /\ t \in Seq(Facts) /\ Len(t) = Len(s) + 1 /\ Len(s) \in Nat
      /\ \A i \in 1..Len(s) : t[i] = s[i]
      /\ t[Len(s) + 1] = f
  BY AppendProperties, LenProperties
<1> HIDE DEF t
<1>2. ToSet(t) = {t[i] : i \in 1..Len(t)} /\ ToSet(s) = {s[i] : i \in 1..Len(s)}
  BY <1>1, HoldsByIndex
<1>3. ToSet(t) = ToSet(s) \cup {f}
  BY <1>1, <1>2
<1>4. ASSUME IsInjective(s), f \notin ToSet(s) PROVE IsInjective(t)
  <2>1. \A i, j \in 1..Len(s) : s[i] = s[j] => i = j
    BY <1>4, HoldsByIndex
  <2>2. \A i \in 1..Len(s) : s[i] # f
    BY <1>2, <1>4
  <2>3. \A i, j \in 1..Len(t) : t[i] = t[j] => i = j
    BY <1>1, <2>1, <2>2
  <2> QED BY <1>1, <2>3, HoldsByIndex
<1> QED BY <1>1, <1>3, <1>4 DEF t

(* Tail takes one fact away, the one at the head. *)
LEMMA TailHolds ==
  ASSUME NEW s \in Seq(Facts), s # <<>>
  PROVE  /\ Tail(s) \in Seq(Facts) /\ Len(Tail(s)) = Len(s) - 1 /\ Len(s) >= 1
         /\ Head(s) \in ToSet(s) /\ ToSet(s) = ToSet(Tail(s)) \cup {Head(s)}
         /\ IsInjective(s) => IsInjective(Tail(s)) /\ Head(s) \notin ToSet(Tail(s))
<1> DEFINE t == Tail(s)
           h == Head(s)
<1>1. /\ t \in Seq(Facts) /\ Len(t) = Len(s) - 1 /\ Len(s) \in Nat \ {0}
      /\ \A i \in 1..Len(t) : t[i] = s[i + 1]
      /\ h = s[1]
  BY HeadTailProperties, EmptySeq, LenProperties
<1> HIDE DEF t, h
<1>2. ToSet(t) = {t[i] : i \in 1..Len(t)} /\ ToSet(s) = {s[i] : i \in 1..Len(s)}
  BY <1>1, HoldsByIndex
<1>3. ToSet(s) \subseteq ToSet(t) \cup {h}
  <2> SUFFICES ASSUME NEW i \in 1..Len(s) PROVE s[i] \in ToSet(t) \cup {h}
    BY <1>2
  <2>1. CASE i = 1
    BY <1>1, <2>1
  <2>2. CASE i # 1
    <3>1. i - 1 \in 1..Len(t) /\ t[i - 1] = s[i]
      BY <1>1, <2>2
    <3> QED BY <1>2, <3>1
  <2> QED BY <2>1, <2>2
<1>4. ToSet(t) \subseteq ToSet(s) /\ h \in ToSet(s)
  <2>1. \A i \in 1..Len(t) : i + 1 \in 1..Len(s)
    BY <1>1
  <2>2. 1 \in 1..Len(s)
    BY <1>1
  <2> QED BY <1>1, <1>2, <2>1, <2>2
<1>5. ASSUME IsInjective(s) PROVE IsInjective(t) /\ h \notin ToSet(t)
  <2>1. \A i, j \in 1..Len(s) : s[i] = s[j] => i = j
    BY <1>5, HoldsByIndex
  <2>2. \A i, j \in 1..Len(t) : t[i] = t[j] => i = j
    BY <1>1, <2>1
  <2>3. \A i \in 1..Len(t) : t[i] # h
    BY <1>1, <2>1
  <2> QED BY <1>1, <1>2, <2>2, <2>3, HoldsByIndex
<1> QED BY <1>1, <1>3, <1>4, <1>5 DEF t, h

(* A sequence without repetition is as long as what it holds is large. *)
LEMMA LengthIsNumber ==
  ASSUME NEW s \in Seq(Facts), IsInjective(s)
  PROVE  IsFiniteSet(ToSet(s)) /\ Cardinality(ToSet(s)) = Len(s)
<1>0. /\ Len(s) \in Nat /\ s \in [1..Len(s) -> Facts]
      /\ ToSet(s) = {s[i] : i \in 1..Len(s)}
      /\ \A i, j \in 1..Len(s) : s[i] = s[j] => i = j
  BY LenProperties, HoldsByIndex
<1>1. /\ Len(s) \in Nat /\ s \in [1..Len(s) -> ToSet(s)]
      /\ \A i, j \in 1..Len(s) : s[i] = s[j] => i = j
      /\ \A y \in ToSet(s) : \E i \in 1..Len(s) : s[i] = y
  BY ONLY <1>0
<1>2. s \in Bijection(1..Len(s), ToSet(s))
  BY <1>1, Fun_IsBij
<1>3. IsFiniteSet(1..Len(s)) /\ Cardinality(1..Len(s)) = Len(s)
  <2> DEFINE n == Len(s)
  <2>1. 1 \in Int /\ n \in Int
    BY <1>1
  <2>2. IsFiniteSet(1..n) /\ Cardinality(1..n) = IF 1 > n THEN 0 ELSE n - 1 + 1
    BY ONLY <2>1, FS_Interval
  <2> HIDE DEF n
  <2> QED BY <1>1, <2>2 DEF n
<1>4. ExistsBijection(1..Len(s), ToSet(s))
  BY <1>2 DEF ExistsBijection
<1> QED BY <1>3, <1>4, FS_Bijection

(* SelectInSeq finds a fact the sequence holds. *)
LEMMA SelectFinds ==
  ASSUME NEW s \in Seq(Facts), NEW f \in ToSet(s)
  PROVE  SelectInSeq(s, LAMBDA g : g = f) \in 1..Len(s)
<1> DEFINE I == {i \in 1..Len(s) : s[i] = f}
<1>1. I \in SUBSET Nat /\ I # {}
  BY HoldsByIndex
<1>2. SelectInSeq(s, LAMBDA g : g = f) = Min(I)
  BY <1>1 DEF SelectInSeq
<1> HIDE DEF I
<1>3. PICK m \in I : \A j \in I : m <= j
  BY <1>1, LeastNat
<1>4. Min(I) \in I
  BY <1>3, Zenon DEF Min
<1> QED BY <1>2, <1>4 DEF I

-----------------------------------------------------------------------------
(* Counting *)

(* The facts of a process for which c, a column of the facts, is in P. *)
Those(p, c, P) == {g \in Facts : HomeOf[g] = p /\ c[g] \in P}
Number(p, c, P) == Cardinality(Those(p, c, P))

(* The columns of the books of a process. *)
Busy == {"counted", "full", "closed"}
Enqueued(p) == stats[p]["enqueued"]
SentCalls(p) == Number(p, caller, {"sent"})
BusyCalls(p) == Number(p, caller, Busy)
Queued(p) == Len(queue[p])
Batched(p) == Len(batch[p])
Counted(p) == stats[p]["written"] + stats[p]["duplicate"] + stats[p]["exhausted"] + stats[p]["timeout"]
Doubtful(p) == Number(p, outcome, {"unknown"})
Level(p) == depth[p]
InHand(p) == IF runner[p] = "received" THEN 1 ELSE 0

Books(p) == Enqueued(p) + SentCalls(p) = Queued(p) + Batched(p) + Counted(p) + Doubtful(p)
Gauge(p) == Level(p) = Queued(p) + BusyCalls(p) + InHand(p)
DroppedInv == \A f \in Facts : outcome[f] = "dropped" => Untouched(f)

(* A number of facts is a natural number. *)
LEMMA NumberType ==
  ASSUME NEW p, NEW c, NEW P
  PROVE  Number(p, c, P) \in Nat /\ IsFiniteSet(Those(p, c, P))
<1>1. IsFiniteSet(Facts)
  BY WriterAssumption
<1>2. Those(p, c, P) \in SUBSET Facts
  BY DEF Those
<1> QED BY <1>1, <1>2, FS_Subset, FS_CardinalityType DEF Number

(* How a number follows one entry that was and is now among those counted. *)
Shift(own, was, now, n, m) ==
  m = IF own /\ now /\ ~was THEN n + 1 ELSE IF own /\ was /\ ~now THEN n - 1 ELSE n

(* One entry of a column changes: the number of its own process follows. *)
LEMMA NumberMove ==
  ASSUME NEW c, NEW f \in Facts, DOMAIN c = Facts, NEW place, NEW P, NEW p
  PROVE  Shift(p = HomeOf[f], c[f] \in P, place \in P,
               Number(p, c, P), Number(p, [c EXCEPT ![f] = place], P))
<1> DEFINE d == [c EXCEPT ![f] = place]
           A == Those(p, c, P)
           B == Those(p, d, P)
<1>1. IsFiniteSet(A)
  BY NumberType
<1>2. \A g \in Facts : d[g] = IF g = f THEN place ELSE c[g]
  OBVIOUS
<1> HIDE DEF d
<1>3. ASSUME p # HomeOf[f] \/ (c[f] \in P <=> place \in P) PROVE B = A
  BY <1>2, <1>3, Zenon DEF Those
<1>4. ASSUME p = HomeOf[f], c[f] \notin P, place \in P PROVE B = A \cup {f} /\ f \notin A
  BY <1>2, <1>4, Zenon DEF Those
<1>5. ASSUME p = HomeOf[f], c[f] \in P, place \notin P PROVE B = A \ {f} /\ f \in A
  BY <1>2, <1>5, Zenon DEF Those
<1> HIDE DEF A, B
<1>6. f \notin A => Cardinality(A \cup {f}) = Cardinality(A) + 1
  BY <1>1, FS_AddElement
<1>7. f \in A => Cardinality(A \ {f}) = Cardinality(A) - 1
  BY <1>1, FS_RemoveElement
<1>8. Number(p, c, P) = Cardinality(A) /\ Number(p, d, P) = Cardinality(B)
  BY DEF Number, A, B
<1> QED BY <1>3, <1>4, <1>5, <1>6, <1>7, <1>8 DEF d, Shift

-----------------------------------------------------------------------------
(* The parts of the invariant *)

Places == {"idle", "accepted", "counted", "full", "closed", "sent", "done"}
Verdicts == {"none", "stored", "dropped", "unknown"}

SeqTypeOK ==
  /\ queue \in [Processes -> Seq(Facts)] /\ batch \in [Processes -> Seq(Facts)]
  /\ \A p \in Processes : Len(queue[p]) <= Capacity /\ Len(batch[p]) <= BatchSize

CallTypeOK ==
  /\ caller \in [Facts -> Places] /\ outcome \in [Facts -> Verdicts]
  /\ depth \in [Processes -> Nat]
  /\ stats \in [Processes -> [Counters -> Nat]]

RunTypeOK ==
  /\ accepting \in [Processes -> BOOLEAN]
  /\ runner \in [Processes -> {"select", "received", "flush", "stop", "stopped"}]
  /\ retries \in [Processes -> 0..MaxRetries]
  /\ unknown \in [Processes -> BOOLEAN] /\ bounded \in [Processes -> BOOLEAN]
  /\ shutdown \in [Processes -> {"none", "signalled", "draining", "expired"}]

StoreTypeOK ==
  /\ tx \in [Processes -> Transaction]
  /\ zombie \in Transaction
  /\ seq \in [Facts -> Nat] /\ nextSeq \in Nat \ {0}
  /\ snapshot \in [watermark : Nat, rows : SUBSET Facts] \cup {None}

StoreInv == StoreTypeOK /\ LockInv /\ SeqInv /\ SnapshotStable
BooksInv == CallTypeOK /\ \A p \in Processes : Books(p) /\ Gauge(p)
FlowInv == SeqTypeOK /\ RunTypeOK /\ HeldInv /\ FlushInv /\ CleanInv /\ DroppedInv

(* The columns are natural numbers. *)
TypedColumns(p) ==
  /\ Enqueued(p) \in Nat /\ SentCalls(p) \in Nat /\ BusyCalls(p) \in Nat
  /\ Queued(p) \in Nat /\ Batched(p) \in Nat
  /\ Counted(p) \in Nat /\ Doubtful(p) \in Nat /\ InHand(p) \in Nat
  /\ Level(p) \in Nat
ColumnsOK == \A p \in Processes : TypedColumns(p)

(* Every column is a natural number where the variables are typed. *)
LEMMA ColumnTypes == SeqTypeOK /\ CallTypeOK => ColumnsOK
<1> SUFFICES ASSUME SeqTypeOK, CallTypeOK, NEW p \in Processes PROVE TypedColumns(p)
  BY DEF ColumnsOK
<1>1. \A c \in Counters : stats[p][c] \in Nat
  BY DEF CallTypeOK
<1>2. Enqueued(p) \in Nat /\ Counted(p) \in Nat
  BY <1>1 DEF Enqueued, Counted, Counters
<1>3. Queued(p) \in Nat /\ Batched(p) \in Nat
  BY LenProperties DEF SeqTypeOK, Queued, Batched
<1>4. SentCalls(p) \in Nat /\ BusyCalls(p) \in Nat /\ Doubtful(p) \in Nat
  BY NumberType DEF SentCalls, BusyCalls, Doubtful
<1>5. InHand(p) \in Nat /\ Level(p) \in Nat
  BY DEF InHand, Level, CallTypeOK
<1> QED BY <1>2, <1>3, <1>4, <1>5 DEF TypedColumns

(* FactsConserved, in these words. *)
LEMMA ConservedIs ==
  ASSUME SeqTypeOK, CallTypeOK
  PROVE  FactsConserved <=> /\ \A p \in Processes : Books(p) /\ Gauge(p)
                            /\ \A f \in Facts : outcome[f] = "dropped" => seq[f] = 0 /\ zombie.drawn[f] = 0
<1>1. \A p : /\ {f \in FactsOf(p) : caller[f] = "sent"} = Those(p, caller, {"sent"})
             /\ {f \in FactsOf(p) : outcome[f] = "unknown"} = Those(p, outcome, {"unknown"})
             /\ {f \in FactsOf(p) : caller[f] \in {"counted", "full", "closed"}} = Those(p, caller, Busy)
  BY DEF FactsOf, Those, Busy
<1>2. \A p : /\ Cardinality({f \in FactsOf(p) : caller[f] = "sent"}) = SentCalls(p)
             /\ Cardinality({f \in FactsOf(p) : outcome[f] = "unknown"}) = Doubtful(p)
             /\ Cardinality({f \in FactsOf(p) : caller[f] \in {"counted", "full", "closed"}}) = BusyCalls(p)
  BY <1>1, Zenon DEF SentCalls, Doubtful, BusyCalls, Number
<1>3. \A p \in Processes : Books(p) <=>
        stats[p]["enqueued"] + SentCalls(p)
            = Len(queue[p]) + Len(batch[p])
              + stats[p]["written"] + stats[p]["duplicate"]
              + stats[p]["exhausted"] + stats[p]["timeout"] + Doubtful(p)
  <2> SUFFICES ASSUME NEW p \in Processes
               PROVE  Books(p) <=>
                        stats[p]["enqueued"] + SentCalls(p)
                          = Len(queue[p]) + Len(batch[p])
                            + stats[p]["written"] + stats[p]["duplicate"]
                            + stats[p]["exhausted"] + stats[p]["timeout"] + Doubtful(p)
    OBVIOUS
  <2>1. \A c \in Counters : stats[p][c] \in Nat
    BY DEF CallTypeOK
  <2> DEFINE w == stats[p]["written"]
             d == stats[p]["duplicate"]
             x == stats[p]["exhausted"]
             z == stats[p]["timeout"]
  <2>2. w \in Nat /\ d \in Nat /\ x \in Nat /\ z \in Nat
    BY <2>1 DEF Counters
  <2>3. TypedColumns(p)
    BY ColumnTypes DEF ColumnsOK
  <2>4. Counted(p) = w + d + x + z
    BY DEF Counted
  <2> HIDE DEF w, d, x, z
  <2>5. Books(p) <=> Enqueued(p) + SentCalls(p) = Queued(p) + Batched(p) + w + d + x + z + Doubtful(p)
    BY <2>2, <2>3, <2>4 DEF Books, TypedColumns
  <2> QED BY <2>5, Zenon DEF Enqueued, Queued, Batched, w, d, x, z
<1>4. \A p : Gauge(p) <=>
        depth[p] = Len(queue[p]) + BusyCalls(p) + (IF runner[p] = "received" THEN 1 ELSE 0)
  BY Zenon DEF Gauge, Level, Queued, InHand
<1> QED BY <1>2, <1>3, <1>4, Zenon DEF FactsConserved

(* WriterInv is these three parts: the store, the facts on their way, the    *)
(* counters.                                                                 *)
LEMMA WriterInvIs == WriterInv <=> StoreInv /\ FlowInv /\ BooksInv
<1>1. TypeOK <=> SeqTypeOK /\ CallTypeOK /\ RunTypeOK /\ StoreTypeOK
  BY Zenon DEF TypeOK, SeqTypeOK, CallTypeOK, RunTypeOK, StoreTypeOK, Places, Verdicts
<1>2. SeqTypeOK /\ CallTypeOK =>
        (FactsConserved <=>
           /\ \A p \in Processes : Books(p) /\ Gauge(p)
           /\ \A f \in Facts : outcome[f] = "dropped" => seq[f] = 0 /\ zombie.drawn[f] = 0)
  BY ConservedIs
<1>3. (\A f \in Facts : outcome[f] = "dropped" => seq[f] = 0 /\ zombie.drawn[f] = 0) <=> DroppedInv
  BY DEF DroppedInv, Untouched, NewRows
<1> QED BY <1>1, <1>2, <1>3 DEF WriterInv, StoreInv, FlowInv, BooksInv

(* What the store holds is not touched by a step outside of it. *)
LEMMA StoreUnchanged ==
  ASSUME StoreInv, UNCHANGED <<storeVars, snapshot>>
  PROVE  StoreInv' /\ \A f : Untouched(f)' <=> Untouched(f)
<1>1. UNCHANGED <<tx, zombie, seq, nextSeq, snapshot>>
  BY DEF storeVars
<1>2. StoreTypeOK'
  BY <1>1 DEF StoreInv, StoreTypeOK
<1>3. LockInv'
  BY <1>1 DEF StoreInv, LockInv, HoldsLock
<1>4. \A t : Ahead(t) <=> Ahead(t)'
  BY <1>1 DEF Ahead
<1>5. SeqInv'
  BY <1>1, <1>4 DEF StoreInv, SeqInv, Ahead
<1>6. SnapshotStable'
  BY <1>1 DEF StoreInv, SnapshotStable, Rows
<1> QED BY <1>1, <1>2, <1>3, <1>5, <1>6 DEF StoreInv, Untouched

(* The same step leaves every fact in its place. *)
LEMMA FlowUnchanged ==
  ASSUME FlowInv, UNCHANGED <<caller, queue, accepting, runnerVars, storeVars, outcome>>
  PROVE  FlowInv'
<1>1. UNCHANGED <<caller, queue, accepting, runner, batch, retries, unknown, bounded, shutdown, outcome>>
  BY DEF runnerVars
<1>2. UNCHANGED <<tx, zombie, seq>>
  BY DEF storeVars
<1>3. \A p : Waiting(p)' = Waiting(p) /\ InFlush(p)' = InFlush(p)
  BY <1>1 DEF Waiting, InFlush
<1>4. \A f : Untouched(f)' <=> Untouched(f)
  BY <1>2 DEF Untouched
<1>5. SeqTypeOK' /\ RunTypeOK'
  BY <1>1 DEF FlowInv, SeqTypeOK, RunTypeOK
<1>6. HeldInv'
  BY <1>1, <1>3 DEF FlowInv, HeldInv
<1>7. FlushInv'
  BY <1>1, <1>2, <1>3 DEF FlowInv, FlushInv
<1>8. CleanInv'
  BY <1>1, <1>3, <1>4 DEF FlowInv, CleanInv
<1>9. DroppedInv'
  BY <1>1, <1>4 DEF FlowInv, DroppedInv
<1> QED BY <1>5, <1>6, <1>7, <1>8, <1>9 DEF FlowInv

(* The columns of a process are as they were. *)
SameColumns(p) ==
  /\ Enqueued(p)' = Enqueued(p) /\ SentCalls(p)' = SentCalls(p)
  /\ Queued(p)' = Queued(p) /\ Batched(p)' = Batched(p)
  /\ Counted(p)' = Counted(p) /\ Doubtful(p)' = Doubtful(p)
  /\ BusyCalls(p)' = BusyCalls(p) /\ InHand(p)' = InHand(p) /\ Level(p)' = Level(p)

(* The books stay in balance when the step moves as much on both sides. *)
LEMMA Balance ==
  ASSUME NEW e \in Nat, NEW s \in Nat, NEW q \in Nat, NEW b \in Nat, NEW c \in Nat, NEW d \in Nat,
         NEW e1 \in Nat, NEW s1 \in Nat, NEW q1 \in Nat, NEW b1 \in Nat, NEW c1 \in Nat, NEW d1 \in Nat,
         e1 + s1 + q + b + c + d = e + s + q1 + b1 + c1 + d1,
         e + s = q + b + c + d
  PROVE  e1 + s1 = q1 + b1 + c1 + d1
  OBVIOUS

(* A step keeps the books when it touches one process and moves both sides alike. *)
LEMMA BooksStep ==
  ASSUME BooksInv, CallTypeOK', SeqTypeOK, SeqTypeOK', NEW p,
         \A q \in Processes \ {p} : SameColumns(q),
         p \in Processes =>
           /\ Enqueued(p)' + SentCalls(p)' + Queued(p) + Batched(p) + Counted(p) + Doubtful(p)
                = Enqueued(p) + SentCalls(p) + Queued(p)' + Batched(p)' + Counted(p)' + Doubtful(p)'
           /\ Level(p)' + Queued(p) + BusyCalls(p) + InHand(p)
                = Level(p) + Queued(p)' + BusyCalls(p)' + InHand(p)'
  PROVE  BooksInv'
<1>1. ColumnsOK
  BY ColumnTypes DEF BooksInv
<1>2. SeqTypeOK' /\ CallTypeOK' => ColumnsOK'
  BY ColumnTypes, PTL
<1>3. ASSUME NEW q \in Processes PROVE Books(q)' /\ Gauge(q)'
  <2>1. Books(q) /\ Gauge(q)
    BY DEF BooksInv
  <2>2. CASE q # p
    BY <2>1, <2>2 DEF SameColumns, Books, Gauge
  <2>3. CASE q = p
    <3>1. /\ Enqueued(q)' + SentCalls(q)' + Queued(q) + Batched(q) + Counted(q) + Doubtful(q)
                = Enqueued(q) + SentCalls(q) + Queued(q)' + Batched(q)' + Counted(q)' + Doubtful(q)'
          /\ Level(q)' + Queued(q) + BusyCalls(q) + InHand(q)
                = Level(q) + Queued(q)' + BusyCalls(q)' + InHand(q)'
      BY <2>3
    <3>2. TypedColumns(q) /\ TypedColumns(q)'
      BY <1>1, <1>2 DEF ColumnsOK
    <3>3. /\ Enqueued(q)' \in Nat /\ SentCalls(q)' \in Nat /\ BusyCalls(q)' \in Nat
          /\ Queued(q)' \in Nat /\ Batched(q)' \in Nat
          /\ Counted(q)' \in Nat /\ Doubtful(q)' \in Nat /\ InHand(q)' \in Nat
          /\ Level(q)' \in Nat
      BY ONLY <3>2, Zenon DEF TypedColumns
    <3>4. /\ Enqueued(q) \in Nat /\ SentCalls(q) \in Nat /\ BusyCalls(q) \in Nat
          /\ Queued(q) \in Nat /\ Batched(q) \in Nat
          /\ Counted(q) \in Nat /\ Doubtful(q) \in Nat /\ InHand(q) \in Nat
          /\ Level(q) \in Nat
      BY ONLY <3>2, Zenon DEF TypedColumns
    <3>5. Enqueued(q)' + SentCalls(q)' = Queued(q)' + Batched(q)' + Counted(q)' + Doubtful(q)'
      <4>1. Enqueued(q) + SentCalls(q) = Queued(q) + Batched(q) + Counted(q) + Doubtful(q)
        BY ONLY <2>1, Zenon DEF Books
      <4>2. Enqueued(q)' + SentCalls(q)' + Queued(q) + Batched(q) + Counted(q) + Doubtful(q)
              = Enqueued(q) + SentCalls(q) + Queued(q)' + Batched(q)' + Counted(q)' + Doubtful(q)'
        BY ONLY <3>1
      <4> QED BY ONLY <3>3, <3>4, <4>1, <4>2, Balance
    <3>6. Level(q)' = Queued(q)' + BusyCalls(q)' + InHand(q)'
      BY ONLY <2>1, <3>1, <3>3, <3>4 DEF Gauge
    <3> QED BY ONLY <3>5, <3>6, Zenon DEF Books, Gauge
  <2> QED BY <2>2, <2>3
<1> QED BY <1>3 DEF BooksInv

(* The columns of a process depend on its own entries only. *)
LEMMA ColumnsUnchanged ==
  ASSUME NEW p, stats'[p] = stats[p], depth'[p] = depth[p], queue'[p] = queue[p],
         batch'[p] = batch[p], runner'[p] = "received" <=> runner[p] = "received",
         SentCalls(p)' = SentCalls(p), BusyCalls(p)' = BusyCalls(p), Doubtful(p)' = Doubtful(p)
  PROVE  SameColumns(p)
  BY DEF SameColumns, Enqueued, Queued, Batched, Counted, Level, InHand

(* The numbers of facts in places where no caller or verdict has moved. *)
LEMMA CallsUnchanged ==
  ASSUME UNCHANGED caller, NEW p
  PROVE  SentCalls(p)' = SentCalls(p) /\ BusyCalls(p)' = BusyCalls(p)
  BY DEF SentCalls, BusyCalls, Number, Those

(* Without a new verdict as many facts are in doubt as before. *)
LEMMA DoubtsUnchanged ==
  ASSUME UNCHANGED outcome, NEW p
  PROVE  Doubtful(p)' = Doubtful(p)
  BY DEF Doubtful, Number, Those

(* The counters, when nothing of what they count has moved. *)
LEMMA BooksUnchanged ==
  ASSUME BooksInv, SeqTypeOK, UNCHANGED <<caller, depth, stats, outcome, queue, batch>>,
         \A p \in Processes : runner'[p] = "received" <=> runner[p] = "received"
  PROVE  BooksInv'
<1>1. CallTypeOK' /\ SeqTypeOK'
  BY DEF BooksInv, CallTypeOK, SeqTypeOK
<1>2. \A p \in Processes : SameColumns(p)
  BY ColumnsUnchanged, CallsUnchanged, DoubtsUnchanged
<1>3. PICK p : p \notin Processes
  BY NoSetContainsEverything
<1> QED BY <1>1, <1>2, <1>3, BooksStep

-----------------------------------------------------------------------------
(* try_enqueue *)

(* A caller moves on without the fact entering or leaving the queue. *)
LEMMA CallerFlow ==
  ASSUME FlowInv, CallTypeOK, NEW f \in Facts, NEW place, Move(f, place),
         caller[f] \notin Unsent => place \notin Unsent,
         UNCHANGED <<queue, accepting, runnerVars, storeVars, outcome>>
  PROVE  FlowInv'
<1>1. UNCHANGED <<queue, accepting, runner, batch, retries, unknown, bounded, shutdown, outcome>>
  BY DEF runnerVars
<1>2. UNCHANGED <<tx, zombie, seq>>
  BY DEF storeVars
<1>3. \A p : Waiting(p)' = Waiting(p) /\ InFlush(p)' = InFlush(p)
  BY <1>1 DEF Waiting, InFlush
<1>4. \A g : Untouched(g)' <=> Untouched(g)
  BY <1>2 DEF Untouched
<1>5. \A g \in Facts : caller'[g] \in Unsent => caller[g] \in Unsent
  BY DEF Move, CallTypeOK
<1>6. SeqTypeOK' /\ RunTypeOK'
  BY <1>1 DEF FlowInv, SeqTypeOK, RunTypeOK
<1>7. \A p \in Processes : Waiting(p) \cup InFlush(p) \subseteq Facts
  BY HoldsByIndex DEF FlowInv, SeqTypeOK, Waiting, InFlush
<1>8. HeldInv'
  BY <1>1, <1>3, <1>5, <1>7 DEF FlowInv, HeldInv
<1>9. FlushInv'
  BY <1>1, <1>2, <1>3 DEF FlowInv, FlushInv
<1>10. CleanInv'
  BY <1>1, <1>3, <1>4, <1>5 DEF FlowInv, CleanInv
<1>11. DroppedInv'
  BY <1>1, <1>4 DEF FlowInv, DroppedInv
<1> QED BY <1>6, <1>8, <1>9, <1>10, <1>11 DEF FlowInv

(* The numbers of callers follow the caller that moved. *)
LEMMA CallerNumbers ==
  ASSUME CallTypeOK, NEW f \in Facts, NEW place, Move(f, place), NEW p
  PROVE  /\ Shift(p = HomeOf[f], caller[f] \in {"sent"}, place \in {"sent"}, SentCalls(p), SentCalls(p)')
         /\ Shift(p = HomeOf[f], caller[f] \in Busy, place \in Busy, BusyCalls(p), BusyCalls(p)')
<1>1. DOMAIN caller = Facts /\ caller' = [caller EXCEPT ![f] = place]
  BY DEF CallTypeOK, Move
<1>2. \A c, P : DOMAIN c = Facts =>
        Shift(p = HomeOf[f], c[f] \in P, place \in P, Number(p, c, P), Number(p, [c EXCEPT ![f] = place], P))
  BY NumberMove
<1>3. \A P : Shift(p = HomeOf[f], caller[f] \in P, place \in P, Number(p, caller, P), Number(p, caller', P))
  BY <1>1, <1>2, Zenon
<1>4. \A P : Number(p, caller, P)' = Number(p, caller', P)
  BY DEF Number, Those
<1> QED BY <1>3, <1>4, Zenon DEF SentCalls, BusyCalls, Busy

(* The columns other than those of callers, at a caller's step. *)
LEMMA CallerBooks ==
  ASSUME BooksInv, SeqTypeOK, SeqTypeOK', NEW f \in Facts, NEW place \in Places, Move(f, place),
         UNCHANGED <<batch, outcome, runner>>, CallTypeOK',
         \A p \in Processes \ {HomeOf[f]} :
           depth'[p] = depth[p] /\ queue'[p] = queue[p] /\ stats'[p] = stats[p],
         \A p \in Processes : \A c \in Counters \ {"enqueued"} : stats'[p][c] = stats[p][c],
         LET p == HomeOf[f] IN
           /\ Enqueued(p)' + SentCalls(p)' + Queued(p) = Enqueued(p) + SentCalls(p) + Queued(p)'
           /\ Level(p)' + Queued(p) + BusyCalls(p) = Level(p) + Queued(p)' + BusyCalls(p)'
  PROVE  BooksInv'
<1> DEFINE p == HomeOf[f]
<1>1. p \in Processes
  BY WriterAssumption
<1> HIDE DEF p
<1>2. \A q \in Processes \ {p} : SameColumns(q)
  <2> SUFFICES ASSUME NEW q \in Processes \ {p} PROVE SameColumns(q)
    OBVIOUS
  <2>1. SentCalls(q)' = SentCalls(q) /\ BusyCalls(q)' = BusyCalls(q)
    BY CallerNumbers DEF BooksInv, Shift, p
  <2>2. Doubtful(q)' = Doubtful(q)
    BY DoubtsUnchanged
  <2> QED BY <2>1, <2>2, ColumnsUnchanged DEF p
<1>3. Batched(p)' = Batched(p) /\ Doubtful(p)' = Doubtful(p) /\ InHand(p)' = InHand(p)
  BY DoubtsUnchanged DEF Batched, InHand
<1>4. Counted(p)' = Counted(p)
  BY <1>1 DEF Counted, Counters
<1>5. /\ Enqueued(p)' + SentCalls(p)' + Queued(p) = Enqueued(p) + SentCalls(p) + Queued(p)'
      /\ Level(p)' + Queued(p) + BusyCalls(p) = Level(p) + Queued(p)' + BusyCalls(p)'
  BY DEF p
<1>6. Enqueued(p)' + SentCalls(p)' + Queued(p) + Batched(p) + Counted(p) + Doubtful(p)
        = Enqueued(p) + SentCalls(p) + Queued(p)' + Batched(p)' + Counted(p)' + Doubtful(p)'
  BY ONLY <1>3, <1>4, <1>5
<1>7. Level(p)' + Queued(p) + BusyCalls(p) + InHand(p)
        = Level(p) + Queued(p)' + BusyCalls(p)' + InHand(p)'
  BY ONLY <1>3, <1>5
<1> QED BY <1>2, <1>6, <1>7, BooksStep

(* Home is a process. *)
LEMMA HomeType == \A f \in Facts : HomeOf[f] \in Processes
  BY WriterAssumption

(* The caller reads the accepting flag: nothing is counted yet. *)
LEMMA CheckAcceptingInv ==
  ASSUME StoreInv, FlowInv, BooksInv, NEW f \in Facts, CheckAccepting(f)
  PROVE  StoreInv' /\ FlowInv' /\ BooksInv'
<1> DEFINE place == IF accepting[HomeOf[f]] THEN "accepted" ELSE "done"
<1>1. /\ caller[f] = "idle" /\ Move(f, place)
      /\ UNCHANGED <<queue, accepting, depth, stats, runnerVars, storeVars, snapshot, outcome>>
  BY DEF CheckAccepting, queueVars
<1>2. place \in Places \ ({"sent"} \cup Busy) /\ caller[f] \notin ({"sent"} \cup Busy)
  BY <1>1 DEF Places, Busy
<1> HIDE DEF place
<1>3. StoreInv'
  BY <1>1, StoreUnchanged
<1>4. FlowInv'
  BY <1>1, CallerFlow DEF BooksInv, Unsent
<1>5. UNCHANGED <<batch, outcome, runner>>
  BY <1>1 DEF runnerVars
<1>6. CallTypeOK'
  BY <1>1, <1>2 DEF BooksInv, CallTypeOK, Move
<1>7. SentCalls(HomeOf[f])' = SentCalls(HomeOf[f]) /\ BusyCalls(HomeOf[f])' = BusyCalls(HomeOf[f])
  BY <1>1, <1>2, CallerNumbers DEF BooksInv, Shift
<1>8. /\ Queued(HomeOf[f])' = Queued(HomeOf[f]) /\ Enqueued(HomeOf[f])' = Enqueued(HomeOf[f])
      /\ Level(HomeOf[f])' = Level(HomeOf[f])
  BY <1>1 DEF Queued, Enqueued, Level
<1>9. BooksInv'
  BY <1>1, <1>2, <1>4, <1>5, <1>6, <1>7, <1>8, CallerBooks DEF FlowInv
<1> QED BY <1>3, <1>4, <1>9

(* The caller counts the depth before it sends. *)
LEMMA CountDepthInv ==
  ASSUME StoreInv, FlowInv, BooksInv, NEW f \in Facts, CountDepth(f)
  PROVE  StoreInv' /\ FlowInv' /\ BooksInv'
<1> DEFINE p == HomeOf[f]
<1>0. p \in Processes
  BY HomeType
<1>1. /\ caller[f] = "accepted" /\ Move(f, "counted")
      /\ depth' = [depth EXCEPT ![p] = @ + 1]
      /\ UNCHANGED <<queue, accepting, stats, runnerVars, storeVars, snapshot, outcome>>
  BY DEF CountDepth
<1>2. /\ "counted" \in Places /\ "counted" \in Busy /\ "counted" \notin {"sent"}
      /\ caller[f] \notin Busy /\ caller[f] \notin {"sent"}
  BY <1>1 DEF Places, Busy
<1>3. StoreInv'
  BY <1>1, StoreUnchanged
<1>4. FlowInv'
  BY <1>1, CallerFlow DEF BooksInv, Unsent
<1>5. UNCHANGED <<batch, outcome, runner>>
  BY <1>1 DEF runnerVars
<1>6. CallTypeOK' /\ Level(p) \in Nat /\ Level(p)' = Level(p) + 1
  BY <1>0, <1>1, <1>2 DEF BooksInv, CallTypeOK, Move, Level
<1>7. SentCalls(p)' = SentCalls(p) /\ BusyCalls(p)' = BusyCalls(p) + 1
  BY <1>1, <1>2, CallerNumbers DEF BooksInv, Shift
<1>8. Queued(p)' = Queued(p) /\ Enqueued(p)' = Enqueued(p)
  BY <1>1 DEF Queued, Enqueued
<1>9. Level(p)' + Queued(p) + BusyCalls(p) = Level(p) + Queued(p)' + BusyCalls(p)'
  <2>1. Queued(p) \in Nat /\ BusyCalls(p) \in Nat
    BY <1>0, ColumnTypes, Zenon DEF ColumnsOK, TypedColumns, FlowInv, BooksInv
  <2> QED BY ONLY <1>6, <1>7, <1>8, <2>1
<1>10. \A q \in Processes \ {p} : depth'[q] = depth[q] /\ queue'[q] = queue[q] /\ stats'[q] = stats[q]
  BY <1>1 DEF BooksInv, CallTypeOK
<1>11. BooksInv'
  BY <1>1, <1>2, <1>4, <1>5, <1>6, <1>7, <1>8, <1>9, <1>10, CallerBooks DEF FlowInv
<1> QED BY <1>3, <1>4, <1>11

(* A refused caller takes its count back. *)
LEMMA SendFailedInv ==
  ASSUME StoreInv, FlowInv, BooksInv, NEW f \in Facts, SendFailed(f)
  PROVE  StoreInv' /\ FlowInv' /\ BooksInv'
<1> DEFINE p == HomeOf[f]
<1>0. p \in Processes
  BY HomeType
<1>1. /\ caller[f] \in {"full", "closed"} /\ Move(f, "done")
      /\ depth' = [depth EXCEPT ![p] = @ - 1]
      /\ UNCHANGED <<queue, accepting, stats, runnerVars, storeVars, snapshot, outcome>>
  BY DEF SendFailed
<1>2. /\ "done" \in Places /\ "done" \notin Busy /\ "done" \notin {"sent"}
      /\ caller[f] \in Busy /\ caller[f] \notin {"sent"}
  BY <1>1 DEF Places, Busy
<1>3. StoreInv'
  BY <1>1, StoreUnchanged
<1>4. FlowInv'
  BY <1>1, CallerFlow DEF BooksInv, Unsent
<1>5. UNCHANGED <<batch, outcome, runner>>
  BY <1>1 DEF runnerVars
<1>6. SentCalls(p)' = SentCalls(p) /\ BusyCalls(p)' = BusyCalls(p) - 1
  BY <1>1, <1>2, CallerNumbers DEF BooksInv, Shift
<1>7. Queued(p)' = Queued(p) /\ Enqueued(p)' = Enqueued(p)
  BY <1>1 DEF Queued, Enqueued
<1>8. /\ Queued(p) \in Nat /\ BusyCalls(p) \in Nat /\ InHand(p) \in Nat
      /\ Level(p) = Queued(p) + BusyCalls(p) + InHand(p)
  BY <1>0, ColumnTypes, Zenon DEF ColumnsOK, TypedColumns, FlowInv, BooksInv, Gauge
<1>9. BusyCalls(p)' \in Nat
  BY NumberType, Zenon DEF BusyCalls
<1>10. Level(p) \in Nat \ {0}
  BY ONLY <1>6, <1>8, <1>9
<1>11. CallTypeOK' /\ Level(p)' = Level(p) - 1
  <2>1. depth \in [Processes -> Nat] /\ depth[p] - 1 \in Nat
    BY <1>10 DEF BooksInv, CallTypeOK, Level
  <2>2. depth' \in [Processes -> Nat] /\ depth'[p] = depth[p] - 1
    BY <1>0, <1>1, <2>1
  <2> QED BY <1>1, <1>2, <2>2 DEF BooksInv, CallTypeOK, Move, Level
<1>12. Level(p)' + Queued(p) + BusyCalls(p) = Level(p) + Queued(p)' + BusyCalls(p)'
  BY ONLY <1>6, <1>7, <1>8, <1>10, <1>11
<1>13. \A q \in Processes \ {p} : depth'[q] = depth[q] /\ queue'[q] = queue[q] /\ stats'[q] = stats[q]
  BY <1>1 DEF BooksInv, CallTypeOK
<1>14. BooksInv'
  BY <1>1, <1>2, <1>4, <1>5, <1>6, <1>7, <1>11, <1>12, <1>13, CallerBooks DEF FlowInv
<1> QED BY <1>3, <1>4, <1>14

(* The enqueued counter follows the send, as a step of its own. *)
LEMMA SendCountedInv ==
  ASSUME StoreInv, FlowInv, BooksInv, NEW f \in Facts, SendCounted(f)
  PROVE  StoreInv' /\ FlowInv' /\ BooksInv'
<1> DEFINE p == HomeOf[f]
<1>0. p \in Processes
  BY HomeType
<1>1. /\ caller[f] = "sent" /\ Move(f, "done")
      /\ stats' = [stats EXCEPT ![p]["enqueued"] = @ + 1]
      /\ UNCHANGED <<queue, accepting, depth, runnerVars, storeVars, snapshot, outcome>>
  BY DEF SendCounted, Count
<1>2. /\ "done" \in Places /\ "done" \notin Busy /\ "done" \notin {"sent"}
      /\ caller[f] \notin Busy /\ caller[f] \in {"sent"}
  BY <1>1 DEF Places, Busy
<1>3. StoreInv'
  BY <1>1, StoreUnchanged
<1>4. FlowInv'
  BY <1>1, CallerFlow DEF BooksInv, Unsent
<1>5. UNCHANGED <<batch, outcome, runner>>
  BY <1>1 DEF runnerVars
<1>6. SentCalls(p)' = SentCalls(p) - 1 /\ BusyCalls(p)' = BusyCalls(p)
  BY <1>1, <1>2, CallerNumbers DEF BooksInv, Shift
<1>7. Queued(p)' = Queued(p) /\ Level(p)' = Level(p)
  BY <1>1 DEF Queued, Level
<1>8. Enqueued(p) \in Nat /\ SentCalls(p) \in Nat /\ Queued(p) \in Nat
  BY <1>0, ColumnTypes, Zenon DEF ColumnsOK, TypedColumns, FlowInv, BooksInv
<1>9. /\ Enqueued(p)' = Enqueued(p) + 1
      /\ \A q \in Processes : \A c \in Counters \ {"enqueued"} : stats'[q][c] = stats[q][c]
      /\ \A q \in Processes \ {p} : stats'[q] = stats[q]
      /\ stats' \in [Processes -> [Counters -> Nat]]
  BY <1>0, <1>1 DEF BooksInv, CallTypeOK, Enqueued, Counters
<1>10. CallTypeOK'
  BY <1>1, <1>2, <1>9 DEF BooksInv, CallTypeOK, Move
<1>11. Enqueued(p)' + SentCalls(p)' + Queued(p) = Enqueued(p) + SentCalls(p) + Queued(p)'
  BY ONLY <1>6, <1>7, <1>8, <1>9
<1>12. Level(p)' + Queued(p) + BusyCalls(p) = Level(p) + Queued(p)' + BusyCalls(p)'
  BY ONLY <1>6, <1>7
<1>13. \A q \in Processes \ {p} : depth'[q] = depth[q] /\ queue'[q] = queue[q]
  BY <1>1
<1>14. BooksInv'
  BY <1>1, <1>2, <1>4, <1>5, <1>9, <1>10, <1>11, <1>12, <1>13, CallerBooks DEF FlowInv
<1> QED BY <1>3, <1>4, <1>14

(* try_send finds no room or no channel. *)
LEMMA TrySendRefused ==
  ASSUME StoreInv, FlowInv, BooksInv, NEW f \in Facts, NEW place \in {"full", "closed"},
         caller[f] = "counted", Move(f, place),
         UNCHANGED <<queue, accepting, depth, stats, runnerVars, storeVars, snapshot, outcome>>
  PROVE  StoreInv' /\ FlowInv' /\ BooksInv'
<1> DEFINE p == HomeOf[f]
<1>1. /\ place \in Places /\ place \in Busy /\ place \notin {"sent"}
      /\ caller[f] \in Busy /\ caller[f] \notin {"sent"}
  BY DEF Places, Busy
<1>2. StoreInv'
  BY StoreUnchanged
<1>3. FlowInv'
  BY CallerFlow DEF BooksInv, Unsent
<1>4. UNCHANGED <<batch, outcome, runner>>
  BY DEF runnerVars
<1>5. CallTypeOK'
  BY <1>1 DEF BooksInv, CallTypeOK, Move
<1>6. SentCalls(p)' = SentCalls(p) /\ BusyCalls(p)' = BusyCalls(p)
  BY <1>1, CallerNumbers DEF BooksInv, Shift
<1>7. Queued(p)' = Queued(p) /\ Enqueued(p)' = Enqueued(p) /\ Level(p)' = Level(p)
  BY DEF Queued, Enqueued, Level
<1>8. BooksInv'
  BY <1>1, <1>3, <1>4, <1>5, <1>6, <1>7, CallerBooks DEF FlowInv
<1> QED BY <1>2, <1>3, <1>8

(* The fact enters the queue: nobody held it before. *)
LEMMA TrySendFlow ==
  ASSUME FlowInv, CallTypeOK, NEW f \in Facts,
         caller[f] = "counted", Len(queue[HomeOf[f]]) # Capacity, Move(f, "sent"),
         queue' = [queue EXCEPT ![HomeOf[f]] = Append(@, f)],
         UNCHANGED <<accepting, runnerVars, storeVars, outcome>>
  PROVE  FlowInv' /\ Len(queue'[HomeOf[f]]) = Len(queue[HomeOf[f]]) + 1
<1> DEFINE p == HomeOf[f]
           s == Append(queue[p], f)
<1>0. p \in Processes
  BY HomeType
<1>1. UNCHANGED <<accepting, runner, batch, retries, unknown, bounded, shutdown, outcome>>
  BY DEF runnerVars
<1>2. UNCHANGED <<tx, zombie, seq>>
  BY DEF storeVars
<1>3. caller' = [caller EXCEPT ![f] = "sent"] /\ caller \in [Facts -> Places]
  BY DEF Move, CallTypeOK
<1>4. \A q \in Processes : queue[q] \in Seq(Facts) /\ Len(queue[q]) <= Capacity /\ Len(queue[q]) \in Nat
  BY LenProperties DEF FlowInv, SeqTypeOK
<1>5. \A q \in Processes : Waiting(q) \subseteq Facts /\ InFlush(q) \subseteq Facts
  BY HoldsByIndex DEF FlowInv, SeqTypeOK, Waiting, InFlush
<1>6. \A q \in Processes : f \notin Waiting(q) /\ f \notin InFlush(q)
  BY DEF FlowInv, HeldInv, Unsent
<1>7. outcome[f] = "none" /\ Untouched(f)
  BY DEF FlowInv, HeldInv, CleanInv, Unsent
<1>8. /\ s \in Seq(Facts) /\ Len(s) = Len(queue[p]) + 1
      /\ ToSet(s) = Waiting(p) \cup {f} /\ IsInjective(s)
  BY <1>0, <1>4, <1>6, AppendHolds DEF FlowInv, HeldInv, Waiting
<1>9. queue \in [Processes -> Seq(Facts)] /\ queue' = [queue EXCEPT ![p] = s]
  BY DEF FlowInv, SeqTypeOK
<1> HIDE DEF s, p
<1>10. /\ queue' \in [Processes -> Seq(Facts)] /\ queue'[p] = s
       /\ \A q \in Processes \ {p} : queue'[q] = queue[q]
  BY <1>0, <1>8, <1>9
<1>11. /\ Waiting(p)' = Waiting(p) \cup {f}
       /\ \A q \in Processes \ {p} : Waiting(q)' = Waiting(q)
       /\ \A q : InFlush(q)' = InFlush(q)
  BY <1>1, <1>8, <1>10 DEF Waiting, InFlush
<1>12. \A g : Untouched(g)' <=> Untouched(g)
  BY <1>2 DEF Untouched
<1>13. \A g \in Facts : caller'[g] = IF g = f THEN "sent" ELSE caller[g]
  BY <1>3
<1>14. SeqTypeOK'
  <2>1. Len(s) <= Capacity
    BY <1>0, <1>4, <1>8, WriterAssumption DEF p
  <2> QED BY <1>1, <1>8, <1>10, <2>1 DEF FlowInv, SeqTypeOK
<1>15. RunTypeOK'
  BY <1>1 DEF FlowInv, RunTypeOK
<1>16. HeldInv'
  <2>1. ASSUME NEW q \in Processes
        PROVE  IsInjective(queue'[q]) /\ IsInjective(batch'[q]) /\ Waiting(q)' \cap InFlush(q)' = {}
    <3>1. IsInjective(queue[q]) /\ IsInjective(batch[q]) /\ Waiting(q) \cap InFlush(q) = {}
      BY DEF FlowInv, HeldInv
    <3>2. batch'[q] = batch[q] /\ InFlush(q)' = InFlush(q) /\ f \notin InFlush(q)
      BY <1>1, <1>6, <1>11
    <3>3. CASE q = p
      BY ONLY <1>8, <1>10, <1>11, <3>1, <3>2, <3>3
    <3>4. CASE q # p
      <4>1. queue'[q] = queue[q] /\ Waiting(q)' = Waiting(q)
        BY <1>10, <1>11, <3>4
      <4> QED BY ONLY <3>1, <3>2, <4>1
    <3> QED BY <3>3, <3>4
  <2>2. ASSUME NEW q \in Processes, NEW g \in Waiting(q)' \cup InFlush(q)'
        PROVE  HomeOf[g] = q /\ caller'[g] \notin Unsent /\ outcome'[g] = "none"
    <3>1. CASE g = f
      BY <1>1, <1>6, <1>7, <1>11, <1>13, <2>2, <3>1 DEF Unsent, p
    <3>2. CASE g # f
      <4>1. g \in Waiting(q) \cup InFlush(q)
        BY <1>11, <2>2, <3>2
      <4>2. g \in Facts
        BY <1>5, <4>1
      <4> QED BY <1>1, <1>13, <3>2, <4>1, <4>2 DEF FlowInv, HeldInv
    <3> QED BY <3>1, <3>2
  <2>3. \A g \in Facts : caller'[g] \in Unsent => outcome'[g] = "none"
    BY <1>1, <1>7, <1>13 DEF FlowInv, HeldInv
  <2> QED BY <2>1, <2>2, <2>3 DEF HeldInv
<1>17. FlushInv'
  BY <1>1, <1>2, <1>11 DEF FlowInv, FlushInv
<1>18. CleanInv'
  <2>1. \A g \in Facts : caller'[g] \in Unsent => Untouched(g)'
    BY <1>7, <1>12, <1>13 DEF FlowInv, CleanInv
  <2>2. ASSUME NEW q \in Processes
        PROVE  /\ \A g \in Waiting(q)' : Untouched(g)'
               /\ ~unknown'[q] => \A g \in InFlush(q)' : Untouched(g)'
    BY <1>1, <1>7, <1>11, <1>12 DEF FlowInv, CleanInv
  <2> QED BY <2>1, <2>2 DEF CleanInv
<1>19. DroppedInv'
  BY <1>1, <1>12 DEF FlowInv, DroppedInv
<1>20. Len(queue'[p]) = Len(queue[p]) + 1
  BY <1>8, <1>10
<1> QED BY <1>14, <1>15, <1>16, <1>17, <1>18, <1>19, <1>20 DEF FlowInv, p

(* The send is refused, or the fact is at the end of the queue. *)
LEMMA TrySendInv ==
  ASSUME StoreInv, FlowInv, BooksInv, NEW f \in Facts, TrySend(f)
  PROVE  StoreInv' /\ FlowInv' /\ BooksInv'
<1> DEFINE p == HomeOf[f]
<1>0. p \in Processes
  BY HomeType
<1>1. /\ caller[f] = "counted"
      /\ UNCHANGED <<accepting, depth, stats, runnerVars, storeVars, snapshot, outcome>>
      /\ \/ Move(f, "closed") /\ UNCHANGED queue
         \/ Move(f, "full") /\ UNCHANGED queue
         \/ /\ Len(queue[p]) # Capacity /\ Move(f, "sent")
            /\ queue' = [queue EXCEPT ![p] = Append(@, f)]
  BY DEF TrySend
<1>2. CASE UNCHANGED queue /\ (Move(f, "closed") \/ Move(f, "full"))
  BY <1>1, <1>2, TrySendRefused
<1>3. CASE /\ Len(queue[p]) # Capacity /\ Move(f, "sent")
           /\ queue' = [queue EXCEPT ![p] = Append(@, f)]
  <2>1. StoreInv'
    BY <1>1, StoreUnchanged
  <2>2. FlowInv' /\ Queued(p)' = Queued(p) + 1
    BY <1>1, <1>3, TrySendFlow DEF BooksInv, Queued
  <2>3. UNCHANGED <<batch, outcome, runner>>
    BY <1>1 DEF runnerVars
  <2>4. /\ "sent" \in Places /\ "sent" \notin Busy /\ "sent" \in {"sent"}
        /\ caller[f] \in Busy /\ caller[f] \notin {"sent"}
    BY <1>1 DEF Places, Busy
  <2>5. CallTypeOK'
    BY <1>1, <1>3, <2>4 DEF BooksInv, CallTypeOK, Move
  <2>6. SentCalls(p)' = SentCalls(p) + 1 /\ BusyCalls(p)' = BusyCalls(p) - 1
    BY <1>3, <2>4, CallerNumbers DEF BooksInv, Shift
  <2>7. Enqueued(p)' = Enqueued(p) /\ Level(p)' = Level(p)
    BY <1>1 DEF Enqueued, Level
  <2>8. Enqueued(p) \in Nat /\ SentCalls(p) \in Nat /\ Queued(p) \in Nat /\ BusyCalls(p) \in Nat /\ Level(p) \in Nat
    BY <1>0, ColumnTypes, Zenon DEF ColumnsOK, TypedColumns, FlowInv, BooksInv
  <2>9. /\ Enqueued(p)' + SentCalls(p)' + Queued(p) = Enqueued(p) + SentCalls(p) + Queued(p)'
        /\ Level(p)' + Queued(p) + BusyCalls(p) = Level(p) + Queued(p)' + BusyCalls(p)'
    BY ONLY <2>2, <2>6, <2>7, <2>8
  <2>10. \A q \in Processes \ {p} : depth'[q] = depth[q] /\ queue'[q] = queue[q] /\ stats'[q] = stats[q]
    BY <1>1, <1>3 DEF FlowInv, SeqTypeOK
  <2>11. BooksInv'
    BY <1>1, <1>3, <2>2, <2>3, <2>4, <2>5, <2>9, <2>10, CallerBooks DEF FlowInv
  <2> QED BY <2>1, <2>2, <2>11
<1> QED BY <1>1, <1>2, <1>3

-----------------------------------------------------------------------------
(* The select loop *)

(* The runner moves and every fact stays where it is. *)
LEMMA RunnerFlow ==
  ASSUME FlowInv, UNCHANGED <<caller, queue, batch, unknown, outcome, storeVars>>, RunTypeOK',
         \A p \in Processes : /\ runner'[p] # "flush" => ~unknown[p] /\ tx[p].phase = "none"
                              /\ runner'[p] = "select" => Len(batch[p]) < BatchSize
  PROVE  FlowInv'
<1>1. UNCHANGED <<tx, zombie, seq>>
  BY DEF storeVars
<1>2. \A p : Waiting(p)' = Waiting(p) /\ InFlush(p)' = InFlush(p)
  BY DEF Waiting, InFlush
<1>3. \A f : Untouched(f)' <=> Untouched(f)
  BY <1>1 DEF Untouched
<1>4. SeqTypeOK'
  BY DEF FlowInv, SeqTypeOK
<1>5. HeldInv'
  BY <1>2 DEF FlowInv, HeldInv
<1>6. FlushInv'
  BY <1>1, <1>2 DEF FlowInv, FlushInv
<1>7. CleanInv'
  BY <1>2, <1>3 DEF FlowInv, CleanInv
<1>8. DroppedInv'
  BY <1>3 DEF FlowInv, DroppedInv
<1> QED BY <1>4, <1>5, <1>6, <1>7, <1>8 DEF FlowInv

(* The timer starts a flush. *)
LEMMA FlushIntervalInv ==
  ASSUME StoreInv, FlowInv, BooksInv, NEW p \in Processes, FlushInterval(p)
  PROVE  StoreInv' /\ FlowInv' /\ BooksInv'
<1>1. /\ runner[p] = "select" /\ runner' = [runner EXCEPT ![p] = "flush"]
      /\ bounded' = [bounded EXCEPT ![p] = shutdown[p] \in {"draining", "expired"}]
      /\ UNCHANGED <<caller, queue, accepting, depth, stats, batch, retries, unknown, shutdown>>
      /\ UNCHANGED <<storeVars, snapshot, outcome>>
  BY DEF FlushInterval, StartFlush, Goto, callerVars, queueVars
<1>2. RunTypeOK'
  BY <1>1 DEF FlowInv, RunTypeOK
<1>3. \A q \in Processes : runner'[q] = IF q = p THEN "flush" ELSE runner[q]
  BY <1>1 DEF FlowInv, RunTypeOK
<1>4. \A q \in Processes : /\ runner'[q] # "flush" => ~unknown[q] /\ tx[q].phase = "none"
                           /\ runner'[q] = "select" => Len(batch[q]) < BatchSize
  BY <1>3 DEF FlowInv, FlushInv
<1>5. FlowInv'
  BY <1>1, <1>2, <1>4, RunnerFlow
<1>6. BooksInv'
  BY <1>1, <1>3, BooksUnchanged DEF FlowInv
<1> QED BY <1>1, <1>5, <1>6, StoreUnchanged

(* The runner sees that the window is over. *)
LEMMA ShutdownDeadlineInv ==
  ASSUME StoreInv, FlowInv, BooksInv, NEW p \in Processes, ShutdownDeadline(p)
  PROVE  StoreInv' /\ FlowInv' /\ BooksInv'
<1>1. /\ runner[p] = "select" /\ runner' = [runner EXCEPT ![p] = "stop"]
      /\ UNCHANGED <<caller, queue, accepting, depth, stats, batch, retries, unknown, bounded, shutdown>>
      /\ UNCHANGED <<storeVars, snapshot, outcome>>
  BY DEF ShutdownDeadline, Goto, callerVars, queueVars
<1>2. RunTypeOK'
  BY <1>1 DEF FlowInv, RunTypeOK
<1>3. \A q \in Processes : runner'[q] = IF q = p THEN "stop" ELSE runner[q]
  BY <1>1 DEF FlowInv, RunTypeOK
<1>4. \A q \in Processes : /\ runner'[q] # "flush" => ~unknown[q] /\ tx[q].phase = "none"
                           /\ runner'[q] = "select" => Len(batch[q]) < BatchSize
  BY <1>1, <1>3 DEF FlowInv, FlushInv
<1>5. FlowInv'
  BY <1>1, <1>2, <1>4, RunnerFlow
<1>6. BooksInv'
  BY <1>1, <1>3, BooksUnchanged DEF FlowInv
<1> QED BY <1>1, <1>5, <1>6, StoreUnchanged

(* Signal, ShutdownChanged and WindowEnds only move the shutdown on. *)
LEMMA ShutdownInv ==
  ASSUME StoreInv, FlowInv, BooksInv, NEW p \in Processes,
         Signal(p) \/ ShutdownChanged(p) \/ WindowEnds(p)
  PROVE  StoreInv' /\ FlowInv' /\ BooksInv'
<1>1. /\ \E s \in {"signalled", "draining", "expired"} : shutdown' = [shutdown EXCEPT ![p] = s]
      /\ UNCHANGED <<caller, queue, accepting, depth, stats, runner, batch, retries, unknown, bounded>>
      /\ UNCHANGED <<storeVars, snapshot, outcome>>
  BY DEF Signal, ShutdownChanged, WindowEnds, callerVars, queueVars
<1>2. RunTypeOK'
  BY <1>1 DEF FlowInv, RunTypeOK
<1>3. FlowInv'
  BY <1>1, <1>2, RunnerFlow DEF FlowInv, FlushInv
<1>4. BooksInv'
  BY <1>1, BooksUnchanged DEF FlowInv
<1> QED BY <1>1, <1>3, <1>4, StoreUnchanged

(* The received fact is counted off, and a full batch is flushed. *)
LEMMA ReceivedInv ==
  ASSUME StoreInv, FlowInv, BooksInv, NEW p \in Processes, Received(p)
  PROVE  StoreInv' /\ FlowInv' /\ BooksInv'
<1>1. /\ runner[p] = "received" /\ depth' = [depth EXCEPT ![p] = @ - 1]
      /\ \/ /\ runner' = [runner EXCEPT ![p] = "flush"]
            /\ bounded' = [bounded EXCEPT ![p] = shutdown[p] \in {"draining", "expired"}]
         \/ /\ ~(Len(batch[p]) >= BatchSize)
            /\ runner' = [runner EXCEPT ![p] = "select"]
            /\ UNCHANGED bounded
      /\ UNCHANGED <<caller, queue, accepting, stats, batch, retries, unknown, shutdown>>
      /\ UNCHANGED <<storeVars, snapshot, outcome>>
  BY DEF Received, BatchFull, StartFlush, Goto, callerVars
<1>2. RunTypeOK'
  <2>1. runner' \in [Processes -> {"select", "received", "flush", "stop", "stopped"}]
    BY <1>1 DEF FlowInv, RunTypeOK
  <2>2. bounded' \in [Processes -> BOOLEAN]
    <3> DEFINE v == shutdown[p] \in {"draining", "expired"}
    <3>1. v \in BOOLEAN /\ bounded \in [Processes -> BOOLEAN]
      BY DEF FlowInv, RunTypeOK
    <3>2. bounded' = bounded \/ bounded' = [bounded EXCEPT ![p] = v]
      BY <1>1, Zenon
    <3> HIDE DEF v
    <3> QED BY ONLY <3>1, <3>2
  <2> QED BY <1>1, <2>1, <2>2 DEF FlowInv, RunTypeOK
<1>3. /\ \A q \in Processes \ {p} : runner'[q] = runner[q]
      /\ runner'[p] = "flush" \/ (runner'[p] = "select" /\ ~(Len(batch[p]) >= BatchSize))
  BY <1>1 DEF FlowInv, RunTypeOK
<1>4. Len(batch[p]) \in Nat /\ BatchSize \in Nat
  BY LenProperties, WriterAssumption DEF FlowInv, SeqTypeOK
<1>5. ~unknown[p] /\ tx[p].phase = "none"
  BY <1>1 DEF FlowInv, FlushInv
<1>6. \A q \in Processes : /\ runner'[q] # "flush" => ~unknown[q] /\ tx[q].phase = "none"
                           /\ runner'[q] = "select" => Len(batch[q]) < BatchSize
  BY <1>3, <1>4, <1>5 DEF FlowInv, FlushInv
<1>7. FlowInv'
  BY <1>1, <1>2, <1>6, RunnerFlow
<1>8. /\ Level(p) = Queued(p) + BusyCalls(p) + InHand(p)
      /\ Queued(p) \in Nat /\ BusyCalls(p) \in Nat
  BY ColumnTypes, Zenon DEF ColumnsOK, TypedColumns, FlowInv, BooksInv, Gauge
<1>9. InHand(p) = 1 /\ InHand(p)' = 0
  BY <1>1, <1>3 DEF InHand
<1>10. Level(p) - 1 \in Nat
  BY ONLY <1>8, <1>9
<1>11. CallTypeOK' /\ Level(p)' = Level(p) - 1
  <2>1. depth \in [Processes -> Nat] /\ depth[p] - 1 \in Nat
    BY <1>10 DEF BooksInv, CallTypeOK, Level
  <2>2. depth' \in [Processes -> Nat] /\ depth'[p] = depth[p] - 1
    BY <1>1, <2>1
  <2> QED BY <1>1, <2>2 DEF BooksInv, CallTypeOK, Level
<1>12. /\ SentCalls(p)' = SentCalls(p) /\ BusyCalls(p)' = BusyCalls(p) /\ Doubtful(p)' = Doubtful(p)
       /\ Enqueued(p)' = Enqueued(p) /\ Queued(p)' = Queued(p) /\ Batched(p)' = Batched(p)
       /\ Counted(p)' = Counted(p)
  BY <1>1, CallsUnchanged, DoubtsUnchanged DEF Enqueued, Queued, Batched, Counted
<1>13. Enqueued(p)' + SentCalls(p)' + Queued(p) + Batched(p) + Counted(p) + Doubtful(p)
         = Enqueued(p) + SentCalls(p) + Queued(p)' + Batched(p)' + Counted(p)' + Doubtful(p)'
  BY ONLY <1>12
<1>14. Level(p)' + Queued(p) + BusyCalls(p) + InHand(p)
         = Level(p) + Queued(p)' + BusyCalls(p)' + InHand(p)'
  BY ONLY <1>8, <1>9, <1>11, <1>12
<1>15. \A q \in Processes \ {p} : SameColumns(q)
  <2> SUFFICES ASSUME NEW q \in Processes \ {p} PROVE SameColumns(q)
    OBVIOUS
  <2>1. depth'[q] = depth[q]
    BY <1>1 DEF BooksInv, CallTypeOK
  <2> QED BY <1>1, <1>3, <2>1, ColumnsUnchanged, CallsUnchanged, DoubtsUnchanged
<1>16. BooksInv'
  BY <1>7, <1>11, <1>13, <1>14, <1>15, BooksStep DEF FlowInv
<1> QED BY <1>1, <1>7, <1>16, StoreUnchanged

(* The fact at the head of the queue moves into the batch. *)
LEMMA ReceiveFlow ==
  ASSUME FlowInv, NEW p \in Processes, Receive(p)
  PROVE  /\ FlowInv'
         /\ Len(queue'[p]) = Len(queue[p]) - 1 /\ Len(batch'[p]) = Len(batch[p]) + 1
         /\ \A q \in Processes \ {p} : queue'[q] = queue[q] /\ batch'[q] = batch[q] /\ runner'[q] = runner[q]
         /\ runner'[p] = "received"
<1> DEFINE f == Head(queue[p])
           s == Tail(queue[p])
           b == Append(batch[p], f)
<1>1. /\ runner[p] = "select" /\ queue[p] # <<>> /\ queue' = [queue EXCEPT ![p] = s]
      /\ batch' = [batch EXCEPT ![p] = b] /\ runner' = [runner EXCEPT ![p] = "received"]
      /\ UNCHANGED <<caller, accepting, retries, unknown, bounded, shutdown, outcome>>
      /\ UNCHANGED <<tx, zombie, seq>>
  BY DEF Receive, Goto, callerVars, storeVars
<1>2. \A q \in Processes : queue[q] \in Seq(Facts) /\ batch[q] \in Seq(Facts)
  BY DEF FlowInv, SeqTypeOK
<1>3. \A q \in Processes : IsInjective(queue[q]) /\ IsInjective(batch[q]) /\ Waiting(q) \cap InFlush(q) = {}
  BY DEF FlowInv, HeldInv
<1>4. /\ s \in Seq(Facts) /\ Len(s) = Len(queue[p]) - 1
      /\ Waiting(p) = ToSet(s) \cup {f} /\ IsInjective(s) /\ f \notin ToSet(s)
  BY <1>1, <1>2, <1>3, TailHolds DEF Waiting
<1>5. f \in Facts /\ f \notin InFlush(p)
  BY <1>2, <1>3, <1>4, HoldsByIndex DEF Waiting
<1> HIDE DEF s, f
<1>6. b \in Seq(Facts) /\ Len(b) = Len(batch[p]) + 1 /\ ToSet(b) = InFlush(p) \cup {f} /\ IsInjective(b)
  BY <1>2, <1>3, <1>5, AppendHolds DEF InFlush
<1> HIDE DEF b
<1>7. /\ queue' \in [Processes -> Seq(Facts)] /\ queue'[p] = s
      /\ batch' \in [Processes -> Seq(Facts)] /\ batch'[p] = b
      /\ \A q \in Processes \ {p} : queue'[q] = queue[q] /\ batch'[q] = batch[q]
  BY <1>1, <1>4, <1>6 DEF FlowInv, SeqTypeOK
<1>8. runner'[p] = "received" /\ \A q \in Processes \ {p} : runner'[q] = runner[q]
  BY <1>1 DEF FlowInv, RunTypeOK
<1>9. /\ Waiting(p)' = Waiting(p) \ {f} /\ InFlush(p)' = InFlush(p) \cup {f} /\ f \in Waiting(p)
      /\ \A q \in Processes \ {p} : Waiting(q)' = Waiting(q) /\ InFlush(q)' = InFlush(q)
  BY <1>4, <1>6, <1>7 DEF Waiting, InFlush
<1>10. \A g : Untouched(g)' <=> Untouched(g)
  BY <1>1 DEF Untouched
<1>11. SeqTypeOK'
  <2>1. \A q \in Processes : /\ Len(queue[q]) <= Capacity /\ Len(batch[q]) <= BatchSize
                             /\ Len(queue[q]) \in Nat /\ Len(batch[q]) \in Nat
    BY <1>2, LenProperties DEF FlowInv, SeqTypeOK
  <2>2. Len(batch[p]) < BatchSize /\ Capacity \in Nat /\ BatchSize \in Nat
    BY <1>1, WriterAssumption DEF FlowInv, FlushInv
  <2>3. Len(s) <= Capacity /\ Len(b) <= BatchSize
    BY <1>4, <1>6, <2>1, <2>2
  <2> QED BY <1>7, <2>1, <2>3 DEF SeqTypeOK
<1>12. RunTypeOK'
  BY <1>1 DEF FlowInv, RunTypeOK
<1>13. \A q \in Processes : Waiting(q)' \cup InFlush(q)' = Waiting(q) \cup InFlush(q)
  BY <1>9
<1>14. HeldInv'
  <2>1. ASSUME NEW q \in Processes
        PROVE  IsInjective(queue'[q]) /\ IsInjective(batch'[q]) /\ Waiting(q)' \cap InFlush(q)' = {}
    <3>1. CASE q = p
      BY ONLY <1>3, <1>4, <1>6, <1>7, <1>9, <3>1, <2>1
    <3>2. CASE q # p
      BY ONLY <1>3, <1>7, <1>9, <3>2, <2>1
    <3> QED BY <3>1, <3>2
  <2>2. ASSUME NEW q \in Processes, NEW g \in Waiting(q)' \cup InFlush(q)'
        PROVE  HomeOf[g] = q /\ caller'[g] \notin Unsent /\ outcome'[g] = "none"
    BY <1>1, <1>13, <2>2 DEF FlowInv, HeldInv
  <2>3. \A g \in Facts : caller'[g] \in Unsent => outcome'[g] = "none"
    BY <1>1 DEF FlowInv, HeldInv
  <2> QED BY <2>1, <2>2, <2>3 DEF HeldInv
<1>15. FlushInv'
  <2> SUFFICES ASSUME NEW q \in Processes
               PROVE  /\ runner'[q] # "flush" => ~unknown'[q] /\ tx'[q].phase = "none"
                      /\ tx'[q].phase # "none" => tx'[q].facts = InFlush(q)'
                      /\ runner'[q] = "select" => Len(batch'[q]) < BatchSize
    BY DEF FlushInv
  <2>1. CASE q = p
    BY <1>1, <1>8, <2>1 DEF FlowInv, FlushInv
  <2>2. CASE q # p
    BY <1>1, <1>7, <1>8, <1>9, <2>2 DEF FlowInv, FlushInv
  <2> QED BY <2>1, <2>2
<1>16. CleanInv'
  <2>1. \A g \in Facts : caller'[g] \in Unsent => Untouched(g)'
    BY <1>1, <1>10 DEF FlowInv, CleanInv
  <2>2. \A q \in Processes : \A g \in Waiting(q)' : Untouched(g)'
    BY <1>9, <1>10 DEF FlowInv, CleanInv
  <2>3. ASSUME NEW q \in Processes, ~unknown'[q], NEW g \in InFlush(q)' PROVE Untouched(g)'
    BY <1>1, <1>9, <1>10, <2>3 DEF FlowInv, CleanInv
  <2> QED BY <2>1, <2>2, <2>3 DEF CleanInv
<1>17. DroppedInv'
  BY <1>1, <1>10 DEF FlowInv, DroppedInv
<1>18. FlowInv'
  BY <1>11, <1>12, <1>14, <1>15, <1>16, <1>17 DEF FlowInv
<1> QED BY <1>4, <1>6, <1>7, <1>8, <1>18

(* The runner takes the head of the queue into its batch. *)
LEMMA ReceiveInv ==
  ASSUME StoreInv, FlowInv, BooksInv, NEW p \in Processes, Receive(p)
  PROVE  StoreInv' /\ FlowInv' /\ BooksInv'
<1>1. /\ runner[p] = "select"
      /\ UNCHANGED <<caller, depth, stats, outcome, storeVars, snapshot>>
  BY DEF Receive, callerVars
<1>2. StoreInv'
  BY <1>1, StoreUnchanged
<1>3. /\ FlowInv' /\ Queued(p)' = Queued(p) - 1 /\ Batched(p)' = Batched(p) + 1
      /\ InHand(p) = 0 /\ InHand(p)' = 1
  BY <1>1, ReceiveFlow DEF Queued, Batched, InHand
<1>4. CallTypeOK'
  BY <1>1 DEF BooksInv, CallTypeOK
<1>5. /\ SentCalls(p)' = SentCalls(p) /\ BusyCalls(p)' = BusyCalls(p) /\ Doubtful(p)' = Doubtful(p)
      /\ Enqueued(p)' = Enqueued(p) /\ Counted(p)' = Counted(p) /\ Level(p)' = Level(p)
  BY <1>1, CallsUnchanged, DoubtsUnchanged DEF Enqueued, Counted, Level
<1>6. /\ Queued(p) \in Nat /\ Batched(p) \in Nat /\ BusyCalls(p) \in Nat /\ Enqueued(p) \in Nat
      /\ SentCalls(p) \in Nat /\ Counted(p) \in Nat /\ Doubtful(p) \in Nat /\ Level(p) \in Nat
  BY ColumnTypes, Zenon DEF ColumnsOK, TypedColumns, FlowInv, BooksInv
<1>7. Enqueued(p)' + SentCalls(p)' + Queued(p) + Batched(p) + Counted(p) + Doubtful(p)
        = Enqueued(p) + SentCalls(p) + Queued(p)' + Batched(p)' + Counted(p)' + Doubtful(p)'
  BY ONLY <1>3, <1>5, <1>6
<1>8. Level(p)' + Queued(p) + BusyCalls(p) + InHand(p)
        = Level(p) + Queued(p)' + BusyCalls(p)' + InHand(p)'
  BY ONLY <1>3, <1>5, <1>6
<1>9. \A q \in Processes \ {p} : SameColumns(q)
  BY <1>1, ReceiveFlow, ColumnsUnchanged, CallsUnchanged, DoubtsUnchanged
<1>10. BooksInv'
  BY <1>3, <1>4, <1>7, <1>8, <1>9, BooksStep DEF FlowInv
<1> QED BY <1>2, <1>3, <1>10

(* A batch is concluded, with the queue or without: the facts concluded are  *)
(* held no more, and what is still held was not touched.                     *)
LEMMA ConcludeFlow ==
  ASSUME FlowInv, UNCHANGED caller, RunTypeOK', outcome \in [Facts -> Verdicts],
         NEW p \in Processes, NEW D, NEW verdict,
         Conclude(D, verdict), D \subseteq Waiting(p) \cup InFlush(p), Waiting(p)' \cap D = {},
         queue' = queue \/ queue' = [queue EXCEPT ![p] = <<>>],
         batch' = [batch EXCEPT ![p] = <<>>],
         ~unknown'[p], runner'[p] # "flush", tx'[p].phase = "none",
         \A q \in Processes \ {p} : unknown'[q] = unknown[q] /\ runner'[q] = runner[q] /\ tx'[q] = tx[q],
         \A f \in Facts \ InFlush(p) : Untouched(f) => Untouched(f)',
         verdict = "dropped" => \A f \in D : Untouched(f)'
  PROVE  FlowInv'
<1>0. <<>> \in Seq(Facts) /\ ToSet(<<>>) = {} /\ IsInjective(<<>>) /\ Len(<<>>) = 0
  BY EmptyHolds, EmptySeq
<1>1. /\ queue \in [Processes -> Seq(Facts)] /\ batch \in [Processes -> Seq(Facts)]
      /\ \A q \in Processes : /\ Len(queue[q]) <= Capacity /\ Len(batch[q]) <= BatchSize
                              /\ Len(queue[q]) \in Nat /\ Len(batch[q]) \in Nat
  BY LenProperties DEF FlowInv, SeqTypeOK
<1>2. /\ queue' \in [Processes -> Seq(Facts)] /\ batch' \in [Processes -> Seq(Facts)]
      /\ batch'[p] = <<>> /\ (queue'[p] = <<>> \/ queue'[p] = queue[p])
      /\ \A q \in Processes \ {p} : queue'[q] = queue[q] /\ batch'[q] = batch[q]
  BY <1>0, <1>1
<1>3. /\ InFlush(p)' = {} /\ Waiting(p)' \subseteq Waiting(p)
      /\ \A q \in Processes \ {p} : Waiting(q)' = Waiting(q) /\ InFlush(q)' = InFlush(q)
  BY <1>0, <1>2 DEF Waiting, InFlush
<1>4. Capacity \in Nat \ {0} /\ BatchSize \in Nat \ {0}
  BY WriterAssumption
<1>5. SeqTypeOK'
  BY <1>0, <1>1, <1>2, <1>4 DEF SeqTypeOK
<1>6. \A q \in Processes : Waiting(q) \subseteq Facts /\ InFlush(q) \subseteq Facts
  BY <1>1, HoldsByIndex DEF Waiting, InFlush
<1>7. \A q \in Processes : \A f \in Waiting(q) \cup InFlush(q) :
        HomeOf[f] = q /\ caller[f] \notin Unsent /\ outcome[f] = "none"
  BY DEF FlowInv, HeldInv
<1>8. \A f \in Facts : outcome'[f] = IF f \in D THEN verdict ELSE outcome[f]
  BY DEF Conclude
<1>9. \A q \in Processes \ {p} : \A f \in Waiting(q) \cup InFlush(q) : f \notin D /\ f \notin InFlush(p)
  BY <1>7
<1>10. Waiting(p) \cap InFlush(p) = {}
  BY DEF FlowInv, HeldInv
<1>11. \A q \in Processes : \A f \in Waiting(q)' \cup InFlush(q)' :
         f \in Waiting(q) \cup InFlush(q) /\ f \notin D /\ f \notin InFlush(p)
  BY <1>3, <1>9, <1>10
<1>12. HeldInv'
  <2>1. ASSUME NEW q \in Processes
        PROVE  IsInjective(queue'[q]) /\ IsInjective(batch'[q]) /\ Waiting(q)' \cap InFlush(q)' = {}
    <3>1. IsInjective(queue[q]) /\ IsInjective(batch[q]) /\ Waiting(q) \cap InFlush(q) = {}
      BY DEF FlowInv, HeldInv
    <3>2. CASE q = p
      BY ONLY <1>0, <1>2, <1>3, <3>1, <3>2
    <3>3. CASE q # p
      BY ONLY <1>2, <1>3, <3>1, <3>3, <2>1
    <3> QED BY <3>2, <3>3
  <2>2. ASSUME NEW q \in Processes, NEW f \in Waiting(q)' \cup InFlush(q)'
        PROVE  HomeOf[f] = q /\ caller'[f] \notin Unsent /\ outcome'[f] = "none"
    <3>1. f \in Waiting(q) \cup InFlush(q) /\ f \notin D /\ f \in Facts
      BY <1>6, <1>11, <2>2
    <3> QED BY <1>7, <1>8, <3>1
  <2>3. \A f \in Facts : caller'[f] \in Unsent => outcome'[f] = "none"
    BY <1>7, <1>8 DEF FlowInv, HeldInv
  <2> QED BY <2>1, <2>2, <2>3 DEF HeldInv
<1>13. FlushInv'
  <2> SUFFICES ASSUME NEW q \in Processes
               PROVE  /\ runner'[q] # "flush" => ~unknown'[q] /\ tx'[q].phase = "none"
                      /\ tx'[q].phase # "none" => tx'[q].facts = InFlush(q)'
                      /\ runner'[q] = "select" => Len(batch'[q]) < BatchSize
    BY DEF FlushInv
  <2>1. CASE q = p
    BY <1>0, <1>2, <1>4, <2>1
  <2>2. CASE q # p
    BY <1>2, <1>3, <2>2 DEF FlowInv, FlushInv
  <2> QED BY <2>1, <2>2
<1>14. CleanInv'
  <2>1. ASSUME NEW f \in Facts, caller'[f] \in Unsent PROVE Untouched(f)'
    BY <1>7, <2>1 DEF FlowInv, CleanInv
  <2>2. ASSUME NEW q \in Processes, NEW f \in Waiting(q)' PROVE Untouched(f)'
    <3>1. f \in Waiting(q) /\ f \notin InFlush(p) /\ f \in Facts
      BY <1>3, <1>6, <1>11, <2>2
    <3> QED BY <3>1 DEF FlowInv, CleanInv
  <2>3. ASSUME NEW q \in Processes, ~unknown'[q], NEW f \in InFlush(q)' PROVE Untouched(f)'
    <3>1. q # p /\ f \in InFlush(q) /\ f \notin InFlush(p) /\ f \in Facts
      BY <1>3, <1>6, <1>11, <2>3
    <3> QED BY <2>3, <3>1 DEF FlowInv, CleanInv
  <2> QED BY <2>1, <2>2, <2>3 DEF CleanInv
<1>15. DroppedInv'
  <2> SUFFICES ASSUME NEW f \in Facts, outcome'[f] = "dropped" PROVE Untouched(f)'
    BY DEF DroppedInv
  <2>1. CASE f \in D
    BY <1>8, <2>1
  <2>2. CASE f \notin D
    <3>1. outcome[f] = "dropped"
      BY <1>8, <2>2
    <3>2. f \notin InFlush(p)
      BY <1>7, <3>1
    <3> QED BY <3>1, <3>2 DEF FlowInv, DroppedInv
  <2> QED BY <2>1, <2>2
<1> QED BY <1>5, <1>12, <1>13, <1>14, <1>15 DEF FlowInv

(* The number of facts of unknown outcome after a conclusion. *)
LEMMA ConcludeNumbers ==
  ASSUME FlowInv, outcome \in [Facts -> Verdicts], NEW p \in Processes, NEW D, NEW verdict,
         Conclude(D, verdict), D \subseteq Waiting(p) \cup InFlush(p)
  PROVE  /\ \A q \in Processes \ {p} : Doubtful(q)' = Doubtful(q)
         /\ verdict # "unknown" => Doubtful(p)' = Doubtful(p)
         /\ verdict = "unknown" /\ D = InFlush(p) => Doubtful(p)' = Doubtful(p) + Len(batch[p])
         /\ outcome' \in [Facts -> Verdicts \cup {verdict}]
<1>1. \A q \in Processes : \A f \in Waiting(q) \cup InFlush(q) : HomeOf[f] = q /\ outcome[f] = "none"
  BY DEF FlowInv, HeldInv
<1>2. \A f \in Facts : outcome'[f] = IF f \in D THEN verdict ELSE outcome[f]
  BY DEF Conclude
<1>3. batch[p] \in Seq(Facts) /\ IsInjective(batch[p])
  BY DEF FlowInv, SeqTypeOK, HeldInv
<1>4. InFlush(p) \subseteq Facts
  BY <1>3, HoldsByIndex DEF InFlush
<1> DEFINE A(q) == Those(q, outcome, {"unknown"})
           B(q) == Those(q, outcome', {"unknown"})
<1>5. \A q : Doubtful(q) = Cardinality(A(q)) /\ Doubtful(q)' = Cardinality(B(q))
  BY DEF Doubtful, Number, Those
<1>6. \A q \in Processes \ {p} : B(q) = A(q)
  BY <1>1, <1>2 DEF Those
<1>7. verdict # "unknown" => B(p) = A(p)
  BY <1>1, <1>2 DEF Those
<1>8. ASSUME verdict = "unknown", D = InFlush(p) PROVE Cardinality(B(p)) = Cardinality(A(p)) + Len(batch[p])
  <2>1. B(p) = A(p) \cup InFlush(p) /\ A(p) \cap InFlush(p) = {}
    BY <1>1, <1>2, <1>4, <1>8 DEF Those
  <2>2. IsFiniteSet(InFlush(p)) /\ Cardinality(InFlush(p)) = Len(batch[p])
    BY <1>3, LengthIsNumber DEF InFlush
  <2>3. IsFiniteSet(A(p)) /\ Cardinality(A(p)) \in Nat
    BY NumberType DEF Number
  <2> HIDE DEF A, B
  <2>4. Cardinality(A(p) \cup InFlush(p)) = Cardinality(A(p)) + Cardinality(InFlush(p)) - Cardinality(A(p) \cap InFlush(p))
    BY <2>2, <2>3, FS_Union
  <2>5. Cardinality(A(p) \cap InFlush(p)) = 0
    BY <2>1, FS_EmptySet
  <2>6. Len(batch[p]) \in Nat
    BY <1>3, LenProperties
  <2> QED BY <2>1, <2>2, <2>3, <2>4, <2>5, <2>6
<1>9. outcome' \in [Facts -> Verdicts \cup {verdict}]
  BY DEF Conclude
<1> HIDE DEF A, B
<1> QED BY <1>5, <1>6, <1>7, <1>8, <1>9

(* A counter of one process grows. *)
LEMMA CountStep ==
  ASSUME CallTypeOK, NEW p \in Processes, NEW c \in {"exhausted", "timeout"}, NEW n \in Nat, Count(p, c, n)
  PROVE  /\ stats' \in [Processes -> [Counters -> Nat]]
         /\ \A q \in Processes \ {p} : stats'[q] = stats[q]
         /\ Enqueued(p)' = Enqueued(p) /\ Counted(p)' = Counted(p) + n
<1>1. stats' = [stats EXCEPT ![p][c] = @ + n] /\ stats \in [Processes -> [Counters -> Nat]]
  BY DEF Count, CallTypeOK
<1>2. c \in Counters /\ stats[p][c] + n \in Nat
  BY <1>1 DEF Counters
<1>3. /\ stats' \in [Processes -> [Counters -> Nat]]
      /\ \A q \in Processes \ {p} : stats'[q] = stats[q]
  BY <1>1, <1>2
<1>4. /\ stats'[p][c] = stats[p][c] + n
      /\ \A d \in Counters \ {c} : stats'[p][d] = stats[p][d]
  BY <1>1, <1>2
<1>5. Enqueued(p)' = Enqueued(p)
  BY <1>4 DEF Enqueued, Counters
<1> DEFINE w == stats[p]["written"]
           d == stats[p]["duplicate"]
           x == stats[p]["exhausted"]
           z == stats[p]["timeout"]
<1>6. w \in Nat /\ d \in Nat /\ x \in Nat /\ z \in Nat
  BY <1>1 DEF Counters
<1>7. Counted(p) = w + d + x + z
  BY DEF Counted
<1>8. CASE c = "exhausted"
  <2>1. Counted(p)' = w + d + (x + n) + z
    BY <1>4, <1>8 DEF Counted, Counters
  <2> HIDE DEF w, d, x, z
  <2>2. Counted(p)' = Counted(p) + n
    BY ONLY <1>6, <1>7, <2>1, n \in Nat
  <2> QED BY <1>3, <1>5, <2>2
<1>9. CASE c = "timeout"
  <2>1. Counted(p)' = w + d + x + (z + n)
    BY <1>4, <1>9 DEF Counted, Counters
  <2> HIDE DEF w, d, x, z
  <2>2. Counted(p)' = Counted(p) + n
    BY ONLY <1>6, <1>7, <2>1, n \in Nat
  <2> QED BY <1>3, <1>5, <2>2
<1> QED BY <1>8, <1>9

(* Shutdown: everything held is counted as dropped, and no attempt of        *)
(* unknown outcome is behind the batch.                                      *)
LEMMA StopInv ==
  ASSUME StoreInv, FlowInv, BooksInv, NEW p \in Processes, StopAndCountRemaining(p)
  PROVE  StoreInv' /\ FlowInv' /\ BooksInv'
<1> DEFINE D == Waiting(p) \cup InFlush(p)
           n == Len(batch[p]) + Len(queue[p])
<1>1. /\ runner[p] = "stop" /\ Count(p, "timeout", n)
      /\ accepting' = [accepting EXCEPT ![p] = FALSE]
      /\ depth' = [depth EXCEPT ![p] = @ - Len(queue[p])]
      /\ queue' = [queue EXCEPT ![p] = <<>>] /\ batch' = [batch EXCEPT ![p] = <<>>]
      /\ runner' = [runner EXCEPT ![p] = "stopped"]
      /\ UNCHANGED <<caller, retries, unknown, bounded, shutdown, storeVars, snapshot>>
  BY DEF StopAndCountRemaining, Goto, callerVars
<1>2. Conclude(D, "dropped")
  BY DEF StopAndCountRemaining, Waiting, InFlush, Conclude
<1>3. StoreInv' /\ \A f : Untouched(f)' <=> Untouched(f)
  BY <1>1, StoreUnchanged
<1>4. RunTypeOK'
  BY <1>1 DEF FlowInv, RunTypeOK
<1>5. ~unknown[p] /\ tx[p].phase = "none"
  BY <1>1 DEF FlowInv, FlushInv
<1>6. \A f \in D : Untouched(f)
  BY <1>5 DEF FlowInv, CleanInv
<1>7. /\ outcome \in [Facts -> Verdicts]
      /\ queue \in [Processes -> Seq(Facts)] /\ batch \in [Processes -> Seq(Facts)]
      /\ runner \in [Processes -> {"select", "received", "flush", "stop", "stopped"}]
  BY DEF FlowInv, BooksInv, CallTypeOK, RunTypeOK, SeqTypeOK
<1>8. /\ queue'[p] = <<>> /\ batch'[p] = <<>> /\ runner'[p] = "stopped"
      /\ \A q \in Processes \ {p} : queue'[q] = queue[q] /\ batch'[q] = batch[q] /\ runner'[q] = runner[q]
  BY <1>1, <1>7
<1>9. Waiting(p)' = {}
  BY <1>8, EmptyHolds DEF Waiting
<1>10. UNCHANGED tx
  BY <1>1 DEF storeVars
<1> HIDE DEF D
<1>11. FlowInv'
  <2>1. D \subseteq Waiting(p) \cup InFlush(p) /\ Waiting(p)' \cap D = {}
    BY <1>9 DEF D
  <2> QED BY <1>1, <1>2, <1>3, <1>4, <1>5, <1>6, <1>7, <1>8, <1>10, <2>1, ConcludeFlow
<1>12. /\ \A q \in Processes : Doubtful(q)' = Doubtful(q)
       /\ outcome' \in [Facts -> Verdicts]
  <2>1. D \subseteq Waiting(p) \cup InFlush(p) /\ Verdicts \cup {"dropped"} = Verdicts
    BY DEF D, Verdicts
  <2>2. /\ \A q \in Processes \ {p} : Doubtful(q)' = Doubtful(q)
        /\ Doubtful(p)' = Doubtful(p)
        /\ outcome' \in [Facts -> Verdicts \cup {"dropped"}]
    BY <1>2, <1>7, <2>1, ConcludeNumbers
  <2> QED BY <2>1, <2>2
<1>13. /\ Queued(p) \in Nat /\ Batched(p) \in Nat /\ BusyCalls(p) \in Nat /\ Enqueued(p) \in Nat
       /\ SentCalls(p) \in Nat /\ Counted(p) \in Nat /\ Doubtful(p) \in Nat
       /\ Level(p) = Queued(p) + BusyCalls(p) + InHand(p)
  BY ColumnTypes, Zenon DEF ColumnsOK, TypedColumns, FlowInv, BooksInv, Gauge
<1>14. InHand(p) = 0 /\ InHand(p)' = 0 /\ Queued(p)' = 0 /\ Batched(p)' = 0 /\ n = Batched(p) + Queued(p)
  BY <1>1, <1>8, EmptyHolds DEF InHand, Queued, Batched
<1> HIDE DEF n
<1>15. n \in Nat
  BY <1>13, <1>14
<1>16. /\ stats' \in [Processes -> [Counters -> Nat]]
       /\ \A q \in Processes \ {p} : stats'[q] = stats[q]
       /\ Enqueued(p)' = Enqueued(p) /\ Counted(p)' = Counted(p) + n
  BY <1>1, <1>15, CountStep DEF BooksInv
<1>17. /\ depth' \in [Processes -> Nat] /\ Level(p)' = Level(p) - Queued(p)
       /\ \A q \in Processes \ {p} : depth'[q] = depth[q]
  <2>1. Level(p) - Queued(p) \in Nat
    BY ONLY <1>13, <1>14
  <2>2. depth \in [Processes -> Nat] /\ depth[p] - Len(queue[p]) \in Nat
    BY <2>1 DEF BooksInv, CallTypeOK, Level, Queued
  <2>3. depth' \in [Processes -> Nat] /\ depth'[p] = depth[p] - Len(queue[p])
    BY <1>1, <2>2
  <2> QED BY <1>1, <2>2, <2>3 DEF Level, Queued
<1>18. CallTypeOK'
  BY <1>1, <1>12, <1>16, <1>17 DEF BooksInv, CallTypeOK
<1>19. SentCalls(p)' = SentCalls(p) /\ BusyCalls(p)' = BusyCalls(p) /\ Doubtful(p)' = Doubtful(p)
  BY <1>1, <1>12, CallsUnchanged
<1>20. Enqueued(p)' + SentCalls(p)' + Queued(p) + Batched(p) + Counted(p) + Doubtful(p)
         = Enqueued(p) + SentCalls(p) + Queued(p)' + Batched(p)' + Counted(p)' + Doubtful(p)'
  BY ONLY <1>13, <1>14, <1>16, <1>19
<1>21. Level(p)' + Queued(p) + BusyCalls(p) + InHand(p)
         = Level(p) + Queued(p)' + BusyCalls(p)' + InHand(p)'
  BY ONLY <1>13, <1>14, <1>17, <1>19
<1>22. \A q \in Processes \ {p} : SameColumns(q)
  BY <1>1, <1>8, <1>12, <1>16, <1>17, CallsUnchanged, ColumnsUnchanged
<1>23. BooksInv'
  BY <1>11, <1>18, <1>20, <1>21, <1>22, BooksStep DEF FlowInv
<1> QED BY <1>3, <1>11, <1>23

-----------------------------------------------------------------------------
(* The store *)

(* Where there is no transaction, no number is drawn. *)
LEMMA NoTransactionIs ==
  /\ NoTransaction \in Transaction /\ NoTransaction.phase = "none"
  /\ NewRows(NoTransaction) = {} /\ ~HoldsLock(NoTransaction)
  BY DEF NoTransaction, Transaction, NewRows, HoldsLock

(* A transaction that has drawn nothing is ahead of everything. *)
LEMMA NothingDrawn == ASSUME NEW t, NewRows(t) = {} PROVE Ahead(t) /\ Ahead(t)'
  BY DEF Ahead

(* Numbers stay ahead when the sequence only grows. *)
LEMMA AheadKept ==
  ASSUME NEW t \in Transaction, Ahead(t), StoreTypeOK, UNCHANGED <<seq, snapshot>>,
         nextSeq' \in Nat, nextSeq' >= nextSeq
  PROVE  Ahead(t)'
<1> SUFFICES ASSUME NEW f \in NewRows(t)
             PROVE  /\ seq'[f] = 0 /\ t.drawn[f] < nextSeq'
                    /\ \A g \in Facts : seq'[g] < t.drawn[f]
                    /\ snapshot' # None => snapshot'.watermark < t.drawn[f]
  BY DEF Ahead
<1>1. /\ seq[f] = 0 /\ t.drawn[f] < nextSeq
      /\ \A g \in Facts : seq[g] < t.drawn[f]
      /\ snapshot # None => snapshot.watermark < t.drawn[f]
  BY DEF Ahead
<1>2. f \in Facts /\ t.drawn[f] \in Nat /\ nextSeq \in Nat
  BY DEF NewRows, Transaction, StoreTypeOK
<1>3. t.drawn[f] < nextSeq'
  BY <1>1, <1>2
<1> QED BY <1>1, <1>3

(* One transaction of a process changes. *)
LEMMA TxStep ==
  ASSUME StoreInv, NEW p \in Processes, NEW t \in Transaction,
         tx' = [tx EXCEPT ![p] = t], UNCHANGED <<zombie, seq, snapshot>>,
         nextSeq' \in Nat, nextSeq' >= nextSeq,
         HoldsLock(t) => HoldsLock(tx[p]) \/ LockFree,
         t.phase \in {"none", "begun", "locked"} => NewRows(t) = {},
         NewRows(t) \subseteq t.facts, Ahead(t)'
  PROVE  StoreInv'
<1>1. /\ tx \in [Processes -> Transaction] /\ zombie \in Transaction /\ seq \in [Facts -> Nat]
      /\ nextSeq \in Nat \ {0}
  BY DEF StoreInv, StoreTypeOK
<1>2. /\ tx' \in [Processes -> Transaction] /\ tx'[p] = t
      /\ \A q \in Processes \ {p} : tx'[q] = tx[q]
  BY <1>1
<1>3. StoreTypeOK'
  <2>1. nextSeq' \in Nat \ {0}
    BY <1>1
  <2> QED BY <1>1, <1>2, <2>1 DEF StoreInv, StoreTypeOK
<1>4. LockInv'
  <2>1. zombie'.phase # "none" => HoldsLock(zombie')
    BY DEF StoreInv, LockInv
  <2>2. ASSUME NEW q \in Processes PROVE ~(HoldsLock(zombie') /\ HoldsLock(tx'[q]))
    BY <1>2 DEF StoreInv, LockInv, LockFree
  <2>3. ASSUME NEW q \in Processes, NEW r \in Processes, HoldsLock(tx'[q]), HoldsLock(tx'[r]) PROVE q = r
    BY <1>2, <2>3 DEF StoreInv, LockInv, LockFree
  <2>4. ASSUME NEW q \in Processes
        PROVE  /\ tx'[q].phase \in {"none", "begun", "locked"} => NewRows(tx'[q]) = {}
               /\ NewRows(tx'[q]) \subseteq tx'[q].facts
    BY <1>2 DEF StoreInv, LockInv
  <2>5. zombie'.phase \in {"none", "locked"} => NewRows(zombie') = {}
    BY DEF StoreInv, LockInv
  <2> QED BY <2>1, <2>2, <2>3, <2>4, <2>5, Zenon DEF LockInv
<1>5. SeqInv'
  <2>1. \A f \in Facts : seq'[f] < nextSeq'
    BY <1>1 DEF StoreInv, SeqInv
  <2>2. snapshot' # None => snapshot'.watermark < nextSeq'
    BY <1>1 DEF StoreInv, SeqInv, StoreTypeOK
  <2>3. PICK z : z = zombie
    OBVIOUS
  <2>4. Ahead(z) /\ z \in Transaction
    BY <1>1, <2>3 DEF StoreInv, SeqInv
  <2>5. Ahead(z)'
    BY <2>4, AheadKept DEF StoreInv
  <2>6. Ahead(zombie)'
    BY <2>3, <2>5 DEF Ahead
  <2>7. ASSUME NEW q \in Processes PROVE Ahead(tx[q])'
    <3>1. CASE q = p
      BY <1>2, <3>1 DEF Ahead
    <3>2. CASE q # p
      <4>1. PICK u : u = tx[q]
        OBVIOUS
      <4>2. Ahead(u) /\ u \in Transaction /\ u = tx'[q]
        BY <1>1, <1>2, <3>2, <4>1 DEF StoreInv, SeqInv
      <4>3. Ahead(u)'
        BY <4>2, AheadKept DEF StoreInv
      <4> QED BY <4>2, <4>3 DEF Ahead
    <3> QED BY <3>1, <3>2
  <2> QED BY <2>1, <2>2, <2>6, <2>7 DEF SeqInv
<1>6. SnapshotStable'
  BY DEF StoreInv, SnapshotStable, Rows
<1> QED BY <1>3, <1>4, <1>5, <1>6 DEF StoreInv

(* A transaction is left behind: it is the zombie now, if it has the lock. *)
LEMMA AbandonStore ==
  ASSUME StoreInv, NEW p \in Processes, Abandon(p), UNCHANGED <<seq, nextSeq, snapshot>>
  PROVE  StoreInv'
<1>1. /\ tx \in [Processes -> Transaction] /\ zombie \in Transaction
      /\ tx' = [tx EXCEPT ![p] = NoTransaction]
      /\ IF HoldsLock(tx[p]) THEN zombie' = tx[p] ELSE zombie' = zombie
  BY DEF StoreInv, StoreTypeOK, Abandon
<1>2. /\ tx' \in [Processes -> Transaction] /\ tx'[p] = NoTransaction
      /\ \A q \in Processes \ {p} : tx'[q] = tx[q]
  BY <1>1, NoTransactionIs
<1>3. StoreTypeOK'
  BY <1>1, <1>2 DEF StoreInv, StoreTypeOK
<1>4. LockInv'
  <2>1. zombie'.phase # "none" => HoldsLock(zombie')
    BY <1>1 DEF StoreInv, LockInv
  <2>2. ASSUME NEW q \in Processes PROVE ~(HoldsLock(zombie') /\ HoldsLock(tx'[q]))
    BY <1>1, <1>2, NoTransactionIs DEF StoreInv, LockInv
  <2>3. ASSUME NEW q \in Processes, NEW r \in Processes, HoldsLock(tx'[q]), HoldsLock(tx'[r]) PROVE q = r
    BY <1>2, <2>3, NoTransactionIs DEF StoreInv, LockInv
  <2>4. ASSUME NEW q \in Processes
        PROVE  /\ tx'[q].phase \in {"none", "begun", "locked"} => NewRows(tx'[q]) = {}
               /\ NewRows(tx'[q]) \subseteq tx'[q].facts
    BY <1>2, NoTransactionIs DEF StoreInv, LockInv
  <2>5. zombie'.phase \in {"none", "locked"} => NewRows(zombie') = {}
    BY <1>1 DEF StoreInv, LockInv
  <2> QED BY <2>1, <2>2, <2>3, <2>4, <2>5, Zenon DEF LockInv
<1>5. \A t : Ahead(t)' <=> Ahead(t)
  BY DEF Ahead
<1>6. SeqInv'
  <2>1. PICK z : z = zombie'
    OBVIOUS
  <2>2. Ahead(z)
    BY <1>1, <2>1 DEF StoreInv, SeqInv
  <2>3. Ahead(zombie)'
    BY <1>5, <2>1, <2>2 DEF Ahead
  <2>4. ASSUME NEW q \in Processes PROVE Ahead(tx[q])'
    <3>1. PICK u : u = tx'[q]
      OBVIOUS
    <3>2. Ahead(u)
      BY <1>2, <3>1, NoTransactionIs, NothingDrawn DEF StoreInv, SeqInv
    <3> QED BY <1>5, <3>1, <3>2 DEF Ahead
  <2> QED BY <2>3, <2>4 DEF StoreInv, SeqInv
<1>7. SnapshotStable'
  BY DEF StoreInv, SnapshotStable, Rows
<1> QED BY <1>3, <1>4, <1>6, <1>7 DEF StoreInv

(* A transaction commits: its numbers are above every watermark, and nobody  *)
(* else has drawn any.                                                       *)
LEMMA CommitStore ==
  ASSUME StoreInv, NEW t \in Transaction, Ahead(t), Committed(t), UNCHANGED <<nextSeq, snapshot>>,
         zombie' \in Transaction, tx' \in [Processes -> Transaction], LockInv',
         NewRows(zombie') = {}, \A p \in Processes : NewRows(tx'[p]) = {}
  PROVE  StoreInv'
<1>1. seq \in [Facts -> Nat] /\ t.drawn \in [Facts -> Nat] /\ nextSeq \in Nat \ {0}
  BY DEF StoreInv, StoreTypeOK, Transaction
<1>2. /\ seq' \in [Facts -> Nat]
      /\ \A f \in Facts : seq'[f] = IF f \in NewRows(t) THEN t.drawn[f] ELSE seq[f]
  BY <1>1 DEF Committed, NewRows
<1>3. \A f \in NewRows(t) : /\ seq[f] = 0 /\ t.drawn[f] < nextSeq
                            /\ snapshot # None => snapshot.watermark < t.drawn[f]
  BY DEF Ahead
<1>4. StoreTypeOK'
  BY <1>2 DEF StoreInv, StoreTypeOK
<1>5. SeqInv'
  <2>1. \A f \in Facts : seq'[f] < nextSeq'
    BY <1>2, <1>3 DEF StoreInv, SeqInv
  <2>2. Ahead(zombie)'
    BY DEF Ahead
  <2>3. \A p \in Processes : Ahead(tx[p])'
    BY DEF Ahead
  <2> QED BY <2>1, <2>2, <2>3 DEF StoreInv, SeqInv
<1>6. SnapshotStable'
  <2> SUFFICES ASSUME snapshot' # None PROVE Rows(snapshot.watermark)' = snapshot'.rows
    BY DEF SnapshotStable
  <2> DEFINE w == snapshot.watermark
  <2>1. w \in Nat /\ Rows(w) = snapshot.rows
    BY DEF StoreInv, StoreTypeOK, SnapshotStable
  <2> HIDE DEF w
  <2>2. w' = w
    BY DEF w
  <2>3. ASSUME NEW f \in Facts PROVE seq'[f] \in 1..w <=> seq[f] \in 1..w
    <3>1. CASE f \in NewRows(t)
      <4>1. seq[f] = 0 /\ seq'[f] = t.drawn[f] /\ w < t.drawn[f] /\ t.drawn[f] \in Nat
        BY <1>1, <1>2, <1>3, <3>1 DEF w
      <4> QED BY <2>1, <4>1
    <3>2. CASE f \notin NewRows(t)
      BY <1>2, <3>2
    <3> QED BY <3>1, <3>2
  <2>4. Rows(w)' = Rows(w)
    BY <2>2, <2>3 DEF Rows
  <2> QED BY <2>1, <2>4 DEF w
<1> QED BY <1>4, <1>5, <1>6 DEF StoreInv

(* Only one transaction has drawn numbers. *)
LEMMA OneDraws ==
  ASSUME StoreInv
  PROVE  /\ \A p \in Processes : NewRows(tx[p]) # {} => HoldsLock(tx[p])
         /\ NewRows(zombie) # {} => HoldsLock(zombie)
<1>1. tx \in [Processes -> Transaction] /\ zombie \in Transaction
  BY DEF StoreInv, StoreTypeOK
<1>2. \A p \in Processes : tx[p].phase \in {"none", "begun", "locked", "inserted", "committing"}
  BY <1>1 DEF Transaction
<1>3. zombie.phase \in {"none", "begun", "locked", "inserted", "committing"}
  BY <1>1 DEF Transaction
<1> QED BY <1>2, <1>3 DEF StoreInv, LockInv, HoldsLock

-----------------------------------------------------------------------------
(* The attempts of a flush *)

(* A step within a transaction leaves the facts where they are. *)
LEMMA TxFlow ==
  ASSUME StoreTypeOK, FlowInv, NEW p \in Processes, NEW t, tx' = [tx EXCEPT ![p] = t],
         runner[p] = "flush", t.facts = InFlush(p),
         UNCHANGED <<caller, queue, accepting, runnerVars, zombie, seq, outcome>>
  PROVE  FlowInv'
<1>1. UNCHANGED <<caller, queue, accepting, runner, batch, retries, unknown, bounded, shutdown, outcome>>
  BY DEF runnerVars
<1>2. \A q : Waiting(q)' = Waiting(q) /\ InFlush(q)' = InFlush(q)
  BY <1>1 DEF Waiting, InFlush
<1>3. \A f : Untouched(f)' <=> Untouched(f)
  BY DEF Untouched
<1>4. SeqTypeOK' /\ RunTypeOK'
  BY <1>1 DEF FlowInv, SeqTypeOK, RunTypeOK
<1>5. HeldInv'
  BY <1>1, <1>2 DEF FlowInv, HeldInv
<1>6. tx'[p] = t /\ \A q \in Processes \ {p} : tx'[q] = tx[q]
  BY DEF StoreTypeOK
<1>7. FlushInv'
  <2> SUFFICES ASSUME NEW q \in Processes
               PROVE  /\ runner'[q] # "flush" => ~unknown'[q] /\ tx'[q].phase = "none"
                      /\ tx'[q].phase # "none" => tx'[q].facts = InFlush(q)'
                      /\ runner'[q] = "select" => Len(batch'[q]) < BatchSize
    BY DEF FlushInv
  <2>1. CASE q = p
    BY <1>1, <1>2, <1>6, <2>1
  <2>2. CASE q # p
    BY <1>1, <1>2, <1>6, <2>2 DEF FlowInv, FlushInv
  <2> QED BY <2>1, <2>2
<1>8. CleanInv'
  BY <1>1, <1>2, <1>3 DEF FlowInv, CleanInv
<1>9. DroppedInv'
  BY <1>1, <1>3 DEF FlowInv, DroppedInv
<1> QED BY <1>4, <1>5, <1>7, <1>8, <1>9 DEF FlowInv

(* Nor does it touch the counters. *)
LEMMA TxBooks ==
  ASSUME FlowInv, BooksInv, UNCHANGED <<callerVars, queueVars, runnerVars, outcome>>
  PROVE  BooksInv'
<1>1. UNCHANGED <<caller, depth, stats, outcome, queue, batch, runner>>
  BY DEF callerVars, queueVars, runnerVars
<1> QED BY <1>1, BooksUnchanged DEF FlowInv

(* An attempt begins, about the whole batch. *)
LEMMA BeginInv ==
  ASSUME StoreInv, FlowInv, BooksInv, NEW p \in Processes, Begin(p)
  PROVE  StoreInv' /\ FlowInv' /\ BooksInv'
<1>1. /\ runner[p] = "flush" /\ tx[p].phase = "none" /\ tx[p] \in Transaction
      /\ UNCHANGED <<callerVars, queueVars, runnerVars, zombie, seq, nextSeq, snapshot, outcome>>
      /\ nextSeq \in Nat
  BY DEF Begin, StoreInv, StoreTypeOK
<1>2. UNCHANGED <<caller, queue, accepting>>
  BY <1>1 DEF callerVars, queueVars
<1>3. InFlush(p) \subseteq Facts
  BY HoldsByIndex DEF FlowInv, SeqTypeOK, InFlush
<1>4. NewRows(tx[p]) = {}
  BY <1>1 DEF StoreInv, LockInv
<1>5. PICK t : t = [tx[p] EXCEPT !.phase = "begun", !.facts = InFlush(p)]
  OBVIOUS
<1>6. tx' = [tx EXCEPT ![p] = t]
  BY <1>5 DEF Begin, InFlush
<1>7. /\ t \in Transaction /\ t.phase = "begun" /\ t.facts = InFlush(p) /\ t.drawn = tx[p].drawn
  BY <1>1, <1>3, <1>5 DEF Transaction
<1>8. NewRows(t) = {} /\ ~HoldsLock(t)
  BY <1>4, <1>7 DEF NewRows, HoldsLock
<1>9. StoreInv'
  <2>1. nextSeq' \in Nat /\ nextSeq' >= nextSeq
    BY <1>1
  <2>2. Ahead(t)'
    BY <1>8, NothingDrawn
  <2>3. NewRows(t) \subseteq t.facts
    BY <1>8
  <2> QED BY <1>1, <1>6, <1>7, <1>8, <2>1, <2>2, <2>3, TxStep
<1>10. FlowInv'
  BY <1>1, <1>2, <1>6, <1>7, TxFlow DEF StoreInv
<1> QED BY <1>1, <1>9, <1>10, TxBooks

(* Of a transaction under way: its runner flushes, and it is about the batch. *)
LEMMA UnderWay ==
  ASSUME StoreInv, FlowInv, NEW p \in Processes, tx[p].phase # "none"
  PROVE  /\ runner[p] = "flush" /\ tx[p].facts = InFlush(p) /\ tx[p] \in Transaction
         /\ NewRows(tx[p]) \subseteq InFlush(p) /\ nextSeq \in Nat \ {0}
  BY DEF StoreInv, StoreTypeOK, LockInv, FlowInv, FlushInv

(* The advisory lock is taken when nobody has it. *)
LEMMA TakeLockInv ==
  ASSUME StoreInv, FlowInv, BooksInv, NEW p \in Processes, TakeLock(p)
  PROVE  StoreInv' /\ FlowInv' /\ BooksInv'
<1>1. /\ tx[p].phase = "begun" /\ LockFree
      /\ UNCHANGED <<callerVars, queueVars, runnerVars, zombie, seq, nextSeq, snapshot, outcome>>
  BY DEF TakeLock
<1>2. UNCHANGED <<caller, queue, accepting>>
  BY <1>1 DEF callerVars, queueVars
<1>3. /\ runner[p] = "flush" /\ tx[p].facts = InFlush(p) /\ tx[p] \in Transaction /\ nextSeq \in Nat
  BY <1>1, UnderWay
<1>4. NewRows(tx[p]) = {}
  BY <1>1 DEF StoreInv, LockInv
<1>5. PICK t : t = [tx[p] EXCEPT !.phase = "locked"]
  OBVIOUS
<1>6. tx' = [tx EXCEPT ![p] = t]
  BY <1>5 DEF TakeLock
<1>7. /\ t \in Transaction /\ t.phase = "locked" /\ t.facts = InFlush(p) /\ t.drawn = tx[p].drawn
  BY <1>3, <1>5 DEF Transaction
<1>8. NewRows(t) = {}
  BY <1>4, <1>7 DEF NewRows
<1>9. StoreInv'
  <2>1. nextSeq' \in Nat /\ nextSeq' >= nextSeq
    BY <1>1, <1>3
  <2>2. Ahead(t)'
    BY <1>8, NothingDrawn
  <2>3. NewRows(t) \subseteq t.facts
    BY <1>8
  <2> QED BY <1>1, <1>6, <1>7, <1>8, <2>1, <2>2, <2>3, TxStep
<1>10. FlowInv'
  BY <1>1, <1>2, <1>3, <1>6, <1>7, TxFlow DEF StoreInv
<1> QED BY <1>1, <1>9, <1>10, TxBooks

(* The COMMIT is sent: from here on the transaction may commit by itself. *)
LEMMA SendCommitInv ==
  ASSUME StoreInv, FlowInv, BooksInv, NEW p \in Processes, SendCommit(p)
  PROVE  StoreInv' /\ FlowInv' /\ BooksInv'
<1>1. /\ tx[p].phase = "inserted"
      /\ UNCHANGED <<callerVars, queueVars, runnerVars, zombie, seq, nextSeq, snapshot, outcome>>
  BY DEF SendCommit
<1>2. UNCHANGED <<caller, queue, accepting>>
  BY <1>1 DEF callerVars, queueVars
<1>3. /\ runner[p] = "flush" /\ tx[p].facts = InFlush(p) /\ tx[p] \in Transaction /\ nextSeq \in Nat
      /\ NewRows(tx[p]) \subseteq InFlush(p)
  BY <1>1, UnderWay
<1>4. PICK t : t = [tx[p] EXCEPT !.phase = "committing"]
  OBVIOUS
<1>5. tx' = [tx EXCEPT ![p] = t]
  BY <1>4 DEF SendCommit
<1>6. /\ t \in Transaction /\ t.phase = "committing" /\ t.facts = InFlush(p) /\ t.drawn = tx[p].drawn
  BY <1>3, <1>4 DEF Transaction
<1>7. NewRows(t) = NewRows(tx[p])
  BY <1>6 DEF NewRows
<1>8. Ahead(t)
  BY <1>6, <1>7 DEF Ahead, StoreInv, SeqInv
<1>9. Ahead(t)'
  BY <1>1, <1>3, <1>6, <1>8, AheadKept DEF StoreInv
<1>10. HoldsLock(tx[p])
  BY <1>1 DEF HoldsLock
<1>11. StoreInv'
  <2>1. nextSeq' \in Nat /\ nextSeq' >= nextSeq
    BY <1>1, <1>3
  <2>2. NewRows(t) \subseteq t.facts /\ t.phase \notin {"none", "begun", "locked"}
    BY <1>3, <1>6, <1>7
  <2> QED BY <1>1, <1>5, <1>6, <1>9, <1>10, <2>1, <2>2, TxStep
<1>12. FlowInv'
  BY <1>1, <1>2, <1>3, <1>5, <1>6, TxFlow DEF StoreInv
<1> QED BY <1>1, <1>11, <1>12, TxBooks

(* INSERT draws above everything committed, and only for rows that are not   *)
(* there yet.                                                                *)
LEMMA InsertInv ==
  ASSUME StoreInv, FlowInv, BooksInv, NEW p \in Processes, Insert(p)
  PROVE  StoreInv' /\ FlowInv' /\ BooksInv'
<1>1. /\ tx[p].phase = "locked" /\ nextSeq' = nextSeq + Len(batch[p])
      /\ UNCHANGED <<callerVars, queueVars, runnerVars, zombie, seq, snapshot, outcome>>
  BY DEF Insert
<1>2. UNCHANGED <<caller, queue, accepting>>
  BY <1>1 DEF callerVars, queueVars
<1>3. /\ runner[p] = "flush" /\ tx[p].facts = InFlush(p) /\ tx[p] \in Transaction /\ nextSeq \in Nat \ {0}
  BY <1>1, UnderWay
<1>4. batch[p] \in Seq(Facts) /\ Len(batch[p]) \in Nat /\ seq \in [Facts -> Nat]
  BY LenProperties DEF FlowInv, SeqTypeOK, StoreInv, StoreTypeOK
<1>5. nextSeq' \in Nat /\ nextSeq' >= nextSeq
  BY <1>1, <1>3, <1>4
<1>6. ASSUME NEW f \in Facts
      PROVE  IF f \in InFlush(p) /\ seq[f] = 0
             THEN Drawn(p)[f] \in nextSeq..(nextSeq' - 1) ELSE Drawn(p)[f] = 0
  <2>1. CASE f \in InFlush(p) /\ seq[f] = 0
    <3> DEFINE i == SelectInSeq(batch[p], LAMBDA g : g = f)
    <3>1. i \in 1..Len(batch[p])
      BY <1>4, <2>1, SelectFinds DEF InFlush
    <3>2. Drawn(p)[f] = nextSeq + i - 1
      BY <1>3, <2>1 DEF Drawn
    <3> HIDE DEF i
    <3>3. Drawn(p)[f] \in nextSeq..(nextSeq' - 1)
      BY <1>1, <1>3, <1>4, <3>1, <3>2
    <3> QED BY <2>1, <3>3
  <2>2. CASE ~(f \in InFlush(p) /\ seq[f] = 0)
    BY <1>3, <2>2 DEF Drawn
  <2> QED BY <2>1, <2>2
<1>7. PICK d : d = Drawn(p)
  OBVIOUS
<1>8. d \in [Facts -> Nat]
  <2>1. DOMAIN d = Facts /\ d = [f \in Facts |-> d[f]]
    BY <1>7 DEF Drawn
  <2>2. \A f \in Facts : d[f] \in Nat
    BY <1>3, <1>5, <1>6, <1>7
  <2> QED BY <2>1, <2>2
<1>9. PICK t : t = [tx[p] EXCEPT !.phase = "inserted", !.drawn = d]
  OBVIOUS
<1>10. tx' = [tx EXCEPT ![p] = t]
  BY <1>7, <1>9 DEF Insert
<1>11. /\ t \in Transaction /\ t.phase = "inserted" /\ t.facts = InFlush(p) /\ t.drawn = d
  BY <1>3, <1>8, <1>9 DEF Transaction
<1>12. \A f \in NewRows(t) : /\ f \in Facts /\ f \in InFlush(p) /\ seq[f] = 0
                             /\ d[f] \in nextSeq..(nextSeq' - 1)
  BY <1>6, <1>7, <1>11 DEF NewRows
<1>13. Ahead(t)'
  <2> SUFFICES ASSUME NEW f \in NewRows(t)
               PROVE  /\ seq'[f] = 0 /\ t.drawn[f] < nextSeq'
                      /\ \A g \in Facts : seq'[g] < t.drawn[f]
                      /\ snapshot' # None => snapshot'.watermark < t.drawn[f]
    BY DEF Ahead
  <2>1. seq[f] = 0 /\ t.drawn[f] \in nextSeq..(nextSeq' - 1)
    BY <1>11, <1>12
  <2>2. t.drawn[f] \in Nat /\ nextSeq <= t.drawn[f] /\ t.drawn[f] < nextSeq'
    BY <1>3, <1>5, <2>1
  <2>3. \A g \in Facts : seq[g] < nextSeq /\ seq[g] \in Nat
    BY <1>4 DEF StoreInv, SeqInv
  <2>4. snapshot # None => snapshot.watermark < nextSeq /\ snapshot.watermark \in Nat
    BY DEF StoreInv, StoreTypeOK, SeqInv
  <2> QED BY <1>1, <1>3, <2>1, <2>2, <2>3, <2>4
<1>14. HoldsLock(tx[p]) /\ NewRows(t) \subseteq t.facts
  BY <1>1, <1>11, <1>12 DEF HoldsLock
<1>15. StoreInv'
  BY <1>1, <1>5, <1>10, <1>11, <1>13, <1>14, TxStep
<1>16. FlowInv'
  BY <1>1, <1>2, <1>3, <1>10, <1>11, TxFlow DEF StoreInv
<1> QED BY <1>1, <1>15, <1>16, TxBooks

(* A flush ends: its batch is concluded and, unless the verdict is unknown,  *)
(* counted.                                                                  *)
LEMMA FlushEnds ==
  ASSUME StoreTypeOK, FlowInv, BooksInv, NEW p \in Processes,
         NEW verdict \in {"stored", "dropped", "unknown"}, NEW place \in {"select", "stop"},
         EndFlush(p, verdict), Goto(p, place), runner[p] = "flush",
         UNCHANGED <<caller, queue, accepting, depth, shutdown>>, tx' = [tx EXCEPT ![p] = NoTransaction],
         \A f \in Facts \ InFlush(p) : Untouched(f) => Untouched(f)',
         verdict = "dropped" => \A f \in InFlush(p) : Untouched(f)',
         stats' \in [Processes -> [Counters -> Nat]],
         \A q \in Processes \ {p} : stats'[q] = stats[q], Enqueued(p)' = Enqueued(p),
         verdict # "unknown" => Counted(p)' = Counted(p) + Len(batch[p]),
         verdict = "unknown" => Counted(p)' = Counted(p)
  PROVE  FlowInv' /\ BooksInv'
<1>1. /\ batch' = [batch EXCEPT ![p] = <<>>] /\ retries' = [retries EXCEPT ![p] = 0]
      /\ unknown' = [unknown EXCEPT ![p] = FALSE] /\ bounded' = [bounded EXCEPT ![p] = FALSE]
      /\ runner' = [runner EXCEPT ![p] = place]
  BY DEF EndFlush, Goto
<1>2. PICK D : D = InFlush(p)
  OBVIOUS
<1>3. Conclude(D, verdict)
  BY <1>2 DEF EndFlush, InFlush, Conclude
<1>4. /\ outcome \in [Facts -> Verdicts] /\ tx \in [Processes -> Transaction]
      /\ queue \in [Processes -> Seq(Facts)] /\ batch \in [Processes -> Seq(Facts)]
      /\ runner \in [Processes -> {"select", "received", "flush", "stop", "stopped"}]
      /\ unknown \in [Processes -> BOOLEAN]
  BY DEF StoreTypeOK, FlowInv, BooksInv, CallTypeOK, RunTypeOK, SeqTypeOK
<1>5. RunTypeOK'
  BY <1>1, WriterAssumption DEF FlowInv, RunTypeOK
<1>6. /\ batch'[p] = <<>> /\ runner'[p] = place /\ ~unknown'[p] /\ tx'[p].phase = "none"
      /\ \A q \in Processes \ {p} : batch'[q] = batch[q] /\ runner'[q] = runner[q]
                                    /\ unknown'[q] = unknown[q] /\ tx'[q] = tx[q]
  BY <1>1, <1>4, NoTransactionIs
<1>7. D \subseteq Waiting(p) \cup InFlush(p) /\ Waiting(p)' \cap D = {}
  BY <1>2 DEF FlowInv, HeldInv, Waiting
<1>8. FlowInv'
  <2>1. runner'[p] # "flush" /\ (verdict = "dropped" => \A f \in D : Untouched(f)')
    BY <1>2, <1>6
  <2> QED BY <1>1, <1>3, <1>4, <1>5, <1>6, <1>7, <2>1, ConcludeFlow
<1>9. /\ \A q \in Processes \ {p} : Doubtful(q)' = Doubtful(q)
      /\ verdict # "unknown" => Doubtful(p)' = Doubtful(p)
      /\ verdict = "unknown" => Doubtful(p)' = Doubtful(p) + Len(batch[p])
      /\ outcome' \in [Facts -> Verdicts \cup {verdict}]
  BY <1>2, <1>3, <1>4, <1>7, ConcludeNumbers
<1>10. CallTypeOK'
  <2>1. Verdicts \cup {verdict} = Verdicts
    BY DEF Verdicts
  <2> QED BY <1>9, <2>1 DEF BooksInv, CallTypeOK
<1>11. /\ Queued(p) \in Nat /\ Batched(p) \in Nat /\ BusyCalls(p) \in Nat /\ Enqueued(p) \in Nat
       /\ SentCalls(p) \in Nat /\ Counted(p) \in Nat /\ Doubtful(p) \in Nat /\ Level(p) \in Nat
  BY ColumnTypes, Zenon DEF ColumnsOK, TypedColumns, FlowInv, BooksInv
<1>12. /\ InHand(p) = 0 /\ InHand(p)' = 0 /\ Queued(p)' = Queued(p) /\ Batched(p)' = 0
       /\ Level(p)' = Level(p) /\ SentCalls(p)' = SentCalls(p) /\ BusyCalls(p)' = BusyCalls(p)
  BY <1>6, EmptyHolds, CallsUnchanged DEF InHand, Queued, Batched, Level
<1>13. Counted(p)' + Doubtful(p)' = Counted(p) + Doubtful(p) + Batched(p)
  <2>1. Len(batch[p]) = Batched(p)
    BY DEF Batched
  <2>2. CASE verdict # "unknown"
    <3>1. Counted(p)' = Counted(p) + Batched(p) /\ Doubtful(p)' = Doubtful(p)
      BY <1>9, <2>1, <2>2
    <3> QED BY ONLY <1>11, <3>1
  <2>3. CASE verdict = "unknown"
    <3>1. Counted(p)' = Counted(p) /\ Doubtful(p)' = Doubtful(p) + Batched(p)
      BY <1>9, <2>1, <2>3
    <3> QED BY ONLY <1>11, <3>1
  <2> QED BY <2>2, <2>3
<1>14. Counted(p)' \in Nat /\ Doubtful(p)' \in Nat
  <2>1. SeqTypeOK' /\ CallTypeOK' => ColumnsOK'
    BY ColumnTypes, PTL
  <2> QED BY <1>8, <1>10, <2>1, Zenon DEF ColumnsOK, TypedColumns, FlowInv
<1>15. Enqueued(p)' + SentCalls(p)' + Queued(p) + Batched(p) + Counted(p) + Doubtful(p)
         = Enqueued(p) + SentCalls(p) + Queued(p)' + Batched(p)' + Counted(p)' + Doubtful(p)'
  <2>1. Enqueued(p)' = Enqueued(p)
    OBVIOUS
  <2> QED BY ONLY <1>11, <1>12, <1>13, <1>14, <2>1
<1>16. Level(p)' + Queued(p) + BusyCalls(p) + InHand(p)
         = Level(p) + Queued(p)' + BusyCalls(p)' + InHand(p)'
  BY ONLY <1>11, <1>12
<1>17. \A q \in Processes \ {p} : SameColumns(q)
  BY <1>6, <1>9, CallsUnchanged, ColumnsUnchanged
<1>18. BooksInv'
  BY <1>8, <1>10, <1>15, <1>16, <1>17, BooksStep DEF FlowInv
<1> QED BY <1>8, <1>18

(* The counters of a batch that was written: new rows and duplicates. *)
LEMMA WrittenCounts ==
  ASSUME CallTypeOK, NEW p \in Processes, NEW n \in Nat, NEW k \in 0..n,
         stats' = [stats EXCEPT ![p]["written"] = @ + k, ![p]["duplicate"] = @ + n - k]
  PROVE  /\ stats' \in [Processes -> [Counters -> Nat]]
         /\ \A q \in Processes \ {p} : stats'[q] = stats[q]
         /\ Enqueued(p)' = Enqueued(p) /\ Counted(p)' = Counted(p) + n
<1>1. stats \in [Processes -> [Counters -> Nat]]
  BY DEF CallTypeOK
<1> DEFINE w == stats[p]["written"]
           d == stats[p]["duplicate"]
           x == stats[p]["exhausted"]
           z == stats[p]["timeout"]
<1>2. w \in Nat /\ d \in Nat /\ x \in Nat /\ z \in Nat
  BY <1>1 DEF Counters
<1>3. /\ \A q \in Processes \ {p} : stats'[q] = stats[q]
      /\ stats'[p] = [stats[p] EXCEPT !["written"] = w + k, !["duplicate"] = d + n - k]
      /\ DOMAIN stats' = Processes /\ stats' = [q \in Processes |-> stats'[q]]
  BY <1>1
<1>4. w + k \in Nat /\ d + n - k \in Nat
  BY <1>2
<1>5. stats[p] \in [Counters -> Nat]
  BY <1>1
<1>6. /\ stats'[p] \in [Counters -> Nat]
      /\ stats'[p]["enqueued"] = stats[p]["enqueued"]
      /\ stats'[p]["written"] = w + k /\ stats'[p]["duplicate"] = d + n - k
      /\ stats'[p]["exhausted"] = x /\ stats'[p]["timeout"] = z
  <2> HIDE DEF w, d
  <2>1. stats'[p] \in [Counters -> Nat]
    BY <1>3, <1>4, <1>5
  <2> QED BY <1>3, <1>5 DEF Counters
<1>7. stats' \in [Processes -> [Counters -> Nat]]
  BY <1>1, <1>3, <1>6
<1>8. Counted(p)' = (w + k) + (d + n - k) + x + z /\ Counted(p) = w + d + x + z
  BY <1>6 DEF Counted
<1> HIDE DEF w, d, x, z
<1>9. Counted(p)' = Counted(p) + n
  BY ONLY <1>2, <1>8, n \in Nat, k \in 0..n
<1> QED BY <1>3, <1>6, <1>7, <1>9 DEF Enqueued

(* The commit of an attempt is known to have succeeded. *)
LEMMA PersistedInv ==
  ASSUME StoreInv, FlowInv, BooksInv, NEW p \in Processes, Persisted(p)
  PROVE  StoreInv' /\ FlowInv' /\ BooksInv'
<1>1. /\ tx[p].phase = "committing" /\ tx' = [tx EXCEPT ![p] = NoTransaction]
      /\ EndFlush(p, "stored") /\ Goto(p, "select")
      /\ UNCHANGED <<caller, queue, accepting, depth, shutdown, zombie, nextSeq, snapshot>>
  BY DEF Persisted, callerVars
<1>2. /\ runner[p] = "flush" /\ tx[p] \in Transaction /\ NewRows(tx[p]) \subseteq InFlush(p)
  BY <1>1, UnderWay
<1>3. PICK t : t = tx[p]
  OBVIOUS
<1>4. t \in Transaction /\ NewRows(t) \subseteq InFlush(p) /\ Committed(t) /\ Ahead(t)
  BY <1>2, <1>3 DEF Persisted, Committed, StoreInv, SeqInv
<1>5. /\ tx \in [Processes -> Transaction] /\ zombie \in Transaction /\ seq \in [Facts -> Nat]
      /\ tx' \in [Processes -> Transaction] /\ tx'[p] = NoTransaction
      /\ \A q \in Processes \ {p} : tx'[q] = tx[q]
  BY <1>1, NoTransactionIs DEF StoreInv, StoreTypeOK
<1>6. HoldsLock(tx[p])
  BY <1>1 DEF HoldsLock
<1>7. NewRows(zombie) = {} /\ \A q \in Processes : NewRows(tx'[q]) = {}
  BY <1>5, <1>6, OneDraws, NoTransactionIs DEF StoreInv, LockInv
<1>8. LockInv'
  <2>1. zombie'.phase # "none" => HoldsLock(zombie')
    BY <1>1 DEF StoreInv, LockInv
  <2>2. ASSUME NEW q \in Processes PROVE ~(HoldsLock(zombie') /\ HoldsLock(tx'[q]))
    BY <1>1, <1>5, NoTransactionIs DEF StoreInv, LockInv
  <2>3. ASSUME NEW q \in Processes, NEW r \in Processes, HoldsLock(tx'[q]), HoldsLock(tx'[r]) PROVE q = r
    BY <1>5, <2>3, NoTransactionIs DEF StoreInv, LockInv
  <2>4. NewRows(zombie') = {}
    BY <1>1, <1>7
  <2> QED BY <1>7, <2>1, <2>2, <2>3, <2>4 DEF LockInv
<1>9. StoreInv'
  <2>1. NewRows(zombie') = {} /\ zombie' \in Transaction
    BY <1>1, <1>5, <1>7
  <2> QED BY <1>1, <1>4, <1>5, <1>7, <1>8, <2>1, CommitStore
<1>10. ASSUME NEW f \in Facts \ InFlush(p), Untouched(f) PROVE Untouched(f)'
  <2>1. f \notin NewRows(t) /\ seq'[f] = seq[f]
    BY <1>4, <1>10 DEF NewRows, Committed
  <2> QED BY <1>1, <1>10, <2>1 DEF Untouched
<1>11. batch[p] \in Seq(Facts) /\ IsInjective(batch[p])
  BY DEF FlowInv, SeqTypeOK, HeldInv
<1> DEFINE n == Len(batch[p])
           k == Cardinality(NewRows(tx[p]))
<1>12. n \in Nat /\ k \in 0..n
  <2>1. IsFiniteSet(InFlush(p)) /\ Cardinality(InFlush(p)) = n /\ n \in Nat
    BY <1>11, LengthIsNumber, LenProperties DEF InFlush
  <2>2. NewRows(tx[p]) \in SUBSET InFlush(p)
    BY <1>2
  <2>3. IsFiniteSet(NewRows(tx[p])) /\ k <= n
    BY <2>1, <2>2, FS_Subset
  <2> QED BY <2>1, <2>3, FS_CardinalityType
<1>13. stats' = [stats EXCEPT ![p]["written"] = @ + k, ![p]["duplicate"] = @ + n - k]
  BY DEF Persisted
<1>14. /\ stats' \in [Processes -> [Counters -> Nat]]
       /\ \A q \in Processes \ {p} : stats'[q] = stats[q]
       /\ Enqueued(p)' = Enqueued(p) /\ Counted(p)' = Counted(p) + n
  <2> HIDE DEF n, k
  <2>1. CallTypeOK
    BY DEF BooksInv
  <2> QED BY <1>12, <1>13, <2>1, WrittenCounts
<1>15. FlowInv' /\ BooksInv'
  BY <1>1, <1>2, <1>10, <1>14, FlushEnds DEF StoreInv
<1> QED BY <1>9, <1>15

(* What a failed attempt leaves behind touches the facts of its own batch    *)
(* only, and those only when its outcome is unknown.                         *)
FailedAttempt(p, saw) ==
  /\ tx' = [tx EXCEPT ![p] = NoTransaction]
  /\ \A f \in Facts \ InFlush(p) : Untouched(f) => Untouched(f)'
  /\ ~saw => \A f \in Facts : Untouched(f) => Untouched(f)'

(* The batch is given up. *)
LEMMA GiveUpInv ==
  ASSUME StoreInv, FlowInv, BooksInv, NEW p \in Processes, NEW saw \in BOOLEAN,
         runner[p] = "flush", FailedAttempt(p, saw), GiveUp(p, saw), UNCHANGED caller
  PROVE  FlowInv' /\ BooksInv'
<1>1. /\ Goto(p, "select") /\ UNCHANGED <<queue, accepting, depth, shutdown>>
      /\ tx' = [tx EXCEPT ![p] = NoTransaction]
      /\ \A f \in Facts \ InFlush(p) : Untouched(f) => Untouched(f)'
      /\ StoreTypeOK /\ CallTypeOK
  BY DEF GiveUp, FailedAttempt, StoreInv, BooksInv
<1>2. CASE ConfirmedFailure(p) /\ ~saw
  <2>1. Count(p, "exhausted", Len(batch[p])) /\ EndFlush(p, "dropped") /\ ~unknown[p]
    BY <1>2 DEF GiveUp, ConfirmedFailure
  <2>2. Len(batch[p]) \in Nat /\ InFlush(p) \subseteq Facts
    BY LenProperties, HoldsByIndex DEF FlowInv, SeqTypeOK, InFlush
  <2>3. /\ stats' \in [Processes -> [Counters -> Nat]]
        /\ \A q \in Processes \ {p} : stats'[q] = stats[q]
        /\ Enqueued(p)' = Enqueued(p) /\ Counted(p)' = Counted(p) + Len(batch[p])
    BY <1>1, <2>1, <2>2, CountStep
  <2>4. \A f \in InFlush(p) : Untouched(f)'
    BY <1>2, <2>1, <2>2 DEF FlowInv, CleanInv, FailedAttempt
  <2> QED BY <1>1, <2>1, <2>3, <2>4, FlushEnds
<1>3. CASE ~(ConfirmedFailure(p) /\ ~saw)
  <2>1. UNCHANGED stats /\ EndFlush(p, "unknown")
    BY <1>3 DEF GiveUp
  <2>2. /\ stats' \in [Processes -> [Counters -> Nat]]
        /\ \A q \in Processes \ {p} : stats'[q] = stats[q]
        /\ Enqueued(p)' = Enqueued(p) /\ Counted(p)' = Counted(p)
    BY <1>1, <2>1 DEF CallTypeOK, Enqueued, Counted
  <2> QED BY <1>1, <2>1, <2>2, FlushEnds
<1> QED BY <1>2, <1>3

(* The batch is tried again. *)
LEMMA RetryInv ==
  ASSUME StoreInv, FlowInv, BooksInv, NEW p \in Processes, NEW saw \in BOOLEAN,
         runner[p] = "flush", retries[p] < MaxRetries,
         FailedAttempt(p, saw), Retry(p, saw), UNCHANGED caller
  PROVE  FlowInv' /\ BooksInv'
<1>1. /\ retries' = [retries EXCEPT ![p] = @ + 1]
      /\ unknown' = [unknown EXCEPT ![p] = @ \/ saw]
      /\ UNCHANGED <<queue, accepting, depth, stats, runner, batch, bounded, shutdown, outcome>>
      /\ tx' = [tx EXCEPT ![p] = NoTransaction]
      /\ \A f \in Facts \ InFlush(p) : Untouched(f) => Untouched(f)'
  BY DEF Retry, FailedAttempt, queueVars
<1>2. /\ retries \in [Processes -> 0..MaxRetries] /\ unknown \in [Processes -> BOOLEAN]
      /\ tx \in [Processes -> Transaction] /\ MaxRetries \in Nat
  BY WriterAssumption DEF FlowInv, RunTypeOK, StoreInv, StoreTypeOK
<1>3. /\ unknown' \in [Processes -> BOOLEAN] /\ retries' \in [Processes -> 0..MaxRetries]
      /\ (~unknown'[p] => ~unknown[p] /\ ~saw) /\ tx'[p].phase = "none"
      /\ \A q \in Processes \ {p} : unknown'[q] = unknown[q] /\ tx'[q] = tx[q]
  <2>1. retries[p] + 1 \in 0..MaxRetries
    BY <1>2
  <2>2. retries' \in [Processes -> 0..MaxRetries]
    BY <1>1, <1>2, <2>1
  <2>3. /\ unknown' \in [Processes -> BOOLEAN] /\ (~unknown'[p] => ~unknown[p] /\ ~saw)
        /\ \A q \in Processes \ {p} : unknown'[q] = unknown[q]
    BY <1>1, <1>2
  <2> QED BY <1>1, <1>2, <2>2, <2>3, NoTransactionIs
<1>4. \A q : Waiting(q)' = Waiting(q) /\ InFlush(q)' = InFlush(q)
  BY <1>1 DEF Waiting, InFlush
<1>5. SeqTypeOK' /\ RunTypeOK'
  BY <1>1, <1>3 DEF FlowInv, SeqTypeOK, RunTypeOK
<1>6. \A q \in Processes : Waiting(q) \subseteq Facts /\ InFlush(q) \subseteq Facts
  BY HoldsByIndex DEF FlowInv, SeqTypeOK, Waiting, InFlush
<1>7. HeldInv'
  BY <1>1, <1>4 DEF FlowInv, HeldInv
<1>8. FlushInv'
  <2> SUFFICES ASSUME NEW q \in Processes
               PROVE  /\ runner'[q] # "flush" => ~unknown'[q] /\ tx'[q].phase = "none"
                      /\ tx'[q].phase # "none" => tx'[q].facts = InFlush(q)'
                      /\ runner'[q] = "select" => Len(batch'[q]) < BatchSize
    BY DEF FlushInv
  <2>1. CASE q = p
    BY <1>1, <1>3, <2>1
  <2>2. CASE q # p
    BY <1>1, <1>3, <1>4, <2>2 DEF FlowInv, FlushInv
  <2> QED BY <2>1, <2>2
<1>9. \A q \in Processes : \A f \in Waiting(q) \cup InFlush(q) :
        HomeOf[f] = q /\ caller[f] \notin Unsent /\ outcome[f] = "none"
  BY DEF FlowInv, HeldInv
<1>10. CleanInv'
  <2>1. ASSUME NEW f \in Facts, caller'[f] \in Unsent PROVE Untouched(f)'
    BY <1>1, <1>9, <2>1 DEF FlowInv, CleanInv
  <2>2. ASSUME NEW q \in Processes, NEW f \in Waiting(q)' PROVE Untouched(f)'
    <3>1. f \in Waiting(q) /\ f \in Facts
      BY <1>4, <1>6, <2>2
    <3>2. f \notin InFlush(p)
      BY <1>9, <3>1 DEF FlowInv, HeldInv
    <3> QED BY <1>1, <3>1, <3>2 DEF FlowInv, CleanInv
  <2>3. ASSUME NEW q \in Processes, ~unknown'[q], NEW f \in InFlush(q)' PROVE Untouched(f)'
    <3>1. f \in InFlush(q) /\ f \in Facts
      BY <1>4, <1>6, <2>3
    <3>2. CASE q = p
      BY <1>3, <2>3, <3>1, <3>2 DEF FlowInv, CleanInv, FailedAttempt
    <3>3. CASE q # p
      BY <1>1, <1>3, <1>9, <2>3, <3>1, <3>3 DEF FlowInv, CleanInv
    <3> QED BY <3>2, <3>3
  <2> QED BY <2>1, <2>2, <2>3 DEF CleanInv
<1>11. DroppedInv'
  <2> SUFFICES ASSUME NEW f \in Facts, outcome'[f] = "dropped" PROVE Untouched(f)'
    BY DEF DroppedInv
  <2>1. outcome[f] = "dropped" /\ f \notin InFlush(p)
    BY <1>1, <1>9
  <2> QED BY <1>1, <2>1 DEF FlowInv, DroppedInv
<1>12. BooksInv'
  BY <1>1, BooksUnchanged DEF FlowInv
<1> QED BY <1>5, <1>7, <1>8, <1>10, <1>11, <1>12 DEF FlowInv

(* The attempt certainly failed. *)
LEMMA AttemptFailsInv ==
  ASSUME StoreInv, FlowInv, BooksInv, NEW p \in Processes, NEW transient \in BOOLEAN,
         AttemptFails(p, transient)
  PROVE  StoreInv' /\ FlowInv' /\ BooksInv'
<1>1. /\ tx[p].phase # "none" /\ tx' = [tx EXCEPT ![p] = NoTransaction]
      /\ UNCHANGED <<caller, zombie, seq, nextSeq, snapshot>>
      /\ IF transient /\ retries[p] < MaxRetries THEN Retry(p, FALSE) ELSE GiveUp(p, FALSE)
  BY DEF AttemptFails, callerVars
<1>2. runner[p] = "flush" /\ nextSeq \in Nat
  BY <1>1, UnderWay
<1>3. StoreInv'
  <2>1. nextSeq' \in Nat /\ nextSeq' >= nextSeq
    BY <1>1, <1>2
  <2>2. PICK t : t = NoTransaction
    OBVIOUS
  <2>3. t \in Transaction /\ NewRows(t) = {} /\ ~HoldsLock(t)
    BY <2>2, NoTransactionIs
  <2>4. Ahead(t)'
    BY <2>3, NothingDrawn
  <2>5. NewRows(t) \subseteq t.facts
    BY <2>3
  <2> QED BY <1>1, <2>1, <2>2, <2>3, <2>4, <2>5, TxStep
<1>4. \A f : Untouched(f) => Untouched(f)'
  BY <1>1 DEF Untouched
<1>5. FailedAttempt(p, FALSE)
  BY <1>1, <1>4 DEF FailedAttempt
<1> QED BY <1>1, <1>2, <1>3, <1>5, RetryInv, GiveUpInv

(* Leaving a transaction behind touches its own batch. *)
LEMMA AbandonFails ==
  ASSUME StoreInv, FlowInv, NEW p \in Processes, Abandon(p), UNCHANGED seq
  PROVE  FailedAttempt(p, TRUE)
<1>1. /\ tx' = [tx EXCEPT ![p] = NoTransaction]
      /\ IF HoldsLock(tx[p]) THEN zombie' = tx[p] ELSE zombie' = zombie
  BY DEF Abandon
<1>2. HoldsLock(tx[p]) => tx[p].phase # "none"
  BY DEF HoldsLock
<1>3. HoldsLock(tx[p]) => NewRows(tx[p]) \subseteq InFlush(p)
  BY <1>2, UnderWay
<1>4. \A f \in Facts \ InFlush(p) : Untouched(f) => Untouched(f)'
  BY <1>1, <1>3 DEF Untouched
<1> QED BY <1>1, <1>4 DEF FailedAttempt

(* The attempt may still commit. *)
LEMMA AttemptUnknownInv ==
  ASSUME StoreInv, FlowInv, BooksInv, NEW p \in Processes, AttemptUnknown(p)
  PROVE  StoreInv' /\ FlowInv' /\ BooksInv'
<1>1. /\ tx[p].phase # "none" /\ Abandon(p)
      /\ UNCHANGED <<caller, seq, nextSeq, snapshot>>
      /\ IF retries[p] < MaxRetries THEN Retry(p, TRUE) ELSE GiveUp(p, TRUE)
  BY DEF AttemptUnknown, callerVars
<1>2. runner[p] = "flush"
  BY <1>1, UnderWay
<1>3. StoreInv'
  BY <1>1, AbandonStore
<1>4. FailedAttempt(p, TRUE)
  BY <1>1, AbandonFails
<1> QED BY <1>1, <1>2, <1>3, <1>4, RetryInv, GiveUpInv

(* The shutdown window ends during the flush. *)
LEMMA FlushDeadlineInv ==
  ASSUME StoreInv, FlowInv, BooksInv, NEW p \in Processes, FlushDeadline(p)
  PROVE  StoreInv' /\ FlowInv' /\ BooksInv'
<1>1. /\ runner[p] = "flush" /\ Abandon(p) /\ EndFlush(p, "unknown") /\ Goto(p, "stop")
      /\ UNCHANGED <<caller, queue, accepting, depth, stats, shutdown, seq, nextSeq, snapshot>>
  BY DEF FlushDeadline, callerVars, queueVars
<1>2. StoreInv'
  BY <1>1, AbandonStore
<1>3. FailedAttempt(p, TRUE)
  BY <1>1, AbandonFails
<1>4. /\ tx' = [tx EXCEPT ![p] = NoTransaction]
      /\ \A f \in Facts \ InFlush(p) : Untouched(f) => Untouched(f)'
  BY <1>3 DEF FailedAttempt
<1>5. /\ stats' \in [Processes -> [Counters -> Nat]]
      /\ \A q \in Processes \ {p} : stats'[q] = stats[q]
      /\ Enqueued(p)' = Enqueued(p) /\ Counted(p)' = Counted(p)
  BY <1>1 DEF BooksInv, CallTypeOK, Enqueued, Counted
<1>6. FlowInv' /\ BooksInv'
  BY <1>1, <1>4, <1>5, FlushEnds DEF StoreInv
<1> QED BY <1>2, <1>6

-----------------------------------------------------------------------------
(* The server and the readers *)

(* The server ends a transaction left behind: a fact without a row and that  *)
(* the transaction is not about stays without one.                           *)
LEMMA ZombieEndsInv ==
  ASSUME StoreInv, FlowInv, BooksInv, ZombieEnds
  PROVE  StoreInv' /\ FlowInv' /\ BooksInv'
<1>1. /\ zombie.phase # "none" /\ zombie' = NoTransaction
      /\ UNCHANGED <<callerVars, queueVars, runnerVars, tx, nextSeq, snapshot, outcome>>
      /\ Committed(zombie) \/ UNCHANGED seq
  BY DEF ZombieEnds
<1>2. /\ UNCHANGED <<caller, queue, accepting, depth, stats, runner, batch, retries>>
      /\ UNCHANGED <<unknown, bounded, shutdown>>
  BY <1>1 DEF callerVars, queueVars, runnerVars
<1>3. /\ tx \in [Processes -> Transaction] /\ zombie \in Transaction /\ seq \in [Facts -> Nat]
      /\ zombie' \in Transaction /\ NewRows(zombie') = {} /\ ~HoldsLock(zombie')
  BY <1>1, NoTransactionIs DEF StoreInv, StoreTypeOK
<1>4. \A q \in Processes : NewRows(tx[q]) = {}
  BY <1>1, OneDraws DEF StoreInv, LockInv
<1>5. LockInv'
  <2>1. zombie'.phase = "none"
    BY <1>1, NoTransactionIs
  <2>2. \A q, r \in Processes : HoldsLock(tx'[q]) /\ HoldsLock(tx'[r]) => q = r
    BY <1>1 DEF StoreInv, LockInv
  <2>3. \A q \in Processes : NewRows(tx'[q]) = {}
    BY <1>1, <1>4
  <2> QED BY <1>3, <2>1, <2>2, <2>3 DEF LockInv
<1>6. StoreInv'
  <2>1. tx' \in [Processes -> Transaction] /\ \A q \in Processes : NewRows(tx'[q]) = {}
    BY <1>1, <1>3, <1>4
  <2>2. CASE Committed(zombie)
    <3>1. PICK t : t = zombie
      OBVIOUS
    <3>2. t \in Transaction /\ Ahead(t) /\ Committed(t)
      BY <1>3, <2>2, <3>1 DEF StoreInv, SeqInv, Committed
    <3> QED BY <1>1, <1>3, <1>5, <2>1, <3>2, CommitStore
  <2>3. CASE UNCHANGED seq
    <3>1. StoreTypeOK'
      BY <1>1, <1>3, <2>1, <2>3 DEF StoreInv, StoreTypeOK
    <3>2. Ahead(zombie)' /\ \A q \in Processes : Ahead(tx[q])'
      BY <1>3, <2>1 DEF Ahead
    <3>3. SeqInv'
      BY <1>1, <2>3, <3>2 DEF StoreInv, SeqInv
    <3>4. SnapshotStable'
      BY <1>1, <2>3 DEF StoreInv, SnapshotStable, Rows
    <3> QED BY <1>5, <3>1, <3>3, <3>4 DEF StoreInv
  <2> QED BY <1>1, <2>2, <2>3
<1>7. ASSUME NEW f \in Facts, Untouched(f) PROVE Untouched(f)'
  <2>1. seq[f] = 0 /\ zombie.drawn[f] = 0
    BY <1>7 DEF Untouched, NewRows
  <2>2. seq'[f] = 0
    BY <1>1, <2>1 DEF Committed
  <2> QED BY <1>3, <2>2 DEF Untouched
<1>8. \A q : Waiting(q)' = Waiting(q) /\ InFlush(q)' = InFlush(q)
  BY <1>2 DEF Waiting, InFlush
<1>9. \A q \in Processes : Waiting(q) \subseteq Facts /\ InFlush(q) \subseteq Facts
  BY HoldsByIndex DEF FlowInv, SeqTypeOK, Waiting, InFlush
<1>10. SeqTypeOK' /\ RunTypeOK'
  BY <1>2 DEF FlowInv, SeqTypeOK, RunTypeOK
<1>11. HeldInv'
  BY <1>1, <1>2, <1>8 DEF FlowInv, HeldInv
<1>12. FlushInv'
  BY <1>1, <1>2, <1>8 DEF FlowInv, FlushInv
<1>13. CleanInv'
  BY <1>2, <1>7, <1>8, <1>9 DEF FlowInv, CleanInv
<1>14. DroppedInv'
  BY <1>1, <1>7 DEF FlowInv, DroppedInv
<1>15. FlowInv'
  BY <1>10, <1>11, <1>12, <1>13, <1>14 DEF FlowInv
<1>16. BooksInv'
  BY <1>1, TxBooks
<1> QED BY <1>6, <1>15, <1>16

(* A reader takes its snapshot: the watermark is a committed number, so every *)
(* number drawn and not committed is above it.                                *)
LEMMA TakeSnapshotInv ==
  ASSUME StoreInv, FlowInv, BooksInv, TakeSnapshot
  PROVE  StoreInv' /\ FlowInv' /\ BooksInv'
<1> DEFINE w == Watermark
<1>1. /\ snapshot = None /\ snapshot' = [watermark |-> w, rows |-> Rows(w)]
      /\ UNCHANGED <<callerVars, queueVars, runnerVars, storeVars, outcome>>
  BY DEF TakeSnapshot
<1>2. UNCHANGED <<tx, zombie, seq, nextSeq, caller, queue, accepting>>
  BY <1>1 DEF storeVars, callerVars, queueVars
<1>3. seq \in [Facts -> Nat] /\ nextSeq \in Nat \ {0} /\ \A f \in Facts : seq[f] < nextSeq
  BY DEF StoreInv, StoreTypeOK, SeqInv
<1>4. w \in Nat /\ w < nextSeq /\ (w = 0 \/ \E g \in Facts : w = seq[g])
  <2> DEFINE S == {seq[f] : f \in Facts} \cup {0}
  <2>1. S \in SUBSET Nat /\ S # {} /\ \A x \in S : x < nextSeq
    BY <1>3
  <2>2. w = Max(S)
    BY DEF Watermark
  <2> HIDE DEF S, w
  <2>3. w \in S
    BY <1>3, <2>1, <2>2, MaxOfBounded
  <2> QED BY <1>3, <2>1, <2>3 DEF S
<1> HIDE DEF w
<1>5. snapshot'.watermark = w /\ snapshot'.rows = Rows(w) /\ Rows(w) \subseteq Facts
  BY <1>1 DEF Rows
<1>6. StoreTypeOK'
  BY <1>1, <1>2, <1>4, <1>5 DEF StoreInv, StoreTypeOK
<1>7. LockInv'
  BY <1>2 DEF StoreInv, LockInv, HoldsLock
<1>8. ASSUME NEW t \in Transaction, Ahead(t) PROVE Ahead(t)'
  <2> SUFFICES ASSUME NEW f \in NewRows(t)
               PROVE  /\ seq'[f] = 0 /\ t.drawn[f] < nextSeq'
                      /\ \A g \in Facts : seq'[g] < t.drawn[f]
                      /\ snapshot' # None => snapshot'.watermark < t.drawn[f]
    BY DEF Ahead
  <2>1. /\ seq[f] = 0 /\ t.drawn[f] < nextSeq
        /\ \A g \in Facts : seq[g] < t.drawn[f]
    BY <1>8 DEF Ahead
  <2>2. f \in Facts /\ t.drawn[f] \in Nat /\ t.drawn[f] # 0
    BY DEF NewRows, Transaction
  <2>3. w < t.drawn[f]
    BY <1>4, <2>1, <2>2
  <2> QED BY <1>2, <1>5, <2>1, <2>3
<1>9. SeqInv'
  <2>1. tx \in [Processes -> Transaction] /\ zombie \in Transaction
    BY DEF StoreInv, StoreTypeOK
  <2>2. PICK z : z = zombie
    OBVIOUS
  <2>3. Ahead(z)'
    BY <1>8, <2>1, <2>2 DEF StoreInv, SeqInv
  <2>4. Ahead(zombie)'
    BY <1>2, <2>2, <2>3 DEF Ahead
  <2>5. ASSUME NEW q \in Processes PROVE Ahead(tx[q])'
    <3>1. PICK u : u = tx[q]
      OBVIOUS
    <3>2. Ahead(u)'
      BY <1>8, <2>1, <3>1 DEF StoreInv, SeqInv
    <3> QED BY <1>2, <3>1, <3>2 DEF Ahead
  <2> QED BY <1>2, <1>3, <1>4, <1>5, <2>4, <2>5 DEF SeqInv
<1>10. SnapshotStable'
  <2>1. Rows(snapshot.watermark)' = {f \in Facts : seq'[f] \in 1..w}
    BY <1>5 DEF Rows
  <2>2. {f \in Facts : seq'[f] \in 1..w} = Rows(w)
    BY <1>2 DEF Rows
  <2>3. Rows(snapshot.watermark)' = snapshot'.rows
    BY <1>5, <2>1, <2>2
  <2> QED BY <2>3 DEF SnapshotStable
<1>11. StoreInv'
  BY <1>6, <1>7, <1>9, <1>10 DEF StoreInv
<1>12. FlowInv'
  BY <1>1, <1>2, FlowUnchanged
<1>13. BooksInv'
  BY <1>1, TxBooks
<1> QED BY <1>11, <1>12, <1>13

-----------------------------------------------------------------------------
(* The theorems *)

(* The pipeline starts empty. *)
LEMMA InitInv == Init => WriterInv
<1> SUFFICES ASSUME Init PROVE WriterInv
  OBVIOUS
<1>1. <<>> \in Seq(Facts) /\ ToSet(<<>>) = {} /\ IsInjective(<<>>) /\ Len(<<>>) = 0
  BY EmptyHolds, EmptySeq
<1>2. Capacity \in Nat \ {0} /\ BatchSize \in Nat \ {0} /\ MaxRetries \in Nat
  BY WriterAssumption
<1>3. \A p \in Processes : Waiting(p) = {} /\ InFlush(p) = {} /\ queue[p] = <<>> /\ batch[p] = <<>>
  BY <1>1 DEF Init, Waiting, InFlush
<1>4. NewRows(zombie) = {} /\ \A p \in Processes : tx[p] = NoTransaction /\ NewRows(tx[p]) = {}
  BY NoTransactionIs DEF Init
<1>5. \A f \in Facts : Untouched(f)
  BY <1>4 DEF Init, Untouched
<1>6. StoreInv
  <2>1. StoreTypeOK
    BY NoTransactionIs DEF Init, StoreTypeOK
  <2>2. LockInv
    BY <1>4, NoTransactionIs DEF Init, LockInv
  <2>3. SeqInv
    BY <1>4 DEF Init, SeqInv, Ahead
  <2>4. SnapshotStable
    BY DEF Init, SnapshotStable
  <2> QED BY <2>1, <2>2, <2>3, <2>4 DEF StoreInv
<1>7. FlowInv
  <2>1. SeqTypeOK
    BY <1>1, <1>2, <1>3 DEF Init, SeqTypeOK
  <2>2. RunTypeOK
    BY <1>2 DEF Init, RunTypeOK
  <2>3. HeldInv
    BY <1>1, <1>3 DEF Init, HeldInv
  <2>4. FlushInv
    BY <1>1, <1>2, <1>3, <1>4, NoTransactionIs DEF Init, FlushInv
  <2>5. CleanInv
    BY <1>3, <1>5 DEF CleanInv
  <2>6. DroppedInv
    BY <1>5 DEF DroppedInv
  <2> QED BY <2>1, <2>2, <2>3, <2>4, <2>5, <2>6 DEF FlowInv
<1>8. BooksInv
  <2>1. CallTypeOK
    BY DEF Init, CallTypeOK, Places, Verdicts, Counters
  <2>2. ASSUME NEW p \in Processes PROVE Books(p) /\ Gauge(p)
    <3>1. SentCalls(p) = 0 /\ BusyCalls(p) = 0 /\ Doubtful(p) = 0
      <4>1. Those(p, caller, {"sent"}) = {} /\ Those(p, caller, Busy) = {} /\ Those(p, outcome, {"unknown"}) = {}
        BY DEF Init, Those, Busy
      <4> QED BY <4>1, FS_EmptySet DEF SentCalls, BusyCalls, Doubtful, Number
    <3>2. \A c \in Counters : stats[p][c] = 0
      BY DEF Init
    <3>3. Enqueued(p) = 0 /\ Counted(p) = 0
      BY <3>2 DEF Enqueued, Counted, Counters
    <3>4. Queued(p) = 0 /\ Batched(p) = 0 /\ InHand(p) = 0 /\ Level(p) = 0
      BY <1>1, <1>3 DEF Init, Queued, Batched, InHand, Level
    <3> QED BY <3>1, <3>3, <3>4 DEF Books, Gauge
  <2> QED BY <2>1, <2>2 DEF BooksInv
<1> QED BY <1>6, <1>7, <1>8, WriterInvIs

(* Every step keeps the three parts. *)
LEMMA NextInv == WriterInv /\ [Next]_vars => WriterInv'
<1> SUFFICES ASSUME StoreInv, FlowInv, BooksInv, [Next]_vars PROVE StoreInv' /\ FlowInv' /\ BooksInv'
  <2>1. WriterInv' <=> StoreInv' /\ FlowInv' /\ BooksInv'
    BY WriterInvIs, PTL
  <2> QED BY <2>1, WriterInvIs
<1>1. ASSUME NEW f \in Facts, TryEnqueue(f) PROVE StoreInv' /\ FlowInv' /\ BooksInv'
  BY <1>1, CheckAcceptingInv, CountDepthInv, TrySendInv, SendFailedInv, SendCountedInv DEF TryEnqueue
<1>2. ASSUME NEW p \in Processes, Attempt(p) PROVE StoreInv' /\ FlowInv' /\ BooksInv'
  BY <1>2, BeginInv, TakeLockInv, InsertInv, SendCommitInv, PersistedInv, AttemptFailsInv,
     AttemptUnknownInv, FlushDeadlineInv DEF Attempt
<1>3. ASSUME NEW p \in Processes, Run(p) PROVE StoreInv' /\ FlowInv' /\ BooksInv'
  BY <1>2, <1>3, ReceiveInv, ReceivedInv, FlushIntervalInv, ShutdownInv, ShutdownDeadlineInv, StopInv DEF Run
<1>4. ASSUME NEW p \in Processes, Signal(p) \/ WindowEnds(p) PROVE StoreInv' /\ FlowInv' /\ BooksInv'
  BY <1>4, ShutdownInv
<1>5. CASE UNCHANGED vars
  <2>1. UNCHANGED <<callerVars, queueVars, runnerVars, storeVars, snapshot, outcome>>
    BY <1>5 DEF vars
  <2>2. UNCHANGED <<caller, queue, accepting>>
    BY <2>1 DEF callerVars, queueVars
  <2> QED BY <2>1, <2>2, StoreUnchanged, FlowUnchanged, TxBooks
<1> QED BY <1>1, <1>3, <1>4, <1>5, ZombieEndsInv, TakeSnapshotInv DEF Next

(* The pipeline's invariant: the facts are where the counters say, the store *)
(* has one writer at a time, and its numbers only grow.                      *)
THEOREM WriterInvariant == Spec => []WriterInv
  BY InitInv, NextInv, PTL DEF Spec

(* The pipeline is well typed: the unsigned queue_depth never goes below     *)
(* zero although callers and the runner count it at different times, and no  *)
(* queue or batch exceeds its bound.                                         *)
THEOREM WriterTypeCorrect == Spec => []TypeOK
<1>1. WriterInv => TypeOK
  BY DEF WriterInv
<1> QED BY <1>1, WriterInvariant, PTL

(* For any number of processes and facts: a fact that entered a queue is in  *)
(* it, in the batch, counted exactly once, or in a batch of unknown outcome, *)
(* through every retry, time-out and shutdown; what was counted as dropped   *)
(* is in no row and never will be; and the gauge follows the channel.        *)
THEOREM FactsNeverLost == Spec => []FactsConserved
<1>1. WriterInv => FactsConserved
  BY DEF WriterInv
<1> QED BY <1>1, WriterInvariant, PTL

(* For any number of writers: the rows that a snapshot's watermark delimits  *)
(* never change, also when a transaction commits long after its caller gave  *)
(* up, because the advisory lock orders the draws of ingest_seq and commits. *)
THEOREM SnapshotsStable == Spec => []SnapshotStable
<1>1. WriterInv => SnapshotStable
  BY DEF WriterInv
<1> QED BY <1>1, WriterInvariant, PTL
=============================================================================
