-------------------------- MODULE BudgetLedgerProofs --------------------------
(***************************************************************************)
(* Proofs about BudgetLedger, for every set of keys, requests, sessions,   *)
(* operations and commands: LedgerInv is inductive, the counters and       *)
(* checkpoints agree with the ledger, a settlement stays a replay, and the *)
(* ledger implements BudgetAccount.                                        *)
(***************************************************************************)
EXTENDS BudgetLedger, FiniteSetTheorems, WellFoundedInduction, TLAPS

-----------------------------------------------------------------------------
(* SUM: what MapThenSumSet computes for every finite set of rows, by minimal *)
(* counterexamples.                                                          *)

(* The steps of the fold of FiniteSetsExt. *)
Pick(s) == CHOOSE x \in s : TRUE
Body(f, g, s) == IF s = {} THEN 0 ELSE f[Pick(s)] + g[s \ {Pick(s)}]
Iter(f, S) == CHOOSE g : g = [s \in SUBSET S |-> Body(f, g, s)]

(* Total is the last value of the iteration FiniteSetsExt folds with. *)
LEMMA TotalIter == ASSUME NEW f, NEW S PROVE Total(f, S) = Iter(f, S)[S]
  BY DEF Total, MapThenSumSet, MapThenFoldSet, Iter, Body, Pick

(* A family of subsets of a finite set has a minimal member: this stands for  *)
(* induction over finite sets below.                                          *)
LEMMA MinimalSubset ==
  ASSUME NEW S, IsFiniteSet(S), NEW T \in SUBSET (SUBSET S), T # {}
  PROVE  \E U \in T : \A V \in T : V \subseteq U => V = U
<1>1. IsWellFoundedOn(StrictSubsetOrdering(S), FiniteSubsetsOf(S))
  BY FS_StrictSubsetOrderingWellFounded
<1>2. T \subseteq FiniteSubsetsOf(S)
  BY FS_Subset DEF FiniteSubsetsOf
<1>3. \E U \in T : \A V \in T : ~ (<<V, U>> \in StrictSubsetOrdering(S))
  BY <1>1, <1>2, WFMin
<1> QED BY <1>3 DEF StrictSubsetOrdering

(* A set of naturals has a least member. *)
LEMMA LeastNat ==
  ASSUME NEW T \in SUBSET Nat, T # {}
  PROVE  \E m \in T : \A j \in T : m <= j
<1> DEFINE Less == {ss \in Nat \X Nat : ss[1] < ss[2]}
<1>1. IsWellFoundedOn(Less, Nat)
  BY NatLessThanWellFounded DEF OpToRel
<1>2. \A i, j \in Nat : <<j, i>> \in Less <=> j < i
  OBVIOUS
<1> HIDE DEF Less
<1>3. \E m \in T : \A j \in T : ~ (<<j, m>> \in Less)
  BY <1>1, WFMin
<1>4. PICK m \in T : \A j \in T : ~ (<<j, m>> \in Less)
  BY <1>3
<1>5. \A j \in T : ~(j < m)
  BY <1>2, <1>4, Zenon
<1>6. \A j \in T : m <= j
  BY <1>5
<1> QED BY <1>6

(* The element the fold takes next is an element. *)
LEMMA PickIn == ASSUME NEW s, s # {} PROVE Pick(s) \in s
  BY DEF Pick

(* A function that satisfies the equation of the iteration exists, so that   *)
(* the CHOOSE in the definition of a fold denotes it.                        *)
LEMMA IterExists ==
  ASSUME NEW S, IsFiniteSet(S), NEW f, \A x \in S : f[x] \in Nat
  PROVE  \E g \in [SUBSET S -> Nat] : \A s \in SUBSET S : g[s] = Body(f, g, s)
<1> DEFINE Small(n) == {s \in SUBSET S : Cardinality(s) <= n}
           Good(n) == \E g \in [Small(n) -> Nat] : \A s \in Small(n) : g[s] = Body(f, g, s)
           Bad == {n \in Nat : ~Good(n)}
<1>1. \A s \in SUBSET S : IsFiniteSet(s) /\ Cardinality(s) \in Nat /\ Cardinality(s) <= Cardinality(S)
  BY FS_Subset, FS_CardinalityType
<1>2. \A s \in SUBSET S : s # {} => /\ Pick(s) \in S /\ s \ {Pick(s)} \in SUBSET S
                                    /\ Cardinality(s \ {Pick(s)}) = Cardinality(s) - 1
  BY <1>1, PickIn, FS_RemoveElement
<1>3. Good(0)
  <2>1. \A s \in Small(0) : s = {}
    BY <1>1, FS_EmptySet
  <2> DEFINE g == [s \in Small(0) |-> 0]
  <2>2. g \in [Small(0) -> Nat] /\ \A s \in Small(0) : g[s] = Body(f, g, s)
    BY <2>1 DEF Body
  <2> QED BY <2>2
<1>4. ASSUME NEW n \in Nat, Good(n) PROVE Good(n + 1)
  <2>1. PICK g \in [Small(n) -> Nat] : \A s \in Small(n) : g[s] = Body(f, g, s)
    BY <1>4
  <2> DEFINE h == [s \in Small(n + 1) |-> IF s \in Small(n) THEN g[s] ELSE Body(f, g, s)]
  <2>2. \A s \in Small(n + 1) : s # {} => s \ {Pick(s)} \in Small(n)
    BY <1>1, <1>2
  <2>3. Small(n) \subseteq Small(n + 1)
    BY <1>1
  <2> HIDE DEF Small
  <2>4. \A s \in Small(n + 1) : h[s] = Body(f, g, s)
    BY <2>1, <2>3
  <2>5. \A s \in Small(n + 1) : Body(f, h, s) = Body(f, g, s)
    BY <2>2, <2>3 DEF Body
  <2>6. \A s \in Small(n + 1) : Body(f, g, s) \in Nat
    <3>1. \A s \in Small(n + 1) : s # {} => Pick(s) \in S
      BY <1>2 DEF Small
    <3> QED BY <2>2, <3>1 DEF Body
  <2>7. h \in [Small(n + 1) -> Nat] /\ \A s \in Small(n + 1) : h[s] = Body(f, h, s)
    BY <2>4, <2>5, <2>6
  <2> HIDE DEF h
  <2> QED BY <2>7
<1> HIDE DEF Good
<1>5. Bad = {}
  <2> SUFFICES ASSUME Bad # {} PROVE FALSE
    OBVIOUS
  <2>1. PICK m \in Bad : \A j \in Bad : m <= j
    BY LeastNat
  <2>2. m # 0 /\ m \in Nat /\ ~Good(m)
    BY <1>3, <2>1
  <2>3. m - 1 \in Nat /\ Good(m - 1)
    BY <2>1, <2>2
  <2>4. Good((m - 1) + 1)
    BY <1>4, <2>3
  <2> QED BY <2>2, <2>4
<1>6. Good(Cardinality(S))
  BY <1>1, <1>5
<1>7. Small(Cardinality(S)) = SUBSET S
  BY <1>1
<1>8. PICK g \in [SUBSET S -> Nat] : \A s \in SUBSET S : g[s] = Body(f, g, s)
  BY <1>6, <1>7 DEF Good
<1> QED BY <1>8

(* The iteration satisfies its equation, and its values are naturals. *)
LEMMA IterDef ==
  ASSUME NEW S, IsFiniteSet(S), NEW f, \A x \in S : f[x] \in Nat
  PROVE  /\ \A s \in SUBSET S : Iter(f, S)[s] = Body(f, Iter(f, S), s)
         /\ \A s \in SUBSET S : Iter(f, S)[s] \in Nat
<1>1. \E g : g = [s \in SUBSET S |-> Body(f, g, s)]
  <2>1. PICK g \in [SUBSET S -> Nat] : \A s \in SUBSET S : g[s] = Body(f, g, s)
    BY IterExists
  <2>2. g = [s \in SUBSET S |-> Body(f, g, s)]
    BY <2>1
  <2> QED BY <2>2, Zenon
<1>2. Iter(f, S) = [s \in SUBSET S |-> Body(f, Iter(f, S), s)]
  BY <1>1 DEF Iter
<1> DEFINE I == Iter(f, S)
<1>3. \A s \in SUBSET S : I[s] = Body(f, I, s)
  BY <1>2
<1> HIDE DEF I
<1>4. \A s \in SUBSET S : I[s] \in Nat
  <2> DEFINE Bad == {s \in SUBSET S : I[s] \notin Nat}
  <2> SUFFICES ASSUME Bad # {} PROVE FALSE
    OBVIOUS
  <2>0. Bad \in SUBSET (SUBSET S) /\ \A t \in SUBSET S : t \in Bad <=> I[t] \notin Nat
    OBVIOUS
  <2> HIDE DEF Bad
  <2>1. PICK U \in Bad : \A V \in Bad : V \subseteq U => V = U
    BY <2>0, MinimalSubset
  <2>2. U # {} /\ Pick(U) \in U
    <3>1. I[{}] = 0
      BY <1>3 DEF Body
    <3>2. U = {} => I[U] = 0
      BY <3>1, Zenon
    <3> QED BY <2>0, <2>1, <3>2, PickIn
  <2>3. I[U \ {Pick(U)}] \in Nat
    BY <2>0, <2>1, <2>2
  <2>4. I[U] = f[Pick(U)] + I[U \ {Pick(U)}] /\ f[Pick(U)] \in Nat
    BY <1>3, <2>0, <2>1, <2>2 DEF Body
  <2> QED BY <2>0, <2>1, <2>3, <2>4
<1> QED BY <1>3, <1>4 DEF I

(* Any element may be taken first: the sum does not depend on the order. *)
LEMMA IterAny ==
  ASSUME NEW S, IsFiniteSet(S), NEW f, \A x \in S : f[x] \in Nat,
         NEW s \in SUBSET S, NEW e \in s
  PROVE  Iter(f, S)[s] = f[e] + Iter(f, S)[s \ {e}]
<1> DEFINE I == Iter(f, S)
           Bad == {t \in SUBSET S : \E x \in t : I[t] # f[x] + I[t \ {x}]}
<1>1. \A t \in SUBSET S : I[t] \in Nat /\ I[t] = Body(f, I, t)
  BY IterDef
<1> HIDE DEF I
<1>2. Bad = {}
  <2> SUFFICES ASSUME Bad # {} PROVE FALSE
    OBVIOUS
  <2>0. /\ Bad \in SUBSET (SUBSET S)
        /\ \A t \in SUBSET S : t \in Bad <=> \E x \in t : I[t] # f[x] + I[t \ {x}]
    OBVIOUS
  <2> HIDE DEF Bad
  <2>1. PICK U \in Bad : \A V \in Bad : V \subseteq U => V = U
    BY <2>0, MinimalSubset
  <2>2. PICK x \in U : I[U] # f[x] + I[U \ {x}]
    BY <2>0, <2>1
  <2> DEFINE y == Pick(U)
  <2>3. y \in U /\ I[U] = f[y] + I[U \ {y}]
    BY <1>1, <2>0, <2>1, <2>2, PickIn DEF Body
  <2> HIDE DEF y
  <2>4. x # y /\ x \in U \ {y} /\ y \in U \ {x}
    BY <2>2, <2>3
  <2>5. I[U \ {y}] = f[x] + I[(U \ {y}) \ {x}] /\ I[U \ {x}] = f[y] + I[(U \ {x}) \ {y}]
    <3> DEFINE V == U \ {y}
               W == U \ {x}
    <3>1. V \in SUBSET S /\ W \in SUBSET S /\ x \in V /\ y \in W
      BY <2>0, <2>1, <2>3, <2>4
    <3>2. V \subseteq U /\ V # U /\ W \subseteq U /\ W # U
      BY <2>2, <2>3
    <3> HIDE DEF V, W
    <3>3. V \notin Bad /\ W \notin Bad
      BY <2>1, <3>2
    <3>4. I[V] = f[x] + I[V \ {x}] /\ I[W] = f[y] + I[W \ {y}]
      BY <2>0, <3>1, <3>3
    <3> QED BY <3>4 DEF V, W
  <2>6. I[(U \ {y}) \ {x}] = I[(U \ {x}) \ {y}]
    <3>1. (U \ {y}) \ {x} = (U \ {x}) \ {y}
      OBVIOUS
    <3> QED BY <3>1, Zenon
  <2>7. f[x] \in Nat /\ f[y] \in Nat /\ I[(U \ {x}) \ {y}] \in Nat
    BY <1>1, <2>0, <2>1, <2>3
  <2> QED BY <2>2, <2>3, <2>5, <2>6, <2>7
<1> QED BY <1>2 DEF I

(* The iterations over two columns agree on the rows where the columns do. *)
LEMMA IterAgree ==
  ASSUME NEW S, IsFiniteSet(S), NEW f, \A x \in S : f[x] \in Nat,
         NEW R, IsFiniteSet(R), NEW g, \A x \in R : g[x] \in Nat,
         S \subseteq R, \A x \in S : f[x] = g[x]
  PROVE  Iter(f, S)[S] = Iter(g, R)[S]
<1> DEFINE I == Iter(f, S)
           J == Iter(g, R)
           Bad == {t \in SUBSET S : I[t] # J[t]}
<1>1. \A t \in SUBSET S : I[t] = Body(f, I, t)
  BY IterDef
<1>2. \A t \in SUBSET S : J[t] = Body(g, J, t)
  BY IterDef
<1> HIDE DEF I, J
<1>3. Bad = {}
  <2> SUFFICES ASSUME Bad # {} PROVE FALSE
    OBVIOUS
  <2>0. Bad \in SUBSET (SUBSET S) /\ \A t \in SUBSET S : t \in Bad <=> I[t] # J[t]
    OBVIOUS
  <2> HIDE DEF Bad
  <2>1. PICK U \in Bad : \A V \in Bad : V \subseteq U => V = U
    BY <2>0, MinimalSubset
  <2>2. U # {} /\ Pick(U) \in U
    BY <1>1, <1>2, <2>0, <2>1, PickIn DEF Body
  <2>3. I[U \ {Pick(U)}] = J[U \ {Pick(U)}]
    BY <2>0, <2>1, <2>2
  <2>4. I[U] = f[Pick(U)] + I[U \ {Pick(U)}] /\ J[U] = g[Pick(U)] + J[U \ {Pick(U)}]
    BY <1>1, <1>2, <2>0, <2>1, <2>2 DEF Body
  <2>5. f[Pick(U)] = g[Pick(U)]
    BY <2>0, <2>1, <2>2
  <2>6. I[U] = J[U]
    BY <2>3, <2>4, <2>5, Zenon
  <2> QED BY <2>0, <2>1, <2>6
<1> QED BY <1>3 DEF I, J

(* The SUM over no rows. *)
LEMMA TotalEmpty == ASSUME NEW f PROVE Total(f, {}) = 0
<1>1. Iter(f, {})[{}] = Body(f, Iter(f, {}), {})
  BY IterDef, FS_EmptySet
<1> QED BY <1>1, TotalIter DEF Body

(* The SUM of naturals is a natural. *)
LEMMA TotalNat ==
  ASSUME NEW S, IsFiniteSet(S), NEW f, \A x \in S : f[x] \in Nat
  PROVE  Total(f, S) \in Nat
  BY IterDef, TotalIter

(* A SUM only depends on the column at its rows. *)
LEMMA TotalAgree ==
  ASSUME NEW S, IsFiniteSet(S), NEW f, NEW g, \A x \in S : f[x] \in Nat /\ f[x] = g[x]
  PROVE  Total(f, S) = Total(g, S)
  BY IterAgree, TotalIter

(* One more row adds its value to the SUM. *)
LEMMA TotalAdd ==
  ASSUME NEW S, IsFiniteSet(S), NEW f, \A x \in S : f[x] \in Nat,
         NEW e, e \notin S, f[e] \in Nat
  PROVE  Total(f, S \cup {e}) = Total(f, S) + f[e]
<1> DEFINE R == S \cup {e}
<1>1. IsFiniteSet(R) /\ \A x \in R : f[x] \in Nat
  BY FS_AddElement
<1>2. Iter(f, R)[R] = f[e] + Iter(f, R)[R \ {e}]
  BY <1>1, IterAny
<1>3. R \ {e} = S
  OBVIOUS
<1>4. Iter(f, S)[S] = Iter(f, R)[S]
  BY <1>1, IterAgree
<1>5. Iter(f, S)[S] \in Nat
  BY IterDef
<1>6. Total(f, R) = Iter(f, R)[R] /\ Total(f, S) = Iter(f, S)[S]
  BY TotalIter
<1>7. Total(f, R) = f[e] + Total(f, S)
  BY <1>2, <1>3, <1>4, <1>6, Zenon
<1>8. Total(f, S) \in Nat
  BY <1>5, <1>6
<1> HIDE DEF R
<1>9. Total(f, R) = Total(f, S) + f[e]
  BY <1>7, <1>8
<1> QED BY <1>9 DEF R

-----------------------------------------------------------------------------
(* The rows of the ledger, as functions of its columns. *)

(* The requests of an account with a status, the settled ones after a        *)
(* revision, and the reconciliations that charged after a revision.          *)
StatusColumn(st) == st \in [Requests -> {"none", "pending", "unresolved", "settled", "resolved"}]
WithStatus(st, k, x) == {r \in Requests : KeyOf[r] = k /\ st[r] = x}
SettledAfter(st, er, k, lo) ==
  {r \in Requests : KeyOf[r] = k /\ st[r] = "settled" /\ er[r] > lo}
IsCharge(e) == e # None /\ e.kind = "reconciliation"
ChargesAfter(en, k, lo) ==
  {o \in Operations : /\ IsCharge(en[o]) /\ en[o].command.status = "settle"
                      /\ KeyOf[en[o].parent] = k /\ en[o].revision > lo}
AmountsOf(en, S) == [o \in S |-> en[o].command.amount]

(* X is a set of charging rows of the table, and en2 the table with a row more. *)
ChargeSet(en, X) ==
  /\ en \in [Operations -> Entry \cup {None}]
  /\ X \in SUBSET Operations /\ \A o \in X : IsCharge(en[o])
Inserts(en, o, e, en2) ==
  /\ en \in [Operations -> Entry \cup {None}]
  /\ o \in Operations /\ en[o] = None /\ e \in Entry
  /\ en2 = [en EXCEPT ![o] = e]

(* The rows of any account are finitely many. *)
LEMMA RowsFinite ==
  /\ \A st, k, x : /\ IsFiniteSet(WithStatus(st, k, x))
                    /\ Cardinality(WithStatus(st, k, x)) \in Nat
  /\ \A st, er, k, lo : /\ IsFiniteSet(SettledAfter(st, er, k, lo))
                         /\ Cardinality(SettledAfter(st, er, k, lo)) \in Nat
  /\ \A en, k, lo : /\ IsFiniteSet(ChargesAfter(en, k, lo))
                     /\ Cardinality(ChargesAfter(en, k, lo)) \in Nat
<1>1. \A st, k, x : WithStatus(st, k, x) \subseteq Requests
  BY DEF WithStatus
<1>2. \A st, er, k, lo : SettledAfter(st, er, k, lo) \subseteq Requests
  BY DEF SettledAfter
<1>3. \A en, k, lo : ChargesAfter(en, k, lo) \subseteq Operations
  BY DEF ChargesAfter
<1>4. IsFiniteSet(Requests) /\ IsFiniteSet(Operations)
  BY LedgerAssumption
<1> QED BY <1>1, <1>2, <1>3, <1>4, FS_Subset, FS_CardinalityType

(* st2 is st after the row r took the status to. *)
Takes(st, r, to, st2) == StatusColumn(st) /\ r \in Requests /\ st2 = [st EXCEPT ![r] = to]

(* How the count of a status moves with the status of one row. *)
LEMMA CountMoves ==
  ASSUME NEW st, NEW r, NEW to, NEW st2, Takes(st, r, to, st2), NEW k, NEW x
  PROVE  Cardinality(WithStatus(st2, k, x)) =
           Cardinality(WithStatus(st, k, x))
             + (IF KeyOf[r] = k /\ to = x /\ st[r] # x THEN 1
                ELSE IF KeyOf[r] = k /\ to # x /\ st[r] = x THEN -1 ELSE 0)
<1> DEFINE A == WithStatus(st, k, x)
           B == WithStatus(st2, k, x)
<1>1. IsFiniteSet(A) /\ Cardinality(A) \in Nat /\ IsFiniteSet(B) /\ Cardinality(B) \in Nat
  BY RowsFinite
<1>2. CASE KeyOf[r] = k /\ to = x /\ st[r] # x
  <2>1. B = A \cup {r} /\ r \notin A
    BY <1>2 DEF WithStatus, StatusColumn, Takes
  <2> HIDE DEF A, B
  <2> QED BY <1>1, <1>2, <2>1, FS_AddElement DEF A, B
<1>3. CASE KeyOf[r] = k /\ to # x /\ st[r] = x
  <2>1. B = A \ {r} /\ r \in A
    BY <1>3 DEF WithStatus, StatusColumn, Takes
  <2> HIDE DEF A, B
  <2>2. Cardinality(B) = Cardinality(A) - 1
    BY <1>1, <2>1, FS_RemoveElement
  <2> QED BY <1>1, <1>3, <2>2 DEF A, B
<1>4. CASE KeyOf[r] # k \/ (to = x <=> st[r] = x)
  <2>1. B = A
    BY <1>4 DEF WithStatus, StatusColumn, Takes
  <2> HIDE DEF A, B
  <2> QED BY <1>1, <1>4, <2>1 DEF A, B
<1> QED BY <1>2, <1>3, <1>4

(* The columns st, er and ac become st2, er2 and ac2 when the row r, which is *)
(* not settled, takes the status to at the revision v.                        *)
Transfers(st, er, ac, st2, er2, ac2, r, to, v) ==
  /\ StatusColumn(st)
  /\ er \in [Requests -> Nat] /\ r \in Requests /\ v \in Nat
  /\ st[r] # "settled"
  /\ st2 = [st EXCEPT ![r] = to] /\ er2 = [er EXCEPT ![r] = v]
  /\ \A q \in Requests \ {r} : ac2[q] = ac[q]
  /\ \A q \in Requests : st[q] = "settled" => ac[q] \in Nat
  /\ to = "settled" => ac2[r] \in Nat

(* How the SUM and the COUNT of the settled rows after a revision move when  *)
(* a row that is not settled takes a status at a later revision.             *)
LEMMA SettledMoves ==
  ASSUME NEW st, NEW er, NEW ac, NEW st2, NEW er2, NEW ac2, NEW r, NEW to, NEW v,
         Transfers(st, er, ac, st2, er2, ac2, r, to, v),
         NEW k, NEW lo \in Nat, KeyOf[r] = k => v > lo
  PROVE  LET A == SettledAfter(st, er, k, lo)
             B == SettledAfter(st2, er2, k, lo)
             here == KeyOf[r] = k /\ to = "settled"
         IN  /\ Total(ac2, B) = Total(ac, A) + (IF here THEN ac2[r] ELSE 0)
             /\ Cardinality(B) = Cardinality(A) + (IF here THEN 1 ELSE 0)
             /\ Total(ac, A) \in Nat
<1> DEFINE A == SettledAfter(st, er, k, lo)
           B == SettledAfter(st2, er2, k, lo)
<1>1. IsFiniteSet(A) /\ Cardinality(A) \in Nat /\ IsFiniteSet(B)
  BY RowsFinite
<1>2. \A q \in A : q \in Requests /\ q # r /\ ac2[q] = ac[q] /\ ac[q] \in Nat /\ ac2[q] \in Nat
  BY DEF SettledAfter, Transfers, StatusColumn
<1>3. CASE KeyOf[r] = k /\ to = "settled"
  <2>1. B = A \cup {r} /\ r \notin A
    BY <1>3 DEF SettledAfter, Transfers, StatusColumn
  <2> HIDE DEF A, B
  <2>2. Total(ac2, B) = Total(ac2, A) + ac2[r]
    BY <1>1, <1>2, <1>3, <2>1, TotalAdd DEF Transfers
  <2>3. Total(ac2, A) = Total(ac, A) /\ Total(ac, A) \in Nat
    BY <1>1, <1>2, TotalAgree, TotalNat
  <2>4. Cardinality(B) = Cardinality(A) + 1
    BY <1>1, <2>1, FS_AddElement
  <2> QED BY <1>3, <2>2, <2>3, <2>4 DEF A, B
<1>4. CASE ~(KeyOf[r] = k /\ to = "settled")
  <2>1. B = A
    BY <1>4 DEF SettledAfter, Transfers, StatusColumn
  <2> HIDE DEF A, B
  <2>2. Total(ac2, A) = Total(ac, A) /\ Total(ac, A) \in Nat
    BY <1>1, <1>2, TotalAgree, TotalNat
  <2>3. Total(ac2, B) = Total(ac, A)
    BY <2>1, <2>2, Zenon
  <2> QED BY <1>1, <1>4, <2>1, <2>2, <2>3 DEF A, B
<1> QED BY <1>3, <1>4

(* The amounts of the entries in a set, as naturals. *)
LEMMA AmountsNat ==
  ASSUME NEW en, NEW X, ChargeSet(en, X)
  PROVE  \A o \in X : /\ AmountsOf(en, X)[o] = en[o].command.amount
                      /\ en[o].command.amount \in Nat
<1>1. MaxAmount \in Nat
  BY LedgerAssumption
<1>2. \A o \in X : en[o] \in Entry
  BY DEF ChargeSet, IsCharge
<1> QED BY <1>1, <1>2 DEF AmountsOf, Entry, Command, Amount

(* How a SUM over entries moves when a row is added to the table.  X and Y   *)
(* are the entries of interest before and after.                             *)
LEMMA AmountsMove ==
  ASSUME NEW en, NEW o, NEW e, NEW en2, Inserts(en, o, e, en2), IsCharge(e),
         NEW X, ChargeSet(en, X), NEW Y, Y = X \cup {o}
  PROVE  /\ o \notin X
         /\ Total(AmountsOf(en2, Y), Y) = Total(AmountsOf(en, X), X) + e.command.amount
         /\ Total(AmountsOf(en, X), X) \in Nat
         /\ Cardinality(Y) = Cardinality(X) + 1
<1> DEFINE f == AmountsOf(en, X)
           h == AmountsOf(en2, Y)
<1>1. IsFiniteSet(X) /\ IsFiniteSet(Y)
  <2>1. IsFiniteSet(Operations) /\ X \subseteq Operations
    BY LedgerAssumption DEF ChargeSet
  <2>2. IsFiniteSet(X)
    BY <2>1, FS_Subset
  <2> QED BY <2>2, FS_AddElement
<1>2. o \notin X
  BY DEF ChargeSet, Inserts, IsCharge
<1>3. ChargeSet(en2, Y)
  BY DEF ChargeSet, Inserts, IsCharge
<1>4. \A p \in X : f[p] \in Nat /\ f[p] = en[p].command.amount
  BY AmountsNat
<1>5. \A p \in Y : h[p] \in Nat /\ h[p] = en2[p].command.amount
  BY <1>3, AmountsNat
<1>7. \A p \in X : en2[p] = en[p]
  BY <1>2 DEF ChargeSet, Inserts
<1>8. en2[o] = e
  BY DEF Inserts
<1> HIDE DEF f, h
<1>9. \A p \in X : f[p] = h[p]
  BY <1>4, <1>5, <1>7
<1>10. Total(h, X) = Total(f, X) /\ Total(f, X) \in Nat
  BY <1>1, <1>4, <1>9, TotalAgree, TotalNat
<1>11. h[o] = e.command.amount /\ h[o] \in Nat
  BY <1>5, <1>8
<1>12. \A p \in X : h[p] \in Nat
  BY <1>5
<1>13. Total(h, Y) = Total(h, X) + h[o]
  BY <1>1, <1>2, <1>11, <1>12, TotalAdd
<1>14. Cardinality(Y) = Cardinality(X) + 1
  BY <1>1, <1>2, FS_AddElement
<1>15. Total(h, Y) = Total(f, X) + e.command.amount
  BY <1>10, <1>11, <1>13
<1> QED BY <1>2, <1>10, <1>14, <1>15 DEF f, h

(* A SUM over entries does not see a row that is added elsewhere. *)
LEMMA AmountsStay ==
  ASSUME NEW en, NEW o, NEW e, NEW en2, Inserts(en, o, e, en2), NEW X, ChargeSet(en, X)
  PROVE  /\ o \notin X
         /\ Total(AmountsOf(en2, X), X) = Total(AmountsOf(en, X), X)
         /\ Total(AmountsOf(en, X), X) \in Nat
<1> DEFINE f == AmountsOf(en, X)
           g == AmountsOf(en2, X)
<1>1. IsFiniteSet(X)
  BY LedgerAssumption, FS_Subset DEF ChargeSet
<1>2. o \notin X
  BY DEF ChargeSet, Inserts, IsCharge
<1>3. \A p \in X : f[p] \in Nat /\ f[p] = en[p].command.amount
  BY AmountsNat
<1>4. \A p \in X : f[p] = g[p]
  BY <1>2 DEF AmountsOf, ChargeSet, Inserts
<1> HIDE DEF f, g
<1>5. Total(g, X) = Total(f, X) /\ Total(f, X) \in Nat
  BY <1>1, <1>3, <1>4, TotalAgree, TotalNat
<1> QED BY <1>2, <1>5 DEF f, g

(* How the SUM and the COUNT of the charges after a revision move with a new *)
(* entry of a later revision.                                                *)
LEMMA ChargesMove ==
  ASSUME NEW en, NEW o, NEW e, NEW en2, Inserts(en, o, e, en2),
         NEW k, NEW lo \in Nat, KeyOf[e.parent] = k => e.revision > lo
  PROVE  LET A == ChargesAfter(en, k, lo)
             B == ChargesAfter(en2, k, lo)
             here == IsCharge(e) /\ e.command.status = "settle" /\ KeyOf[e.parent] = k
         IN  /\ Total(AmountsOf(en2, B), B) =
                  Total(AmountsOf(en, A), A) + (IF here THEN e.command.amount ELSE 0)
             /\ Cardinality(B) = Cardinality(A) + (IF here THEN 1 ELSE 0)
             /\ Total(AmountsOf(en, A), A) \in Nat
<1> DEFINE A == ChargesAfter(en, k, lo)
           B == ChargesAfter(en2, k, lo)
           here == IsCharge(e) /\ e.command.status = "settle" /\ KeyOf[e.parent] = k
<1>1. ChargeSet(en, A)
  BY DEF ChargesAfter, ChargeSet, Inserts
<1>2. Cardinality(A) \in Nat
  BY RowsFinite
<1> DEFINE Goal == /\ Total(AmountsOf(en2, B), B) =
                        Total(AmountsOf(en, A), A) + (IF here THEN e.command.amount ELSE 0)
                   /\ Cardinality(B) = Cardinality(A) + (IF here THEN 1 ELSE 0)
                   /\ Total(AmountsOf(en, A), A) \in Nat
<1>3. ASSUME here PROVE Goal
  <2>1. B = A \cup {o}
    BY <1>3 DEF ChargesAfter, IsCharge, Inserts
  <2>2. IsCharge(e)
    BY <1>3
  <2> HIDE DEF A, B
  <2>3. /\ Total(AmountsOf(en2, B), B) = Total(AmountsOf(en, A), A) + e.command.amount
        /\ Total(AmountsOf(en, A), A) \in Nat
        /\ Cardinality(B) = Cardinality(A) + 1
    BY <1>1, <2>1, <2>2, AmountsMove
  <2> HIDE DEF here
  <2> QED BY <1>3, <2>3
<1>4. ASSUME ~here PROVE Goal
  <2>1. B = A
    BY <1>4 DEF ChargesAfter, IsCharge, Inserts
  <2> HIDE DEF A
  <2>2. /\ Total(AmountsOf(en2, A), A) = Total(AmountsOf(en, A), A)
        /\ Total(AmountsOf(en, A), A) \in Nat
    BY <1>1, AmountsStay
  <2> HIDE DEF B
  <2>3. Total(AmountsOf(en2, B), B) = Total(AmountsOf(en, A), A) /\ Cardinality(B) = Cardinality(A)
    BY <2>1, <2>2, Zenon
  <2> HIDE DEF here
  <2>4. Goal
    BY <1>2, <1>4, <2>2, <2>3
  <2> QED BY <2>4
<1> HIDE DEF Goal
<1>5. Goal
  BY <1>3, <1>4
<1> QED BY <1>5, Zenon DEF Goal

-----------------------------------------------------------------------------
(* The invariant in terms of the columns *)

(* CountsMatchLedger and CheckpointSound of one account over the columns. *)
Counted(pe, un, iss, st, k) ==
  /\ pe[k] = Cardinality(WithStatus(st, k, "pending"))
  /\ un[k] = Cardinality(WithStatus(st, k, "unresolved")) + Cardinality(iss[k])

Priced(ac, st, er, en, k, lo) ==
  Total(ac, SettledAfter(st, er, k, lo))
    + Total(AmountsOf(en, ChargesAfter(en, k, lo)), ChargesAfter(en, k, lo))

Numbered(st, er, en, k, lo) ==
  Cardinality(SettledAfter(st, er, k, lo)) + Cardinality(ChargesAfter(en, k, lo))

(* The counts, before and after a step, over the columns. *)
LEMMA CountsByColumns ==
  /\ CountsMatchLedger <=> \A k \in Keys : Counted(pending, unresolved, issues, status, k)
  /\ CountsMatchLedger' <=> \A k \in Keys : Counted(pending', unresolved', issues', status', k)
  BY DEF CountsMatchLedger, Counted, PendingRows, UnresolvedRows, WithStatus

(* The sums, before and after a step, over the columns. *)
LEMMA DerivedByColumns ==
  ASSUME NEW k
  PROVE  /\ DerivedUsed(k) = cpAmount[k] + Priced(accounted, status, entryRevision, entries, k, cpRevision[k])
         /\ SettledEvents(k) = Numbered(status, entryRevision, entries, k, cpRevision[k])
         /\ DerivedUsed(k)' = cpAmount'[k] + Priced(accounted', status', entryRevision', entries', k, cpRevision'[k])
         /\ SettledEvents(k)' = Numbered(status', entryRevision', entries', k, cpRevision'[k])
  BY DEF DerivedUsed, SettledCost, SettledEvents, Priced, Numbered, EntryAmounts, AmountsOf,
         SettledRequests, SettledEntries, SettledAfter, ChargesAfter, IsCharge

-----------------------------------------------------------------------------
(* What a step does to the parts of the invariant *)

(* A scan stays sound while every change of an account moves its revision. *)
LEMMA ScanKept ==
  ASSUME TypeOK, ScanInv, \A b \in Rebuilds : scan'[b] \in {None, scan[b]},
         revision' \in [Keys -> Nat],
         \A k \in Keys : /\ revision'[k] >= revision[k]
                         /\ revision'[k] = revision[k] =>
                              /\ used'[k] = used[k]
                              /\ pending'[k] = pending[k] /\ unresolved'[k] = unresolved[k]
  PROVE  ScanInv'
<1> SUFFICES ASSUME NEW b \in Rebuilds, scan'[b] # None, scan'[b] = scan[b]
             PROVE  /\ scan[b].fault = None
                    /\ scan[b].revision <= revision'[scan[b].key]
                    /\ revision'[scan[b].key] = scan[b].revision =>
                         /\ scan[b].used = used'[scan[b].key]
                         /\ scan[b].pending = pending'[scan[b].key]
                         /\ scan[b].unresolved = unresolved'[scan[b].key]
  BY DEF ScanInv, ScanIsCurrent
<1>1. scan[b].key \in Keys /\ scan[b].revision \in Nat /\ revision[scan[b].key] \in Nat
  BY DEF TypeOK, AccountTypeOK, Scan
<1>2. /\ scan[b].fault = None
      /\ scan[b].revision <= revision[scan[b].key]
      /\ revision[scan[b].key] = scan[b].revision =>
           /\ scan[b].used = used[scan[b].key]
           /\ scan[b].pending = pending[scan[b].key]
           /\ scan[b].unresolved = unresolved[scan[b].key]
  BY DEF ScanInv, ScanIsCurrent
<1> QED BY <1>1, <1>2

(* Checkpoints stay sound while the ledger's settled rows stay. *)
LEMMA CheckpointKept ==
  ASSUME TypeOK, CheckpointSound,
         UNCHANGED <<cpRevision, cpAmount, issues, used, status, accounted, entryRevision, entries>>,
         revision' \in [Keys -> Nat], tail' \in [Keys -> Nat],
         \A k \in Keys : /\ revision'[k] >= revision[k] /\ tail'[k] >= tail[k]
                         /\ revision'[k] = revision[k] => tail'[k] = tail[k]
  PROVE  CheckpointSound'
<1> SUFFICES ASSUME NEW k \in Keys
             PROVE  /\ issues'[k] = {} /\ DerivedUsed(k)' = used'[k]
                    /\ SettledEvents(k)' <= tail'[k]
                    /\ cpRevision'[k] <= revision'[k]
                    /\ cpRevision'[k] = revision'[k] => tail'[k] = 0
  BY DEF CheckpointSound
<1>1. DerivedUsed(k)' = DerivedUsed(k) /\ SettledEvents(k)' = SettledEvents(k)
  BY DerivedByColumns
<1>2. SettledEvents(k) \in Nat
  BY DerivedByColumns, RowsFinite DEF Numbered
<1>3. /\ issues[k] = {} /\ DerivedUsed(k) = used[k] /\ SettledEvents(k) <= tail[k]
      /\ cpRevision[k] <= revision[k]
      /\ cpRevision[k] = revision[k] => tail[k] = 0
  BY DEF CheckpointSound
<1>4. /\ cpRevision[k] \in Nat /\ revision[k] \in Nat /\ tail[k] \in Nat
      /\ revision'[k] \in Nat /\ tail'[k] \in Nat
  BY DEF TypeOK, AccountTypeOK
<1> QED BY <1>1, <1>2, <1>3, <1>4

(* Steps of owners, of an account's other columns and of mark_dispatching. *)
LEMMA QuietKept ==
  ASSUME LedgerInv, TypeOK',
         UNCHANGED <<used, pending, unresolved, revision, tail, checkpointVars, status, owner,
                     terminal, accounted, entryRevision, entries>>,
         \A r \in Requests : dispatch[r] # "none" => dispatch'[r] # "none",
         \A s \in Sessions : Known(s) => Known(s)',
         \A s \in Sessions : stopped'[s] => Known(s)'
  PROVE  LedgerInv'
<1> USE DEF LedgerInv
<1>1. RowInv'
  BY DEF RowInv, Known
<1>2. EntryInv'
  BY DEF EntryInv, checkpointVars
<1>3. OwnerInv'
  BY DEF OwnerInv
<1>4. ScanInv'
  BY ScanKept DEF checkpointVars, TypeOK, AccountTypeOK
<1>5. CountsMatchLedger'
  BY CountsByColumns DEF checkpointVars
<1>6. CheckpointSound'
  BY CheckpointKept DEF checkpointVars, TypeOK, AccountTypeOK
<1> QED BY <1>1, <1>2, <1>3, <1>4, <1>5, <1>6

(* register_owner, heartbeat_owner, stop_owner and the clock. *)
LEMMA OwnerStepInv ==
  ASSUME LedgerInv, (\E s \in Sessions : Own(s)) \/ Tick
  PROVE  LedgerInv'
<1> USE DEF LedgerInv
<1>1. ASSUME NEW s \in Sessions, RegisterOwner(s) PROVE LedgerInv'
  <2>0. ConfigOf[s] \in Nat /\ Lease \in Nat
    BY LedgerAssumption
  <2>1. TypeOK'
    BY <1>1, <2>0 DEF TypeOK, AccountTypeOK, LedgerTypeOK, OwnerTypeOK, RegisterOwner,
       accountVars, checkpointVars, ledgerVars
  <2>2. \A t \in Sessions : (Known(t) => Known(t)') /\ (stopped'[t] => Known(t)')
    BY <1>1, LedgerAssumption DEF TypeOK, OwnerTypeOK, OwnerInv, RegisterOwner, Known
  <2> QED BY <1>1, <2>1, <2>2, QuietKept DEF RegisterOwner, accountVars, ledgerVars
<1>2. ASSUME NEW s \in Sessions, HeartbeatOwner(s) PROVE LedgerInv'
  <2>0. ConfigOf[s] \in Nat /\ Lease \in Nat
    BY LedgerAssumption
  <2>1. TypeOK'
    BY <1>2, <2>0 DEF TypeOK, AccountTypeOK, LedgerTypeOK, OwnerTypeOK, HeartbeatOwner,
       accountVars, checkpointVars, ledgerVars
  <2>2. \A t \in Sessions : (Known(t) => Known(t)') /\ (stopped'[t] => Known(t)')
    BY <1>2, LedgerAssumption DEF TypeOK, OwnerTypeOK, OwnerInv, HeartbeatOwner, Known
  <2> QED BY <1>2, <2>1, <2>2, QuietKept DEF HeartbeatOwner, accountVars, ledgerVars
<1>3. ASSUME NEW s \in Sessions, StopOwner(s) PROVE LedgerInv'
  <2>1. TypeOK'
    BY <1>3 DEF TypeOK, AccountTypeOK, LedgerTypeOK, OwnerTypeOK, StopOwner,
       accountVars, checkpointVars, ledgerVars
  <2>2. \A t \in Sessions : (Known(t) => Known(t)') /\ (stopped'[t] => Known(t)')
    BY <1>3 DEF TypeOK, OwnerTypeOK, OwnerInv, StopOwner, Known
  <2> QED BY <1>3, <2>1, <2>2, QuietKept DEF StopOwner, accountVars, ledgerVars
<1>4. ASSUME Tick PROVE LedgerInv'
  <2>1. TypeOK'
    BY <1>4 DEF TypeOK, AccountTypeOK, LedgerTypeOK, OwnerTypeOK, Tick,
       accountVars, checkpointVars, ledgerVars, ownerVars
  <2>2. \A t \in Sessions : (Known(t) => Known(t)') /\ (stopped'[t] => Known(t)')
    BY <1>4 DEF OwnerInv, Tick, Known, ownerVars
  <2> QED BY <1>4, <2>1, <2>2, QuietKept DEF Tick, accountVars, ledgerVars
<1> QED BY <1>1, <1>2, <1>3, <1>4 DEF Own

(* create_account, delete_account and mark_dispatching. *)
LEMMA ColumnStepInv ==
  ASSUME LedgerInv,
         \/ \E k \in Keys : DeleteAccount(k) \/ \E l \in Limits \cup {None} : CreateAccount(k, l)
         \/ \E r \in Requests : MarkDispatching(r)
  PROVE  LedgerInv'
<1> USE DEF LedgerInv
<1>0. \A t \in Sessions : stopped[t] => Known(t)
  BY DEF OwnerInv
<1>1. ASSUME NEW k \in Keys, NEW l \in Limits \cup {None}, CreateAccount(k, l) PROVE LedgerInv'
  <2>1. l \in Amount \cup {None}
    BY LedgerAssumption
  <2>2. TypeOK'
    BY <1>1, <2>1 DEF TypeOK, AccountTypeOK, LedgerTypeOK, OwnerTypeOK, CreateAccount,
       checkpointVars, ledgerVars, ownerVars
  <2> QED BY <1>0, <1>1, <2>2, QuietKept DEF CreateAccount, ledgerVars, ownerVars, Known
<1>2. ASSUME NEW k \in Keys, DeleteAccount(k) PROVE LedgerInv'
  <2>1. TypeOK'
    BY <1>2 DEF TypeOK, AccountTypeOK, LedgerTypeOK, OwnerTypeOK, DeleteAccount,
       checkpointVars, ledgerVars, ownerVars
  <2> QED BY <1>0, <1>2, <2>1, QuietKept DEF DeleteAccount, ledgerVars, ownerVars, Known
<1>3. ASSUME NEW r \in Requests, MarkDispatching(r) PROVE LedgerInv'
  <2>1. TypeOK'
    BY <1>3 DEF TypeOK, AccountTypeOK, LedgerTypeOK, OwnerTypeOK, MarkDispatching,
       accountVars, checkpointVars, ownerVars
  <2>2. \A q \in Requests : dispatch[q] # "none" => dispatch'[q] # "none"
    BY <1>3 DEF MarkDispatching, TypeOK, LedgerTypeOK
  <2> QED BY <1>0, <1>3, <2>1, <2>2, QuietKept DEF MarkDispatching, accountVars, ownerVars, Known
<1> QED BY <1>1, <1>2, <1>3

(* update_account moves the revision alone. *)
LEMMA UpdateAccountInv ==
  ASSUME LedgerInv, NEW k \in Keys, NEW l \in Limits \cup {None}, UpdateAccount(k, l)
  PROVE  LedgerInv'
<1> USE DEF LedgerInv
<1>0. l \in Amount \cup {None}
  BY LedgerAssumption
<1>1. TypeOK'
  BY <1>0 DEF TypeOK, AccountTypeOK, LedgerTypeOK, OwnerTypeOK, UpdateAccount,
     checkpointVars, ledgerVars, ownerVars
<1>2. /\ revision' \in [Keys -> Nat] /\ tail' = tail /\ tail' \in [Keys -> Nat]
      /\ \A j \in Keys : revision'[j] >= revision[j] /\ revision[j] \in Nat /\ revision'[j] \in Nat
  BY <1>1 DEF TypeOK, AccountTypeOK, UpdateAccount
<1>3. RowInv'
  <2>1. \A r \in Requests : KeyOf[r] \in Keys /\ entryRevision[r] \in Nat
    BY LedgerAssumption DEF TypeOK, LedgerTypeOK
  <2> QED BY <1>2, <2>1 DEF RowInv, UpdateAccount, Known, ledgerVars, ownerVars
<1>4. EntryInv'
  <2>1. \A o \in Operations : entries[o] # None =>
           KeyOf[entries[o].parent] \in Keys /\ entries[o].revision \in Nat
    BY LedgerAssumption DEF TypeOK, LedgerTypeOK, Entry
  <2> QED BY <1>2, <2>1 DEF EntryInv, UpdateAccount, ledgerVars
<1>5. OwnerInv'
  BY DEF OwnerInv, UpdateAccount, Known, ownerVars
<1>6. ScanInv'
  BY <1>2, ScanKept DEF UpdateAccount, checkpointVars
<1>7. CountsMatchLedger'
  BY CountsByColumns DEF UpdateAccount, checkpointVars, ledgerVars
<1>8. CheckpointSound'
  <2>1. \A j \in Keys : tail[j] \in Nat
    BY DEF TypeOK, AccountTypeOK
  <2> QED BY <1>2, <2>1, CheckpointKept DEF UpdateAccount, checkpointVars, ledgerVars
<1> QED BY <1>1, <1>3, <1>4, <1>5, <1>6, <1>7, <1>8

-----------------------------------------------------------------------------
(* Steps that move a row of the ledger *)

(* An open or new row takes the status to, n ledger events are counted. *)
MovesRow(r, to, n) ==
  /\ r \in Requests /\ status[r] \in {"none", "pending", "unresolved"}
  /\ status' = [status EXCEPT ![r] = to]
  /\ entryRevision' = [entryRevision EXCEPT ![r] = revision[KeyOf[r]] + 1]
  /\ Bump(KeyOf[r], n)
  /\ UNCHANGED <<cpRevision, cpAmount, issues, scan>>
  /\ \A q \in Requests \ {r} : accounted'[q] = accounted[q]

(* What a move leaves to be said of revisions and tails. *)
LEMMA MoveRevision ==
  ASSUME LedgerInv, NEW r, NEW to, NEW n \in Nat, MovesRow(r, to, n)
  PROVE  /\ KeyOf[r] \in Keys
         /\ revision' \in [Keys -> Nat] /\ tail' \in [Keys -> Nat]
         /\ revision'[KeyOf[r]] = revision[KeyOf[r]] + 1
         /\ tail'[KeyOf[r]] = tail[KeyOf[r]] + n
         /\ \A k \in Keys \ {KeyOf[r]} : revision'[k] = revision[k] /\ tail'[k] = tail[k]
         /\ \A k \in Keys : /\ revision[k] \in Nat /\ revision'[k] \in Nat
                            /\ tail[k] \in Nat /\ cpRevision[k] \in Nat
                            /\ revision[k] <= revision'[k]
<1>1. KeyOf[r] \in Keys
  BY LedgerAssumption DEF MovesRow
<1> QED BY <1>1 DEF LedgerInv, TypeOK, AccountTypeOK, MovesRow, Bump

(* The amount a move adds to its account. *)
Charged(r, to, amount) ==
  \/ to = "settled" /\ accounted'[r] = amount /\ amount \in Nat /\ entries' = entries
  \/ to # "settled" /\ amount = 0 /\ entries' = entries
  \/ /\ to # "settled"
     /\ \E o, e : /\ Inserts(entries, o, e, entries')
                  /\ e.parent = r /\ e.revision = revision[KeyOf[r]] + 1
                  /\ amount = IF IsCharge(e) /\ e.command.status = "settle"
                              THEN e.command.amount ELSE 0

(* What the settled rows add up to moves by the amount of the move, and      *)
(* their number by at most one.                                              *)
LEMMA MovePrices ==
  ASSUME LedgerInv, NEW r, NEW to, NEW n \in Nat, MovesRow(r, to, n),
         NEW amount, Charged(r, to, amount), NEW k \in Keys
  PROVE  /\ DerivedUsed(k)' = DerivedUsed(k) + (IF k = KeyOf[r] THEN amount ELSE 0)
         /\ SettledEvents(k)' <= SettledEvents(k) + (IF k = KeyOf[r] THEN 1 ELSE 0)
         /\ SettledEvents(k) \in Nat /\ SettledEvents(k)' \in Nat
<1> USE DEF LedgerInv
<1> DEFINE lo == cpRevision[k]
           A == SettledAfter(status, entryRevision, k, lo)
           B == SettledAfter(status', entryRevision', k, lo)
           C == ChargesAfter(entries, k, lo)
           D == ChargesAfter(entries', k, lo)
           a == Total(accounted, A)
           b == Total(accounted', B)
           c == Total(AmountsOf(entries, C), C)
           d == Total(AmountsOf(entries', D), D)
           here == KeyOf[r] = k
<1>1. /\ lo \in Nat /\ cpRevision'[k] = lo /\ cpAmount[k] \in Nat /\ cpAmount'[k] = cpAmount[k]
      /\ lo <= revision[k] /\ revision[KeyOf[r]] + 1 \in Nat
      /\ here => revision[KeyOf[r]] + 1 > lo
  <2>1. cpRevision[k] \in Nat /\ cpAmount[k] \in Nat /\ revision[k] \in Nat
    BY LedgerAssumption DEF TypeOK, AccountTypeOK, Amount
  <2>2. cpRevision[k] <= revision[k]
    BY DEF CheckpointSound
  <2>3. KeyOf[r] \in Keys /\ revision[KeyOf[r]] \in Nat
    BY MoveRevision
  <2> QED BY <2>1, <2>2, <2>3 DEF MovesRow
<1>2. /\ StatusColumn(status)
      /\ entryRevision \in [Requests -> Nat] /\ r \in Requests /\ status[r] # "settled"
      /\ \A q \in Requests : status[q] = "settled" => accounted[q] \in Nat
  BY LedgerAssumption DEF TypeOK, LedgerTypeOK, MovesRow, RowInv, Amount, StatusColumn
<1>3. /\ DerivedUsed(k) = cpAmount[k] + (a + c) /\ DerivedUsed(k)' = cpAmount'[k] + (b + d)
      /\ SettledEvents(k) = Cardinality(A) + Cardinality(C)
      /\ SettledEvents(k)' = Cardinality(B) + Cardinality(D)
  BY <1>1, DerivedByColumns DEF Priced, Numbered
<1>4. to = "settled" => accounted'[r] = amount /\ amount \in Nat
  BY DEF Charged
<1> DEFINE v == revision[KeyOf[r]] + 1
<1>4a. Transfers(status, entryRevision, accounted, status', entryRevision', accounted', r, to, v)
  BY <1>1, <1>2, <1>4 DEF MovesRow, Transfers
<1>5. /\ b = a + (IF here /\ to = "settled" THEN accounted'[r] ELSE 0)
      /\ Cardinality(B) = Cardinality(A) + (IF here /\ to = "settled" THEN 1 ELSE 0)
      /\ a \in Nat
  BY <1>1, <1>4a, SettledMoves
<1>6. /\ Cardinality(A) \in Nat /\ Cardinality(B) \in Nat
      /\ Cardinality(C) \in Nat /\ Cardinality(D) \in Nat
  BY RowsFinite
<1>7. c \in Nat
  <2>1. ChargeSet(entries, C) /\ IsFiniteSet(C)
    <3>1. ChargeSet(entries, C)
      BY DEF ChargeSet, ChargesAfter, TypeOK, LedgerTypeOK
    <3> QED BY <3>1, RowsFinite
  <2> HIDE DEF C
  <2>2. \A p \in C : AmountsOf(entries, C)[p] \in Nat
    BY <2>1, AmountsNat
  <2> QED BY <2>1, <2>2, TotalNat
<1>8. CASE entries' = entries
  <2>1. D = C /\ d = c
    BY <1>8
  <2>2. (to = "settled" /\ accounted'[r] = amount /\ amount \in Nat) \/ (to # "settled" /\ amount = 0)
    BY <1>8 DEF Charged, Inserts, IsCharge
  <2> HIDE DEF a, b, c, d, A, B, C, D, lo, here
  <2> QED BY <1>1, <1>3, <1>5, <1>6, <1>7, <2>1, <2>2 DEF here
<1>9. CASE entries' # entries
  <2>1. PICK o, e : /\ Inserts(entries, o, e, entries')
                    /\ e.parent = r /\ e.revision = revision[KeyOf[r]] + 1
                    /\ amount = IF IsCharge(e) /\ e.command.status = "settle"
                                THEN e.command.amount ELSE 0
    BY <1>9 DEF Charged
  <2>2. to # "settled"
    BY <1>9 DEF Charged
  <2>3. KeyOf[e.parent] = k => e.revision > lo
    BY <1>1, <2>1
  <2>4. /\ d = c + (IF IsCharge(e) /\ e.command.status = "settle" /\ KeyOf[e.parent] = k
                    THEN e.command.amount ELSE 0)
        /\ Cardinality(D) = Cardinality(C)
             + (IF IsCharge(e) /\ e.command.status = "settle" /\ KeyOf[e.parent] = k THEN 1 ELSE 0)
    BY <1>1, <2>1, <2>3, ChargesMove
  <2>5. e.command.amount \in Nat
    BY <2>1, LedgerAssumption DEF Inserts, Entry, Command, Amount
  <2> HIDE DEF a, b, c, d, A, B, C, D, lo, here
  <2> QED BY <1>1, <1>3, <1>5, <1>6, <1>7, <2>1, <2>2, <2>4, <2>5 DEF here
<1> QED BY <1>8, <1>9

(* The amount enters the aggregate. *)
Enters(k, amount) == used' = [used EXCEPT ![k] = @ + amount]

(* Checkpoints stay sound when the amount enters the aggregate. *)
LEMMA MoveCheckpoint ==
  ASSUME LedgerInv, NEW r, NEW to, NEW n \in Nat \ {0}, MovesRow(r, to, n),
         NEW amount, Charged(r, to, amount), Enters(KeyOf[r], amount)
  PROVE  CheckpointSound'
<1> USE DEF LedgerInv
<1> SUFFICES ASSUME NEW k \in Keys
             PROVE  /\ issues'[k] = {} /\ DerivedUsed(k)' = used'[k]
                    /\ SettledEvents(k)' <= tail'[k]
                    /\ cpRevision'[k] <= revision'[k]
                    /\ cpRevision'[k] = revision'[k] => tail'[k] = 0
  BY DEF CheckpointSound
<1>1. /\ DerivedUsed(k)' = DerivedUsed(k) + (IF k = KeyOf[r] THEN amount ELSE 0)
      /\ SettledEvents(k)' <= SettledEvents(k) + (IF k = KeyOf[r] THEN 1 ELSE 0)
      /\ SettledEvents(k) \in Nat /\ SettledEvents(k)' \in Nat
  BY MovePrices
<1>2. /\ KeyOf[r] \in Keys /\ revision[k] \in Nat /\ tail[k] \in Nat /\ cpRevision[k] \in Nat
      /\ k = KeyOf[r] => revision'[k] = revision[k] + 1 /\ tail'[k] = tail[k] + n
      /\ k # KeyOf[r] => revision'[k] = revision[k] /\ tail'[k] = tail[k]
  BY MoveRevision
<1>3. /\ issues[k] = {} /\ DerivedUsed(k) = used[k] /\ SettledEvents(k) <= tail[k]
      /\ cpRevision[k] <= revision[k]
      /\ cpRevision[k] = revision[k] => tail[k] = 0
  BY DEF CheckpointSound
<1>4. cpRevision'[k] = cpRevision[k] /\ issues'[k] = issues[k]
  BY DEF MovesRow
<1>5. used'[k] = used[k] + (IF k = KeyOf[r] THEN amount ELSE 0)
  BY LedgerAssumption DEF TypeOK, AccountTypeOK, Amount, Enters
<1> QED BY <1>1, <1>2, <1>3, <1>4, <1>5

(* A scan stays sound when a row moves: its account's revision does. *)
LEMMA MoveScan ==
  ASSUME LedgerInv, NEW r, NEW to, NEW n \in Nat, MovesRow(r, to, n),
         \A k \in Keys \ {KeyOf[r]} :
           used'[k] = used[k] /\ pending'[k] = pending[k] /\ unresolved'[k] = unresolved[k]
  PROVE  ScanInv'
<1>1. /\ revision' \in [Keys -> Nat]
      /\ revision'[KeyOf[r]] = revision[KeyOf[r]] + 1
      /\ \A k \in Keys : revision'[k] >= revision[k] /\ revision[k] \in Nat
  BY MoveRevision
<1>2. scan' = scan
  BY DEF MovesRow
<1>3. \A k \in Keys : revision'[k] = revision[k] => k # KeyOf[r]
  BY <1>1
<1> QED BY <1>1, <1>2, <1>3, ScanKept DEF LedgerInv

(* Every row and entry is no newer than its account, and no reconciliation   *)
(* has a parent that is still open.                                          *)
LEMMA MoveRows ==
  ASSUME LedgerInv, NEW r, NEW to \in {"pending", "unresolved", "settled", "resolved"},
         NEW n \in Nat, MovesRow(r, to, n), UNCHANGED ownerVars,
         \A q \in Requests \ {r} : owner'[q] = owner[q] /\ dispatch'[q] = dispatch[q],
         owner'[r] \in Sessions /\ Known(owner'[r]) /\ dispatch'[r] # "none",
         to = "settled" => accounted'[r] # None,
         \/ entries' = entries
         \/ \E o, e : /\ Inserts(entries, o, e, entries')
                      /\ e.parent = r /\ e.revision = revision[KeyOf[r]] + 1
                      /\ e.kind = "reconciliation" => to = "resolved"
  PROVE  RowInv' /\ EntryInv' /\ OwnerInv'
<1> USE DEF LedgerInv
<1>1. /\ KeyOf[r] \in Keys /\ r \in Requests /\ revision'[KeyOf[r]] = revision[KeyOf[r]] + 1
      /\ \A k \in Keys : /\ revision[k] \in Nat /\ revision'[k] \in Nat
                         /\ revision[k] <= revision'[k]
  BY MoveRevision DEF MovesRow
<1>2. \A q \in Requests : KeyOf[q] \in Keys /\ entryRevision[q] \in Nat
  BY LedgerAssumption DEF TypeOK, LedgerTypeOK
<1>3. /\ entryRevision'[r] = revision[KeyOf[r]] + 1 /\ status'[r] = to
      /\ \A q \in Requests \ {r} : entryRevision'[q] = entryRevision[q] /\ status'[q] = status[q]
  BY <1>1 DEF TypeOK, LedgerTypeOK, MovesRow
<1>4. \A s : Known(s)' <=> Known(s)
  BY DEF Known, ownerVars
<1>5. RowInv'
  <2> SUFFICES ASSUME NEW q \in Requests
               PROVE  /\ status'[q] # "none" => /\ owner'[q] \in Sessions /\ expires'[owner'[q]] # None
                                                /\ dispatch'[q] # "none"
                      /\ status'[q] = "settled" => accounted'[q] # None
                      /\ entryRevision'[q] <= revision'[KeyOf[q]]
    BY DEF RowInv, Known
  <2>1. /\ status[q] # "none" => /\ owner[q] \in Sessions /\ expires[owner[q]] # None
                                 /\ dispatch[q] # "none"
        /\ status[q] = "settled" => accounted[q] # None
        /\ entryRevision[q] <= revision[KeyOf[q]]
    BY DEF RowInv, Known
  <2>2. expires' = expires
    BY DEF ownerVars
  <2>3. CASE q = r
    BY <1>1, <1>3, <2>2, <2>3 DEF Known
  <2>4. CASE q # r
    <3>1. accounted'[q] = accounted[q] /\ owner'[q] = owner[q] /\ dispatch'[q] = dispatch[q]
      BY <2>4 DEF MovesRow
    <3> QED BY <1>1, <1>2, <1>3, <2>1, <2>2, <2>4, <3>1
  <2> QED BY <2>3, <2>4
<1>6. EntryInv'
  <2> SUFFICES ASSUME NEW p \in Operations, entries'[p] # None
               PROVE  /\ entries'[p].revision <= revision'[KeyOf[entries'[p].parent]]
                      /\ entries'[p].kind = "reconciliation" => status'[entries'[p].parent] = "resolved"
    BY DEF EntryInv
  <2>1. ASSUME entries[p] # None
        PROVE  /\ entries[p].revision <= revision'[KeyOf[entries[p].parent]]
               /\ entries[p].kind = "reconciliation" => status'[entries[p].parent] = "resolved"
    <3>1. /\ entries[p].revision \in Nat /\ entries[p].parent \in Requests
          /\ entries[p].revision <= revision[KeyOf[entries[p].parent]]
          /\ entries[p].kind = "reconciliation" => status[entries[p].parent] = "resolved"
      BY <2>1 DEF EntryInv, TypeOK, LedgerTypeOK, Entry
    <3>2. status[r] # "resolved"
      BY DEF MovesRow
    <3> QED BY <1>1, <1>2, <1>3, <3>1, <3>2
  <2>2. CASE entries' = entries
    BY <2>1, <2>2
  <2>3. CASE entries' # entries
    <3>1. PICK o, e : /\ Inserts(entries, o, e, entries')
                      /\ e.parent = r /\ e.revision = revision[KeyOf[r]] + 1
                      /\ e.kind = "reconciliation" => to = "resolved"
      BY <2>3
    <3>2. (p = o /\ entries'[p] = e) \/ (p # o /\ entries'[p] = entries[p])
      BY <3>1 DEF Inserts
    <3> QED BY <1>1, <1>3, <2>1, <3>1, <3>2
  <2> QED BY <2>2, <2>3
<1>7. OwnerInv'
  BY DEF OwnerInv, Known, ownerVars
<1> QED BY <1>5, <1>6, <1>7

(* The counters follow a row that is closed. *)
LEMMA AccountCounts ==
  ASSUME LedgerInv, NEW r, NEW to \in {"settled", "resolved"}, NEW n \in Nat, MovesRow(r, to, n),
         status[r] # "none", NEW amount, Account(KeyOf[r], r, amount)
  PROVE  /\ CountsMatchLedger'
         /\ pending' \in [Keys -> Nat] /\ unresolved' \in [Keys -> Nat]
         /\ \A k \in Keys \ {KeyOf[r]} : pending'[k] = pending[k] /\ unresolved'[k] = unresolved[k]
<1> USE DEF LedgerInv
<1>1. /\ Takes(status, r, to, status') /\ r \in Requests
      /\ KeyOf[r] \in Keys /\ issues' = issues
      /\ pending \in [Keys -> Nat] /\ unresolved \in [Keys -> Nat]
  BY LedgerAssumption DEF TypeOK, AccountTypeOK, LedgerTypeOK, MovesRow, StatusColumn, Takes
<1>2. \A k, x : Cardinality(WithStatus(status', k, x)) =
           Cardinality(WithStatus(status, k, x))
             + (IF KeyOf[r] = k /\ to = x /\ status[r] # x THEN 1
                ELSE IF KeyOf[r] = k /\ to # x /\ status[r] = x THEN -1 ELSE 0)
  BY <1>1, CountMoves
<1>3. \A k, x : Cardinality(WithStatus(status, k, x)) \in Nat
  BY RowsFinite
<1>4. status[r] \in {"pending", "unresolved"}
  BY DEF MovesRow
<1>5. \A k \in Keys : /\ Counted(pending, unresolved, issues, status, k)
                      /\ Cardinality(issues[k]) \in Nat
  <2>1. \A k \in Keys : issues[k] = {}
    BY DEF CheckpointSound
  <2> QED BY <2>1, CountsByColumns, FS_EmptySet
<1>6. \A k \in Keys : Counted(pending', unresolved', issues', status', k)
  <2> SUFFICES ASSUME NEW k \in Keys PROVE Counted(pending', unresolved', issues', status', k)
    OBVIOUS
  <2>1. /\ Cardinality(WithStatus(status', k, "pending")) =
             Cardinality(WithStatus(status, k, "pending"))
               - (IF KeyOf[r] = k /\ status[r] = "pending" THEN 1 ELSE 0)
        /\ Cardinality(WithStatus(status', k, "unresolved")) =
             Cardinality(WithStatus(status, k, "unresolved"))
               - (IF KeyOf[r] = k /\ status[r] = "unresolved" THEN 1 ELSE 0)
    <3>1. to # "pending" /\ to # "unresolved"
      OBVIOUS
    <3> QED BY <1>2, <1>3, <3>1
  <2>2. /\ pending'[k] = pending[k] - (IF KeyOf[r] = k /\ status[r] = "pending" THEN 1 ELSE 0)
        /\ unresolved'[k] = unresolved[k] - (IF KeyOf[r] = k /\ status[r] = "unresolved" THEN 1 ELSE 0)
    BY <1>1, <1>4 DEF Account
  <2> QED BY <1>1, <1>3, <1>5, <2>1, <2>2 DEF Counted
<1>7. pending' \in [Keys -> Nat] /\ unresolved' \in [Keys -> Nat]
  BY <1>1, <1>4 DEF Account
<1>8. \A k \in Keys \ {KeyOf[r]} : pending'[k] = pending[k] /\ unresolved'[k] = unresolved[k]
  BY <1>1, <1>4 DEF Account
<1> QED BY <1>6, <1>7, <1>8, CountsByColumns

(* The counters follow a row that becomes, or stays, an open question. *)
LEMMA UnresolvedCounts ==
  ASSUME LedgerInv, NEW r, NEW n \in Nat, MovesRow(r, "unresolved", n),
         status[r] # "none", CountUnresolved(KeyOf[r], r)
  PROVE  /\ CountsMatchLedger'
         /\ pending' \in [Keys -> Nat] /\ unresolved' \in [Keys -> Nat]
         /\ \A k \in Keys \ {KeyOf[r]} : pending'[k] = pending[k] /\ unresolved'[k] = unresolved[k]
<1> USE DEF LedgerInv
<1>1. /\ Takes(status, r, "unresolved", status') /\ r \in Requests
      /\ KeyOf[r] \in Keys /\ issues' = issues
      /\ pending \in [Keys -> Nat] /\ unresolved \in [Keys -> Nat]
  BY LedgerAssumption DEF TypeOK, AccountTypeOK, LedgerTypeOK, MovesRow, StatusColumn, Takes
<1>2. \A k, x : Cardinality(WithStatus(status', k, x)) =
           Cardinality(WithStatus(status, k, x))
             + (IF KeyOf[r] = k /\ "unresolved" = x /\ status[r] # x THEN 1
                ELSE IF KeyOf[r] = k /\ "unresolved" # x /\ status[r] = x THEN -1 ELSE 0)
  BY <1>1, CountMoves
<1>3. \A k, x : Cardinality(WithStatus(status, k, x)) \in Nat
  BY RowsFinite
<1>4. status[r] \in {"pending", "unresolved"}
  BY DEF MovesRow
<1>5. \A k \in Keys : /\ Counted(pending, unresolved, issues, status, k)
                      /\ Cardinality(issues[k]) \in Nat
  <2>1. \A k \in Keys : issues[k] = {}
    BY DEF CheckpointSound
  <2> QED BY <2>1, CountsByColumns, FS_EmptySet
<1>6. \A k \in Keys : Counted(pending', unresolved', issues', status', k)
  <2> SUFFICES ASSUME NEW k \in Keys PROVE Counted(pending', unresolved', issues', status', k)
    OBVIOUS
  <2>1. /\ Cardinality(WithStatus(status', k, "pending")) =
             Cardinality(WithStatus(status, k, "pending"))
               - (IF KeyOf[r] = k /\ status[r] = "pending" THEN 1 ELSE 0)
        /\ Cardinality(WithStatus(status', k, "unresolved")) =
             Cardinality(WithStatus(status, k, "unresolved"))
               + (IF KeyOf[r] = k /\ status[r] = "pending" THEN 1 ELSE 0)
    BY <1>2, <1>3, <1>4
  <2>2. /\ pending'[k] = pending[k] - (IF KeyOf[r] = k /\ status[r] = "pending" THEN 1 ELSE 0)
        /\ unresolved'[k] = unresolved[k] + (IF KeyOf[r] = k /\ status[r] = "pending" THEN 1 ELSE 0)
    BY <1>1, <1>4 DEF CountUnresolved
  <2> QED BY <1>1, <1>3, <1>5, <2>1, <2>2 DEF Counted
<1>7. pending' \in [Keys -> Nat] /\ unresolved' \in [Keys -> Nat]
  BY <1>1, <1>4 DEF CountUnresolved
<1>8. \A k \in Keys \ {KeyOf[r]} : pending'[k] = pending[k] /\ unresolved'[k] = unresolved[k]
  BY <1>1, <1>4 DEF CountUnresolved
<1> QED BY <1>6, <1>7, <1>8, CountsByColumns

-----------------------------------------------------------------------------
(* One step per operation on the ledger *)

(* create_intent: a new row is counted as pending. *)
LEMMA CreateIntentInv ==
  ASSUME LedgerInv, NEW r \in Requests, NEW s \in Sessions, CreateIntent(r, s)
  PROVE  LedgerInv'
<1> USE DEF LedgerInv
<1>0. KeyOf[r] \in Keys /\ StaleAfter \in Nat
  BY LedgerAssumption
<1>1. MovesRow(r, "pending", 1)
  BY DEF MovesRow, CreateIntent, Bump, checkpointVars
<1>2. TypeOK'
  BY <1>0 DEF TypeOK, AccountTypeOK, LedgerTypeOK, OwnerTypeOK, CreateIntent, Bump,
     checkpointVars, ownerVars
<1>3. RowInv' /\ EntryInv' /\ OwnerInv'
  <2>1. /\ \A q \in Requests \ {r} : owner'[q] = owner[q] /\ dispatch'[q] = dispatch[q]
        /\ owner'[r] = s /\ dispatch'[r] = "prepared" /\ Known(s) /\ entries' = entries
    BY DEF CreateIntent, TypeOK, LedgerTypeOK, Live
  <2>2. UNCHANGED ownerVars
    BY DEF CreateIntent
  <2>3. owner'[r] \in Sessions /\ Known(owner'[r]) /\ dispatch'[r] # "none"
    BY <2>1, Zenon
  <2> QED BY <1>1, <2>1, <2>2, <2>3, MoveRows
<1>4. ScanInv'
  <2>1. \A k \in Keys \ {KeyOf[r]} :
          used'[k] = used[k] /\ pending'[k] = pending[k] /\ unresolved'[k] = unresolved[k]
    BY DEF CreateIntent, TypeOK, AccountTypeOK
  <2> QED BY <1>1, <2>1, MoveScan
<1>5. CountsMatchLedger'
  <2>1. Takes(status, r, "pending", status') /\ status[r] = "none" /\ issues' = issues
    BY DEF CreateIntent, TypeOK, LedgerTypeOK, Takes, StatusColumn, checkpointVars
  <2>2. \A k, x : Cardinality(WithStatus(status', k, x)) =
           Cardinality(WithStatus(status, k, x))
             + (IF KeyOf[r] = k /\ "pending" = x /\ status[r] # x THEN 1
                ELSE IF KeyOf[r] = k /\ "pending" # x /\ status[r] = x THEN -1 ELSE 0)
    BY <2>1, CountMoves
  <2>3. \A k, x : Cardinality(WithStatus(status, k, x)) \in Nat
    BY RowsFinite
  <2>4. \A k \in Keys : Counted(pending, unresolved, issues, status, k)
    BY CountsByColumns
  <2>5. \A k \in Keys : /\ pending'[k] = pending[k] + (IF KeyOf[r] = k THEN 1 ELSE 0)
                        /\ unresolved'[k] = unresolved[k]
    BY DEF CreateIntent, TypeOK, AccountTypeOK
  <2>6. \A k \in Keys :
          /\ Cardinality(WithStatus(status', k, "pending")) =
               Cardinality(WithStatus(status, k, "pending")) + (IF KeyOf[r] = k THEN 1 ELSE 0)
          /\ Cardinality(WithStatus(status', k, "unresolved")) =
               Cardinality(WithStatus(status, k, "unresolved"))
    BY <2>1, <2>2, <2>3
  <2>7. \A k \in Keys : Counted(pending', unresolved', issues', status', k)
    BY <2>1, <2>4, <2>5, <2>6 DEF Counted
  <2> QED BY <2>7, CountsByColumns
<1>6. CheckpointSound'
  <2>1. Charged(r, "pending", 0)
    BY DEF Charged, CreateIntent
  <2>2. Enters(KeyOf[r], 0)
    BY <1>0, LedgerAssumption DEF CreateIntent, TypeOK, AccountTypeOK, Amount, Enters
  <2> QED BY <1>1, <2>1, <2>2, MoveCheckpoint
<1> QED BY <1>2, <1>3, <1>4, <1>5, <1>6

(* mark_unresolved, by settle, by stale recovery, once or again. *)
LEMMA MarkUnresolvedInv ==
  ASSUME LedgerInv, NEW r \in Requests, status[r] \in {"pending", "unresolved"},
         NEW command \in Command \cup {None}, MarkUnresolved(r, command)
  PROVE  LedgerInv'
<1> USE DEF LedgerInv
<1>0. KeyOf[r] \in Keys
  BY LedgerAssumption
<1>1. MovesRow(r, "unresolved", 1)
  BY DEF MovesRow, MarkUnresolved, Bump, checkpointVars, TypeOK, LedgerTypeOK
<1>2. /\ CountsMatchLedger'
      /\ pending' \in [Keys -> Nat] /\ unresolved' \in [Keys -> Nat]
      /\ \A k \in Keys \ {KeyOf[r]} : pending'[k] = pending[k] /\ unresolved'[k] = unresolved[k]
  BY <1>1, UnresolvedCounts DEF MarkUnresolved
<1>3. TypeOK'
  <2>1. AccountTypeOK'
    <3>1. revision' \in [Keys -> Nat] /\ tail' \in [Keys -> Nat]
      BY <1>1, MoveRevision
    <3> QED BY <1>2, <3>1 DEF TypeOK, AccountTypeOK, MarkUnresolved, checkpointVars
  <2>2. LedgerTypeOK'
    BY <1>0 DEF TypeOK, AccountTypeOK, LedgerTypeOK, MarkUnresolved
  <2>3. OwnerTypeOK'
    BY DEF TypeOK, OwnerTypeOK, MarkUnresolved, ownerVars
  <2> QED BY <2>1, <2>2, <2>3 DEF TypeOK
<1>4. RowInv' /\ EntryInv' /\ OwnerInv'
  <2>1. owner' = owner /\ dispatch' = dispatch /\ entries' = entries /\ UNCHANGED ownerVars
    BY DEF MarkUnresolved
  <2>2. owner'[r] \in Sessions /\ Known(owner'[r]) /\ dispatch'[r] # "none"
    BY <2>1 DEF RowInv
  <2> QED BY <1>1, <2>1, <2>2, MoveRows
<1>5. ScanInv'
  BY <1>1, <1>2, MoveScan DEF MarkUnresolved
<1>6. CheckpointSound'
  <2>1. Charged(r, "unresolved", 0)
    BY DEF Charged, MarkUnresolved
  <2>2. Enters(KeyOf[r], 0)
    BY <1>0, LedgerAssumption DEF MarkUnresolved, TypeOK, AccountTypeOK, Amount, Enters
  <2> QED BY <1>1, <2>1, <2>2, MoveCheckpoint
<1> QED BY <1>2, <1>3, <1>4, <1>5, <1>6

(* What settle and stale recovery write when they close a row. *)
Closes(r, c) ==
  /\ Account(KeyOf[r], r, c.amount)
  /\ CloseRow(r, c)
  /\ Bump(KeyOf[r], 1)
  /\ UNCHANGED <<presence, limit, dispatch, owner, staleAt, entries>>
  /\ UNCHANGED <<checkpointVars, ownerVars, clock>>

(* A row that is closed takes its cost, which enters the aggregate. *)
LEMMA ClosesInv ==
  ASSUME LedgerInv, NEW r \in Requests, status[r] \in {"pending", "unresolved"},
         NEW c \in Command, used[KeyOf[r]] + c.amount <= MaxAmount, Closes(r, c)
  PROVE  LedgerInv'
<1> USE DEF LedgerInv
<1>0. /\ KeyOf[r] \in Keys /\ c.amount \in Nat /\ c.amount \in Amount /\ MaxAmount \in Nat
      /\ used[KeyOf[r]] \in Nat /\ used[KeyOf[r]] + c.amount \in Amount
  <2>1. KeyOf[r] \in Keys /\ MaxAmount \in Nat
    BY LedgerAssumption
  <2>2. c.amount \in Amount /\ used[KeyOf[r]] \in Amount
    BY <2>1 DEF Command, TypeOK, AccountTypeOK
  <2> QED BY <2>1, <2>2 DEF Amount
<1>1. MovesRow(r, "settled", 1)
  BY DEF MovesRow, Closes, CloseRow, Bump, checkpointVars, TypeOK, LedgerTypeOK
<1>2. /\ CountsMatchLedger'
      /\ pending' \in [Keys -> Nat] /\ unresolved' \in [Keys -> Nat]
      /\ \A k \in Keys \ {KeyOf[r]} : pending'[k] = pending[k] /\ unresolved'[k] = unresolved[k]
  BY <1>1, AccountCounts DEF Closes
<1>3. used' = [used EXCEPT ![KeyOf[r]] = @ + c.amount] /\ used' \in [Keys -> Amount]
  <2>1. used' = [used EXCEPT ![KeyOf[r]] = @ + c.amount]
    BY DEF Closes, Account
  <2> QED BY <1>0, <2>1 DEF TypeOK, AccountTypeOK
<1>4. TypeOK'
  BY <1>0, <1>2, <1>3 DEF TypeOK, AccountTypeOK, LedgerTypeOK, OwnerTypeOK, Closes, CloseRow, Bump,
     checkpointVars, ownerVars
<1>5. accounted'[r] = c.amount
  BY DEF Closes, CloseRow, TypeOK, LedgerTypeOK
<1>6. RowInv' /\ EntryInv' /\ OwnerInv'
  <2>1. owner' = owner /\ dispatch' = dispatch /\ entries' = entries /\ UNCHANGED ownerVars
    BY DEF Closes
  <2>2. owner'[r] \in Sessions /\ Known(owner'[r]) /\ dispatch'[r] # "none"
    BY <2>1 DEF RowInv
  <2>3. accounted'[r] # None
    BY <1>0, <1>5, LedgerAssumption
  <2> QED BY <1>1, <2>1, <2>2, <2>3, MoveRows
<1>7. ScanInv'
  <2>1. \A k \in Keys \ {KeyOf[r]} : used'[k] = used[k]
    BY <1>3 DEF TypeOK, AccountTypeOK
  <2> QED BY <1>1, <1>2, <2>1, MoveScan
<1>8. CheckpointSound'
  <2>1. Charged(r, "settled", c.amount)
    BY <1>0, <1>5 DEF Charged, Closes
  <2>2. Enters(KeyOf[r], c.amount)
    BY <1>3 DEF Enters
  <2> QED BY <1>1, <2>1, <2>2, MoveCheckpoint
<1> QED BY <1>2, <1>4, <1>6, <1>7, <1>8

(* What settle requires of the row it closes or turns into a question. *)
LEMMA SettleGuard ==
  ASSUME NEW r \in Requests, NEW c, TypeOK,
         SettleDisposition(r, c) \in {"applied", "overflow", "marked_unresolved"}
  PROVE  /\ status[r] \in {"pending", "unresolved"} /\ presence[KeyOf[r]] = "present"
         /\ dispatch[r] = "prepared" => c.status = "not_incurred"
         /\ SettleDisposition(r, c) = "marked_unresolved" => status[r] = "pending"
         /\ SettleDisposition(r, c) = "applied" => ~(used[KeyOf[r]] + c.amount > MaxAmount)
  BY DEF SettleDisposition, TypeOK, LedgerTypeOK

(* settle, whichever way it ends. *)
LEMMA SettleInv ==
  ASSUME LedgerInv, NEW r \in Requests, NEW c \in Costs, Settle(r, c)
  PROVE  LedgerInv'
<1>0. c \in Command /\ TypeOK
  BY LedgerAssumption DEF LedgerInv
<1>1. ASSUME SettleApply(r, c) PROVE LedgerInv'
  <2>1. status[r] \in {"pending", "unresolved"} /\ ~(used[KeyOf[r]] + c.amount > MaxAmount)
    BY <1>0, <1>1, SettleGuard DEF SettleApply
  <2>2. KeyOf[r] \in Keys /\ MaxAmount \in Nat
    BY LedgerAssumption
  <2>3. used[KeyOf[r]] + c.amount <= MaxAmount
    BY <1>0, <2>1, <2>2 DEF TypeOK, AccountTypeOK, Command, Amount
  <2>4. Closes(r, c)
    BY <1>1 DEF Closes, SettleApply
  <2> QED BY <1>0, <2>1, <2>3, <2>4, ClosesInv
<1>2. ASSUME SettleUnresolved(r, c) PROVE LedgerInv'
  <2>1. \E d \in Command \cup {None} : MarkUnresolved(r, d)
    BY <1>0, <1>2 DEF SettleUnresolved
  <2>2. status[r] \in {"pending", "unresolved"}
    BY <1>0, <1>2, SettleGuard DEF SettleUnresolved
  <2> QED BY <2>1, <2>2, MarkUnresolvedInv
<1> QED BY <1>1, <1>2 DEF Settle

(* recover_stale_candidate. *)
LEMMA RecoverStaleInv ==
  ASSUME LedgerInv, NEW r \in Requests, RecoverStale(r)
  PROVE  LedgerInv'
<1>1. ASSUME RecoverPrepared(r) PROVE LedgerInv'
  <2>1. StaleCommand \in Command /\ StaleCommand.amount = 0
    <3>1. StaleCommand \in Command
      BY LedgerAssumption
    <3> QED BY <3>1 DEF StaleCommand
  <2>2. Closes(r, StaleCommand)
    BY <1>1, <2>1 DEF Closes, RecoverPrepared
  <2>3. used[KeyOf[r]] + StaleCommand.amount <= MaxAmount
    BY <2>1, LedgerAssumption DEF LedgerInv, TypeOK, AccountTypeOK, Amount
  <2>4. status[r] = "pending"
    BY <1>1 DEF RecoverPrepared, Stale
  <2> QED BY <2>1, <2>2, <2>3, <2>4, ClosesInv
<1>2. ASSUME RecoverDispatching(r) PROVE LedgerInv'
  BY <1>2, MarkUnresolvedInv DEF RecoverDispatching, Stale
<1> QED BY <1>1, <1>2 DEF RecoverStale

(* The row a reconciliation leaves. *)
EntryOf(o, kind, r, c) ==
  [kind |-> kind, parent |-> r,
   command |-> [status |-> c.status, amount |-> c.amount, reason |-> o],
   revision |-> revision[KeyOf[r]] + 1]

(* A reconciliation inserts a row of its type. *)
LEMMA NewEntryInserts ==
  ASSUME TypeOK, NEW o \in Operations, NEW r \in Requests, NEW c \in Resolutions,
         NEW kind \in {"reconciliation", "attempt"}, entries[o] = None, NewEntry(o, kind, r, c)
  PROVE  /\ Inserts(entries, o, EntryOf(o, kind, r, c), entries')
         /\ entries' \in [Operations -> Entry \cup {None}]
         /\ EntryOf(o, kind, r, c).command \in Command
<1>1. KeyOf[r] \in Keys /\ revision[KeyOf[r]] + 1 \in Nat
  BY LedgerAssumption DEF TypeOK, AccountTypeOK
<1>2. c \in Command /\ o \in STRING
  BY LedgerAssumption
<1>3. [status |-> c.status, amount |-> c.amount, reason |-> o] \in Command
  BY <1>2 DEF Command
<1> DEFINE d == [status |-> c.status, amount |-> c.amount, reason |-> o]
<1> HIDE DEF d
<1>4. [kind |-> kind, parent |-> r, command |-> d, revision |-> revision[KeyOf[r]] + 1] \in Entry
  BY <1>1, <1>3 DEF Entry, d
<1>5. EntryOf(o, kind, r, c) \in Entry /\ EntryOf(o, kind, r, c).command \in Command
  BY <1>3, <1>4 DEF EntryOf, d
<1>6. entries' = [entries EXCEPT ![o] = EntryOf(o, kind, r, c)]
  BY DEF NewEntry, EntryOf
<1>7. entries \in [Operations -> Entry \cup {None}]
  BY DEF TypeOK, LedgerTypeOK
<1> QED BY <1>5, <1>6, <1>7 DEF Inserts

(* reconcile_pg: the child charges, the parent is resolved. *)
LEMMA ReconcileApplyInv ==
  ASSUME LedgerInv, NEW o \in Operations, NEW r \in Requests, NEW c \in Resolutions,
         ReconcileApply(o, r, c)
  PROVE  LedgerInv'
<1> USE DEF LedgerInv
<1> DEFINE e == EntryOf(o, "reconciliation", r, c)
<1>0. /\ KeyOf[r] \in Keys /\ c.amount \in Nat /\ MaxAmount \in Nat
      /\ used[KeyOf[r]] + c.amount \in Amount
  <2>1. KeyOf[r] \in Keys /\ MaxAmount \in Nat /\ c \in Command
    BY LedgerAssumption
  <2>2. c.amount \in Amount /\ used[KeyOf[r]] \in Amount
    BY <2>1 DEF Command, TypeOK, AccountTypeOK
  <2>3. used[KeyOf[r]] + c.amount <= MaxAmount
    BY DEF ReconcileApply
  <2> QED BY <2>1, <2>2, <2>3 DEF Amount
<1>1. MovesRow(r, "resolved", 2) /\ status[r] # "none"
  BY DEF MovesRow, ReconcileApply, Reconcilable, Bump, checkpointVars
<1>2. /\ Inserts(entries, o, e, entries')
      /\ entries' \in [Operations -> Entry \cup {None}] /\ e.command \in Command
  BY NewEntryInserts DEF ReconcileApply
<1>3. /\ CountsMatchLedger'
      /\ pending' \in [Keys -> Nat] /\ unresolved' \in [Keys -> Nat]
      /\ \A k \in Keys \ {KeyOf[r]} : pending'[k] = pending[k] /\ unresolved'[k] = unresolved[k]
  BY <1>1, AccountCounts DEF ReconcileApply
<1>4. used' = [used EXCEPT ![KeyOf[r]] = @ + c.amount] /\ used' \in [Keys -> Amount]
  <2>1. used' = [used EXCEPT ![KeyOf[r]] = @ + c.amount]
    BY DEF ReconcileApply, Account
  <2> QED BY <1>0, <2>1 DEF TypeOK, AccountTypeOK
<1>5. TypeOK'
  <2>1. AccountTypeOK'
    <3>1. revision' \in [Keys -> Nat] /\ tail' \in [Keys -> Nat]
      BY <1>1, MoveRevision
    <3> QED BY <1>3, <1>4, <3>1 DEF TypeOK, AccountTypeOK, ReconcileApply, checkpointVars
  <2>2. LedgerTypeOK'
    <3>1. terminal' = [terminal EXCEPT ![r] = e.command]
      BY DEF ReconcileApply, EntryOf
    <3> HIDE DEF e
    <3>2. terminal' \in [Requests -> Command \cup {None}]
      BY <1>2, <3>1 DEF TypeOK, LedgerTypeOK
    <3>3. entryRevision' \in [Requests -> Nat]
      BY <1>0 DEF ReconcileApply, TypeOK, AccountTypeOK, LedgerTypeOK
    <3> QED BY <1>2, <3>2, <3>3 DEF TypeOK, LedgerTypeOK, ReconcileApply
  <2>3. OwnerTypeOK'
    BY DEF TypeOK, OwnerTypeOK, ReconcileApply, ownerVars
  <2> QED BY <2>1, <2>2, <2>3 DEF TypeOK
<1>6. e.parent = r /\ e.revision = revision[KeyOf[r]] + 1 /\ e.kind = "reconciliation"
  BY DEF EntryOf
<1>7. RowInv' /\ EntryInv' /\ OwnerInv'
  <2>1. owner' = owner /\ dispatch' = dispatch /\ UNCHANGED ownerVars
    BY DEF ReconcileApply
  <2>2. owner'[r] \in Sessions /\ Known(owner'[r]) /\ dispatch'[r] # "none"
    BY <1>1, <2>1 DEF RowInv
  <2>3. \E p, f : /\ Inserts(entries, p, f, entries')
                  /\ f.parent = r /\ f.revision = revision[KeyOf[r]] + 1
                  /\ f.kind = "reconciliation" => "resolved" = "resolved"
    BY <1>2, <1>6, Zenon
  <2> QED BY <1>1, <2>1, <2>2, <2>3, MoveRows
<1>8. ScanInv'
  <2>1. \A k \in Keys \ {KeyOf[r]} : used'[k] = used[k]
    BY <1>4 DEF TypeOK, AccountTypeOK
  <2> QED BY <1>1, <1>3, <2>1, MoveScan
<1>9. CheckpointSound'
  <2>1. IsCharge(e)
    BY <1>2, LedgerAssumption DEF Inserts, IsCharge, EntryOf
  <2>2. c.status \in {"settle", "waive"} /\ (c.status = "waive" => c.amount = 0)
    BY LedgerAssumption
  <2>3. e.command.status = c.status /\ e.command.amount = c.amount
    BY DEF EntryOf
  <2>4. c.amount = IF IsCharge(e) /\ e.command.status = "settle" THEN e.command.amount ELSE 0
    BY <2>1, <2>2, <2>3
  <2>5. Charged(r, "resolved", c.amount)
    BY <1>2, <1>6, <2>4, Zenon DEF Charged
  <2>6. Enters(KeyOf[r], c.amount)
    BY <1>4 DEF Enters
  <2> QED BY <1>1, <2>5, <2>6, MoveCheckpoint
<1> QED BY <1>3, <1>5, <1>7, <1>8, <1>9

(* apply_reconciliation_overflow: the attempt charges nothing. *)
LEMMA ReconcileOverflowInv ==
  ASSUME LedgerInv, NEW o \in Operations, NEW r \in Requests, NEW c \in Resolutions,
         ReconcileOverflow(o, r, c)
  PROVE  LedgerInv'
<1> USE DEF LedgerInv
<1> DEFINE e == EntryOf(o, "attempt", r, c)
<1>0. KeyOf[r] \in Keys
  BY LedgerAssumption
<1>1. MovesRow(r, "unresolved", 2) /\ status[r] # "none"
  BY DEF MovesRow, ReconcileOverflow, Reconcilable, Bump, checkpointVars, TypeOK, LedgerTypeOK
<1>2. /\ Inserts(entries, o, e, entries')
      /\ entries' \in [Operations -> Entry \cup {None}]
  BY NewEntryInserts DEF ReconcileOverflow
<1>3. /\ CountsMatchLedger'
      /\ pending' \in [Keys -> Nat] /\ unresolved' \in [Keys -> Nat]
      /\ \A k \in Keys \ {KeyOf[r]} : pending'[k] = pending[k] /\ unresolved'[k] = unresolved[k]
  BY <1>1, UnresolvedCounts DEF ReconcileOverflow
<1>4. TypeOK'
  <2>1. AccountTypeOK'
    <3>1. revision' \in [Keys -> Nat] /\ tail' \in [Keys -> Nat]
      BY <1>1, MoveRevision
    <3> QED BY <1>3, <3>1 DEF TypeOK, AccountTypeOK, ReconcileOverflow, checkpointVars
  <2>2. LedgerTypeOK'
    <3>1. entryRevision' \in [Requests -> Nat]
      BY <1>0 DEF ReconcileOverflow, TypeOK, AccountTypeOK, LedgerTypeOK
    <3> QED BY <1>2, <3>1 DEF TypeOK, LedgerTypeOK, ReconcileOverflow
  <2>3. OwnerTypeOK'
    BY DEF TypeOK, OwnerTypeOK, ReconcileOverflow, ownerVars
  <2> QED BY <2>1, <2>2, <2>3 DEF TypeOK
<1>5. e.parent = r /\ e.revision = revision[KeyOf[r]] + 1 /\ e.kind = "attempt"
  BY DEF EntryOf
<1>6. RowInv' /\ EntryInv' /\ OwnerInv'
  <2>1. owner' = owner /\ dispatch' = dispatch /\ UNCHANGED ownerVars
    BY DEF ReconcileOverflow
  <2>2. owner'[r] \in Sessions /\ Known(owner'[r]) /\ dispatch'[r] # "none"
    BY <1>1, <2>1 DEF RowInv
  <2>3. e.kind # "reconciliation"
    BY <1>5
  <2>4. \E p, f : /\ Inserts(entries, p, f, entries')
                  /\ f.parent = r /\ f.revision = revision[KeyOf[r]] + 1
                  /\ f.kind = "reconciliation" => "unresolved" = "resolved"
    BY <1>2, <1>5, <2>3, Zenon
  <2> QED BY <1>1, <2>1, <2>2, <2>4, MoveRows
<1>7. ScanInv'
  BY <1>1, <1>3, MoveScan DEF ReconcileOverflow
<1>8. CheckpointSound'
  <2>1. ~IsCharge(e)
    BY <1>5 DEF IsCharge
  <2>2. 0 = IF IsCharge(e) /\ e.command.status = "settle" THEN e.command.amount ELSE 0
    BY <2>1
  <2>3. Charged(r, "unresolved", 0)
    BY <1>2, <1>5, <2>2, Zenon DEF Charged
  <2>4. Enters(KeyOf[r], 0)
    BY <1>0, LedgerAssumption DEF ReconcileOverflow, TypeOK, AccountTypeOK, Amount, Enters
  <2> QED BY <1>1, <2>3, <2>4, MoveCheckpoint
<1> QED BY <1>3, <1>4, <1>6, <1>7, <1>8

-----------------------------------------------------------------------------
(* Checkpoints and rebuilds *)

(* No row is newer than its account, so a checkpoint begins with no rows. *)
LEMMA FreshCheckpoint ==
  ASSUME LedgerInv, NEW k \in Keys, NEW lo \in Nat, lo >= revision[k]
  PROVE  /\ SettledAfter(status, entryRevision, k, lo) = {}
         /\ ChargesAfter(entries, k, lo) = {}
         /\ Priced(accounted, status, entryRevision, entries, k, lo) = 0
         /\ Numbered(status, entryRevision, entries, k, lo) = 0
<1> USE DEF LedgerInv
<1>1. SettledAfter(status, entryRevision, k, lo) = {}
  <2> SUFFICES ASSUME NEW r \in Requests, KeyOf[r] = k PROVE ~(entryRevision[r] > lo)
    BY DEF SettledAfter
  <2>1. entryRevision[r] <= revision[k] /\ entryRevision[r] \in Nat /\ revision[k] \in Nat
    BY DEF RowInv, TypeOK, AccountTypeOK, LedgerTypeOK
  <2> QED BY <2>1
<1>2. ChargesAfter(entries, k, lo) = {}
  <2> SUFFICES ASSUME NEW o \in Operations, entries[o] # None, KeyOf[entries[o].parent] = k
               PROVE  ~(entries[o].revision > lo)
    BY DEF ChargesAfter, IsCharge
  <2>1. entries[o].revision <= revision[k]
    BY DEF EntryInv
  <2>2. entries[o].revision \in Nat /\ revision[k] \in Nat
    BY DEF TypeOK, AccountTypeOK, LedgerTypeOK, Entry
  <2> QED BY <2>1, <2>2
<1>3. \A f : Total(f, {}) = 0
  BY TotalEmpty
<1>4. Cardinality({}) = 0
  BY FS_EmptySet
<1>5. Priced(accounted, status, entryRevision, entries, k, lo) = 0
  <2>1. Total(accounted, SettledAfter(status, entryRevision, k, lo)) = 0
    BY <1>1, <1>3, Zenon
  <2>2. Total(AmountsOf(entries, ChargesAfter(entries, k, lo)), ChargesAfter(entries, k, lo)) = 0
    BY <1>2, <1>3, Zenon
  <2> QED BY <2>1, <2>2 DEF Priced
<1>6. Numbered(status, entryRevision, entries, k, lo) = 0
  BY <1>1, <1>2, <1>4 DEF Numbered
<1> QED BY <1>1, <1>2, <1>5, <1>6

(* A step that begins a checkpoint at lo for k and leaves the ledger and the *)
(* aggregate alone.                                                          *)
Restarts(k, lo) ==
  /\ cpRevision' = [cpRevision EXCEPT ![k] = lo]
  /\ cpAmount' = [cpAmount EXCEPT ![k] = used[k]]
  /\ tail' = [tail EXCEPT ![k] = 0]
  /\ revision' = [revision EXCEPT ![k] = lo]
  /\ UNCHANGED <<issues, used, pending, unresolved, ledgerVars, ownerVars>>

(* The invariant after a checkpoint begins. *)
LEMMA RestartCheckpoint ==
  ASSUME LedgerInv, NEW k \in Keys, NEW lo \in Nat, lo >= revision[k], Restarts(k, lo)
  PROVE  /\ CheckpointSound' /\ CountsMatchLedger' /\ RowInv' /\ EntryInv' /\ OwnerInv'
         /\ revision' \in [Keys -> Nat]
         /\ \A j \in Keys : revision'[j] >= revision[j]
<1> USE DEF LedgerInv
<1>1. /\ revision' \in [Keys -> Nat]
      /\ \A j \in Keys : /\ revision[j] \in Nat /\ revision'[j] \in Nat /\ revision'[j] >= revision[j]
                         /\ cpRevision[j] \in Nat /\ tail[j] \in Nat /\ used[j] \in Nat
  BY LedgerAssumption DEF Restarts, TypeOK, AccountTypeOK, Amount
<1>2. CheckpointSound'
  <2> SUFFICES ASSUME NEW j \in Keys
               PROVE  /\ issues'[j] = {} /\ DerivedUsed(j)' = used'[j]
                      /\ SettledEvents(j)' <= tail'[j]
                      /\ cpRevision'[j] <= revision'[j]
                      /\ cpRevision'[j] = revision'[j] => tail'[j] = 0
    BY DEF CheckpointSound
  <2>1. /\ issues[j] = {} /\ DerivedUsed(j) = used[j] /\ SettledEvents(j) <= tail[j]
        /\ cpRevision[j] <= revision[j]
        /\ cpRevision[j] = revision[j] => tail[j] = 0
    BY DEF CheckpointSound
  <2>2. /\ DerivedUsed(j)' = cpAmount'[j] + Priced(accounted, status, entryRevision, entries, j, cpRevision'[j])
        /\ SettledEvents(j)' = Numbered(status, entryRevision, entries, j, cpRevision'[j])
    BY DerivedByColumns DEF Restarts, ledgerVars
  <2>3. CASE j = k
    <3>1. cpRevision'[j] = lo /\ cpAmount'[j] = used[k] /\ tail'[j] = 0 /\ revision'[j] = lo
      BY <2>3 DEF Restarts, TypeOK, AccountTypeOK
    <3>2. /\ Priced(accounted, status, entryRevision, entries, j, lo) = 0
          /\ Numbered(status, entryRevision, entries, j, lo) = 0
      BY <2>3, FreshCheckpoint
    <3> QED BY <1>1, <2>1, <2>2, <2>3, <3>1, <3>2 DEF Restarts
  <2>4. CASE j # k
    <3>1. /\ cpRevision'[j] = cpRevision[j] /\ cpAmount'[j] = cpAmount[j] /\ tail'[j] = tail[j]
          /\ revision'[j] = revision[j]
      BY <2>4 DEF Restarts, TypeOK, AccountTypeOK
    <3>2. DerivedUsed(j)' = DerivedUsed(j) /\ SettledEvents(j)' = SettledEvents(j)
      BY <2>2, <3>1, DerivedByColumns
    <3> QED BY <1>1, <2>1, <3>1, <3>2 DEF Restarts
  <2> QED BY <2>3, <2>4
<1>3. CountsMatchLedger'
  BY CountsByColumns DEF Restarts, ledgerVars
<1>4. EntryInv'
  <2>1. \A o \in Operations : entries[o] # None =>
           KeyOf[entries[o].parent] \in Keys /\ entries[o].revision \in Nat
    BY LedgerAssumption DEF TypeOK, LedgerTypeOK, Entry
  <2> QED BY <1>1, <2>1 DEF EntryInv, Restarts, ledgerVars
<1>5. RowInv' /\ OwnerInv'
  <2>1. \A r \in Requests : KeyOf[r] \in Keys /\ entryRevision[r] \in Nat
    BY LedgerAssumption DEF TypeOK, LedgerTypeOK
  <2> QED BY <1>1, <2>1 DEF RowInv, OwnerInv, Restarts, Known, ledgerVars, ownerVars
<1> QED BY <1>1, <1>2, <1>3, <1>4, <1>5

(* checkpoint_account: the sums agree, so the checkpoint is inserted. *)
LEMMA CheckpointInv ==
  ASSUME LedgerInv, NEW k \in Keys, Checkpoint(k)
  PROVE  LedgerInv'
<1> USE DEF LedgerInv
<1>1. DerivedUsed(k) = used[k]
  BY DEF CheckpointSound
<1>2. CheckpointInsert(k) /\ UNCHANGED <<audit, scan, presence, limit, used, pending, ledgerVars, ownerVars, clock>>
  BY <1>1 DEF Checkpoint
<1>3. revision[k] \in Nat /\ used[k] \in Amount
  BY DEF TypeOK, AccountTypeOK
<1>4. Restarts(k, revision[k])
  BY <1>1, <1>2, <1>3 DEF Restarts, CheckpointInsert, TailReset, TypeOK, AccountTypeOK
<1>5. /\ CheckpointSound' /\ CountsMatchLedger' /\ RowInv' /\ EntryInv' /\ OwnerInv'
      /\ revision' \in [Keys -> Nat]
  BY <1>3, <1>4, RestartCheckpoint
<1>6. TypeOK'
  <2>1. AccountTypeOK'
    BY <1>2, <1>3, <1>4 DEF TypeOK, AccountTypeOK, Restarts, CheckpointInsert
  <2> QED BY <1>2, <2>1 DEF TypeOK, LedgerTypeOK, OwnerTypeOK, ledgerVars, ownerVars
<1>7. ScanInv'
  <2>1. revision' = revision /\ unresolved' = unresolved /\ pending' = pending /\ used' = used
        /\ scan' = scan
    BY <1>2 DEF CheckpointInsert
  <2>2. \A j \in Keys : revision[j] \in Nat
    BY DEF TypeOK, AccountTypeOK
  <2> QED BY <1>5, <2>1, <2>2, ScanKept
<1> QED BY <1>5, <1>6, <1>7

(* scan_rebuild_snapshot finds nothing wrong, and what the account has. *)
LEMMA ScanRebuildInv ==
  ASSUME LedgerInv, NEW b \in Rebuilds, NEW k \in Keys, ScanRebuild(b, k)
  PROVE  LedgerInv'
<1> USE DEF LedgerInv
<1> DEFINE c == [key |-> k, revision |-> revision[k], used |-> used[k],
                 pending |-> pending[k], unresolved |-> unresolved[k], fault |-> None]
<1>1. /\ revision[k] \in Nat /\ used[k] \in Nat /\ pending[k] \in Nat /\ unresolved[k] \in Nat
      /\ used[k] <= MaxAmount /\ MaxAmount \in Nat
  BY LedgerAssumption DEF TypeOK, AccountTypeOK, Amount
<1>2. ScanFault(k) = None
  <2>1. SettledRequests(k, revision[k]) = {} /\ SettledEntries(k, revision[k]) = {}
    BY <1>1, FreshCheckpoint DEF SettledRequests, SettledEntries, SettledAfter, ChargesAfter, IsCharge
  <2>2. \A r \in PendingRows(k) \cup UnresolvedRows(k) : ~(entryRevision[r] > revision[k])
    BY <1>1 DEF RowInv, PendingRows, UnresolvedRows, TypeOK, LedgerTypeOK
  <2>3. DerivedUsed(k) = used[k]
    BY DEF CheckpointSound
  <2> QED BY <1>1, <2>1, <2>2, <2>3 DEF ScanFault
<1>3. /\ DerivedUsed(k) = used[k] /\ Cardinality(PendingRows(k)) = pending[k]
      /\ Cardinality(UnresolvedRows(k)) = unresolved[k]
  <2>1. issues[k] = {} /\ DerivedUsed(k) = used[k]
    BY DEF CheckpointSound
  <2>2. Cardinality(issues[k]) = 0
    BY <2>1, FS_EmptySet
  <2>3. Cardinality(UnresolvedRows(k)) \in Nat
    <3>1. UnresolvedRows(k) = WithStatus(status, k, "unresolved")
      BY DEF UnresolvedRows, WithStatus
    <3> QED BY <3>1, RowsFinite
  <2>4. /\ pending[k] = Cardinality(PendingRows(k))
        /\ unresolved[k] = Cardinality(UnresolvedRows(k)) + Cardinality(issues[k])
    BY DEF CountsMatchLedger
  <2> QED BY <2>1, <2>2, <2>3, <2>4
<1>4. scan' = [scan EXCEPT ![b] = c]
  BY <1>2, <1>3 DEF ScanRebuild
<1>5. /\ c \in Scan /\ c.fault = None /\ c.key = k /\ c.revision = revision[k]
      /\ c.used = used[k] /\ c.pending = pending[k] /\ c.unresolved = unresolved[k]
  BY <1>1 DEF Scan
<1> HIDE DEF c
<1>6. scan' \in [Rebuilds -> Scan \cup {None}]
  BY <1>4, <1>5 DEF TypeOK, AccountTypeOK
<1>7. TypeOK'
  BY <1>6 DEF ScanRebuild, TypeOK, AccountTypeOK, LedgerTypeOK, OwnerTypeOK,
     accountVars, ledgerVars, ownerVars
<1>8. ScanInv'
  <2> SUFFICES ASSUME NEW d \in Rebuilds, scan'[d] # None
               PROVE  /\ scan'[d].fault = None
                      /\ scan'[d].revision <= revision[scan'[d].key]
                      /\ revision[scan'[d].key] = scan'[d].revision =>
                           /\ scan'[d].used = used[scan'[d].key]
                           /\ scan'[d].pending = pending[scan'[d].key]
                           /\ scan'[d].unresolved = unresolved[scan'[d].key]
    BY DEF ScanInv, ScanIsCurrent, ScanRebuild, accountVars
  <2>1. CASE d = b
    <3>1. scan'[d] = c
      BY <1>4, <2>1 DEF TypeOK, AccountTypeOK
    <3> QED BY <1>1, <1>5, <3>1
  <2>2. CASE d # b
    <3>1. scan'[d] = scan[d]
      BY <1>4, <2>2 DEF TypeOK, AccountTypeOK
    <3> QED BY <3>1 DEF ScanInv, ScanIsCurrent
  <2> QED BY <2>1, <2>2
<1>9. RowInv' /\ EntryInv' /\ OwnerInv'
  BY DEF ScanRebuild, RowInv, EntryInv, OwnerInv, Known, accountVars, ledgerVars, ownerVars
<1>10. CountsMatchLedger'
  BY CountsByColumns DEF ScanRebuild, accountVars, ledgerVars
<1>11. CheckpointSound'
  <2>1. /\ UNCHANGED <<cpRevision, cpAmount, issues, used, status, accounted, entryRevision, entries>>
        /\ revision' = revision /\ tail' = tail
    BY DEF ScanRebuild, accountVars, ledgerVars
  <2>2. /\ revision' \in [Keys -> Nat] /\ tail' \in [Keys -> Nat]
        /\ \A j \in Keys : revision[j] \in Nat /\ tail[j] \in Nat
    BY <2>1 DEF TypeOK, AccountTypeOK
  <2> QED BY <2>1, <2>2, CheckpointKept
<1> QED BY <1>7, <1>8, <1>9, <1>10, <1>11

(* A rebuild applies a sound scan of the current revision: it rewrites the   *)
(* aggregate to what it already is.                                          *)
LEMMA RebuildEffect ==
  ASSUME LedgerInv, NEW b \in Rebuilds, Rebuild(b)
  PROVE  LET k == scan[b].key
         IN  /\ k \in Keys /\ revision[k] \in Nat
             /\ Restarts(k, revision[k] + 1)
             /\ audit' = [audit EXCEPT ![b] = k] /\ scan' = [scan EXCEPT ![b] = None]
             /\ UNCHANGED <<presence, limit, clock>>
<1> USE DEF LedgerInv
<1> DEFINE k == scan[b].key
<1>1. k \in Keys /\ scan[b] # None
  BY DEF Rebuild, TypeOK, AccountTypeOK, Scan
<1>2. scan[b].fault = None
  BY <1>1 DEF ScanInv
<1>3. /\ RebuildApply(b) /\ scan' = [scan EXCEPT ![b] = None]
      /\ UNCHANGED <<presence, limit, ledgerVars, ownerVars, clock>>
  BY <1>2 DEF Rebuild
<1>4. scan[b].used = used[k] /\ scan[b].pending = pending[k] /\ scan[b].unresolved = unresolved[k]
  BY <1>1, <1>3 DEF ScanInv, RebuildApply
<1>5. issues[k] = {}
  BY <1>1 DEF CheckpointSound
<1> HIDE DEF k
<1>6. /\ used' = [used EXCEPT ![k] = used[k]] /\ pending' = [pending EXCEPT ![k] = pending[k]]
      /\ unresolved' = [unresolved EXCEPT ![k] = unresolved[k]]
      /\ issues' = [issues EXCEPT ![k] = issues[k]]
      /\ audit' = [audit EXCEPT ![b] = k]
      /\ revision' = [revision EXCEPT ![k] = revision[k] + 1]
      /\ cpRevision' = [cpRevision EXCEPT ![k] = revision[k] + 1]
      /\ cpAmount' = [cpAmount EXCEPT ![k] = used[k]]
      /\ tail' = [tail EXCEPT ![k] = 0]
  BY <1>3, <1>4, <1>5 DEF RebuildApply, TailReset, k
<1>7. used' = used /\ pending' = pending /\ unresolved' = unresolved /\ issues' = issues
  BY <1>1, <1>6 DEF TypeOK, AccountTypeOK
<1>8. Restarts(k, revision[k] + 1)
  BY <1>3, <1>6, <1>7 DEF Restarts
<1>9. revision[k] \in Nat
  BY <1>1 DEF TypeOK, AccountTypeOK
<1> QED BY <1>1, <1>3, <1>6, <1>8, <1>9 DEF k

(* verify_or_rebuild_pg. *)
LEMMA RebuildInv ==
  ASSUME LedgerInv, NEW b \in Rebuilds, Rebuild(b)
  PROVE  LedgerInv'
<1> USE DEF LedgerInv
<1> DEFINE k == scan[b].key
<1>1. /\ k \in Keys /\ revision[k] \in Nat /\ Restarts(k, revision[k] + 1)
      /\ audit' = [audit EXCEPT ![b] = k] /\ scan' = [scan EXCEPT ![b] = None]
      /\ UNCHANGED <<presence, limit, clock>>
  BY RebuildEffect
<1> HIDE DEF k
<1>2. revision[k] + 1 \in Nat /\ revision[k] + 1 >= revision[k]
  BY <1>1
<1>3. /\ CheckpointSound' /\ CountsMatchLedger' /\ RowInv' /\ EntryInv' /\ OwnerInv'
      /\ revision' \in [Keys -> Nat]
      /\ \A j \in Keys : revision'[j] >= revision[j]
  BY <1>1, <1>2, RestartCheckpoint
<1>4. TypeOK'
  <2>1. AccountTypeOK'
    BY <1>1, <1>2, <1>3 DEF TypeOK, AccountTypeOK, Restarts
  <2> QED BY <1>1, <2>1 DEF TypeOK, LedgerTypeOK, OwnerTypeOK, Restarts, ledgerVars, ownerVars
<1>5. ScanInv'
  <2>1. \A d \in Rebuilds : scan'[d] \in {None, scan[d]}
    BY <1>1 DEF TypeOK, AccountTypeOK
  <2>2. unresolved' = unresolved /\ pending' = pending /\ used' = used
    BY <1>1 DEF Restarts
  <2> QED BY <1>3, <2>1, <2>2, ScanKept
<1> QED BY <1>3, <1>4, <1>5

-----------------------------------------------------------------------------
(* The ledger's invariant, and what follows from it *)

(* The tables begin empty. *)
LEMMA InitInv ==
  ASSUME Init
  PROVE  LedgerInv
<1>0. MaxAmount \in Nat /\ KeyOf \in [Requests -> Keys]
  BY LedgerAssumption
<1>1. TypeOK
  BY <1>0 DEF Init, TypeOK, AccountTypeOK, LedgerTypeOK, OwnerTypeOK, Amount
<1>2. RowInv /\ EntryInv /\ OwnerInv /\ ScanInv
  BY <1>0 DEF Init, RowInv, EntryInv, OwnerInv, ScanInv
<1>3. Cardinality({}) = 0
  BY FS_EmptySet
<1>4. CountsMatchLedger
  <2>1. \A k \in Keys : /\ WithStatus(status, k, "pending") = {}
                        /\ WithStatus(status, k, "unresolved") = {}
    BY DEF Init, WithStatus
  <2>2. \A k \in Keys : issues[k] = {} /\ pending[k] = 0 /\ unresolved[k] = 0
    BY DEF Init
  <2>3. \A k \in Keys : Counted(pending, unresolved, issues, status, k)
    BY <1>3, <2>1, <2>2 DEF Counted
  <2> QED BY <2>3, CountsByColumns
<1>5. CheckpointSound
  <2> SUFFICES ASSUME NEW k \in Keys
               PROVE  /\ issues[k] = {} /\ DerivedUsed(k) = used[k] /\ SettledEvents(k) <= tail[k]
                      /\ cpRevision[k] <= revision[k]
                      /\ cpRevision[k] = revision[k] => tail[k] = 0
    BY DEF CheckpointSound
  <2>1. /\ issues[k] = {} /\ used[k] = 0 /\ tail[k] = 0 /\ cpRevision[k] = 0 /\ cpAmount[k] = 0
        /\ revision[k] = 0
    BY DEF Init
  <2>2. SettledAfter(status, entryRevision, k, 0) = {} /\ ChargesAfter(entries, k, 0) = {}
    BY DEF Init, SettledAfter, ChargesAfter, IsCharge
  <2>3. \A f : Total(f, {}) = 0
    BY TotalEmpty
  <2>4. /\ Total(accounted, SettledAfter(status, entryRevision, k, 0)) = 0
        /\ Total(AmountsOf(entries, ChargesAfter(entries, k, 0)), ChargesAfter(entries, k, 0)) = 0
    BY <2>2, <2>3, Zenon
  <2>5. /\ Priced(accounted, status, entryRevision, entries, k, 0) = 0
        /\ Numbered(status, entryRevision, entries, k, 0) = 0
    BY <1>3, <2>2, <2>4 DEF Priced, Numbered
  <2> QED BY <2>1, <2>5, DerivedByColumns
<1> QED BY <1>1, <1>2, <1>4, <1>5 DEF LedgerInv

(* Every step keeps the invariant. *)
LEMMA NextInv ==
  ASSUME LedgerInv, [Next]_vars
  PROVE  LedgerInv'
<1>1. ASSUME NEW k \in Keys, Govern(k) PROVE LedgerInv'
  BY <1>1, ColumnStepInv, UpdateAccountInv, CheckpointInv DEF Govern
<1>2. ASSUME NEW s \in Sessions, Own(s) PROVE LedgerInv'
  BY <1>2, OwnerStepInv
<1>3. ASSUME NEW r \in Requests, Serve(r) PROVE LedgerInv'
  BY <1>3, CreateIntentInv, ColumnStepInv, SettleInv, RecoverStaleInv DEF Serve
<1>4. ASSUME NEW o \in Operations, Reconcile(o) PROVE LedgerInv'
  BY <1>4, ReconcileApplyInv, ReconcileOverflowInv DEF Reconcile
<1>5. ASSUME NEW b \in Rebuilds, Rebuild(b) \/ \E k \in Keys : ScanRebuild(b, k) PROVE LedgerInv'
  BY <1>5, RebuildInv, ScanRebuildInv
<1>6. ASSUME Tick PROVE LedgerInv'
  BY <1>6, OwnerStepInv
<1>7. ASSUME UNCHANGED vars PROVE LedgerInv'
  <2>1. TypeOK'
    BY <1>7 DEF LedgerInv, TypeOK, AccountTypeOK, LedgerTypeOK, OwnerTypeOK,
       vars, accountVars, checkpointVars, ledgerVars, ownerVars
  <2>2. \A s \in Sessions : (Known(s) => Known(s)') /\ (stopped'[s] => Known(s)')
    BY <1>7 DEF LedgerInv, OwnerInv, Known, vars, ownerVars
  <2> QED BY <1>7, <2>1, <2>2, QuietKept DEF vars, accountVars, ledgerVars
<1> QED BY <1>1, <1>2, <1>3, <1>4, <1>5, <1>6, <1>7 DEF Next

(* LedgerInv is an invariant of the ledger, for every set of accounts,       *)
(* requests, sessions, operations and commands.                              *)
THEOREM LedgerInvariant == Spec => []LedgerInv
  BY InitInv, NextInv, PTL DEF Spec

(* The columns and CHECK constraints of the budget tables are respected: no  *)
(* count is ever negative and no amount leaves NUMERIC(28,12), although the  *)
(* statements of postgres.rs only add to what they find.                     *)
THEOREM LedgerTypeCorrect == Spec => []TypeOK
<1>1. LedgerInv => TypeOK
  BY DEF LedgerInv
<1> QED BY <1>1, LedgerInvariant, PTL

(* The counters that gate intents, pauses and deletions equal the rows of    *)
(* the ledger, whatever settlements, recoveries, reconciliations, rebuilds   *)
(* and retries ran.                                                          *)
THEOREM CountsAreRows == Spec => []CountsMatchLedger
<1>1. LedgerInv => CountsMatchLedger
  BY DEF LedgerInv
<1> QED BY <1>1, LedgerInvariant, PTL

(* checkpoint_account and verify_or_rebuild never meet an inconsistency: the *)
(* rows after the last checkpoint sum to the rest of the aggregate, and no   *)
(* account_issue row is ever opened.                                         *)
THEOREM CheckpointsSound == Spec => []CheckpointSound
<1>1. LedgerInv => CheckpointSound
  BY DEF LedgerInv
<1> QED BY <1>1, LedgerInvariant, PTL

(* A step closes at most the row it is about; closed rows stay as they are. *)
LEMMA SettledStays ==
  ASSUME TypeOK, [Next]_vars, NEW r \in Requests, status[r] = "settled"
  PROVE  status'[r] = "settled" /\ terminal'[r] = terminal[r]
<1> DEFINE Kept == status'[r] = "settled" /\ terminal'[r] = terminal[r]
<1>0. status \in [Requests -> {"none", "pending", "unresolved", "settled", "resolved"}]
      /\ terminal \in [Requests -> Command \cup {None}]
  BY DEF TypeOK, LedgerTypeOK
<1>1. ASSUME NEW k \in Keys, Govern(k) PROVE Kept
  BY <1>1 DEF Govern, CreateAccount, UpdateAccount, DeleteAccount, Checkpoint, ledgerVars
<1>2. ASSUME NEW s \in Sessions, Own(s) PROVE Kept
  BY <1>2 DEF Own, RegisterOwner, HeartbeatOwner, StopOwner, ledgerVars
<1>3. ASSUME NEW q \in Requests, Serve(q) PROVE Kept
  <2>1. ASSUME NEW s \in Sessions, CreateIntent(q, s) PROVE Kept
    BY <1>0, <2>1 DEF CreateIntent
  <2>2. ASSUME MarkDispatching(q) PROVE Kept
    BY <2>2 DEF MarkDispatching
  <2>3. ASSUME NEW c \in Costs, Settle(q, c) PROVE Kept
    <3>1. status[q] \in {"pending", "unresolved"}
      BY <2>3, SettleGuard DEF Settle, SettleApply, SettleUnresolved
    <3>2. ASSUME SettleApply(q, c) PROVE Kept
      BY <1>0, <3>1, <3>2 DEF SettleApply, CloseRow
    <3>3. ASSUME SettleUnresolved(q, c) PROVE Kept
      BY <1>0, <3>1, <3>3 DEF SettleUnresolved, MarkUnresolved
    <3> QED BY <2>3, <3>2, <3>3 DEF Settle
  <2>4. ASSUME RecoverStale(q) PROVE Kept
    BY <1>0, <2>4 DEF RecoverStale, RecoverPrepared, RecoverDispatching, Stale, CloseRow, MarkUnresolved
  <2> QED BY <1>3, <2>1, <2>2, <2>3, <2>4 DEF Serve
<1>4. ASSUME NEW o \in Operations, NEW q \in Requests, NEW c \in Resolutions,
             ReconcileApply(o, q, c) \/ ReconcileOverflow(o, q, c)
      PROVE  Kept
  BY <1>0, <1>4 DEF ReconcileApply, ReconcileOverflow, Reconcilable
<1>5. ASSUME NEW b \in Rebuilds, Rebuild(b) \/ \E k \in Keys : ScanRebuild(b, k) PROVE Kept
  BY <1>5 DEF Rebuild, ScanRebuild, ledgerVars
<1>6. ASSUME Tick \/ UNCHANGED vars PROVE Kept
  BY <1>6 DEF Tick, vars, ledgerVars
<1> QED BY <1>1, <1>2, <1>3, <1>4, <1>5, <1>6 DEF Next, Reconcile

(* settle answers a command that succeeded once with a replay ever after,    *)
(* whatever happens to the row's account in between.                         *)
THEOREM SettleReplays == Spec => ReplayForever
<1>1. ASSUME TypeOK, [Next]_vars, NEW r \in Requests, NEW c \in Costs,
             SettleDisposition(r, c) = "replayed"
      PROVE  SettleDisposition(r, c)' = "replayed"
  <2>1. status[r] = "settled" /\ terminal[r] = c
    BY <1>1 DEF SettleDisposition
  <2>2. status'[r] = "settled" /\ terminal'[r] = c
    BY <1>1, <2>1, SettledStays
  <2> QED BY <2>2 DEF SettleDisposition
<1>2. TypeOK /\ [Next]_vars =>
        [\A r \in Requests, c \in Costs :
           SettleDisposition(r, c) = "replayed" => SettleDisposition(r, c)' = "replayed"]_vars
  BY <1>1
<1> QED BY <1>2, LedgerTypeCorrect, PTL DEF Spec, ReplayForever

-----------------------------------------------------------------------------
(* The ledger implements BudgetAccount *)

(* The refinement mapping, named. *)
Phases == [r \in Requests |-> PhaseOf(r)]
ChargesMap == [r \in Requests |-> ChargeOf(r)]
Closers == [r \in Requests |-> CloserOf(r)]
AuthorityOf(s) == IF Live(s) THEN "alive" ELSE IF Known(s) THEN "gone" ELSE "new"
Authority == [s \in Sessions |-> AuthorityOf(s)]

(* A step that touches no row of a request leaves the promised view of it.  *)
LEMMA RequestsUnmoved ==
  ASSUME UNCHANGED <<status, dispatch, owner, terminal, accounted, entries>>
  PROVE  UNCHANGED Promise!requestVars
<1>1. \A r \in Requests : PhaseOf(r)' = PhaseOf(r) /\ CloserOf(r)' = CloserOf(r)
  BY DEF PhaseOf, CloserOf
<1>2. \A r \in Requests : ChargeOf(r)' = ChargeOf(r)
  BY DEF ChargeOf, Charges, EntryAmounts
<1> QED BY <1>1, <1>2 DEF Promise!requestVars

(* register_owner lets a new session in. *)
LEMMA RegisterImplements ==
  ASSUME LedgerInv, NEW s \in Sessions, RegisterOwner(s)
  PROVE  Promise!Enter(s)
<1>1. UNCHANGED Promise!requestVars
  BY RequestsUnmoved DEF RegisterOwner, ledgerVars
<1>2. UNCHANGED Promise!accountVars
  BY DEF Promise!accountVars, RegisterOwner, accountVars
<1>3. AuthorityOf(s) = "new"
  BY DEF AuthorityOf, RegisterOwner, Live
<1>4. settings \in {None, ConfigOf[s]} \/ Promise!Alive = {}
  BY DEF RegisterOwner, MayAdopt, Promise!Alive
<1>5. \A t \in Sessions : AuthorityOf(t)' = IF t = s THEN "alive" ELSE AuthorityOf(t)
  <2>1. /\ ~Known(s) /\ stopped' = stopped /\ clock' = clock /\ clock \in Nat /\ Lease \in Nat \ {0}
        /\ expires' = [expires EXCEPT ![s] = clock + Lease]
        /\ expires \in [Sessions -> Nat \cup {None}] /\ None \notin Nat
    BY LedgerAssumption DEF RegisterOwner, LedgerInv, TypeOK, OwnerTypeOK
  <2>2. ~stopped[s]
    BY <2>1 DEF LedgerInv, OwnerInv
  <2> QED BY <2>1, <2>2 DEF AuthorityOf, Live, Known
<1>6. Authority[s] = "new" /\ Authority' = [Authority EXCEPT ![s] = "alive"]
  BY <1>3, <1>5 DEF Authority
<1>7. settings' = ConfigOf[s]
  BY DEF RegisterOwner
<1> QED BY <1>1, <1>2, <1>4, <1>6, <1>7 DEF Promise!Enter, Authority, AuthorityOf

(* The step is invisible to requests, or to sessions. *)
LEMMA AuthorityUnmoved ==
  ASSUME UNCHANGED <<expires, stopped, clock>>
  PROVE  Authority' = Authority
  BY DEF Authority, AuthorityOf, Live, Known

(* Steps that leave every column the promise is made of. *)
LEMMA Stutters ==
  ASSUME UNCHANGED <<presence, limit, used, settings>>, Authority' = Authority,
         UNCHANGED Promise!requestVars
  PROVE  UNCHANGED Promise!vars
  BY DEF Promise!vars, Promise!accountVars, Authority, AuthorityOf

(* heartbeat_owner keeps a living session alive. *)
LEMMA HeartbeatImplements ==
  ASSUME LedgerInv, NEW s \in Sessions, HeartbeatOwner(s)
  PROVE  UNCHANGED Promise!vars
<1>1. UNCHANGED Promise!requestVars
  BY RequestsUnmoved DEF HeartbeatOwner, ledgerVars
<1>2. Authority' = Authority
  <2>1. /\ Live(s) /\ stopped' = stopped /\ clock' = clock /\ clock \in Nat /\ Lease \in Nat \ {0}
        /\ expires' = [expires EXCEPT ![s] = clock + Lease]
        /\ expires \in [Sessions -> Nat \cup {None}] /\ None \notin Nat
    BY LedgerAssumption DEF HeartbeatOwner, LedgerInv, TypeOK, OwnerTypeOK
  <2>2. \A t \in Sessions : AuthorityOf(t)' = AuthorityOf(t)
    BY <2>1 DEF AuthorityOf, Live, Known
  <2> QED BY <2>2 DEF Authority
<1> QED BY <1>1, <1>2, Stutters DEF HeartbeatOwner, accountVars

(* The sessions of S lapse. *)
LEMMA LapseImplements ==
  ASSUME UNCHANGED <<accountVars, ledgerVars, settings>>, NEW S \in SUBSET Sessions,
         \A s \in S : Live(s),
         \A s \in Sessions : AuthorityOf(s)' = IF s \in S THEN "gone" ELSE AuthorityOf(s)
  PROVE  Promise!Lapse(S) \/ UNCHANGED Promise!vars
<1>1. UNCHANGED Promise!requestVars
  BY RequestsUnmoved DEF ledgerVars
<1>2. UNCHANGED Promise!accountVars
  BY DEF Promise!accountVars, accountVars
<1>3. CASE S = {}
  <2>1. Authority' = Authority
    BY <1>3 DEF Authority
  <2> QED BY <1>1, <2>1, Stutters DEF accountVars
<1>4. CASE S # {}
  <2>1. S \subseteq Promise!Alive
    BY DEF Promise!Alive
  <2>2. Authority' = [s \in Sessions |-> IF s \in S THEN "gone" ELSE Authority[s]]
    BY DEF Authority
  <2> QED BY <1>1, <1>2, <1>4, <2>1, <2>2 DEF Promise!Lapse, Authority, AuthorityOf
<1> QED BY <1>3, <1>4

(* stop_owner, and time. *)
LEMMA StopImplements ==
  ASSUME LedgerInv, NEW s \in Sessions, StopOwner(s)
  PROVE  \E S \in SUBSET Sessions : Promise!Lapse(S) \/ UNCHANGED Promise!vars
<1> DEFINE S == {t \in {s} : Live(t)}
<1>1. /\ Known(s) /\ expires' = expires /\ clock' = clock /\ stopped' = [stopped EXCEPT ![s] = TRUE]
      /\ stopped \in [Sessions -> BOOLEAN]
  BY DEF StopOwner, LedgerInv, TypeOK, OwnerTypeOK
<1>2. \A t \in Sessions : AuthorityOf(t)' = IF t \in S THEN "gone" ELSE AuthorityOf(t)
  BY <1>1 DEF AuthorityOf, Live, Known
<1>3. S \in SUBSET Sessions /\ \A t \in S : Live(t)
  OBVIOUS
<1> HIDE DEF S
<1>4. UNCHANGED <<accountVars, ledgerVars, settings>>
  BY DEF StopOwner
<1>5. Promise!Lapse(S) \/ UNCHANGED Promise!vars
  BY <1>2, <1>3, <1>4, LapseImplements
<1> QED BY <1>3, <1>5

(* The passing of time takes the authority of the sessions it lapses. *)
LEMMA TickImplements ==
  ASSUME LedgerInv, Tick
  PROVE  \E S \in SUBSET Sessions : Promise!Lapse(S) \/ UNCHANGED Promise!vars
<1> DEFINE S == {t \in Sessions : Live(t) /\ ~(expires[t] > clock + 1)}
<1>1. /\ expires' = expires /\ clock' = clock + 1 /\ stopped' = stopped
      /\ clock \in Nat /\ expires \in [Sessions -> Nat \cup {None}]
  BY DEF Tick, LedgerInv, TypeOK, OwnerTypeOK, ownerVars
<1>2. \A t \in Sessions : AuthorityOf(t)' = IF t \in S THEN "gone" ELSE AuthorityOf(t)
  BY <1>1 DEF AuthorityOf, Live, Known
<1>3. S \in SUBSET Sessions /\ \A t \in S : Live(t)
  OBVIOUS
<1> HIDE DEF S
<1>4. UNCHANGED <<accountVars, ledgerVars, settings>>
  BY DEF Tick, ownerVars
<1>5. Promise!Lapse(S) \/ UNCHANGED Promise!vars
  BY <1>2, <1>3, <1>4, LapseImplements
<1> QED BY <1>3, <1>5

(* Counters at zero mean that no request is open, or in question. *)
LEMMA NothingOpen ==
  ASSUME LedgerInv, NEW k \in Keys, unresolved[k] = 0
  PROVE  /\ Promise!Questions(k) = {}
         /\ pending[k] = 0 => Promise!Open(k) = {}
<1> DEFINE P == WithStatus(status, k, "pending")
           U == WithStatus(status, k, "unresolved")
<1>1. /\ IsFiniteSet(P) /\ Cardinality(P) \in Nat /\ IsFiniteSet(U) /\ Cardinality(U) \in Nat
  BY RowsFinite
<1>2. pending[k] = Cardinality(P) /\ unresolved[k] = Cardinality(U) + Cardinality(issues[k])
  BY CountsByColumns DEF Counted, LedgerInv
<1>3. Cardinality(issues[k]) = 0
  BY FS_EmptySet DEF LedgerInv, CheckpointSound
<1>4. U = {} /\ (pending[k] = 0 => P = {})
  BY <1>1, <1>2, <1>3, FS_EmptySet
<1>5. \A r \in Requests : KeyOf[r] = k => status[r] # "unresolved"
  BY <1>4 DEF WithStatus
<1>6. pending[k] = 0 => \A r \in Requests : KeyOf[r] = k => status[r] # "pending"
  BY <1>4 DEF WithStatus
<1>7. \A r \in Requests : (PhaseOf(r) = "question") => status[r] = "unresolved"
  BY DEF PhaseOf
<1>8. \A r \in Requests : PhaseOf(r) \in {"prepared", "sent"} => status[r] = "pending"
  BY DEF PhaseOf
<1>9. Promise!Questions(k) = {}
  BY <1>5, <1>7 DEF Promise!Questions
<1>10. pending[k] = 0 => Promise!Open(k) = {}
  BY <1>5, <1>6, <1>7, <1>8 DEF Promise!Open
<1> QED BY <1>9, <1>10

(* create_account, update_account and delete_account. *)
LEMMA GovernImplements ==
  ASSUME LedgerInv, NEW k \in Keys, NEW l \in Limits \cup {None}
  PROVE  /\ CreateAccount(k, l) => Promise!Grant(k, l)
         /\ UpdateAccount(k, l) => Promise!Amend(k, l)
         /\ DeleteAccount(k) => Promise!Delete(k)
<1>1. ASSUME CreateAccount(k, l) PROVE Promise!Grant(k, l)
  <2>1. UNCHANGED Promise!requestVars
    BY <1>1, RequestsUnmoved DEF CreateAccount, ledgerVars
  <2>2. Authority' = Authority
    BY <1>1, AuthorityUnmoved DEF CreateAccount, ownerVars
  <2> QED BY <1>1, <2>1, <2>2 DEF CreateAccount, ownerVars, Promise!Grant, Authority, AuthorityOf
<1>2. ASSUME UpdateAccount(k, l) PROVE Promise!Amend(k, l)
  <2>1. UNCHANGED Promise!requestVars
    BY <1>2, RequestsUnmoved DEF UpdateAccount, ledgerVars
  <2>2. Authority' = Authority
    BY <1>2, AuthorityUnmoved DEF UpdateAccount, ownerVars
  <2>3. l = None /\ limit[k] # None => Promise!Open(k) = {}
    BY <1>2, NothingOpen DEF UpdateAccount, MayClear
  <2> QED BY <1>2, <2>1, <2>2, <2>3 DEF UpdateAccount, ownerVars, Promise!Amend, Authority, AuthorityOf
<1>3. ASSUME DeleteAccount(k) PROVE Promise!Delete(k)
  <2>1. UNCHANGED Promise!requestVars
    BY <1>3, RequestsUnmoved DEF DeleteAccount, ledgerVars
  <2>2. Authority' = Authority
    BY <1>3, AuthorityUnmoved DEF DeleteAccount, ownerVars
  <2>3. Promise!Open(k) = {}
    BY <1>3, NothingOpen DEF DeleteAccount
  <2> QED BY <1>3, <2>1, <2>2, <2>3 DEF DeleteAccount, ownerVars, Promise!Delete, Authority, AuthorityOf
<1> QED BY <1>1, <1>2, <1>3

(* checkpoint_account and rebuilds are invisible. *)
LEMMA MaintenanceImplements ==
  ASSUME LedgerInv,
         \/ \E k \in Keys : Checkpoint(k)
         \/ \E b \in Rebuilds : Rebuild(b) \/ \E k \in Keys : ScanRebuild(b, k)
  PROVE  UNCHANGED Promise!vars
<1>1. UNCHANGED <<presence, limit, used, ledgerVars, ownerVars, clock>>
  <2>1. ASSUME NEW k \in Keys, Checkpoint(k)
        PROVE  UNCHANGED <<presence, limit, used, ledgerVars, ownerVars, clock>>
    BY <2>1 DEF Checkpoint
  <2>2. ASSUME NEW b \in Rebuilds, NEW k \in Keys, ScanRebuild(b, k)
        PROVE  UNCHANGED <<presence, limit, used, ledgerVars, ownerVars, clock>>
    BY <2>2 DEF ScanRebuild, accountVars
  <2>3. ASSUME NEW b \in Rebuilds, Rebuild(b)
        PROVE  UNCHANGED <<presence, limit, used, ledgerVars, ownerVars, clock>>
    BY <2>3, RebuildEffect DEF Restarts
  <2> QED BY <2>1, <2>2, <2>3
<1>2. UNCHANGED Promise!requestVars
  BY <1>1, RequestsUnmoved DEF ledgerVars
<1>3. Authority' = Authority
  BY <1>1, AuthorityUnmoved DEF ownerVars
<1> QED BY <1>1, <1>2, <1>3, Stutters DEF ownerVars

(* The charge of a request over the columns. *)
ChildrenOf(en, r) == {o \in Operations : IsCharge(en[o]) /\ en[o].parent = r}
ChargeIn(st, ac, en, r) ==
  (IF st[r] = "settled" THEN ac[r] ELSE 0)
    + Total(AmountsOf(en, ChildrenOf(en, r)), ChildrenOf(en, r))

(* The charge, before and after a step, over the columns. *)
LEMMA ChargeByColumns ==
  ASSUME NEW r
  PROVE  /\ ChargeOf(r) = ChargeIn(status, accounted, entries, r)
         /\ ChargeOf(r)' = ChargeIn(status', accounted', entries', r)
  BY DEF ChargeOf, ChargeIn, Charges, ChildrenOf, IsCharge, EntryAmounts, AmountsOf

(* Only a resolved request has reconciliations that charge it. *)
LEMMA ChargeWithoutChildren ==
  ASSUME NEW st, NEW ac, NEW en, NEW r, ChildrenOf(en, r) = {},
         st[r] = "settled" => ac[r] \in Nat
  PROVE  ChargeIn(st, ac, en, r) = IF st[r] = "settled" THEN ac[r] ELSE 0
<1>1. Total(AmountsOf(en, ChildrenOf(en, r)), ChildrenOf(en, r)) = 0
  <2>1. \A f : Total(f, {}) = 0
    BY TotalEmpty
  <2> QED BY <2>1, Zenon
<1> QED BY <1>1 DEF ChargeIn

(* An open request is not charged, a settled one is charged its cost. *)
LEMMA ChargeUnlessResolved ==
  ASSUME LedgerInv, NEW r \in Requests, status[r] # "resolved"
  PROVE  /\ ChildrenOf(entries, r) = {}
         /\ ChargeOf(r) = IF status[r] = "settled" THEN accounted[r] ELSE 0
<1>1. ChildrenOf(entries, r) = {}
  BY DEF LedgerInv, EntryInv, ChildrenOf, IsCharge
<1>2. status[r] = "settled" => accounted[r] \in Nat
  BY LedgerAssumption DEF LedgerInv, RowInv, TypeOK, LedgerTypeOK, Amount
<1>3. ChargeIn(status, accounted, entries, r) = IF status[r] = "settled" THEN accounted[r] ELSE 0
  BY <1>1, <1>2, ChargeWithoutChildren
<1> QED BY <1>1, <1>3, ChargeByColumns

(* The same after the step. *)
LEMMA ChargeUnlessResolvedNext ==
  ASSUME LedgerInv', NEW r \in Requests, status'[r] # "resolved"
  PROVE  ChargeOf(r)' = IF status'[r] = "settled" THEN accounted'[r] ELSE 0
<1>1. ChildrenOf(entries', r) = {}
  BY DEF LedgerInv, EntryInv, ChildrenOf, IsCharge
<1>2. status'[r] = "settled" => accounted'[r] \in Nat
  BY LedgerAssumption DEF LedgerInv, RowInv, TypeOK, LedgerTypeOK, Amount
<1>3. ChargeIn(status', accounted', entries', r) = IF status'[r] = "settled" THEN accounted'[r] ELSE 0
  BY <1>1, <1>2, ChargeWithoutChildren
<1> QED BY <1>3, ChargeByColumns

(* A step that touches the row r and its entries alone. *)
OnlyRow(r) ==
  /\ \A q \in Requests \ {r} :
       /\ status'[q] = status[q] /\ dispatch'[q] = dispatch[q] /\ terminal'[q] = terminal[q]
       /\ accounted'[q] = accounted[q]
  /\ \/ entries' = entries
     \/ \E o, e : Inserts(entries, o, e, entries') /\ e.parent = r

(* What it leaves of the other requests. *)
LEMMA OthersUnmoved ==
  ASSUME LedgerInv, NEW r \in Requests, OnlyRow(r), NEW q \in Requests \ {r}
  PROVE  PhaseOf(q)' = PhaseOf(q) /\ CloserOf(q)' = CloserOf(q) /\ ChargeOf(q)' = ChargeOf(q)
<1>1. /\ status'[q] = status[q] /\ dispatch'[q] = dispatch[q] /\ terminal'[q] = terminal[q]
      /\ accounted'[q] = accounted[q]
  BY DEF OnlyRow
<1>2. PhaseOf(q)' = PhaseOf(q) /\ CloserOf(q)' = CloserOf(q)
  BY <1>1 DEF PhaseOf, CloserOf
<1> DEFINE C == ChildrenOf(entries, q)
<1>3. ChildrenOf(entries', q) = C /\ Total(AmountsOf(entries', C), C) = Total(AmountsOf(entries, C), C)
  <2>1. CASE entries' = entries
    BY <2>1
  <2>2. CASE entries' # entries
    <3>1. PICK o, e : Inserts(entries, o, e, entries') /\ e.parent = r
      BY <2>2 DEF OnlyRow
    <3>2. ChildrenOf(entries', q) = C
      BY <3>1 DEF ChildrenOf, Inserts, IsCharge
    <3>3. ChargeSet(entries, C)
      BY DEF ChargeSet, ChildrenOf, LedgerInv, TypeOK, LedgerTypeOK
    <3> HIDE DEF C
    <3>4. Total(AmountsOf(entries', C), C) = Total(AmountsOf(entries, C), C)
      BY <3>1, <3>3, AmountsStay
    <3> QED BY <3>2, <3>4
  <2> QED BY <2>1, <2>2
<1>4. ChargeIn(status', accounted', entries', q) = ChargeIn(status, accounted, entries, q)
  <2> DEFINE D == ChildrenOf(entries', q)
  <2>1. D = C
    BY <1>3
  <2>2. Total(AmountsOf(entries', D), D) = Total(AmountsOf(entries, C), C)
    <3> HIDE DEF C, D
    <3> QED BY <1>3, <2>1, Zenon
  <2> QED BY <1>1, <2>2 DEF ChargeIn
<1> QED BY <1>2, <1>4, ChargeByColumns

(* How the mapping moves with one row. *)
LEMMA MapMoves ==
  ASSUME LedgerInv, NEW r \in Requests, OnlyRow(r)
  PROVE  /\ Phases' = [Phases EXCEPT ![r] = PhaseOf(r)']
         /\ ChargesMap' = [ChargesMap EXCEPT ![r] = ChargeOf(r)']
         /\ Closers' = [Closers EXCEPT ![r] = CloserOf(r)']
<1>1. \A q \in Requests \ {r} :
        PhaseOf(q)' = PhaseOf(q) /\ CloserOf(q)' = CloserOf(q) /\ ChargeOf(q)' = ChargeOf(q)
  BY OthersUnmoved
<1> QED BY <1>1 DEF Phases, ChargesMap, Closers

(* create_intent prepares. *)
LEMMA CreateImplements ==
  ASSUME LedgerInv, LedgerInv', NEW r \in Requests, NEW s \in Sessions, CreateIntent(r, s)
  PROVE  Promise!Prepare(r, s)
<1>0. KeyOf[r] \in Keys
  BY LedgerAssumption
<1>1. OnlyRow(r)
  BY DEF OnlyRow, CreateIntent, LedgerInv, TypeOK, LedgerTypeOK
<1>2. /\ status[r] = "none" /\ status'[r] = "pending" /\ dispatch'[r] = "prepared"
      /\ owner' = [owner EXCEPT ![r] = s]
  BY DEF CreateIntent, LedgerInv, TypeOK, LedgerTypeOK
<1>3. PhaseOf(r) = "new" /\ PhaseOf(r)' = "prepared" /\ CloserOf(r) = None /\ CloserOf(r)' = None
  BY <1>2 DEF PhaseOf, CloserOf
<1>4. ChargeOf(r)' = ChargeOf(r)
  BY <1>2, ChargeUnlessResolved, ChargeUnlessResolvedNext
<1>5. Phases[r] = "new" /\ ChargesMap[r] = ChargeOf(r) /\ Closers[r] = CloserOf(r)
  BY <1>3 DEF Phases, ChargesMap, Closers
<1>6. Phases' = [Phases EXCEPT ![r] = "prepared"] /\ ChargesMap' = ChargesMap /\ Closers' = Closers
  <2>1. Phases' = [Phases EXCEPT ![r] = "prepared"]
    BY <1>1, <1>3, MapMoves
  <2>2. \A q \in Requests : CloserOf(q)' = CloserOf(q) /\ ChargeOf(q)' = ChargeOf(q)
    BY <1>1, <1>3, <1>4, OthersUnmoved
  <2> QED BY <2>1, <2>2 DEF ChargesMap, Closers
<1>7. Authority' = Authority
  BY AuthorityUnmoved DEF CreateIntent, ownerVars
<1>8. Promise!Questions(KeyOf[r]) = {}
  BY <1>0, NothingOpen DEF CreateIntent, Eligible
<1>9. s \in Promise!Alive
  BY DEF Promise!Alive, CreateIntent
<1>10. /\ presence[KeyOf[r]] = "present" /\ limit[KeyOf[r]] # None /\ used[KeyOf[r]] < limit[KeyOf[r]]
       /\ settings = ConfigOf[s] /\ UNCHANGED <<presence, limit, used, settings>>
  BY DEF CreateIntent, Eligible, ownerVars
<1> QED
  BY <1>2, <1>5, <1>6, <1>7, <1>8, <1>9, <1>10
  DEF Promise!Prepare, Promise!accountVars, Phases, ChargesMap, Closers, Authority, AuthorityOf

(* mark_dispatching sends. *)
LEMMA DispatchImplements ==
  ASSUME LedgerInv, LedgerInv', NEW r \in Requests, MarkDispatching(r)
  PROVE  Promise!Send(r)
<1>1. OnlyRow(r)
  BY DEF OnlyRow, MarkDispatching, LedgerInv, TypeOK, LedgerTypeOK
<1>2. /\ status[r] = "pending" /\ dispatch[r] = "prepared" /\ dispatch'[r] = "dispatching"
      /\ UNCHANGED <<status, owner, terminal, accounted, entries>>
  BY DEF MarkDispatching, Dispatchable, LedgerInv, TypeOK, LedgerTypeOK
<1>3. PhaseOf(r) = "prepared" /\ PhaseOf(r)' = "sent" /\ CloserOf(r)' = CloserOf(r)
  BY <1>2 DEF PhaseOf, CloserOf
<1>4. ChargeOf(r)' = ChargeOf(r)
  BY <1>2, ChargeUnlessResolved, ChargeUnlessResolvedNext
<1>5. Phases[r] = "prepared"
  BY <1>3 DEF Phases
<1>6. Phases' = [Phases EXCEPT ![r] = "sent"] /\ ChargesMap' = ChargesMap /\ Closers' = Closers
  <2>1. Phases' = [Phases EXCEPT ![r] = "sent"]
    BY <1>1, <1>3, MapMoves
  <2>2. \A q \in Requests : CloserOf(q)' = CloserOf(q) /\ ChargeOf(q)' = ChargeOf(q)
    BY <1>1, <1>3, <1>4, OthersUnmoved
  <2> QED BY <2>1, <2>2 DEF ChargesMap, Closers
<1>7. Authority' = Authority
  BY AuthorityUnmoved DEF MarkDispatching, ownerVars
<1>8. owner[r] \in Promise!Alive
  <2>1. owner[r] \in Sessions /\ Live(owner[r])
    BY <1>2 DEF MarkDispatching, LedgerInv, RowInv
  <2> QED BY <2>1 DEF Promise!Alive
<1>9. UNCHANGED <<presence, limit, used, settings>>
  BY DEF MarkDispatching, accountVars, ownerVars
<1> QED
  BY <1>2, <1>5, <1>6, <1>7, <1>8, <1>9
  DEF Promise!Send, Promise!accountVars, Phases, ChargesMap, Closers, Authority, AuthorityOf

(* A row that becomes unresolved asks; one that was is left alone. *)
LEMMA AskImplements ==
  ASSUME LedgerInv, LedgerInv', NEW r \in Requests, OnlyRow(r),
         status[r] \in {"pending", "unresolved"}, status'[r] = "unresolved",
         presence[KeyOf[r]] = "present",
         UNCHANGED <<presence, limit, used, owner, ownerVars, clock>>
  PROVE  Promise!Ask(r) \/ UNCHANGED Promise!vars
<1>1. PhaseOf(r)' = "question" /\ CloserOf(r) = None /\ CloserOf(r)' = None
  BY DEF PhaseOf, CloserOf
<1>2. ChargeOf(r)' = ChargeOf(r)
  BY ChargeUnlessResolved, ChargeUnlessResolvedNext
<1>3. Phases' = [Phases EXCEPT ![r] = "question"] /\ ChargesMap' = ChargesMap /\ Closers' = Closers
  <2>1. Phases' = [Phases EXCEPT ![r] = "question"]
    BY <1>1, MapMoves
  <2>2. \A q \in Requests : CloserOf(q)' = CloserOf(q) /\ ChargeOf(q)' = ChargeOf(q)
    BY <1>1, <1>2, OthersUnmoved
  <2> QED BY <2>1, <2>2 DEF ChargesMap, Closers
<1>4. Authority' = Authority
  BY AuthorityUnmoved DEF ownerVars
<1>5. CASE status[r] = "pending"
  <2>1. Phases[r] \in {"prepared", "sent"}
    BY <1>5 DEF Phases, PhaseOf
  <2> QED BY <1>3, <1>4, <2>1
      DEF Promise!Ask, Promise!accountVars, ownerVars, Phases, ChargesMap, Closers, Authority, AuthorityOf
<1>6. CASE status[r] = "unresolved"
  <2>1. Phases[r] = "question"
    BY <1>6 DEF Phases, PhaseOf
  <2>2. Phases' = Phases
    BY <1>3, <2>1 DEF Phases
  <2>3. UNCHANGED Promise!requestVars
    BY <1>3, <2>2 DEF Promise!requestVars, Phases, ChargesMap, Closers
  <2> QED BY <1>4, <2>3, Stutters DEF ownerVars
<1> QED BY <1>5, <1>6

(* mark_unresolved. *)
LEMMA MarkUnresolvedImplements ==
  ASSUME LedgerInv, LedgerInv', NEW r \in Requests, status[r] \in {"pending", "unresolved"},
         presence[KeyOf[r]] = "present", NEW command, MarkUnresolved(r, command)
  PROVE  Promise!Ask(r) \/ UNCHANGED Promise!vars
<1>1. OnlyRow(r) /\ status'[r] = "unresolved"
  BY DEF OnlyRow, MarkUnresolved, LedgerInv, TypeOK, LedgerTypeOK
<1>2. UNCHANGED <<presence, limit, used, owner, ownerVars, clock>>
  BY DEF MarkUnresolved
<1> QED BY <1>1, <1>2, AskImplements

(* A row that is closed at an amount that enters the account. *)
LEMMA CloseImplements ==
  ASSUME LedgerInv, NEW r \in Requests, OnlyRow(r),
         status[r] \in {"pending", "unresolved"}, PhaseOf(r)' = "closed",
         NEW who, NEW amount \in Amount, CloserOf(r)' = who, ChargeOf(r)' = amount,
         Promise!MayClose(r, who, amount),
         presence[KeyOf[r]] = "present", used[KeyOf[r]] + amount <= MaxAmount,
         Enters(KeyOf[r], amount),
         UNCHANGED <<presence, limit, owner, ownerVars, clock>>
  PROVE  Promise!Close(r, who, amount)
<1>1. Phases[r] \in {"prepared", "sent", "question"}
  BY DEF Phases, PhaseOf
<1>2. /\ Phases' = [Phases EXCEPT ![r] = "closed"]
      /\ ChargesMap' = [ChargesMap EXCEPT ![r] = amount]
      /\ Closers' = [Closers EXCEPT ![r] = who]
  BY MapMoves
<1>3. Authority' = Authority
  BY AuthorityUnmoved DEF ownerVars
<1> QED BY <1>1, <1>2, <1>3
    DEF Promise!Close, Promise!accountVars, Enters, ownerVars, Phases, ChargesMap, Closers, Authority, AuthorityOf

(* The owner of a row is gone when it is not live. *)
LEMMA AbandonedRow ==
  ASSUME LedgerInv, NEW r \in Requests, status[r] # "none", ~Live(owner[r])
  PROVE  Promise!Abandoned(r)
<1>1. owner[r] \in Sessions /\ Known(owner[r])
  BY DEF LedgerInv, RowInv
<1> QED BY <1>1 DEF Promise!Abandoned

(* settle and stale recovery. *)
LEMMA ClosesImplements ==
  ASSUME LedgerInv, LedgerInv', NEW r \in Requests, status[r] \in {"pending", "unresolved"},
         NEW c \in Command, used[KeyOf[r]] + c.amount <= MaxAmount, Closes(r, c),
         presence[KeyOf[r]] = "present",
         NEW who, who = (IF c = StaleCommand THEN "maintenance" ELSE "session"),
         Promise!MayClose(r, who, c.amount)
  PROVE  Promise!Close(r, who, c.amount)
<1>1. OnlyRow(r)
  BY DEF OnlyRow, Closes, CloseRow, LedgerInv, TypeOK, LedgerTypeOK
<1>2. /\ status'[r] = "settled" /\ terminal'[r] = c /\ accounted'[r] = c.amount
      /\ Enters(KeyOf[r], c.amount)
  BY DEF Closes, CloseRow, Account, Enters, LedgerInv, TypeOK, LedgerTypeOK
<1>3. PhaseOf(r)' = "closed" /\ CloserOf(r)' = who
  BY <1>2 DEF PhaseOf, CloserOf
<1>4. ChargeOf(r)' = c.amount
  BY <1>2, ChargeUnlessResolvedNext
<1>5. c.amount \in Amount
  BY DEF Command
<1>6. UNCHANGED <<presence, limit, owner, ownerVars, clock>>
  BY DEF Closes
<1> QED BY <1>1, <1>2, <1>3, <1>4, <1>5, <1>6, CloseImplements

(* settle closes for the session, or asks. *)
LEMMA SettleImplements ==
  ASSUME LedgerInv, LedgerInv', NEW r \in Requests, NEW c \in Costs, Settle(r, c)
  PROVE  (\E amount \in Amount : Promise!Close(r, "session", amount))
           \/ Promise!Ask(r) \/ UNCHANGED Promise!vars
<1>0. /\ c \in Command /\ TypeOK /\ c # StaleCommand
      /\ c.status = "not_incurred" => c.amount = 0
  BY LedgerAssumption DEF LedgerInv
<1>1. ASSUME SettleApply(r, c) PROVE \E amount \in Amount : Promise!Close(r, "session", amount)
  <2>1. /\ status[r] \in {"pending", "unresolved"} /\ ~(used[KeyOf[r]] + c.amount > MaxAmount)
        /\ presence[KeyOf[r]] = "present" /\ (dispatch[r] = "prepared" => c.status = "not_incurred")
    BY <1>0, <1>1, SettleGuard DEF SettleApply
  <2>2. KeyOf[r] \in Keys /\ MaxAmount \in Nat
    BY LedgerAssumption
  <2>3. used[KeyOf[r]] + c.amount <= MaxAmount
    BY <1>0, <2>1, <2>2 DEF TypeOK, AccountTypeOK, Command, Amount
  <2>4. Closes(r, c)
    BY <1>1 DEF Closes, SettleApply
  <2>5. PhaseOf(r) = "prepared" => c.amount = 0
    <3>1. dispatch[r] \in {"prepared", "dispatching"}
      BY <1>0, <2>1 DEF LedgerInv, RowInv, TypeOK, LedgerTypeOK
    <3> QED BY <1>0, <2>1, <3>1 DEF PhaseOf
  <2>6. Promise!MayClose(r, "session", c.amount)
    BY <2>5 DEF Promise!MayClose
  <2>7. Promise!Close(r, "session", c.amount)
    BY <1>0, <2>1, <2>3, <2>4, <2>6, ClosesImplements
  <2>8. c.amount \in Amount
    BY <1>0 DEF Command
  <2> QED BY <2>7, <2>8
<1>2. ASSUME SettleUnresolved(r, c) PROVE Promise!Ask(r) \/ UNCHANGED Promise!vars
  <2>1. \E d : MarkUnresolved(r, d)
    BY <1>2 DEF SettleUnresolved
  <2>2. status[r] \in {"pending", "unresolved"} /\ presence[KeyOf[r]] = "present"
    BY <1>0, <1>2, SettleGuard DEF SettleUnresolved
  <2> QED BY <2>1, <2>2, MarkUnresolvedImplements
<1> QED BY <1>1, <1>2 DEF Settle

(* Stale recovery closes what was never sent, and asks about the rest. *)
LEMMA RecoverImplements ==
  ASSUME LedgerInv, LedgerInv', NEW r \in Requests, RecoverStale(r)
  PROVE  (\E amount \in Amount : Promise!Close(r, "maintenance", amount))
           \/ Promise!Ask(r) \/ UNCHANGED Promise!vars
<1>1. ASSUME RecoverPrepared(r) PROVE \E amount \in Amount : Promise!Close(r, "maintenance", amount)
  <2>1. StaleCommand \in Command /\ StaleCommand.amount = 0 /\ MaxAmount \in Nat
    <3>1. StaleCommand \in Command /\ MaxAmount \in Nat
      BY LedgerAssumption
    <3> QED BY <3>1 DEF StaleCommand
  <2>2. Closes(r, StaleCommand)
    BY <1>1, <2>1 DEF Closes, RecoverPrepared
  <2>3. used[KeyOf[r]] + StaleCommand.amount <= MaxAmount
    BY <2>1, LedgerAssumption DEF LedgerInv, TypeOK, AccountTypeOK, Amount
  <2>4. /\ status[r] = "pending" /\ presence[KeyOf[r]] = "present" /\ ~Live(owner[r])
        /\ dispatch[r] = "prepared"
    BY <1>1 DEF RecoverPrepared, Stale
  <2>5. PhaseOf(r) = "prepared" /\ Promise!Abandoned(r)
    BY <2>4, AbandonedRow DEF PhaseOf
  <2>6. Promise!MayClose(r, "maintenance", StaleCommand.amount)
    BY <2>1, <2>5 DEF Promise!MayClose
  <2>7. Promise!Close(r, "maintenance", StaleCommand.amount)
    BY <2>1, <2>2, <2>3, <2>4, <2>6, ClosesImplements
  <2>8. StaleCommand.amount \in Amount
    BY <2>1 DEF Amount
  <2> QED BY <2>7, <2>8
<1>2. ASSUME RecoverDispatching(r) PROVE Promise!Ask(r) \/ UNCHANGED Promise!vars
  BY <1>2, MarkUnresolvedImplements DEF RecoverDispatching, Stale
<1> QED BY <1>1, <1>2 DEF RecoverStale

(* A reconciliation closes for the administrator, or asks. *)
LEMMA ReconcileImplements ==
  ASSUME LedgerInv, LedgerInv', NEW o \in Operations, NEW r \in Requests, NEW c \in Resolutions
  PROVE  /\ ReconcileApply(o, r, c) =>
              \E amount \in Amount : Promise!Close(r, "administrator", amount)
         /\ ReconcileOverflow(o, r, c) => Promise!Ask(r) \/ UNCHANGED Promise!vars
<1>0. c \in Command /\ TypeOK
  BY LedgerAssumption DEF LedgerInv
<1>1. ASSUME ReconcileApply(o, r, c)
      PROVE  \E amount \in Amount : Promise!Close(r, "administrator", amount)
  <2> DEFINE e == EntryOf(o, "reconciliation", r, c)
  <2>1. /\ status[r] \in {"pending", "unresolved"} /\ presence[KeyOf[r]] = "present"
        /\ used[KeyOf[r]] + c.amount <= MaxAmount
        /\ status[r] = "pending" => ~Live(owner[r])
    BY <1>1 DEF ReconcileApply, Reconcilable
  <2>2. Inserts(entries, o, e, entries')
    BY <1>0, <1>1, NewEntryInserts DEF ReconcileApply
  <2>3. e.parent = r /\ e.command.amount = c.amount /\ e.kind = "reconciliation"
    BY DEF EntryOf
  <2>4. OnlyRow(r) /\ status'[r] = "resolved" /\ Enters(KeyOf[r], c.amount)
    <3>1. \E p, f : Inserts(entries, p, f, entries') /\ f.parent = r
      BY <2>2, <2>3, Zenon
    <3>2. /\ status' = [status EXCEPT ![r] = "resolved"] /\ dispatch' = dispatch
          /\ accounted' = accounted /\ Enters(KeyOf[r], c.amount)
          /\ \A q \in Requests \ {r} : terminal'[q] = terminal[q]
      BY <1>0, <1>1 DEF ReconcileApply, Account, Enters, TypeOK, LedgerTypeOK
    <3> QED BY <1>0, <3>1, <3>2 DEF OnlyRow, TypeOK, LedgerTypeOK
  <2>5. PhaseOf(r)' = "closed" /\ CloserOf(r)' = "administrator"
    BY <2>4 DEF PhaseOf, CloserOf
  <2>6. ChargeOf(r)' = c.amount
    <3> DEFINE C == ChildrenOf(entries, r)
               D == ChildrenOf(entries', r)
    <3>1. C = {}
      BY <2>1, ChargeUnlessResolved
    <3>2. IsCharge(e)
      BY <2>2, <2>3, LedgerAssumption DEF Inserts, IsCharge
    <3>3. D = C \cup {o}
      <4> HIDE DEF e
      <4> QED BY <2>2, <2>3, <3>2 DEF ChildrenOf, Inserts, IsCharge
    <3>4. ChargeSet(entries, C)
      BY <1>0 DEF ChargeSet, ChildrenOf, TypeOK, LedgerTypeOK
    <3>5. Total(AmountsOf(entries, C), C) = 0
      <4>1. \A f : Total(f, {}) = 0
        BY TotalEmpty
      <4> HIDE DEF C
      <4> QED BY <3>1, <4>1, Zenon
    <3>6. c.amount \in Nat
      BY <1>0, LedgerAssumption DEF Command, Amount
    <3> HIDE DEF C, D, e
    <3>7. Total(AmountsOf(entries', D), D) = Total(AmountsOf(entries, C), C) + e.command.amount
      BY <2>2, <3>2, <3>3, <3>4, AmountsMove
    <3>8. Total(AmountsOf(entries', D), D) = c.amount
      BY <2>3, <3>5, <3>6, <3>7
    <3>9. ChargeIn(status', accounted', entries', r) = 0 + Total(AmountsOf(entries', D), D)
      BY <2>4 DEF ChargeIn, D
    <3> QED BY <3>6, <3>8, <3>9, ChargeByColumns
  <2>7. Promise!MayClose(r, "administrator", c.amount)
    <3>1. CASE status[r] = "pending"
      <4>1. Promise!Abandoned(r)
        BY <2>1, <3>1, AbandonedRow
      <4> QED BY <4>1 DEF Promise!MayClose
    <3>2. CASE status[r] = "unresolved"
      BY <3>2 DEF Promise!MayClose, PhaseOf
    <3> QED BY <2>1, <3>1, <3>2
  <2>8. c.amount \in Amount
    BY <1>0 DEF Command
  <2>9. UNCHANGED <<presence, limit, owner, ownerVars, clock>>
    BY <1>1 DEF ReconcileApply
  <2>10. Promise!Close(r, "administrator", c.amount)
    BY <2>1, <2>4, <2>5, <2>6, <2>7, <2>8, <2>9, CloseImplements
  <2> QED BY <2>8, <2>10
<1>2. ASSUME ReconcileOverflow(o, r, c) PROVE Promise!Ask(r) \/ UNCHANGED Promise!vars
  <2>1. status[r] \in {"pending", "unresolved"} /\ presence[KeyOf[r]] = "present"
    BY <1>2 DEF ReconcileOverflow, Reconcilable
  <2>2. \E p, f : Inserts(entries, p, f, entries') /\ f.parent = r
    <3>1. Inserts(entries, o, EntryOf(o, "attempt", r, c), entries')
      BY <1>0, <1>2, NewEntryInserts DEF ReconcileOverflow
    <3>2. EntryOf(o, "attempt", r, c).parent = r
      BY DEF EntryOf
    <3> QED BY <3>1, <3>2, Zenon
  <2>3. OnlyRow(r) /\ status'[r] = "unresolved"
    BY <1>0, <1>2, <2>2 DEF OnlyRow, ReconcileOverflow, TypeOK, LedgerTypeOK
  <2>4. UNCHANGED <<presence, limit, used, owner, ownerVars, clock>>
    BY <1>2 DEF ReconcileOverflow
  <2> QED BY <2>1, <2>3, <2>4, AskImplements
<1> QED BY <1>1, <1>2

(* The tables begin as an account without requests. *)
LEMMA InitImplements ==
  ASSUME Init
  PROVE  Promise!Init
<1>1. LedgerInv
  BY InitInv
<1>2. \A r \in Requests : PhaseOf(r) = "new" /\ CloserOf(r) = None /\ status[r] = "none"
  BY DEF Init, PhaseOf, CloserOf
<1>3. \A r \in Requests : ChargeOf(r) = 0
  BY <1>1, <1>2, ChargeUnlessResolved
<1>4. \A s \in Sessions : AuthorityOf(s) = "new"
  BY DEF Init, AuthorityOf, Live, Known
<1> QED BY <1>2, <1>3, <1>4 DEF Init, Promise!Init, AuthorityOf

(* Every step of the ledger is a step of the promise, or invisible in it. *)
LEMMA NextImplements ==
  ASSUME LedgerInv, LedgerInv', [Next]_vars
  PROVE  [Promise!Next]_Promise!vars
<1> DEFINE Goal == Promise!Next \/ UNCHANGED Promise!vars
<1>0. \A l \in Limits \cup {None} : l \in Promise!Amount \cup {None}
  BY LedgerAssumption DEF Promise!Amount, Amount
<1>1. ASSUME NEW k \in Keys, Govern(k) PROVE Goal
  <2>1. ASSUME NEW l \in Limits \cup {None}, CreateAccount(k, l) \/ UpdateAccount(k, l) PROVE Goal
    <3>1. Promise!Grant(k, l) \/ Promise!Amend(k, l)
      BY <2>1, GovernImplements
    <3> QED BY <1>0, <3>1 DEF Promise!Next
  <2>2. ASSUME DeleteAccount(k) PROVE Goal
    <3>1. Promise!Delete(k)
      BY <2>2, GovernImplements
    <3> QED BY <3>1 DEF Promise!Next
  <2>3. ASSUME Checkpoint(k) PROVE Goal
    BY <2>3, MaintenanceImplements
  <2> HIDE DEF Goal
  <2> QED BY <1>1, <2>1, <2>2, <2>3 DEF Govern
<1>2. ASSUME NEW s \in Sessions, Own(s) PROVE Goal
  <2>1. ASSUME RegisterOwner(s) PROVE Goal
    BY <2>1, RegisterImplements DEF Promise!Next
  <2>2. ASSUME HeartbeatOwner(s) PROVE Goal
    BY <2>2, HeartbeatImplements
  <2>3. ASSUME StopOwner(s) PROVE Goal
    BY <2>3, StopImplements DEF Promise!Next
  <2> HIDE DEF Goal
  <2> QED BY <1>2, <2>1, <2>2, <2>3 DEF Own
<1>3. ASSUME NEW r \in Requests, Serve(r) PROVE Goal
  <2>1. ASSUME NEW s \in Sessions, CreateIntent(r, s) PROVE Goal
    BY <2>1, CreateImplements DEF Promise!Next
  <2>2. ASSUME MarkDispatching(r) PROVE Goal
    BY <2>2, DispatchImplements DEF Promise!Next
  <2>3. ASSUME NEW c \in Costs, Settle(r, c) PROVE Goal
    BY <2>3, SettleImplements DEF Promise!Next, Promise!Amount, Amount
  <2>4. ASSUME RecoverStale(r) PROVE Goal
    BY <2>4, RecoverImplements DEF Promise!Next, Promise!Amount, Amount
  <2> HIDE DEF Goal
  <2> QED BY <1>3, <2>1, <2>2, <2>3, <2>4 DEF Serve
<1>4. ASSUME NEW o \in Operations, Reconcile(o) PROVE Goal
  <2>1. PICK r \in Requests, c \in Resolutions : ReconcileApply(o, r, c) \/ ReconcileOverflow(o, r, c)
    BY <1>4 DEF Reconcile
  <2> QED BY <2>1, ReconcileImplements DEF Promise!Next, Promise!Amount, Amount
<1>5. ASSUME NEW b \in Rebuilds, Rebuild(b) \/ \E k \in Keys : ScanRebuild(b, k) PROVE Goal
  BY <1>5, MaintenanceImplements
<1>6. ASSUME Tick PROVE Goal
  BY <1>6, TickImplements DEF Promise!Next
<1>7. ASSUME UNCHANGED vars PROVE Goal
  <2>1. UNCHANGED <<presence, limit, used, ledgerVars, ownerVars, clock>>
    BY <1>7 DEF vars, accountVars
  <2>2. UNCHANGED Promise!requestVars /\ Authority' = Authority
    BY <2>1, RequestsUnmoved, AuthorityUnmoved DEF ledgerVars, ownerVars
  <2> QED BY <2>1, <2>2, Stutters DEF ownerVars
<1> HIDE DEF Goal
<1>8. Goal
  BY <1>1, <1>2, <1>3, <1>4, <1>5, <1>6, <1>7 DEF Next
<1> QED BY <1>8 DEF Goal

(* The ledger implements the promise of BudgetAccount: every settlement,     *)
(* recovery, reconciliation, rebuild, lapse and retry of postgres.rs and     *)
(* admin.rs is a step of it, or invisible.  So a request is charged once,    *)
(* budget_used moves by exactly its charge, nothing closed is reopened, and  *)
(* what stale recovery wrote off was never sent.                             *)
THEOREM LedgerImplementsAccount == Spec => ImplementsAccount
<1>1. Init => Promise!Init
  BY InitImplements
<1>2. LedgerInv /\ LedgerInv' /\ [Next]_vars => [Promise!Next]_Promise!vars
  BY NextImplements
<1> QED BY <1>1, <1>2, LedgerInvariant, PTL DEF Spec, ImplementsAccount, Promise!Spec
=============================================================================
