--------------------------- MODULE AdminApiProofs ---------------------------
(* The caches of the proxy follow the database: SettledCache is an invariant  *)
(* of AdminApi, for any number of workers, any requests, any tables and any   *)
(* size of a page.                                                            *)
(*                                                                            *)
(* The argument: a table that the cache does not show has an entity type that *)
(* is due, that is, its signal is held by a handler, queued, or collected and *)
(* not yet refreshed; or its refresh is half-way and has read what the        *)
(* database still holds.  Every handler writes and takes up the signal in one *)
(* step, except for plugins, which may vanish silently: the coverage index is *)
(* then built from rows between those of the database and those the cache     *)
(* was read from.                                                             *)
EXTENDS AdminApi, TLAPS, FiniteSetTheorems, WellFoundedInduction

-----------------------------------------------------------------------------
(* The inductive invariant.                                                   *)

Claimed == IF mode = "off" THEN Cached ELSE Cached \ {"plugins", "certificates", "snis"}

\* A signal that a handler holds or the channel carries.
Announced(u) == \/ \E i \in DOMAIN signals : signals[i] = u
                \/ \E w \in Workers : /\ worker[w].pc = "signal"
                                      /\ \E i \in DOMAIN worker[w].sig : worker[w].sig[i] = u

\* An entity type that will be refreshed from now on.
Due(u) == Announced(u) \/ (u \in refresher.pending /\ u # refresher.type)

Types(t) == CASE t \in {"upstreams", "targets"} -> {"upstreams", "targets"}
              [] t \in {"certificates", "snis"} -> {"certificates", "snis"}
              [] OTHER -> {t}
TableDue(t) == \E u \in Types(t) : Due(u)

\* A refresh of two tables that has read the first one.
Reading(t) == refresher.pc = "refresh" /\ refresher.type \in Types(t)

FirstOf(u) == IF u \in {"upstreams", "targets"} THEN "upstreams" ELSE "certificates"

TableServed(t) ==
  \/ torn \/ TableDue(t)
  \/ IF Reading(t) THEN t = FirstOf(t) => refresher.read[1] = FirstPage(db[t])
     ELSE t \in unread \/ cache[t] \in Shown(db[t])

CacheInv == \A t \in Claimed : TableServed(t)

\* The cache shows the first page of a set of plugins that includes P.
PluginsKnown(P) ==
  \/ "plugins" \in unread
  \/ \E Q : IsTable(Q) /\ cache["plugins"] \in Shown(Q) /\ P \subseteq Q

PluginsInv == torn \/ Due("plugins") \/ PluginsKnown(db["plugins"])

CoverageReading ==
  LET read == refresher.read
  IN /\ \A t \in {"routes", "services"} : t \in DOMAIN read => read[t] = db[t]
     /\ "plugins" \in DOMAIN read =>
          db["plugins"] \subseteq read["plugins"] /\ PluginsKnown(read["plugins"])

CoverageSettled ==
  \/ "coverage" \in unread
  \/ \E P : /\ coverage = BuildCoverage(db["routes"], db["services"], P)
            /\ db["plugins"] \subseteq P /\ PluginsKnown(P)

CoverageInv ==
  \/ torn \/ \E u \in CoverageTables : Due(u)
  \/ IF refresher.pc = "coverage" THEN CoverageReading ELSE CoverageSettled

RefresherOk ==
  /\ refresher = [pc |-> refresher.pc, pending |-> refresher.pending, type |-> refresher.type,
                  read |-> refresher.read]
  /\ refresher.pending \subseteq Cached
  /\ \/ refresher.pc = "wait" /\ refresher.pending = {} /\ refresher.type = "none" /\ refresher.read = <<>>
     \/ refresher.pc = "collect" /\ refresher.type = "none" /\ refresher.read = <<>>
     \/ refresher.pc = "refresh" /\ refresher.type = "none" /\ refresher.read = <<>>
     \/ /\ refresher.pc = "refresh"
        /\ refresher.type \in {"upstreams", "targets", "certificates", "snis"}
        /\ refresher.type \in refresher.pending
        /\ refresher.read = <<refresher.read[1]>>
     \/ /\ refresher.pc = "coverage" /\ refresher.type \in CoverageTables
        /\ refresher.read = [t \in DOMAIN refresher.read |-> refresher.read[t]]
        /\ DOMAIN refresher.read \subseteq CoverageTables

\* The handlers of each mode, and what a handler carries from step to step.
OffPcs == {"idle", "load_data", "load_names", "load_foreign", "load", "signal", "lookup"}

HasRow(k) ==
  \/ k.pc \in {"upsert", "upsert_target", "insert", "update", "insert_certificate", "snis",
               "sni_add", "link_write"}
  \/ k.pc = "sni_del" /\ k.r.h # "delete_certificate"

WorkerOk(k) ==
  /\ k = [pc |-> k.pc, r |-> k.r, row |-> k.row, del |-> k.del, sig |-> k.sig]
  /\ k.r = Request(k.r.h, k.r.t, k.r.id, k.r.row, k.r.parent, k.r.scope, k.r.snis)
  /\ k.r.t \in TableOf(k.r.h)
  /\ IsBody(k.row)
  /\ HasRow(k) => k.row.id # 0
  /\ k.sig \in Seq(Cached)
  /\ k.pc = "delete" => k.r.h \in {"delete_scoped_plugin", "delete_certificate", "delete_ca_certificate"}
  /\ k.pc \in {"signal", "link"} => \A s \in k.del : s \in Nat \ {0}
  /\ mode = "off" => k.pc \in OffPcs /\ (k.pc = "signal" => k.r.h = "post_config")
  /\ k.pc \in {"load_data", "load_names", "load_foreign", "load"} => k.r.h = "post_config" /\ k.del = {}

TypeInv ==
  /\ mode \in {"postgres", "off"}
  /\ requests \in Workloads
  /\ IsStore(db)
  /\ signals \in Seq(Cached)
  /\ cache = [t \in Cached |-> cache[t]]
  /\ worker = [w \in Workers |-> worker[w]]
  /\ \A w \in Workers : WorkerOk(worker[w])
  /\ RefresherOk

IInv == TypeInv /\ CacheInv /\ PluginsInv /\ CoverageInv

-----------------------------------------------------------------------------
(* Pages of a table.                                                          *)

(* A set of naturals has a least member. *)
LEMMA LeastNat ==
  ASSUME NEW T \in SUBSET Nat, T # {}
  PROVE  \E m \in T : \A j \in T : m <= j
<1> DEFINE Less == {ss \in Nat \X Nat : ss[1] < ss[2]}
<1>1. IsWellFoundedOn(Less, Nat)
  BY NatLessThanWellFounded DEF OpToRel
<1>2. \A i, j \in Nat : <<j, i>> \in Less <=> j < i
  OBVIOUS
<1> HIDE DEF Less
<1>3. PICK m \in T : \A j \in T : ~ (<<j, m>> \in Less)
  BY <1>1, WFMin
<1>4. \A j \in T : ~(j < m)
  BY <1>2, <1>3, Zenon
<1> QED BY <1>4

(* The ids of a table are positive, and no more than its rows. *)
LEMMA IdsFinite ==
  ASSUME NEW rows, IsTable(rows)
  PROVE  /\ IsFiniteSet(IdsOf(rows)) /\ IdsOf(rows) \subseteq Nat \ {0}
         /\ Cardinality(IdsOf(rows)) \in Nat /\ Cardinality(rows) \in Nat
         /\ Cardinality(IdsOf(rows)) <= Cardinality(rows)
<1> DEFINE f == [r \in rows |-> r.id]
<1>1. f \in Surjection(rows, IdsOf(rows))
  BY DEF Surjection, IdsOf
<1>2. IsFiniteSet(IdsOf(rows)) /\ Cardinality(IdsOf(rows)) <= Cardinality(rows)
  BY <1>1, FS_Surjection DEF IsTable
<1>3. IdsOf(rows) \subseteq Nat \ {0}
  BY DEF IsTable, IsRow, IsBody, IdsOf
<1> QED BY <1>2, <1>3, FS_CardinalityType DEF IsTable

(* The ids after an offset, and how many there are up to one of them. *)
After(rows, o) == IdsOf({r \in rows : r.id > o})
Rank(S, i) == Cardinality({j \in S : j <= i})
Kept(rows, o) == {i \in After(rows, o) : Rank(After(rows, o), i) <= PageSize}

(* A page by its ids. *)
LEMMA PageIs ==
  ASSUME NEW rows, NEW o
  PROVE  /\ Page(rows, o, PageSize).data = {r \in rows : r.id \in Kept(rows, o)}
         /\ Kept(rows, o) = After(rows, o) => Page(rows, o, PageSize).next = 0
         /\ Kept(rows, o) # After(rows, o) =>
              Page(rows, o, PageSize).next =
                CHOOSE i \in Kept(rows, o) : \A j \in Kept(rows, o) : j <= i
  BY DEF Page, Kept, After, Rank

(* Ranks are positive and grow with the ids. *)
LEMMA Ranks ==
  ASSUME NEW S \in SUBSET Nat, IsFiniteSet(S), NEW i \in S
  PROVE  /\ Rank(S, i) \in Nat \ {0}
         /\ \A j \in S : j <= i => Rank(S, j) <= Rank(S, i)
         /\ \A j \in S : j < i => Rank(S, j) < Rank(S, i)
<1> DEFINE below(k) == {j \in S : j <= k}
<1>1. \A k \in S : IsFiniteSet(below(k)) /\ below(k) # {} /\ Rank(S, k) = Cardinality(below(k))
  BY FS_Subset DEF Rank
<1>2. \A k \in S : Rank(S, k) \in Nat \ {0}
  BY <1>1, FS_CardinalityType, FS_EmptySet
<1>0. \A k \in S : k \in Int OBVIOUS
<1>3. ASSUME NEW j \in S, j <= i PROVE Rank(S, j) <= Rank(S, i)
  <2>1. \A k \in S : k <= j => k <= i BY <1>0, <1>3
  <2>2. below(j) \subseteq below(i) BY <2>1
  <2>3. Cardinality(below(j)) <= Cardinality(below(i)) BY <1>1, <2>2, FS_Subset
  <2> QED BY <1>1, <2>3
<1>4. ASSUME NEW j \in S, j < i PROVE Rank(S, j) < Rank(S, i)
  <2>0. (\A k \in S : k <= j => k <= i) /\ i <= i /\ ~(i <= j) BY <1>0, <1>4
  <2>1. below(j) \subseteq below(i) /\ i \in below(i) /\ i \notin below(j) BY <2>0
  <2>2. Cardinality(below(j)) <= Cardinality(below(i)) /\ Cardinality(below(j)) # Cardinality(below(i))
    BY <1>1, <2>1, FS_Subset
  <2> QED BY <1>1, <1>2, <2>2
<1> QED BY <1>2, <1>3, <1>4

(* The ids after an offset are those of a table. *)
LEMMA AfterFinite ==
  ASSUME NEW rows, IsTable(rows), NEW o
  PROVE  /\ IsFiniteSet(After(rows, o)) /\ After(rows, o) \subseteq IdsOf(rows)
         /\ After(rows, o) \in SUBSET Nat
<1>1. After(rows, o) \in SUBSET IdsOf(rows) BY DEF After, IdsOf
<1> QED BY <1>1, IdsFinite, FS_Subset

(* A page that is all of a set of rows, and not full, is the whole table. *)
LEMMA ShortPage ==
  ASSUME NEW rows, IsTable(rows), NEW shown, shown = FirstPage(rows),
         Cardinality(shown) < PageSize, shown \subseteq rows
  PROVE  shown = rows
<1> DEFINE A == After(rows, 0)
           K == Kept(rows, 0)
           left == A \ K
<1>0. \A r \in rows : r.id \in Nat /\ r.id # 0 BY DEF IsTable, IsRow, IsBody
<1>1. A = IdsOf(rows)
  <2>1. \A r \in rows : r.id > 0 BY <1>0
  <2>2. {r \in rows : r.id > 0} = rows BY <2>1
  <2> QED BY <2>2 DEF After
<1>2. shown = {r \in rows : r.id \in K} BY PageIs DEF FirstPage
<1>3. K \subseteq A BY DEF Kept
<1>4. K = IdsOf(shown) BY <1>1, <1>2, <1>3 DEF IdsOf
<1>5. IsTable(shown) BY FS_Subset DEF IsTable
<1>6. Cardinality(K) \in Nat /\ Cardinality(K) < PageSize /\ IsFiniteSet(K)
  BY <1>4, <1>5, IdsFinite, PageAssumption
<1>7. A \in SUBSET Nat /\ IsFiniteSet(A) BY AfterFinite
<1>8. ASSUME left # {} PROVE FALSE
  <2> HIDE DEF A, K
  <2>1. PICK m \in left : \A j \in left : m <= j BY <1>7, <1>8, LeastNat
  <2>a. \A j \in A : j \in Nat BY <1>7
  <2>b. \A j \in A : j <= m /\ j \notin K => j = m BY <2>a, <2>1
  <2>2. {j \in A : j <= m} \in SUBSET (K \cup {m}) BY <2>b
  <2>3. IsFiniteSet(K \cup {m}) /\ Cardinality(K \cup {m}) <= PageSize
    BY <1>6, FS_AddElement, PageAssumption
  <2>4. Rank(A, m) <= PageSize
    <3>1. Cardinality({j \in A : j <= m}) <= Cardinality(K \cup {m}) BY <2>2, <2>3, FS_Subset
    <3>2. Cardinality({j \in A : j <= m}) \in Nat /\ Cardinality(K \cup {m}) \in Nat
      BY <2>2, <2>3, FS_Subset, FS_CardinalityType
    <3> QED BY <2>3, <3>1, <3>2, PageAssumption DEF Rank
  <2> QED BY <2>1, <2>4 DEF Kept, A, K
<1>9. \A r \in rows : r.id \in K BY <1>1, <1>8 DEF IdsOf
<1> QED BY <1>2, <1>9

(* A page holds the rows between its offset and the next one. *)
LEMMA PageStep ==
  ASSUME NEW rows, IsTable(rows), NEW o \in Nat
  PROVE  LET p == Page(rows, o, PageSize)
         IN \/ p.next = 0 /\ p.data = {r \in rows : r.id > o}
            \/ /\ p.next \in IdsOf(rows) /\ p.next > o
               /\ p.data = {r \in rows : r.id > o /\ r.id <= p.next}
<1> DEFINE A == After(rows, o)
           K == Kept(rows, o)
           p == Page(rows, o, PageSize)
<1>1. A \in SUBSET Nat /\ IsFiniteSet(A) /\ A \subseteq IdsOf(rows) BY AfterFinite
<1>2. \A r \in rows : r.id \in A <=> r.id > o BY DEF After, IdsOf
<1>3. \A i \in A : i > o BY DEF After, IdsOf
<1>4. K \subseteq A BY DEF Kept
<1>5. p.data = {r \in rows : r.id \in K} BY PageIs
<1>6. CASE K = A
  <2>1. p.next = 0 BY <1>6, PageIs
  <2>2. p.data = {r \in rows : r.id > o} BY <1>2, <1>5, <1>6
  <2> QED BY <2>1, <2>2
<1>7. CASE K # A
  <2> DEFINE last(m) == m \in K /\ \A j \in K : j <= m
             gap == {PageSize - Rank(A, i) : i \in K}
  <2> HIDE DEF A, K, p
  <2>1. \A i \in A : Rank(A, i) \in Nat \ {0} BY <1>1, Ranks
  <2>2. \A i \in K : Rank(A, i) <= PageSize BY DEF K, A, Kept
  <2>3. K # {}
    <3>1. A # {} BY <1>4, <1>7
    <3>2. PICK m \in A : \A j \in A : m <= j BY <1>1, <3>1, LeastNat
    <3>3. \A j \in A : j \in Nat BY <1>1
    <3>4. {j \in A : j <= m} = {m} BY <3>2, <3>3
    <3>5. Rank(A, m) = 1 BY <3>4, FS_Singleton DEF Rank
    <3> QED BY <3>2, <3>5, PageAssumption DEF K, A, Kept
  <2>4. \A i \in K : PageSize - Rank(A, i) \in Nat BY <1>4, <2>1, <2>2, PageAssumption
  <2>5. gap \in SUBSET Nat /\ gap # {} BY <2>3, <2>4
  <2>6. PICK g \in gap : \A h \in gap : g <= h BY <2>5, LeastNat
  <2>7. PICK m \in K : g = PageSize - Rank(A, m) BY <2>6
  <2>8. last(m)
    <3>1. SUFFICES ASSUME NEW j \in K, ~(j <= m) PROVE FALSE BY <2>7
    <3>2. j \in Nat /\ m \in Nat BY <1>1, <1>4
    <3>3. m < j BY <3>1, <3>2
    <3>4. Rank(A, m) < Rank(A, j) BY <1>1, <1>4, <3>3, Ranks
    <3>5. PageSize - Rank(A, m) <= PageSize - Rank(A, j) BY <2>6, <2>7
    <3> QED BY <1>4, <2>1, <3>4, <3>5, PageAssumption
  <2>9. last(p.next)
    <3>1. p.next = CHOOSE i \in K : \A j \in K : j <= i BY <1>7, PageIs DEF K, A, p
    <3> QED BY <2>8, <3>1
  <2>10. \A i \in A : i <= p.next => i \in K
    <3>1. SUFFICES ASSUME NEW i \in A, i <= p.next PROVE i \in K OBVIOUS
    <3>2. p.next \in A BY <1>4, <2>9
    <3>3. Rank(A, i) <= Rank(A, p.next) BY <1>1, <3>1, <3>2, Ranks
    <3>4. Rank(A, i) <= PageSize BY <2>1, <2>2, <2>9, <3>2, <3>3, PageAssumption
    <3> QED BY <3>4 DEF K, A, Kept
  <2>11. p.next \in IdsOf(rows) /\ p.next > o BY <1>1, <1>3, <1>4, <2>9
  <2>12. \A r \in rows : r.id \in K <=> r.id > o /\ r.id <= p.next BY <1>2, <1>4, <2>9, <2>10
  <2>13. p.data = {r \in rows : r.id > o /\ r.id <= p.next} BY <1>5, <2>12
  <2> QED BY <2>11, <2>13 DEF p
<1> QED BY <1>6, <1>7

(* load_all reads the whole table, however many pages it takes. *)
LEMMA LoadAllWhole ==
  ASSUME NEW rows, IsTable(rows)
  PROVE  LoadAll(rows, PageSize) = rows
<1> DEFINE D == {0} \cup IdsOf(rows)
           P(o) == Page(rows, o, PageSize)
           rest(g, o) == P(o).data \cup (IF P(o).next = 0 \/ P(o).next = o THEN {} ELSE g[P(o).next])
           F == CHOOSE g : g = [o \in D |-> rest(g, o)]
           whole == [o \in D |-> {r \in rows : r.id > o}]
<1>1. LoadAll(rows, PageSize) = F[0]
  BY DEF LoadAll
<1>2. D \subseteq Nat BY IdsFinite
<1>3. \A r \in rows : r.id \in Nat /\ r.id # 0 BY DEF IsTable, IsRow, IsBody
<1>4. ASSUME NEW o \in D
      PROVE  \/ P(o).next = 0 /\ P(o).data = {r \in rows : r.id > o}
             \/ /\ P(o).next \in D /\ P(o).next > o /\ P(o).next # 0
                /\ P(o).data = {r \in rows : r.id > o /\ r.id <= P(o).next}
  BY <1>2, PageStep, IdsFinite
<1>5. \A g : (\A o \in D : g[o] = {r \in rows : r.id > o}) => \A o \in D : rest(g, o) = {r \in rows : r.id > o}
  <2>1. SUFFICES ASSUME NEW g, \A o \in D : g[o] = {r \in rows : r.id > o}, NEW o \in D
                 PROVE  rest(g, o) = {r \in rows : r.id > o}
    OBVIOUS
  <2>2. CASE P(o).next = 0 /\ P(o).data = {r \in rows : r.id > o} BY <2>2
  <2>3. CASE P(o).next \in D /\ P(o).next > o /\ P(o).next # 0
              /\ P(o).data = {r \in rows : r.id > o /\ r.id <= P(o).next}
    <3> DEFINE n == P(o).next
    <3>1. n \in Nat /\ o \in Nat /\ n > o /\ n # 0 BY <1>2, <2>3
    <3>2. rest(g, o) = {r \in rows : r.id > o /\ r.id <= n} \cup {r \in rows : r.id > n}
      BY <2>1, <2>3, <3>1
    <3>3. \A r \in rows : (r.id > o /\ r.id <= n) \/ r.id > n <=> r.id > o BY <1>3, <3>1
    <3> HIDE DEF n, rest
    <3> QED BY <3>2, <3>3
  <2> QED BY <1>4, <2>2, <2>3
<1>6. whole = [o \in D |-> rest(whole, o)] BY <1>5
<1>7. F = [o \in D |-> rest(F, o)]
  <2> DEFINE Q(g) == g = [o \in D |-> rest(g, o)]
  <2>1. Q(whole) BY <1>6
  <2>2. F = CHOOSE g : Q(g) OBVIOUS
  <2> HIDE DEF Q, F
  <2>3. Q(F) BY <2>1, <2>2
  <2> QED BY <2>3 DEF Q
<1> HIDE DEF F, P, whole
<1> DEFINE bad == {o \in D : F[o] # {r \in rows : r.id > o}}
           ahead(o) == {i \in IdsOf(rows) : i > o}
<1>8. ASSUME bad # {} PROVE FALSE
  <2>1. \A o \in D : IsFiniteSet(ahead(o)) /\ Cardinality(ahead(o)) \in Nat
    BY IdsFinite, FS_Subset, FS_CardinalityType
  <2> DEFINE sizes == {Cardinality(ahead(o)) : o \in bad}
  <2>2. sizes \in SUBSET Nat /\ sizes # {} BY <1>8, <2>1
  <2>3. PICK m \in sizes : \A k \in sizes : m <= k BY <2>2, LeastNat
  <2>4. PICK o \in bad : m = Cardinality(ahead(o)) BY <2>3
  <2>5. o \in D /\ F[o] = rest(F, o) BY <1>7, <2>4
  <2>6. CASE P(o).next = 0 /\ P(o).data = {r \in rows : r.id > o} BY <2>4, <2>5, <2>6
  <2>7. CASE P(o).next \in D /\ P(o).next > o /\ P(o).next # 0
              /\ P(o).data = {r \in rows : r.id > o /\ r.id <= P(o).next}
    <3> DEFINE n == P(o).next
    <3>1. n \in Nat /\ o \in Nat /\ n > o /\ n # 0 /\ n \in IdsOf(rows) BY <1>2, <2>5, <2>7
    <3>0. \A i \in IdsOf(rows) : i \in Nat BY IdsFinite
    <3>2. (\A i \in IdsOf(rows) : i > n => i > o) /\ ~(n > n) BY <3>0, <3>1
    <3> HIDE DEF n
    <3>3. ahead(n) \subseteq ahead(o) /\ n \in ahead(o) /\ n \notin ahead(n)
      BY <3>1, <3>2
    <3>4. Cardinality(ahead(n)) <= Cardinality(ahead(o)) /\ Cardinality(ahead(n)) # Cardinality(ahead(o))
      BY <2>1, <2>5, <3>3, FS_Subset
    <3>5. n \in D /\ Cardinality(ahead(n)) \in Nat /\ Cardinality(ahead(o)) \in Nat
      BY <2>1, <2>5, <3>1
    <3>6. n \notin bad
      <4>1. SUFFICES ASSUME n \in bad PROVE FALSE OBVIOUS
      <4>2. Cardinality(ahead(n)) \in sizes BY <4>1
      <4>3. Cardinality(ahead(o)) <= Cardinality(ahead(n)) BY <2>3, <2>4, <4>2
      <4> QED BY <3>4, <3>5, <4>3
    <3>7. F[n] = {r \in rows : r.id > n} BY <3>5, <3>6
    <3>8. rest(F, o) = {r \in rows : r.id > o /\ r.id <= n} \cup {r \in rows : r.id > n}
      BY <2>7, <3>1, <3>7 DEF n
    <3>9. \A r \in rows : (r.id > o /\ r.id <= n) \/ r.id > n <=> r.id > o BY <1>3, <3>1
    <3>10. rest(F, o) = {r \in rows : r.id > o} BY <3>8, <3>9
    <3> QED BY <2>4, <2>5, <3>10
  <2> QED BY <1>4, <2>5, <2>6, <2>7
<1>9. F[0] = {r \in rows : r.id > 0} BY <1>8
<1>10. \A r \in rows : r.id > 0 BY <1>3
<1> QED BY <1>1, <1>9, <1>10

-----------------------------------------------------------------------------
(* Rows and statements.                                                       *)

(* The columns of a body. *)
LEMMA BodyIs ==
  ASSUME NEW r, IsBody(r)
  PROVE  r = Row(r.id, r.name, r.key, r.val, r.refs) /\ r.id \in Nat /\ IsRefs(r.refs)
  BY DEF IsBody

(* A record of the five columns is a body when its id and references are. *)
LEMMA RowIsBody ==
  ASSUME NEW i \in Nat, NEW n, NEW k, NEW v, NEW refs, IsRefs(refs)
  PROVE  IsBody(Row(i, n, k, v, refs)) /\ Row(i, n, k, v, refs).id = i
  BY DEF IsBody, Row

(* A body with another id. *)
LEMMA SetId == ASSUME NEW r, IsBody(r), NEW i \in Nat
               PROVE  IsBody([r EXCEPT !.id = i]) /\ [r EXCEPT !.id = i].id = i
<1> DEFINE new == Row(i, r.name, r.key, r.val, r.refs)
<1>1. r = Row(r.id, r.name, r.key, r.val, r.refs) BY BodyIs
<1>2. [Row(r.id, r.name, r.key, r.val, r.refs) EXCEPT !.id = i] = new BY DEF Row
<1>3. [r EXCEPT !.id = i] = new BY <1>1, <1>2, Zenon
<1>4. IsBody(new) /\ new.id = i BY BodyIs, RowIsBody
<1> QED BY <1>3, <1>4, Zenon

(* A body with another computed column. *)
LEMMA SetKey == ASSUME NEW r, IsBody(r), NEW x
                PROVE  IsBody([r EXCEPT !.key = x]) /\ [r EXCEPT !.key = x].id = r.id
<1> DEFINE new == Row(r.id, r.name, x, r.val, r.refs)
<1>1. r = Row(r.id, r.name, r.key, r.val, r.refs) BY BodyIs
<1>2. [Row(r.id, r.name, r.key, r.val, r.refs) EXCEPT !.key = x] = new BY DEF Row
<1>3. [r EXCEPT !.key = x] = new BY <1>1, <1>2, Zenon
<1>4. IsBody(new) /\ new.id = r.id BY BodyIs, RowIsBody
<1> QED BY <1>3, <1>4, Zenon

(* References joined, the first ones first, and one of them set. *)
LEMMA JoinRefs == ASSUME NEW f, IsRefs(f), NEW g, IsRefs(g) PROVE IsRefs(Over(f, g))
<1>1. \A c \in DOMAIN f : f[c] \in Nat \ {0} BY DEF IsRefs
<1>2. \A c \in DOMAIN g : g[c] \in Nat \ {0} BY DEF IsRefs
<1> QED BY <1>1, <1>2 DEF Over, IsRefs

(* One foreign key over those of a row. *)
LEMMA OneRef == ASSUME NEW c, NEW i \in Nat \ {0}, NEW g, IsRefs(g) PROVE IsRefs(With(c, i, g))
<1> DEFINE f == [d \in {c} |-> i]
<1>1. IsRefs(f) BY DEF IsRefs
<1>2. With(c, i, g) = Over(f, g) BY DEF With
<1> HIDE DEF f
<1> QED BY <1>1, <1>2, JoinRefs

(* A row without foreign keys. *)
LEMMA EmptyRefs == IsRefs(NoRefs)
  BY DEF IsRefs, NoRefs

(* A body with other references. *)
LEMMA SetRefs ==
  ASSUME NEW r, IsBody(r), NEW f, IsRefs(f)
  PROVE  IsBody([r EXCEPT !.refs = f]) /\ [r EXCEPT !.refs = f].id = r.id
<1> DEFINE new == Row(r.id, r.name, r.key, r.val, f)
<1>1. r = Row(r.id, r.name, r.key, r.val, r.refs) BY BodyIs
<1>2. [Row(r.id, r.name, r.key, r.val, r.refs) EXCEPT !.refs = f] = new BY DEF Row
<1>3. [r EXCEPT !.refs = f] = new BY <1>1, <1>2, Zenon
<1>4. IsBody(new) /\ new.id = r.id BY BodyIs, RowIsBody
<1> QED BY <1>3, <1>4, Zenon

(* A body with one more foreign key: that of the row in the path. *)
LEMMA SetRef ==
  ASSUME NEW r, IsBody(r), NEW c, NEW i \in Nat \ {0}
  PROVE  /\ IsBody([r EXCEPT !.refs = With(c, i, @)])
         /\ [r EXCEPT !.refs = With(c, i, @)].id = r.id
<1>1. IsRefs(With(c, i, r.refs)) BY BodyIs, OneRef
<1> QED BY <1>1, SetRefs

(* The merge of a patch is a body with the id of the row it was read from. *)
LEMMA MergedBody ==
  ASSUME NEW t, NEW old, IsBody(old), NEW patch, IsBody(patch)
  PROVE  IsBody(Merged(t, old, patch)) /\ Merged(t, old, patch).id = old.id
<1> DEFINE h == Over(patch.refs, old.refs)
           v == IF patch.val = "none" THEN old.val ELSE patch.val
           n == IF patch.name = NoName THEN old.name ELSE patch.name
           same == Row(old.id, old.name, old.key, old.val, old.refs)
           new == Row(old.id, n, old.key, v, h)
<1>0. old = same BY BodyIs
<1>1. [same EXCEPT !.val = v, !.name = n, !.refs = h] = new
  <2> HIDE DEF h, v, n
  <2>1. [same EXCEPT !.val = v] = Row(old.id, old.name, old.key, v, old.refs) BY DEF Row
  <2>2. [Row(old.id, old.name, old.key, v, old.refs) EXCEPT !.name = n]
          = Row(old.id, n, old.key, v, old.refs) BY DEF Row
  <2>3. [Row(old.id, n, old.key, v, old.refs) EXCEPT !.refs = h] = new BY DEF Row
  <2> QED BY <2>1, <2>2, <2>3, Zenon
<1>2. [old EXCEPT !.val = v, !.name = n, !.refs = h] = new
  <2> HIDE DEF h, v, n, same, new
  <2> QED BY <1>0, <1>1, Zenon
<1>3. Merged(t, old, patch) = IF t = "keys" THEN [new EXCEPT !.key = ComputedKey(t, new)] ELSE new
  <2> DEFINE merged == [old EXCEPT !.val = v, !.name = n, !.refs = h]
  <2>1. Merged(t, old, patch) = IF t = "keys" THEN [merged EXCEPT !.key = ComputedKey(t, merged)] ELSE merged
    BY DEF Merged
  <2> HIDE DEF merged, new
  <2> QED BY <1>2, <2>1, Zenon DEF merged
<1>4. IsBody(new) /\ new.id = old.id
  <2>1. IsRefs(h) /\ old.id \in Nat BY BodyIs, JoinRefs
  <2> HIDE DEF h, v, n
  <2> QED BY <2>1, RowIsBody
<1> HIDE DEF new
<1>6. CASE t = "keys"
  <2>1. Merged(t, old, patch) = [new EXCEPT !.key = ComputedKey(t, new)] BY <1>3, <1>6
  <2> QED BY <1>4, <2>1, SetKey
<1>7. CASE t # "keys" BY <1>3, <1>4, <1>7
<1> QED BY <1>6, <1>7

(* What a statement may leave: a store that differs in one table at most, and *)
(* the old store when it was refused.                                         *)
Statement(d, t, res) ==
  /\ IsStore(res.d) /\ res.ok \in BOOLEAN
  /\ ~res.ok => res.d = d
  /\ \A u \in Tables \ {t} : res.d[u] = d[u]

(* A refused statement. *)
LEMMA RefusedStatement ==
  ASSUME NEW d, IsStore(d), NEW t, NEW e
  PROVE  Statement(d, t, Refused(d, e))
  BY DEF Statement, Refused

(* A table replaced by another one. *)
LEMMA TableStatement ==
  ASSUME NEW d, IsStore(d), NEW t \in Tables, NEW rows, IsTable(rows)
  PROVE  Statement(d, t, Ok([d EXCEPT ![t] = rows]))
<1> DEFINE new == [d EXCEPT ![t] = rows]
<1>1. d = [u \in Tables |-> d[u]] /\ \A u \in Tables : IsTable(d[u]) BY DEF IsStore
<1>2. DOMAIN d = Tables BY <1>1
<1>3. new = [u \in Tables |-> IF u = t THEN rows ELSE d[u]] BY <1>2
<1> HIDE DEF new
<1>4. new = [u \in Tables |-> new[u]] /\ \A u \in Tables : new[u] = IF u = t THEN rows ELSE d[u]
  BY <1>3
<1>5. \A u \in Tables : IsTable(new[u])
  <2>1. SUFFICES ASSUME NEW u \in Tables PROVE IsTable(new[u]) OBVIOUS
  <2> QED BY <1>1, <1>4
<1>6. IsStore(new) BY <1>4, <1>5 DEF IsStore
<1>7. Ok(new).d = new /\ Ok(new).ok = TRUE BY DEF Ok
<1> QED BY <1>4, <1>6, <1>7 DEF Statement, new

(* The tables of a store. *)
LEMMA StoreTable == ASSUME NEW d, IsStore(d), NEW t \in Tables
                    PROVE  IsTable(d[t]) /\ \A r \in d[t] : IsRow(r) /\ IsBody(r) /\ r.id \in Nat \ {0}
  BY DEF IsStore, IsTable, IsRow, IsBody

(* A table with one row more is a table. *)
LEMMA AddRow == ASSUME NEW rows, IsTable(rows), NEW r, IsRow(r) PROVE IsTable(rows \cup {r})
<1>1. IsFiniteSet(rows \cup {r}) BY FS_AddElement DEF IsTable
<1> QED BY <1>1 DEF IsTable

(* Rows of a table are a table. *)
LEMMA SubTable == ASSUME NEW rows, IsTable(rows), NEW S \in SUBSET rows PROVE IsTable(S)
<1>1. IsFiniteSet(S) BY FS_Subset DEF IsTable
<1> QED BY <1>1 DEF IsTable

(* INSERT is a statement: it adds a row to its table or changes nothing. *)
LEMMA InsertStatement ==
  ASSUME NEW d, IsStore(d), NEW t \in Tables, NEW r, IsRow(r)
  PROVE  Statement(d, t, Insert(d, t, r))
<1>1. CASE r.id \in IdsOf(d[t]) \/ UniqueClash(d[t], t, r)
  BY <1>1, RefusedStatement DEF Insert
<1>2. CASE ~(r.id \in IdsOf(d[t]) \/ UniqueClash(d[t], t, r)) /\ Dangling(d, t, r)
  BY <1>2, RefusedStatement DEF Insert
<1>3. CASE ~(r.id \in IdsOf(d[t]) \/ UniqueClash(d[t], t, r)) /\ ~Dangling(d, t, r)
  <2>1. IsTable(d[t] \cup {r}) BY StoreTable, AddRow
  <2>2. Insert(d, t, r) = Ok([d EXCEPT ![t] = d[t] \cup {r}]) BY <1>3 DEF Insert
  <2> QED BY <2>1, <2>2, TableStatement
<1> QED BY <1>1, <1>2, <1>3

(* UPDATE is a statement: it replaces a row of its table or changes nothing. *)
LEMMA UpdateStatement ==
  ASSUME NEW d, IsStore(d), NEW t \in Tables, NEW i, NEW r, IsBody(r)
  PROVE  Statement(d, t, Update(d, t, i, r))
<1> DEFINE new == [r EXCEPT !.id = i]
           rows == {o \in d[t] : o.id # i} \cup {new}
<1>1. CASE i \notin IdsOf(d[t])
  BY <1>1, RefusedStatement DEF Update
<1>2. CASE i \in IdsOf(d[t])
  <2>1. i \in Nat \ {0} BY <1>2, StoreTable DEF IdsOf
  <2>2. IsRow(new) BY <2>1, SetId DEF IsRow
  <2>3. IsTable(rows)
    <3> HIDE DEF new
    <3> QED BY <2>2, StoreTable, SubTable, AddRow
  <2>4. \/ Update(d, t, i, r) = Ok([d EXCEPT ![t] = rows])
        \/ \E e : Update(d, t, i, r) = Refused(d, e)
    BY <1>2 DEF Update
  <2> HIDE DEF rows
  <2> QED BY <2>3, <2>4, TableStatement, RefusedStatement
<1> QED BY <1>1, <1>2

(* An upsert is one of the two. *)
LEMMA UpsertStatement ==
  ASSUME NEW d, IsStore(d), NEW t \in Tables, NEW r, IsRow(r)
  PROVE  Statement(d, t, Upsert(d, t, r))
<1>1. IsBody(r) BY DEF IsRow
<1> QED BY <1>1, InsertStatement, UpdateStatement DEF Upsert

(* DELETE and its cascades: snis, targets, plugins and keys only lose rows. *)
LEMMA DeleteStatement ==
  ASSUME NEW d, IsStore(d), NEW t \in Tables, NEW i
  PROVE  LET res == Delete(d, t, i)
         IN /\ IsStore(res.d) /\ res.ok \in BOOLEAN
            /\ ~res.ok => res.d = d
            /\ \A u \in Tables : res.d[u] \subseteq d[u]
            /\ \A u \in Tables \ {t} :
                 \/ res.d[u] = d[u]
                 \/ u \in {"plugins", "snis", "keys"}
                 \/ u = "targets" /\ t = "upstreams"
<1> DEFINE owned(u, rule) == {r \in d[u] : \E fk \in ForeignKeys :
                                /\ fk.table = u /\ fk.owner = t /\ fk.rule = rule
                                /\ Refers(r, fk.column, i)}
           new == [u \in Tables |-> (IF u = t THEN {r \in d[u] : r.id # i} ELSE d[u]) \ owned(u, "CASCADE")]
<1>1. \/ Delete(d, t, i) = Ok(new)
      \/ \E e : Delete(d, t, i) = Refused(d, e)
  BY DEF Delete
<1>2. \A fk \in ForeignKeys : fk.rule = "CASCADE" =>
        \/ fk.table \in {"plugins", "snis", "keys"}
        \/ fk.table = "targets" /\ fk.owner = "upstreams"
  BY DEF ForeignKeys, Fk
<1>3. \A u \in Tables : \/ u \in {"plugins", "snis", "keys"}
                        \/ u = "targets" /\ t = "upstreams"
                        \/ owned(u, "CASCADE") = {}
  BY <1>2
<1>4. \A u \in Tables : new[u] \subseteq d[u] OBVIOUS
<1>5. \A u \in Tables \ {t} : owned(u, "CASCADE") = {} => new[u] = d[u] OBVIOUS
<1>6. new = [u \in Tables |-> new[u]] OBVIOUS
<1> HIDE DEF new, owned
<1>7. IsStore(new)
  <2>1. \A u \in Tables : IsTable(new[u])
    <3>1. SUFFICES ASSUME NEW u \in Tables PROVE IsTable(new[u]) OBVIOUS
    <3> QED BY <1>4, StoreTable, SubTable
  <2> QED BY <1>6, <2>1 DEF IsStore
<1>8. CASE Delete(d, t, i) = Ok(new)
  <2>1. Delete(d, t, i).d = new /\ Delete(d, t, i).ok = TRUE BY <1>8 DEF Ok
  <2> QED BY <1>3, <1>4, <1>5, <1>7, <2>1
<1>9. CASE \E e : Delete(d, t, i) = Refused(d, e)
  <2>1. Delete(d, t, i).d = d /\ Delete(d, t, i).ok = FALSE BY <1>9 DEF Refused
  <2> QED BY <2>1
<1> QED BY <1>1, <1>8, <1>9

-----------------------------------------------------------------------------
(* Steps of handlers.                                                         *)

(* A handler leaves the refresher and the cache alone and drops no signal.    *)
(* What it writes it announces at once, all of it when it makes the store     *)
(* whole again; it may drop plugins without a word, and leave the store torn. *)
HandlerStep ==
  /\ UNCHANGED <<mode, requests, refresher, cache, coverage, unread>>
  /\ \A u : Announced(u) => Announced(u)'
  /\ \/ torn'
     \/ \A t \in Cached : \E u \in Types(t) : Announced(u)'
     \/ /\ torn' = torn
        /\ \A t \in Claimed : db'[t] = db[t] \/ \E u \in Types(t) : Announced(u)'
        /\ db'["plugins"] \subseteq db["plugins"] \/ Announced("plugins")'

(* The tables that are always claimed, and the types of the single ones. *)
LEMMA Claims ==
  ASSUME mode \in {"postgres", "off"}
  PROVE  /\ {"routes", "services"} \subseteq Claimed /\ Claimed \subseteq Cached
         /\ \A t \in CoverageTables : t \in Cached /\ Types(t) = {t}
  BY DEF Claimed, Cached, CoverageTables, Types

(* What is due stays due. *)
LEMMA StaysDue ==
  ASSUME HandlerStep, NEW u
  PROVE  (Due(u) => Due(u)') /\ (Announced(u)' => Due(u)')
  BY DEF HandlerStep, Due

(* The cache keeps following the claimed tables. *)
LEMMA HandlerCache ==
  ASSUME TypeInv, CacheInv, HandlerStep
  PROVE  CacheInv'
<1>1. Claimed' = Claimed BY DEF Claimed, HandlerStep
<1>2. SUFFICES ASSUME NEW t \in Claimed, ~torn', ~TableDue(t)' PROVE TableServed(t)'
  BY <1>1 DEF CacheInv, TableServed
<1>3. \A u \in Types(t) : ~Announced(u)' BY <1>2, StaysDue DEF TableDue
<1>4. t \in Cached BY Claims DEF TypeInv
<1>5. torn' = torn /\ db'[t] = db[t] BY <1>2, <1>3, <1>4 DEF HandlerStep
<1>6. ~torn /\ ~TableDue(t) BY <1>2, <1>5, StaysDue DEF TableDue
<1>7. TableServed(t) BY DEF CacheInv
<1>8. UNCHANGED <<refresher, cache, unread>> BY DEF HandlerStep
<1>9. Shown(db[t])' = Shown(db[t]) /\ FirstPage(db[t])' = FirstPage(db[t])
  BY <1>5 DEF Shown, FirstPage
<1> QED BY <1>6, <1>7, <1>8, <1>9 DEF TableServed, Reading

(* The plugins the cache was read from still include those of the database. *)
LEMMA HandlerPlugins ==
  ASSUME TypeInv, PluginsInv, HandlerStep
  PROVE  PluginsInv'
<1>1. SUFFICES ASSUME ~torn', ~Due("plugins")' PROVE PluginsKnown(db["plugins"])'
  BY DEF PluginsInv
<1>2. ~Announced("plugins")' BY <1>1, StaysDue
<1>3. "plugins" \in Cached /\ Types("plugins") = {"plugins"} BY Claims DEF TypeInv, CoverageTables
<1>4. torn' = torn /\ db'["plugins"] \subseteq db["plugins"] BY <1>1, <1>2, <1>3 DEF HandlerStep
<1>5. PluginsKnown(db["plugins"]) BY <1>1, <1>4, StaysDue DEF PluginsInv
<1>6. UNCHANGED <<cache, unread>> BY DEF HandlerStep
<1> QED BY <1>4, <1>5, <1>6 DEF PluginsKnown, Shown, FirstPage

(* The index of AI coverage, settled or half built, still counts what holds. *)
LEMMA HandlerCoverage ==
  ASSUME TypeInv, CoverageInv, HandlerStep
  PROVE  CoverageInv'
<1>1. SUFFICES ASSUME ~torn', \A u \in CoverageTables : ~Due(u)'
               PROVE  (IF refresher.pc = "coverage" THEN CoverageReading ELSE CoverageSettled)'
  BY DEF CoverageInv
<1>2. \A u \in CoverageTables : ~Announced(u)' BY <1>1, StaysDue
<1>3. \A u \in CoverageTables : u \in Cached /\ Types(u) = {u} BY Claims DEF TypeInv
<1>4. {"routes", "services", "plugins"} = CoverageTables BY DEF CoverageTables
<1>5. {"routes", "services"} \subseteq Claimed BY Claims DEF TypeInv
<1>6. /\ torn' = torn /\ db'["plugins"] \subseteq db["plugins"]
      /\ db'["routes"] = db["routes"] /\ db'["services"] = db["services"]
  BY <1>1, <1>2, <1>3, <1>4, <1>5 DEF HandlerStep
<1>7. IF refresher.pc = "coverage" THEN CoverageReading ELSE CoverageSettled
  BY <1>1, <1>6, StaysDue DEF CoverageInv
<1>8. UNCHANGED <<refresher, cache, coverage, unread>> BY DEF HandlerStep
<1>9. \A P : PluginsKnown(P) => PluginsKnown(P)' BY <1>8 DEF PluginsKnown, Shown, FirstPage
<1>10. CASE refresher.pc = "coverage"
  <2>1. CoverageReading BY <1>7, <1>10
  <2>2. CoverageReading' BY <1>6, <1>8, <1>9, <2>1 DEF CoverageReading
  <2> QED BY <1>8, <1>10, <2>2
<1>11. CASE refresher.pc # "coverage"
  <2>1. CoverageSettled BY <1>7, <1>11
  <2>2. CASE "coverage" \in unread BY <1>8, <1>11, <2>2 DEF CoverageSettled
  <2>3. CASE \E P : /\ coverage = BuildCoverage(db["routes"], db["services"], P)
                    /\ db["plugins"] \subseteq P /\ PluginsKnown(P)
    <3>1. PICK P : /\ coverage = BuildCoverage(db["routes"], db["services"], P)
                   /\ db["plugins"] \subseteq P /\ PluginsKnown(P)
      BY <2>3
    <3>2. /\ coverage' = BuildCoverage(db'["routes"], db'["services"], P)
          /\ db'["plugins"] \subseteq P /\ PluginsKnown(P)'
      BY <1>6, <1>8, <1>9, <3>1
    <3>3. CoverageSettled' BY <3>2 DEF CoverageSettled
    <3> QED BY <1>8, <1>11, <3>3
  <2> QED BY <2>1, <2>2, <2>3 DEF CoverageSettled
<1> QED BY <1>10, <1>11

Carries(k, u) == k.pc = "signal" /\ \E i \in DOMAIN k.sig : k.sig[i] = u

(* Types are kept when a task continues with a well-formed state. *)
LEMMA TypesKept ==
  ASSUME TypeInv, NEW w \in Workers, NEW k, WorkerOk(k),
         worker' = [worker EXCEPT ![w] = k],
         UNCHANGED <<mode, requests, refresher, cache>>, IsStore(db'), signals' \in Seq(Cached)
  PROVE  TypeInv'
<1>1. \A v \in Workers : worker'[v] = IF v = w THEN k ELSE worker[v]
  BY DEF TypeInv
<1>2. worker' = [v \in Workers |-> worker'[v]] BY DEF TypeInv
<1>3. \A v \in Workers : WorkerOk(worker[v])' <=> WorkerOk(worker'[v])
  BY DEF WorkerOk, HasRow
<1>4. \A v \in Workers : WorkerOk(worker[v])'
  BY <1>1, <1>3 DEF TypeInv
<1>5. RefresherOk' BY DEF TypeInv, RefresherOk
<1>6. IsStore(db)' OBVIOUS
<1> QED BY <1>2, <1>4, <1>5, <1>6 DEF TypeInv

(* A step of one task: it held no signal, and carries those of what it wrote. *)
LEMMA WorkerStep ==
  ASSUME IInv, NEW w \in Workers, NEW k, WorkerOk(k), worker[w].pc # "signal",
         worker' = [worker EXCEPT ![w] = k], Unmoved, signals' = signals, IsStore(db'),
         \/ db' = db
         \/ /\ mode = "postgres"
            /\ \A t \in Cached \ {"plugins", "certificates", "snis"} :
                 db'[t] = db[t] \/ \E u \in Types(t) : Carries(k, u)
            /\ db'["plugins"] \subseteq db["plugins"] \/ Carries(k, "plugins")
  PROVE  IInv'
<1>1. \A v \in Workers : worker'[v] = IF v = w THEN k ELSE worker[v]
  BY DEF IInv, TypeInv
<1>2. \A u : Carries(k, u) => Announced(u)'
  BY <1>1 DEF Carries, Announced
<1>3. \A u : Announced(u) => Announced(u)'
  BY <1>1 DEF Announced
<1>4. HandlerStep
  <2>1. \A t \in Claimed : db'[t] = db[t] \/ \E u \in Types(t) : Announced(u)'
    BY <1>2 DEF Claimed
  <2>2. db'["plugins"] \subseteq db["plugins"] \/ Announced("plugins")'
    BY <1>2
  <2> QED BY <1>3, <2>1, <2>2 DEF HandlerStep, Unmoved
<1>5. TypeInv'
  <2>1. signals' \in Seq(Cached) BY DEF IInv, TypeInv
  <2> QED BY <2>1, TypesKept DEF IInv, Unmoved
<1> QED BY <1>4, <1>5, HandlerCache, HandlerPlugins, HandlerCoverage DEF IInv

(* A task that only reads. *)
LEMMA ReadStep ==
  ASSUME IInv, NEW w \in Workers, NEW k, WorkerOk(k), worker[w].pc # "signal",
         Becomes(w, k), Unmoved, UNCHANGED <<db, signals>>
  PROVE  IInv'
<1>1. IsStore(db') BY DEF IInv, TypeInv
<1> QED BY <1>1, WorkerStep DEF Becomes

(* The fields of a task's state and of a request. *)
LEMMA Fields ==
  ASSUME NEW pc, NEW r, NEW row, NEW w
  PROVE  LET k == Goto(w, r, pc, row)
         IN k.pc = pc /\ k.r = r /\ k.row = row /\ k.del = {} /\ k.sig = <<>>
  BY DEF Goto

(* Requests are those of the assumption. *)
LEMMA RequestIs ==
  ASSUME TypeInv, NEW r \in requests
  PROVE  /\ IsRequest(r) /\ IsBody(r.row) /\ r.t \in TableOf(r.h) /\ r.t \in Tables
         /\ r = Request(r.h, r.t, r.id, r.row, r.parent, r.scope, r.snis)
<1>1. IsRequest(r) BY RequestsAssumption DEF TypeInv
<1>2. TableOf(r.h) \subseteq Tables BY DEF TableOf, Tables
<1> QED BY <1>1, <1>2 DEF IsRequest

(* An idle task, and one that starts or goes on with a request. *)
LEMMA IdleOk == WorkerOk(Idle)
<1>1. IsBody(NoRow) BY EmptyRefs, RowIsBody DEF NoRow
<1>2. Idle.r = Request("none", "services", 0, NoRow, 0, "none", <<>>) /\ Idle.row = NoRow
      /\ Idle.pc = "idle" /\ Idle.del = {} /\ Idle.sig = <<>>
  BY DEF Idle
<1>3. Idle = [pc |-> Idle.pc, r |-> Idle.r, row |-> Idle.row, del |-> Idle.del, sig |-> Idle.sig]
  BY DEF Idle
<1>4. LET r == Idle.r IN r = Request(r.h, r.t, r.id, r.row, r.parent, r.scope, r.snis)
                         /\ r.t \in TableOf(r.h) /\ r.h = "none"
  BY <1>2 DEF Request, TableOf, Tables
<1>5. <<>> \in Seq(Cached) OBVIOUS
<1> QED BY <1>1, <1>2, <1>3, <1>4, <1>5 DEF WorkerOk, HasRow, OffPcs

(* The state of a task that goes on to another statement. *)
LEMMA GotoOk ==
  ASSUME mode = "postgres", NEW w, NEW pc, NEW row, IsBody(row), NEW r,
         r = Request(r.h, r.t, r.id, r.row, r.parent, r.scope, r.snis), r.t \in TableOf(r.h),
         pc \notin {"delete", "load_data", "load_names", "load_foreign", "load", "sni_del"} \/
           (pc = "delete" /\ r.h = "delete_ca_certificate") \/ (pc = "sni_del" /\ r.h = "delete_certificate"),
         row.id # 0 \/ pc \notin {"upsert", "upsert_target", "insert", "update", "insert_certificate",
                                  "snis", "sni_add", "link_write"}
  PROVE  WorkerOk(Goto(w, r, pc, row))
<1> DEFINE k == Goto(w, r, pc, row)
<1>1. k.pc = pc /\ k.r = r /\ k.row = row /\ k.del = {} /\ k.sig = <<>> BY Fields
<1>2. k = [pc |-> k.pc, r |-> k.r, row |-> k.row, del |-> k.del, sig |-> k.sig] BY DEF Goto
<1>3. <<>> \in Seq(Cached) OBVIOUS
<1> HIDE DEF k
<1>4. WorkerOk(k) BY <1>1, <1>2, <1>3 DEF WorkerOk, HasRow
<1> QED BY <1>4 DEF k

(* Setting a field of a task's state. *)
TaskState(pc, r, row, del, sig) == [pc |-> pc, r |-> r, row |-> row, del |-> del, sig |-> sig]

(* A field of the state of a task is replaced. *)
LEMMA SetTask ==
  ASSUME NEW pc, NEW r, NEW row, NEW del, NEW sig, NEW x
  PROVE  /\ [TaskState(pc, r, row, del, sig) EXCEPT !.sig = x] = TaskState(pc, r, row, del, x)
         /\ [TaskState(pc, r, row, del, sig) EXCEPT !.pc = x] = TaskState(x, r, row, del, sig)
         /\ [TaskState(pc, r, row, del, sig) EXCEPT !.row = x] = TaskState(pc, r, x, del, sig)
         /\ [TaskState(pc, r, row, del, sig) EXCEPT !.del = x] = TaskState(pc, r, row, x, sig)
         /\ [TaskState(pc, r, row, del, sig) EXCEPT !.r = x] = TaskState(pc, x, row, del, sig)
  BY DEF TaskState

(* A task that ends with its signals, or without any. *)
LEMMA SignallingOk ==
  ASSUME mode = "postgres", NEW w, NEW r, NEW sig \in Seq(Cached),
         r = Request(r.h, r.t, r.id, r.row, r.parent, r.scope, r.snis), r.t \in TableOf(r.h)
  PROVE  LET k == IF sig = <<>> THEN Idle ELSE [Goto(w, r, "signal", NoRow) EXCEPT !.sig = sig]
         IN /\ WorkerOk(k)
            /\ \A i \in DOMAIN sig : Carries(k, sig[i])
<1>1. CASE sig = <<>> BY <1>1, IdleOk
<1>2. CASE sig # <<>>
  <2> DEFINE k == [pc |-> "signal", r |-> r, row |-> NoRow, del |-> {}, sig |-> sig]
  <2>1. [Goto(w, r, "signal", NoRow) EXCEPT !.sig = sig] = k
    <3>1. Goto(w, r, "signal", NoRow) = TaskState("signal", r, NoRow, {}, <<>>) BY DEF Goto, TaskState
    <3>2. k = TaskState("signal", r, NoRow, {}, sig) BY DEF TaskState
    <3>3. [TaskState("signal", r, NoRow, {}, <<>>) EXCEPT !.sig = sig] = TaskState("signal", r, NoRow, {}, sig)
      BY SetTask
    <3> HIDE DEF k
    <3> QED BY <3>1, <3>2, <3>3, Zenon
  <2>2. k.pc = "signal" /\ k.r = r /\ k.row = NoRow /\ k.del = {} /\ k.sig = sig OBVIOUS
  <2>3. k = [pc |-> k.pc, r |-> k.r, row |-> k.row, del |-> k.del, sig |-> k.sig] OBVIOUS
  <2>4. IsBody(NoRow) BY EmptyRefs, RowIsBody DEF NoRow
  <2> HIDE DEF k
  <2>5. WorkerOk(k) BY <2>2, <2>3, <2>4 DEF WorkerOk, HasRow
  <2>6. \A i \in DOMAIN sig : Carries(k, sig[i]) BY <2>2 DEF Carries
  <2> QED BY <1>2, <2>1, <2>5, <2>6
<1> QED BY <1>1, <1>2

(* A handler's last statement. *)
LEMMA FinishStep ==
  ASSUME IInv, mode = "postgres", NEW w \in Workers, worker[w].pc # "signal", Unmoved, signals' = signals,
         NEW r, r = Request(r.h, r.t, r.id, r.row, r.parent, r.scope, r.snis), r.t \in TableOf(r.h),
         NEW res, IsStore(res.d), res.ok \in BOOLEAN, ~res.ok => res.d = db,
         NEW so \in Seq(Cached), NEW se \in Seq(Cached), Finish(w, r, res, so, se),
         \A t \in Cached \ {"plugins", "certificates", "snis"} :
           res.d[t] = db[t] \/ \E i \in DOMAIN so : so[i] \in Types(t),
         res.d["plugins"] \subseteq db["plugins"] \/ \E i \in DOMAIN so : so[i] = "plugins"
  PROVE  IInv'
<1> DEFINE sig == IF res.ok THEN so ELSE se
           k == IF sig = <<>> THEN Idle ELSE [Goto(w, r, "signal", NoRow) EXCEPT !.sig = sig]
<1>1. sig \in Seq(Cached) OBVIOUS
<1>2. db' = res.d /\ worker' = [worker EXCEPT ![w] = k]
  BY DEF Finish, Signalling, Becomes
<1> HIDE DEF sig
<1>3. WorkerOk(k) /\ \A i \in DOMAIN sig : Carries(k, sig[i]) BY <1>1, SignallingOk
<1> HIDE DEF k
<1>4. CASE res.ok
  <2>1. sig = so BY <1>4 DEF sig
  <2>2. \A t \in Cached \ {"plugins", "certificates", "snis"} :
          db'[t] = db[t] \/ \E u \in Types(t) : Carries(k, u)
    BY <1>2, <1>3, <2>1
  <2>3. db'["plugins"] \subseteq db["plugins"] \/ Carries(k, "plugins")
    BY <1>2, <1>3, <2>1
  <2> QED BY <1>2, <1>3, <2>2, <2>3, WorkerStep
<1>5. CASE ~res.ok
  <2>1. db' = db BY <1>2, <1>5
  <2> QED BY <1>2, <1>3, <2>1, WorkerStep
<1> QED BY <1>4, <1>5

(* The signal of a table, and the table it announces. *)
LEMMA SignalIs ==
  ASSUME NEW t \in Tables
  PROVE  /\ SignalOf(t) \in Seq(Cached)
         /\ t \in Cached => \E i \in DOMAIN SignalOf(t) : SignalOf(t)[i] = t /\ t \in Types(t)
<1>1. CASE t \in Cached
  <2>1. SignalOf(t) = <<t>> BY <1>1 DEF SignalOf
  <2>2. t \in Types(t) BY DEF Types
  <2> QED BY <1>1, <2>1, <2>2
<1>2. CASE t \notin Cached BY <1>2 DEF SignalOf
<1> QED BY <1>1, <1>2

(* The proxy caches tables of the store. *)
LEMMA CachedTables == Cached \subseteq Tables
  BY DEF Cached, Tables

(* INSERT, UPDATE and upsert of one table. *)
LEMMA TableWrite ==
  ASSUME IInv, mode = "postgres", NEW w \in Workers, worker[w].pc # "signal", Unmoved, signals' = signals,
         NEW r, r = Request(r.h, r.t, r.id, r.row, r.parent, r.scope, r.snis), r.t \in TableOf(r.h),
         NEW t \in Tables, NEW res, Statement(db, t, res),
         NEW se \in Seq(Cached), Finish(w, r, res, SignalOf(t), se)
  PROVE  IInv'
<1>1. SignalOf(t) \in Seq(Cached) BY SignalIs
<1>2. IsStore(res.d) /\ res.ok \in BOOLEAN /\ (~res.ok => res.d = db)
      /\ \A u \in Tables \ {t} : res.d[u] = db[u]
  BY DEF Statement
<1>3. \A x \in Cached : res.d[x] = db[x] \/ \E i \in DOMAIN SignalOf(t) : SignalOf(t)[i] = x /\ x \in Types(x)
  BY <1>2, SignalIs, CachedTables
<1>4. \A x \in Cached \ {"plugins", "certificates", "snis"} :
        res.d[x] = db[x] \/ \E i \in DOMAIN SignalOf(t) : SignalOf(t)[i] \in Types(x)
  BY <1>3
<1>5. res.d["plugins"] \subseteq db["plugins"] \/ \E i \in DOMAIN SignalOf(t) : SignalOf(t)[i] = "plugins"
  BY <1>3 DEF Cached
<1> HIDE DEF Statement
<1> QED BY <1>1, <1>2, <1>4, <1>5, FinishStep

(* DELETE with its cascades: the signal of an upstream covers its targets. *)
LEMMA DeleteWrite ==
  ASSUME IInv, mode = "postgres", NEW w \in Workers, worker[w].pc # "signal", Unmoved, signals' = signals,
         NEW r, r = Request(r.h, r.t, r.id, r.row, r.parent, r.scope, r.snis), r.t \in TableOf(r.h),
         NEW t \in Tables, NEW so \in Seq(Cached), NEW se \in Seq(Cached),
         t \in Cached \ {"plugins"} => \E i \in DOMAIN so : so[i] = t,
         NEW i0, Finish(w, r, Delete(db, t, i0), so, se)
  PROVE  IInv'
<1> DEFINE res == Delete(db, t, i0)
<1>1. IsStore(db) BY DEF IInv, TypeInv
<1>2. /\ IsStore(res.d) /\ res.ok \in BOOLEAN /\ (~res.ok => res.d = db)
      /\ \A u \in Tables : res.d[u] \subseteq db[u]
      /\ \A u \in Tables \ {t} : \/ res.d[u] = db[u]
                                 \/ u \in {"plugins", "snis", "keys"}
                                 \/ u = "targets" /\ t = "upstreams"
  BY <1>1, DeleteStatement
<1> HIDE DEF res
<1>3. "upstreams" \in Cached \ {"plugins"} /\ "upstreams" \in Types("targets") /\ "plugins" \in Tables
  BY DEF Cached, Types, Tables
<1>4. \A x \in Cached : x \in Types(x) /\ x # "keys" BY DEF Types, Cached
<1>5. \A x \in Cached \ {"plugins", "certificates", "snis"} :
        res.d[x] = db[x] \/ \E i \in DOMAIN so : so[i] \in Types(x)
  BY <1>2, <1>3, <1>4, CachedTables
<1>6. res.d["plugins"] \subseteq db["plugins"] BY <1>2, <1>3
<1>7. Finish(w, r, res, so, se) BY DEF res
<1> QED BY <1>2, <1>5, <1>6, <1>7, FinishStep

(* A task's state is well-formed when what its next statement needs is there. *)
LEMMA TaskOk ==
  ASSUME mode = "postgres", NEW pc, NEW r, NEW row, NEW del, NEW sig \in Seq(Cached), IsBody(row),
         r = Request(r.h, r.t, r.id, r.row, r.parent, r.scope, r.snis), r.t \in TableOf(r.h),
         \/ row.id # 0
         \/ /\ pc \notin {"upsert", "upsert_target", "insert", "update", "insert_certificate", "snis",
                          "sni_add", "link_write"}
            /\ pc = "sni_del" => r.h = "delete_certificate",
         pc = "delete" => r.h \in {"delete_scoped_plugin", "delete_certificate", "delete_ca_certificate"},
         pc \in {"signal", "link"} => \A s \in del : s \in Nat \ {0},
         pc \notin {"load_data", "load_names", "load_foreign", "load"}
  PROVE  WorkerOk(TaskState(pc, r, row, del, sig))
<1> DEFINE k == TaskState(pc, r, row, del, sig)
<1>1. k.pc = pc /\ k.r = r /\ k.row = row /\ k.del = del /\ k.sig = sig BY DEF TaskState
<1>2. k = [pc |-> k.pc, r |-> k.r, row |-> k.row, del |-> k.del, sig |-> k.sig] BY DEF TaskState
<1> HIDE DEF k
<1>3. WorkerOk(k) BY <1>1, <1>2 DEF WorkerOk, HasRow
<1> QED BY <1>3 DEF k

(* The task of a PostgreSQL handler between two statements. *)
LEMMA TaskIs ==
  ASSUME TypeInv, NEW w \in Workers, worker[w].pc \notin OffPcs
  PROVE  LET k == worker[w]
         IN /\ mode = "postgres" /\ WorkerOk(k) /\ k.pc # "signal"
            /\ k = TaskState(k.pc, k.r, k.row, k.del, k.sig) /\ k.sig \in Seq(Cached)
            /\ IsBody(k.row) /\ k.r.t \in Tables /\ k.r.t \in TableOf(k.r.h)
            /\ k.r = Request(k.r.h, k.r.t, k.r.id, k.r.row, k.r.parent, k.r.scope, k.r.snis)
            /\ k.pc \in {"upsert", "upsert_target", "insert", "update", "insert_certificate", "snis",
                         "sni_add", "link_write"} => k.row.id # 0 /\ IsRow(k.row)
<1> DEFINE k == worker[w]
<1>1. WorkerOk(k) BY DEF TypeInv
<1>2. mode = "postgres" BY <1>1 DEF TypeInv, WorkerOk
<1>3. TableOf(k.r.h) \subseteq Tables BY DEF TableOf, Tables
<1>4. k.pc # "signal" BY DEF OffPcs
<1> HIDE DEF k
<1>5. k = TaskState(k.pc, k.r, k.row, k.del, k.sig) BY <1>1, Zenon DEF WorkerOk, TaskState
<1>6. k.sig \in Seq(Cached) /\ IsBody(k.row) /\ k.r.t \in TableOf(k.r.h) BY <1>1, Zenon DEF WorkerOk
<1>7. k.r = Request(k.r.h, k.r.t, k.r.id, k.r.row, k.r.parent, k.r.scope, k.r.snis)
  BY <1>1, Zenon DEF WorkerOk
<1>8. k.pc \in {"upsert", "upsert_target", "insert", "update", "insert_certificate", "snis",
                "sni_add", "link_write"} => k.row.id # 0 /\ IsRow(k.row)
  BY <1>1, <1>6 DEF WorkerOk, HasRow, IsRow
<1> QED BY <1>1, <1>2, <1>3, <1>4, <1>5, <1>6, <1>7, <1>8 DEF k

(* A task that takes a request. *)
LEMMA ArrivalIs ==
  ASSUME TypeInv, NEW w \in Workers, NEW r \in requests, NEW h, Arrives(w, r, h)
  PROVE  /\ mode = "postgres" /\ worker[w].pc # "signal" /\ r.h = h /\ IsStore(db)
         /\ IsBody(r.row) /\ r.t \in Tables /\ r.t \in TableOf(r.h) /\ <<>> \in Seq(Cached)
         /\ r = Request(r.h, r.t, r.id, r.row, r.parent, r.scope, r.snis)
         /\ Inserts(h) => r.row.id # 0 /\ IsRow(r.row)
         /\ h \in {"upsert_scoped_plugin", "upsert_certificate"} => r.id \in Nat \ {0}
<1>1. r.h = h /\ mode = "postgres" /\ worker[w].pc = "idle" BY DEF Arrives
<1>2. IsRequest(r) BY RequestIs
<1> QED BY <1>1, <1>2, RequestIs DEF TypeInv, IsRequest, IsRow

(* A row found by a SELECT, and an id found by name. *)
LEMMA Found ==
  ASSUME NEW d, IsStore(d), NEW t \in Tables, NEW i, NEW x \in Select(d, t, i)
  PROVE  IsRow(x) /\ IsBody(x) /\ x.id = i /\ i \in Nat \ {0}
  BY StoreTable DEF Select

(* A row found by its name is a row of the table. *)
LEMMA NamedRow ==
  ASSUME NEW d, IsStore(d), NEW t \in Tables, NEW n, NEW x \in SelectByName(d, t, n)
  PROVE  x \in d[t] /\ IsRow(x) /\ x.id \in Nat \ {0}
<1> DEFINE f == {y \in d[t] : y.name = n /\ n # NoName}
           least(y) == \A o \in f : y.id <= o.id
<1>1. f # {} /\ x = CHOOSE y \in f : least(y) BY DEF SelectByName
<1>2. \E y \in f : least(y)
  <2>1. \A y \in f : y.id \in Nat BY StoreTable
  <2>2. {y.id : y \in f} \in SUBSET Nat /\ {y.id : y \in f} # {} BY <1>1, <2>1
  <2>3. PICK m \in {y.id : y \in f} : \A j \in {y.id : y \in f} : m <= j BY <2>2, LeastNat
  <2> QED BY <2>3
<1> HIDE DEF least
<1>3. (CHOOSE y \in f : least(y)) \in f BY <1>2
<1> QED BY <1>1, <1>3, StoreTable

(* The id an upsert writes to is an id. *)
LEMMA UpsertIdOk ==
  ASSUME NEW d, IsStore(d), NEW t \in Tables, NEW r, IsRow(r), NEW b
  PROVE  UpsertId(d, t, r, b) \in Nat \ {0}
<1> DEFINE found == SelectByName(d, t, r.name)
<1>1. \A x \in found : x.id \in Nat \ {0} BY NamedRow
<1>2. found # {} => (CHOOSE o \in found : TRUE) \in found OBVIOUS
<1>3. UpsertId(d, t, r, b) = IF b /\ found # {} THEN (CHOOSE o \in found : TRUE).id ELSE r.id
  BY DEF UpsertId
<1> HIDE DEF found
<1>4. r.id \in Nat \ {0} BY DEF IsRow, IsBody
<1> QED BY <1>1, <1>2, <1>3, <1>4

-----------------------------------------------------------------------------
(* The generated handlers.                                                    *)

(* create_*: the INSERT comes with its signal. *)
LEMMA CreateEntityInv ==
  ASSUME IInv, NEW w \in Workers, NEW r \in requests, CreateEntity(w, r)
  PROVE  IInv'
<1> DEFINE row == [r.row EXCEPT !.key = ComputedKey(r.t, r.row)]
           res == Insert(db, r.t, row)
<1>0. TypeInv BY DEF IInv
<1>1. Arrives(w, r, "create") /\ signals' = signals /\ Unmoved BY DEF CreateEntity
<1>2. Inserts("create") BY DEF Inserts
<1>3. IsRow(row) BY <1>0, <1>1, <1>2, ArrivalIs, SetKey DEF IsRow
<1> HIDE DEF row
<1>4. Statement(db, r.t, res) BY <1>0, <1>1, <1>3, ArrivalIs, InsertStatement
<1>5. Finish(w, r, res, SignalOf(r.t), <<>>) BY DEF CreateEntity, row
<1> HIDE DEF res
<1> QED BY <1>0, <1>1, <1>4, <1>5, ArrivalIs, TableWrite

(* do_update reads. *)
LEMMA UpdateReadInv ==
  ASSUME IInv, NEW w \in Workers, NEW r \in requests, UpdateRead(w, r)
  PROVE  IInv'
<1>0. TypeInv BY DEF IInv
<1>1. Arrives(w, r, "update") /\ UNCHANGED <<db, signals>> /\ Unmoved BY DEF UpdateRead
<1>2. CASE Becomes(w, Idle) BY <1>0, <1>1, <1>2, ArrivalIs, IdleOk, ReadStep
<1>3. ASSUME NEW old \in Select(db, r.t, r.id), Becomes(w, Goto(w, r, "update", Merged(r.t, old, r.row)))
      PROVE  IInv'
  <2> DEFINE row == Merged(r.t, old, r.row)
  <2>1. IsBody(old) /\ old.id # 0 BY <1>0, <1>1, <1>3, ArrivalIs, Found
  <2>2. IsBody(row) /\ row.id # 0 BY <1>0, <1>1, <2>1, ArrivalIs, MergedBody
  <2> HIDE DEF row
  <2>3. WorkerOk(Goto(w, r, "update", row)) BY <1>0, <1>1, <2>2, ArrivalIs, GotoOk
  <2> QED BY <1>0, <1>1, <1>3, <2>3, ArrivalIs, ReadStep DEF row
<1> QED BY <1>2, <1>3 DEF UpdateRead

(* do_upsert resolves its id. *)
LEMMA UpsertLookupInv ==
  ASSUME IInv, NEW w \in Workers, NEW r \in requests, UpsertLookup(w, r)
  PROVE  IInv'
<1> DEFINE i == UpsertId(db, r.t, r.row, r.row.name # NoName)
           own == [r.row EXCEPT !.id = i]
           x == IF r.t = "keys" THEN ComputedKey(r.t, r.row) ELSE own.key
           row == [own EXCEPT !.key = x]
<1>0. TypeInv BY DEF IInv
<1>1. Arrives(w, r, "upsert") /\ UNCHANGED <<db, signals>> /\ Unmoved BY DEF UpsertLookup
<1>2. Becomes(w, Goto(w, r, "upsert", row)) BY DEF UpsertLookup
<1>3. Inserts("upsert") BY DEF Inserts
<1>4. i \in Nat \ {0} BY <1>0, <1>1, <1>3, ArrivalIs, UpsertIdOk
<1> HIDE DEF i
<1>5. IsBody(own) /\ own.id = i BY <1>0, <1>1, <1>4, ArrivalIs, SetId
<1> HIDE DEF own, x
<1>6. IsBody(row) /\ row.id # 0 BY <1>4, <1>5, SetKey
<1> HIDE DEF row
<1>7. WorkerOk(Goto(w, r, "upsert", row)) BY <1>0, <1>1, <1>6, ArrivalIs, GotoOk
<1> QED BY <1>0, <1>1, <1>2, <1>7, ArrivalIs, ReadStep

(* delete_*: the DELETE comes with the signal of its table; what it takes     *)
(* along by a cascade has none to wait for.                                   *)
LEMMA DeleteEntityInv ==
  ASSUME IInv, NEW w \in Workers, NEW r \in requests, DeleteEntity(w, r)
  PROVE  IInv'
<1>0. TypeInv BY DEF IInv
<1>1. Arrives(w, r, "delete") /\ signals' = signals /\ Unmoved BY DEF DeleteEntity
<1>2. Finish(w, r, Delete(db, r.t, r.id), SignalOf(r.t), SignalOf(r.t)) BY DEF DeleteEntity
<1>3. r.t \in Tables BY <1>0, <1>1, ArrivalIs
<1>4. SignalOf(r.t) \in Seq(Cached) /\ (r.t \in Cached => \E i \in DOMAIN SignalOf(r.t) : SignalOf(r.t)[i] = r.t)
  BY <1>3, SignalIs
<1> QED BY <1>0, <1>1, <1>2, <1>4, ArrivalIs, DeleteWrite

(* A certificate that was updated goes on to its SNIs, unsignalled. *)
LEMMA CertificateWrite ==
  ASSUME IInv, NEW w \in Workers, worker[w].pc \in {"update", "upsert"},
         worker[w].r.h \in {"update_certificate", "upsert_certificate"},
         NEW res, Statement(db, "certificates", res), db' = res.d,
         Becomes(w, [worker[w] EXCEPT !.pc = "snis"]), Unmoved, signals' = signals
  PROVE  IInv'
<1> DEFINE k == worker[w]
           new == [k EXCEPT !.pc = "snis"]
<1>0. TypeInv BY DEF IInv
<1>1. worker[w].pc \notin OffPcs BY DEF OffPcs
<1>2. k = TaskState(k.pc, k.r, k.row, k.del, k.sig) /\ k.row.id # 0 BY <1>0, <1>1, TaskIs
<1>3. new = TaskState("snis", k.r, k.row, k.del, k.sig)
  <2>1. [TaskState(k.pc, k.r, k.row, k.del, k.sig) EXCEPT !.pc = "snis"] = TaskState("snis", k.r, k.row, k.del, k.sig)
    BY SetTask
  <2> HIDE DEF k
  <2> QED BY <1>2, <2>1, Zenon
<1>4. WorkerOk(TaskState("snis", k.r, k.row, k.del, k.sig))
  BY <1>0, <1>1, <1>2, TaskIs, TaskOk
<1>5. WorkerOk(new) BY <1>3, <1>4, Zenon
<1>6. mode = "postgres" /\ k.pc # "signal" BY <1>0, <1>1, TaskIs
<1>7. IsStore(db') /\ \A u \in Tables \ {"certificates"} : db'[u] = db[u] BY DEF Statement
<1>8. \A t \in Cached \ {"plugins", "certificates", "snis"} : db'[t] = db[t] BY <1>7, CachedTables
<1>9. db'["plugins"] = db["plugins"] BY <1>7 DEF Tables
<1>10. worker' = [worker EXCEPT ![w] = new] BY DEF Becomes
<1> HIDE DEF new, k
<1> QED BY <1>5, <1>6, <1>7, <1>8, <1>9, <1>10, WorkerStep DEF k

(* do_update writes, with its signal unless nothing was written; the UPDATE   *)
(* of a certificate goes on to its SNIs.                                      *)
LEMMA UpdateWriteInv ==
  ASSUME IInv, NEW w \in Workers, UpdateWrite(w)
  PROVE  IInv'
<1> DEFINE k == worker[w]
           res == Update(db, k.r.t, k.row.id, k.row)
           always == IF k.r.h \in {"update_scoped_plugin", "update_route_service"}
                     THEN SignalOf(k.r.t) ELSE <<>>
<1>0. TypeInv BY DEF IInv
<1>1. k.pc = "update" /\ signals' = signals /\ Unmoved BY DEF UpdateWrite, At
<1>2. k.pc \notin OffPcs BY <1>1 DEF OffPcs
<1>3. IsBody(k.row) /\ k.r.t \in Tables /\ k.r.t \in TableOf(k.r.h) /\ IsStore(db)
  BY <1>0, <1>2, TaskIs DEF TypeInv
<1>4. Statement(db, k.r.t, res) BY <1>3, UpdateStatement
<1>5. always \in Seq(Cached) BY <1>3, SignalIs
<1>6. CASE k.r.h = "update_certificate" /\ res.ok
  <2>1. k.r.t = "certificates" BY <1>3, <1>6 DEF TableOf
  <2>2. db' = res.d /\ Becomes(w, [k EXCEPT !.pc = "snis"]) BY <1>6 DEF UpdateWrite
  <2> HIDE DEF res
  <2> QED BY <1>1, <1>4, <1>6, <2>1, <2>2, CertificateWrite
<1>7. CASE ~(k.r.h = "update_certificate" /\ res.ok)
  <2>1. Finish(w, k.r, res, SignalOf(k.r.t), always) BY <1>7 DEF UpdateWrite
  <2> HIDE DEF res, always
  <2> QED BY <1>0, <1>1, <1>2, <1>3, <1>4, <1>5, <2>1, TaskIs, TableWrite
<1> QED BY <1>6, <1>7

(* do_upsert writes, with its signal unless nothing was written. *)
LEMMA UpsertWriteInv ==
  ASSUME IInv, NEW w \in Workers, UpsertWrite(w)
  PROVE  IInv'
<1> DEFINE k == worker[w]
           res == Upsert(db, k.r.t, k.row)
           always == IF k.r.h \in {"upsert_scoped_plugin", "upsert_nested_target", "upsert_route_service"}
                     THEN SignalOf(k.r.t) ELSE <<>>
<1>0. TypeInv BY DEF IInv
<1>1. k.pc = "upsert" /\ signals' = signals /\ Unmoved BY DEF UpsertWrite, At
<1>2. k.pc \notin OffPcs BY <1>1 DEF OffPcs
<1>3. IsRow(k.row) /\ k.r.t \in Tables /\ k.r.t \in TableOf(k.r.h) /\ IsStore(db)
  BY <1>0, <1>1, <1>2, TaskIs DEF TypeInv
<1>4. Statement(db, k.r.t, res) BY <1>3, UpsertStatement
<1>5. always \in Seq(Cached) BY <1>3, SignalIs
<1>6. CASE k.r.h = "upsert_certificate" /\ res.ok
  <2>1. k.r.t = "certificates" BY <1>3, <1>6 DEF TableOf
  <2>2. db' = res.d /\ Becomes(w, [k EXCEPT !.pc = "snis"]) BY <1>6 DEF UpsertWrite
  <2> HIDE DEF res
  <2> QED BY <1>1, <1>4, <1>6, <2>1, <2>2, CertificateWrite
<1>7. CASE ~(k.r.h = "upsert_certificate" /\ res.ok)
  <2>1. Finish(w, k.r, res, SignalOf(k.r.t), always) BY <1>7 DEF UpsertWrite
  <2> HIDE DEF res, always
  <2> QED BY <1>0, <1>1, <1>2, <1>3, <1>4, <1>5, <2>1, TaskIs, TableWrite
<1> QED BY <1>6, <1>7

-----------------------------------------------------------------------------
(* Handlers that resolve another row first.                                   *)

(* A request that goes on to its next statement, or ends, after a read. *)
LEMMA GoStep ==
  ASSUME IInv, NEW w \in Workers, NEW r \in requests, NEW h, Arrives(w, r, h),
         UNCHANGED <<db, signals>>, Unmoved, NEW pc, NEW row, IsBody(row),
         pc \notin {"delete", "load_data", "load_names", "load_foreign", "load", "sni_del"} \/
           (pc = "delete" /\ r.h = "delete_ca_certificate"),
         row.id # 0 \/ pc \notin {"upsert", "upsert_target", "insert", "update", "insert_certificate",
                                  "snis", "sni_add", "link_write"},
         Becomes(w, Goto(w, r, pc, row))
  PROVE  IInv'
<1>0. TypeInv BY DEF IInv
<1>1. WorkerOk(Goto(w, r, pc, row)) BY <1>0, ArrivalIs, GotoOk
<1> QED BY <1>0, <1>1, ArrivalIs, ReadStep

(* A request that ends after a read without a signal, and with signals. *)
LEMMA EndStep ==
  ASSUME IInv, NEW w \in Workers, NEW r \in requests, NEW h, Arrives(w, r, h),
         UNCHANGED <<db, signals>>, Unmoved, Becomes(w, Idle)
  PROVE  IInv'
<1>0. TypeInv BY DEF IInv
<1> QED BY <1>0, ArrivalIs, IdleOk, ReadStep

(* Signals that follow a read: nothing was written, and they are harmless. *)
LEMMA TellStep ==
  ASSUME IInv, mode = "postgres", NEW w \in Workers, worker[w].pc # "signal",
         NEW r, r = Request(r.h, r.t, r.id, r.row, r.parent, r.scope, r.snis), r.t \in TableOf(r.h),
         NEW sig \in Seq(Cached), UNCHANGED <<db, signals>>, Unmoved, Signalling(w, r, sig)
  PROVE  IInv'
<1> DEFINE k == IF sig = <<>> THEN Idle ELSE [Goto(w, r, "signal", NoRow) EXCEPT !.sig = sig]
<1>1. WorkerOk(k) BY SignallingOk
<1>2. Becomes(w, k) BY DEF Signalling
<1> HIDE DEF k
<1> QED BY <1>1, <1>2, ReadStep

(* The parent of a nested row. *)
LEMMA WithParentInv ==
  ASSUME IInv, NEW w \in Workers, NEW r \in requests, NEW h, Inserts(h), Arrives(w, r, h),
         NEW owner \in Tables, NEW column, WithParent(w, r, owner, column)
  PROVE  IInv'
<1> DEFINE row == [r.row EXCEPT !.refs = With(column, r.parent, @)]
<1>0. TypeInv /\ IsStore(db) BY DEF IInv, TypeInv
<1>1. UNCHANGED <<db, signals>> /\ Unmoved BY DEF WithParent
<1>2. CASE Select(db, owner, r.parent) = {}
  <2>1. Becomes(w, Idle) BY <1>2 DEF WithParent
  <2> QED BY <1>1, <2>1, EndStep
<1>3. CASE Select(db, owner, r.parent) # {}
  <2>1. Becomes(w, Goto(w, r, "insert", row)) BY <1>3 DEF WithParent
  <2>2. r.parent \in Nat \ {0} BY <1>0, <1>3, Found
  <2>3. IsBody(r.row) /\ r.row.id # 0 BY <1>0, ArrivalIs
  <2>4. IsBody(row) /\ row.id # 0 BY <2>2, <2>3, SetRef
  <2> HIDE DEF row
  <2> QED BY <1>1, <2>1, <2>4, GoStep
<1> QED BY <1>2, <1>3

(* CreateNestedRoute, CreateCertificateSni, CreateNestedTarget, CreateNestedKey. *)
LEMMA NestedInv ==
  ASSUME IInv, NEW w \in Workers, NEW r \in requests,
         \/ CreateNestedRoute(w, r) \/ CreateCertificateSni(w, r)
         \/ CreateNestedTarget(w, r) \/ CreateNestedKey(w, r)
  PROVE  IInv'
<1>1. /\ Inserts("create_nested_route") /\ Inserts("create_certificate_sni")
      /\ Inserts("create_nested_target") /\ Inserts("create_nested_key")
  BY DEF Inserts
<1>2. {"services", "certificates", "upstreams", "key_sets"} \subseteq Tables BY DEF Tables
<1>3. CASE CreateNestedRoute(w, r) BY <1>1, <1>2, <1>3, WithParentInv DEF CreateNestedRoute
<1>4. CASE CreateCertificateSni(w, r) BY <1>1, <1>2, <1>4, WithParentInv DEF CreateCertificateSni
<1>5. CASE CreateNestedTarget(w, r) BY <1>1, <1>2, <1>5, WithParentInv DEF CreateNestedTarget
<1>6. CASE CreateNestedKey(w, r) BY <1>1, <1>2, <1>6, WithParentInv DEF CreateNestedKey
<1> QED BY <1>3, <1>4, <1>5, <1>6

(* A route whose body names its service. *)
LEMMA CreateRouteInv ==
  ASSUME IInv, NEW w \in Workers, NEW r \in requests, CreateRoute(w, r)
  PROVE  IInv'
<1> DEFINE found == SelectByName(db, "services", r.parent)
           s == (CHOOSE x \in found : TRUE).id
           row == [r.row EXCEPT !.refs = With("service", s, @)]
<1>0. TypeInv /\ IsStore(db) BY DEF IInv, TypeInv
<1>1. Arrives(w, r, "create_route") /\ UNCHANGED <<db, signals>> /\ Unmoved BY DEF CreateRoute
<1>2. CASE found = {}
  <2>1. Becomes(w, Idle) BY <1>2 DEF CreateRoute
  <2> QED BY <1>1, <2>1, EndStep
<1>3. CASE found # {}
  <2>1. Becomes(w, Goto(w, r, "insert", row)) BY <1>3 DEF CreateRoute
  <2>2. \A x \in found : x.id \in Nat \ {0} BY <1>0, NamedRow DEF Tables
  <2>3. s \in Nat \ {0} BY <1>3, <2>2
  <2>4. Inserts("create_route") BY DEF Inserts
  <2>5. IsBody(r.row) /\ r.row.id # 0 BY <1>0, <1>1, <2>4, ArrivalIs
  <2> HIDE DEF s
  <2>6. IsBody(row) /\ row.id # 0 BY <2>3, <2>5, SetRef
  <2> HIDE DEF row
  <2> QED BY <1>1, <2>1, <2>6, GoStep
<1> QED BY <1>2, <1>3

(* The INSERT that ends these handlers. *)
LEMMA InsertStepInv ==
  ASSUME IInv, NEW w \in Workers, InsertStep(w)
  PROVE  IInv'
<1> DEFINE k == worker[w]
           row == [k.row EXCEPT !.key = ComputedKey(k.r.t, k.row)]
           res == Insert(db, k.r.t, row)
           se == IF k.r.h \in {"create_certificate_sni", "create_scoped_plugin"} THEN SignalOf(k.r.t) ELSE <<>>
<1>0. TypeInv BY DEF IInv
<1>1. k.pc = "insert" /\ signals' = signals /\ Unmoved BY DEF InsertStep, At
<1>2. k.pc \notin OffPcs BY <1>1 DEF OffPcs
<1>3. IsRow(k.row) /\ k.r.t \in Tables /\ k.r.t \in TableOf(k.r.h) /\ IsStore(db)
  BY <1>0, <1>1, <1>2, TaskIs DEF TypeInv
<1>4. IsRow(row) BY <1>3, SetKey DEF IsRow
<1>5. Finish(w, k.r, res, SignalOf(k.r.t), se) BY DEF InsertStep
<1> HIDE DEF row
<1>6. Statement(db, k.r.t, res) BY <1>3, <1>4, InsertStatement
<1>7. se \in Seq(Cached) BY <1>3, SignalIs
<1> HIDE DEF res, se
<1> QED BY <1>0, <1>1, <1>2, <1>3, <1>5, <1>6, <1>7, TaskIs, TableWrite

(* The plugins of a service, a route or a consumer. *)
LEMMA ScopedPluginInv ==
  ASSUME IInv, NEW w \in Workers, NEW r \in requests, NEW scope \in {"service", "route", "consumer"},
         ScopedPlugin(w, r, scope)
  PROVE  IInv'
<1> DEFINE linked == [r.row EXCEPT !.refs = With(scope, r.parent, @)]
<1>0. TypeInv /\ IsStore(db) BY DEF IInv, TypeInv
<1>1. Owner(scope) \in Tables BY DEF Owner, Tables
<1>2. <<"plugins">> \in Seq(Cached) BY DEF Cached
<1>3. \A x \in Select(db, Owner(scope), r.parent) : r.parent \in Nat \ {0} BY <1>0, <1>1, Found
<1>4. CASE CreateScopedPlugin(w, r, scope)
  <2>1. Inserts("create_scoped_plugin") BY DEF Inserts
  <2> QED BY <1>1, <1>4, <2>1, WithParentInv DEF CreateScopedPlugin
<1>5. CASE UpdateScopedPlugin(w, r, scope)
  <2>1. Arrives(w, r, "update_scoped_plugin") /\ UNCHANGED <<db, signals>> /\ Unmoved
    BY <1>5 DEF UpdateScopedPlugin
  <2>2. CASE Becomes(w, Idle) BY <2>1, <2>2, EndStep
  <2>3. CASE Signalling(w, r, <<"plugins">>) BY <1>0, <1>2, <2>1, <2>3, ArrivalIs, TellStep
  <2>4. CASE Select(db, Owner(scope), r.parent) # {} /\ Becomes(w, Goto(w, r, "merge", linked))
    <3>1. IsBody(linked) BY <1>0, <1>3, <2>1, <2>4, ArrivalIs, SetRef
    <3> HIDE DEF linked
    <3> QED BY <2>1, <2>4, <3>1, GoStep
  <2>5. Becomes(w, Idle) \/ Signalling(w, r, <<"plugins">>)
        \/ (Select(db, Owner(scope), r.parent) # {} /\ Becomes(w, Goto(w, r, "merge", linked)))
    BY <1>5 DEF UpdateScopedPlugin
  <2> QED BY <2>2, <2>3, <2>4, <2>5
<1>6. CASE UpsertScopedPlugin(w, r, scope)
  <2> DEFINE own == [r.row EXCEPT !.id = r.id]
             row == [own EXCEPT !.refs = With(scope, r.parent, @)]
  <2>1. Arrives(w, r, "upsert_scoped_plugin") /\ UNCHANGED <<db, signals>> /\ Unmoved
    BY <1>6 DEF UpsertScopedPlugin
  <2>2. CASE Select(db, Owner(scope), r.parent) = {}
    <3>1. Becomes(w, Idle) BY <1>6, <2>2 DEF UpsertScopedPlugin
    <3> QED BY <2>1, <3>1, EndStep
  <2>3. CASE Select(db, Owner(scope), r.parent) # {}
    <3>1. Becomes(w, Goto(w, r, "upsert", row)) BY <1>6, <2>3 DEF UpsertScopedPlugin
    <3>2. r.id \in Nat \ {0} /\ IsBody(r.row) BY <1>0, <2>1, ArrivalIs
    <3>3. IsBody(own) /\ own.id = r.id BY <3>2, SetId
    <3> HIDE DEF own
    <3>4. IsBody(row) /\ row.id # 0 BY <1>3, <2>3, <3>2, <3>3, SetRef
    <3> HIDE DEF row
    <3> QED BY <2>1, <3>1, <3>4, GoStep
  <2> QED BY <2>2, <2>3
<1>7. CASE DeleteScopedPlugin(w, r, scope)
  <2>1. Arrives(w, r, "delete_scoped_plugin") /\ UNCHANGED <<db, signals>> /\ Unmoved
    BY <1>7 DEF DeleteScopedPlugin
  <2>2. Becomes(w, Idle) \/ Signalling(w, r, <<"plugins">>) BY <1>7 DEF DeleteScopedPlugin
  <2>3. CASE Becomes(w, Idle) BY <2>1, <2>3, EndStep
  <2>4. CASE Signalling(w, r, <<"plugins">>) BY <1>0, <1>2, <2>1, <2>4, ArrivalIs, TellStep
  <2> QED BY <2>2, <2>3, <2>4
<1> QED BY <1>4, <1>5, <1>6, <1>7 DEF ScopedPlugin

(* A request whose id was found by a read. *)
LEMMA SetRequestId ==
  ASSUME NEW r, r = Request(r.h, r.t, r.id, r.row, r.parent, r.scope, r.snis), r.t \in TableOf(r.h), NEW i
  PROVE  LET q == [r EXCEPT !.id = i]
         IN /\ q = Request(q.h, q.t, q.id, q.row, q.parent, q.scope, q.snis) /\ q.t \in TableOf(q.h)
            /\ q.h = r.h /\ q.t = r.t
<1> DEFINE q == Request(r.h, r.t, i, r.row, r.parent, r.scope, r.snis)
<1>1. [Request(r.h, r.t, r.id, r.row, r.parent, r.scope, r.snis) EXCEPT !.id = i] = q BY DEF Request
<1>2. [r EXCEPT !.id = i] = q BY <1>1, Zenon
<1>3. q = Request(q.h, q.t, q.id, q.row, q.parent, q.scope, q.snis) /\ q.h = r.h /\ q.t = r.t
  BY DEF Request
<1> HIDE DEF q
<1> QED BY <1>2, <1>3

(* ... goes on to its next statement. *)
LEMMA GoOtherStep ==
  ASSUME IInv, NEW w \in Workers, NEW r \in requests, NEW h, Arrives(w, r, h), NEW i,
         UNCHANGED <<db, signals>>, Unmoved, NEW pc \in {"merge", "patch_target", "drop_target"},
         Becomes(w, Goto(w, [r EXCEPT !.id = i], pc, r.row))
  PROVE  IInv'
<1> DEFINE q == [r EXCEPT !.id = i]
<1>0. TypeInv BY DEF IInv
<1>1. q = Request(q.h, q.t, q.id, q.row, q.parent, q.scope, q.snis) /\ q.t \in TableOf(q.h)
  BY <1>0, ArrivalIs, SetRequestId
<1> HIDE DEF q
<1>2. mode = "postgres" /\ IsBody(r.row) /\ worker[w].pc # "signal" BY <1>0, ArrivalIs
<1>3. WorkerOk(Goto(w, q, pc, r.row)) BY <1>1, <1>2, GotoOk
<1> QED BY <1>2, <1>3, ReadStep DEF q

(* The service of a route, then an update of it. *)
LEMMA UpdateRouteServiceInv ==
  ASSUME IInv, NEW w \in Workers, NEW r \in requests, UpdateRouteService(w, r)
  PROVE  IInv'
<1>1. Arrives(w, r, "update_route_service") /\ UNCHANGED <<db, signals>> /\ Unmoved
  BY DEF UpdateRouteService
<1>2. CASE Becomes(w, Idle) BY <1>1, <1>2, EndStep
<1>3. CASE \E q \in Select(db, "routes", r.parent) :
             Becomes(w, Goto(w, [r EXCEPT !.id = q.refs["service"]], "merge", r.row))
  BY <1>1, <1>3, GoOtherStep
<1> QED BY <1>2, <1>3 DEF UpdateRouteService

(* A task between two statements that reads and goes on. *)
LEMMA NextStatement ==
  ASSUME IInv, NEW w \in Workers, worker[w].pc \notin OffPcs, UNCHANGED <<db, signals>>, Unmoved,
         NEW pc, NEW row, IsBody(row), row.id # 0, pc \notin OffPcs, pc \notin {"delete", "link"},
         NEW del, Becomes(w, TaskState(pc, worker[w].r, row, del, worker[w].sig))
  PROVE  IInv'
<1> DEFINE k == worker[w]
           new == TaskState(pc, k.r, row, del, k.sig)
<1>0. TypeInv BY DEF IInv
<1>1. mode = "postgres" /\ k.pc # "signal" /\ k.sig \in Seq(Cached) /\ k.r.t \in TableOf(k.r.h)
      /\ k.r = Request(k.r.h, k.r.t, k.r.id, k.r.row, k.r.parent, k.r.scope, k.r.snis)
  BY <1>0, TaskIs
<1>2. pc # "signal" /\ pc \notin {"load_data", "load_names", "load_foreign", "load"} BY DEF OffPcs
<1> HIDE DEF k
<1>3. WorkerOk(new) BY <1>1, <1>2, TaskOk
<1> HIDE DEF new
<1> QED BY <1>1, <1>3, ReadStep DEF k, new

(* The state of a task with another pc and row, and with another pc and names. *)
LEMMA TaskWith ==
  ASSUME NEW k, WorkerOk(k), NEW x, NEW y
  PROVE  /\ [k EXCEPT !.pc = x] = TaskState(x, k.r, k.row, k.del, k.sig)
         /\ [k EXCEPT !.pc = x, !.row = y] = TaskState(x, k.r, y, k.del, k.sig)
         /\ [k EXCEPT !.pc = x, !.del = y] = TaskState(x, k.r, k.row, y, k.sig)
         /\ [k EXCEPT !.del = x] = TaskState(k.pc, k.r, k.row, x, k.sig)
         /\ [k EXCEPT !.r = x] = TaskState(k.pc, x, k.row, k.del, k.sig)
<1> DEFINE same == TaskState(k.pc, k.r, k.row, k.del, k.sig)
           moved == TaskState(x, k.r, k.row, k.del, k.sig)
<1>0. k = same BY Zenon DEF WorkerOk, TaskState
<1>1. [same EXCEPT !.pc = x] = moved BY DEF TaskState
<1>2. [moved EXCEPT !.row = y] = TaskState(x, k.r, y, k.del, k.sig) BY DEF TaskState
<1>3. [moved EXCEPT !.del = y] = TaskState(x, k.r, k.row, y, k.sig) BY DEF TaskState
<1>4. [same EXCEPT !.del = x] = TaskState(k.pc, k.r, k.row, x, k.sig) BY DEF TaskState
<1>5. [same EXCEPT !.r = x] = TaskState(k.pc, x, k.row, k.del, k.sig) BY DEF TaskState
<1> HIDE DEF same, moved
<1>6. [k EXCEPT !.pc = x] = moved BY <1>0, <1>1, Zenon
<1>7. [k EXCEPT !.pc = x, !.row = y] = TaskState(x, k.r, y, k.del, k.sig) BY <1>2, <1>6, Zenon
<1>8. [k EXCEPT !.pc = x, !.del = y] = TaskState(x, k.r, k.row, y, k.sig) BY <1>3, <1>6, Zenon
<1>9. [k EXCEPT !.del = x] = TaskState(k.pc, k.r, k.row, x, k.sig) BY <1>0, <1>4, Zenon
<1>10. [k EXCEPT !.r = x] = TaskState(k.pc, x, k.row, k.del, k.sig) BY <1>0, <1>5, Zenon
<1>11. moved = TaskState(x, k.r, k.row, k.del, k.sig) BY DEF moved
<1> QED BY <1>6, <1>7, <1>8, <1>9, <1>10, <1>11, Zenon

(* The SELECT and merge after a check. *)
LEMMA MergeReadInv ==
  ASSUME IInv, NEW w \in Workers, MergeRead(w)
  PROVE  IInv'
<1> DEFINE k == worker[w]
<1>0. TypeInv /\ IsStore(db) BY DEF IInv, TypeInv
<1>1. k.pc = "merge" /\ UNCHANGED <<db, signals>> /\ Unmoved BY DEF MergeRead, At
<1>2. k.pc \notin OffPcs BY <1>1 DEF OffPcs
<1>3. CASE Signalling(w, k.r, SignalOf(k.r.t))
  <2>1. SignalOf(k.r.t) \in Seq(Cached) BY <1>0, <1>2, TaskIs, SignalIs
  <2> QED BY <1>0, <1>1, <1>2, <1>3, <2>1, TaskIs, TellStep
<1>4. ASSUME NEW old \in Select(db, k.r.t, k.r.id),
             Becomes(w, [k EXCEPT !.pc = "update", !.row = Merged(k.r.t, old, k.row)])
      PROVE  IInv'
  <2> DEFINE row == Merged(k.r.t, old, k.row)
  <2>1. IsBody(old) /\ old.id # 0 BY <1>0, <1>2, <1>4, TaskIs, Found
  <2>2. IsBody(row) /\ row.id # 0 BY <1>0, <1>2, <2>1, TaskIs, MergedBody
  <2>3. WorkerOk(k) BY <1>0 DEF TypeInv
  <2> HIDE DEF row
  <2>4. [k EXCEPT !.pc = "update", !.row = row] = TaskState("update", k.r, row, k.del, k.sig)
    BY <2>3, TaskWith
  <2>5. Becomes(w, [k EXCEPT !.pc = "update", !.row = row]) BY <1>4 DEF row
  <2>6. Becomes(w, TaskState("update", k.r, row, k.del, k.sig)) BY <2>4, <2>5
  <2>7. "update" \notin OffPcs BY DEF OffPcs
  <2> QED BY <1>1, <1>2, <2>2, <2>6, <2>7, NextStatement
<1> QED BY <1>3, <1>4 DEF MergeRead

(* The DELETE that ends a handler of certificates or scoped plugins. *)
LEMMA DeleteStepInv ==
  ASSUME IInv, NEW w \in Workers, DeleteStep(w)
  PROVE  IInv'
<1> DEFINE k == worker[w]
           sig == CASE k.r.h = "delete_scoped_plugin" -> <<>>
                    [] k.r.h = "delete_certificate" -> <<"certificates", "snis">>
                    [] OTHER -> <<"ca_certificates">>
<1>0. TypeInv BY DEF IInv
<1>1. k.pc = "delete" /\ signals' = signals /\ Unmoved BY DEF DeleteStep, At
<1>2. k.pc \notin OffPcs BY <1>1 DEF OffPcs
<1>3. k.r.h \in {"delete_scoped_plugin", "delete_certificate", "delete_ca_certificate"}
  BY <1>0, <1>1 DEF TypeInv, WorkerOk
<1>4. k.r.t \in TableOf(k.r.h) /\ k.r.t \in Tables BY <1>0, <1>2, TaskIs
<1>5. CASE db' = db /\ Becomes(w, Idle) BY <1>0, <1>1, <1>2, <1>5, TaskIs, IdleOk, ReadStep
<1>6. CASE Finish(w, k.r, Delete(db, k.r.t, k.r.id), sig, sig)
  <2>1. sig \in Seq(Cached)
    <3>1. sig = <<>> \/ sig = <<"certificates", "snis">> \/ sig = <<"ca_certificates">> BY <1>3
    <3>2. <<>> \in Seq(Cached) /\ <<"certificates", "snis">> \in Seq(Cached)
          /\ <<"ca_certificates">> \in Seq(Cached)
      BY DEF Cached
    <3> HIDE DEF sig
    <3> QED BY <3>1, <3>2
  <2>2. CASE k.r.h = "delete_scoped_plugin"
    <3>1. k.r.t = "plugins" BY <1>4, <2>2 DEF TableOf
    <3> HIDE DEF sig
    <3> QED BY <1>0, <1>1, <1>2, <1>4, <1>6, <2>1, <3>1, TaskIs, DeleteWrite
  <2>3. CASE k.r.h = "delete_certificate"
    <3>1. k.r.t = "certificates" BY <1>4, <2>3 DEF TableOf
    <3>2. sig = <<"certificates", "snis">> BY <2>3
    <3>3. 1 \in DOMAIN sig /\ sig[1] = k.r.t BY <3>1, <3>2
    <3> HIDE DEF sig
    <3> QED BY <1>0, <1>1, <1>2, <1>4, <1>6, <2>1, <3>3, TaskIs, DeleteWrite
  <2>4. CASE k.r.h = "delete_ca_certificate"
    <3>1. k.r.t = "ca_certificates" BY <1>4, <2>4 DEF TableOf
    <3>2. sig = <<"ca_certificates">> BY <2>4
    <3>3. 1 \in DOMAIN sig /\ sig[1] = k.r.t BY <3>1, <3>2
    <3> HIDE DEF sig
    <3> QED BY <1>0, <1>1, <1>2, <1>4, <1>6, <2>1, <3>3, TaskIs, DeleteWrite
  <2> QED BY <1>3, <2>2, <2>3, <2>4
<1> QED BY <1>5, <1>6 DEF DeleteStep

(* A foreign key of a row. *)
LEMMA RefOk == ASSUME NEW x, IsBody(x), NEW c \in DOMAIN x.refs PROVE x.refs[c] \in Nat \ {0}
  BY DEF IsBody, IsRefs

(* The service of a route is replaced, or created and announced. *)
LEMMA UpsertRouteServiceInv ==
  ASSUME IInv, NEW w \in Workers, NEW r \in requests, UpsertRouteService(w, r)
  PROVE  IInv'
<1> DEFINE res == Insert(db, "services", r.row)
           del == IF res.ok THEN {r.row.id} ELSE {}
           new == [Goto(w, r, "signal", NoRow) EXCEPT !.sig = <<"services">>, !.del = del]
<1>0. TypeInv /\ IsStore(db) /\ {"routes", "services"} \subseteq Tables BY DEF IInv, TypeInv, Tables
<1>1. Arrives(w, r, "upsert_route_service") /\ signals' = signals /\ Unmoved BY DEF UpsertRouteService
<1>2. Inserts("upsert_route_service") BY DEF Inserts
<1>3. IsRow(r.row) /\ IsBody(r.row) /\ r.row.id \in Nat \ {0} BY <1>0, <1>1, <1>2, ArrivalIs DEF IsRow, IsBody
<1>4. CASE Becomes(w, Idle) /\ db' = db BY <1>1, <1>4, EndStep
<1>5. ASSUME NEW q \in Select(db, "routes", r.parent), "service" \in DOMAIN q.refs, db' = db,
             Becomes(w, Goto(w, r, "upsert", [r.row EXCEPT !.id = q.refs["service"]]))
      PROVE  IInv'
  <2> DEFINE row == [r.row EXCEPT !.id = q.refs["service"]]
  <2>1. IsBody(q) BY <1>0, <1>5, Found
  <2>2. q.refs["service"] \in Nat \ {0} BY <1>5, <2>1, RefOk
  <2>3. IsBody(row) /\ row.id # 0 BY <1>3, <2>2, SetId
  <2> HIDE DEF row
  <2> QED BY <1>1, <1>5, <2>3, GoStep DEF row
<1>6. CASE db' = res.d /\ Becomes(w, new)
  <2>1. Statement(db, "services", res) BY <1>0, <1>3, InsertStatement
  <2>2. \A s \in del : s \in Nat \ {0} BY <1>3
  <2> HIDE DEF res, del
  <2>3. new = TaskState("signal", r, NoRow, del, <<"services">>)
    <3> DEFINE one == TaskState("signal", r, NoRow, {}, <<>>)
               two == TaskState("signal", r, NoRow, {}, <<"services">>)
    <3>1. Goto(w, r, "signal", NoRow) = one BY DEF Goto, TaskState
    <3>2. [one EXCEPT !.sig = <<"services">>] = two BY SetTask
    <3>3. [two EXCEPT !.del = del] = TaskState("signal", r, NoRow, del, <<"services">>) BY DEF TaskState
    <3> HIDE DEF one, two
    <3> QED BY <3>1, <3>2, <3>3, Zenon
  <2>4. IsBody(NoRow) BY EmptyRefs, RowIsBody DEF NoRow
  <2>5. <<"services">> \in Seq(Cached) BY DEF Cached
  <2>6. WorkerOk(new) BY <1>0, <1>1, <2>2, <2>3, <2>4, <2>5, ArrivalIs, TaskOk
  <2>7. new.pc = "signal" /\ new.sig = <<"services">> BY <2>3 DEF TaskState
  <2>8. Carries(new, "services") BY <2>7 DEF Carries
  <2> HIDE DEF new
  <2>9. IsStore(db') /\ \A u \in Tables \ {"services"} : db'[u] = db[u] BY <1>6, <2>1 DEF Statement
  <2>10. "services" \in Types("services") /\ "plugins" \in Tables BY DEF Types, Tables
  <2>11. \A t \in Cached \ {"plugins", "certificates", "snis"} :
           db'[t] = db[t] \/ \E u \in Types(t) : Carries(new, u)
    BY <2>8, <2>9, <2>10, CachedTables
  <2>12. db'["plugins"] = db["plugins"] BY <2>9, <2>10
  <2>13. mode = "postgres" /\ worker[w].pc # "signal" BY <1>0, <1>1, ArrivalIs
  <2> QED BY <1>1, <1>6, <2>6, <2>9, <2>11, <2>12, <2>13, WorkerStep DEF Becomes
<1> QED BY <1>4, <1>5, <1>6 DEF UpsertRouteService

(* The route is read and, with its new service, written. *)
LEMMA LinkReadInv ==
  ASSUME IInv, NEW w \in Workers, LinkRead(w)
  PROVE  IInv'
<1> DEFINE k == worker[w]
<1>0. TypeInv /\ IsStore(db) /\ WorkerOk(k) BY DEF IInv, TypeInv
<1>1. k.pc = "link" /\ UNCHANGED <<db, signals>> /\ Unmoved BY DEF LinkRead, At
<1>2. k.pc \notin OffPcs BY <1>1 DEF OffPcs
<1>3. CASE Signalling(w, k.r, <<"routes">>)
  <2>1. <<"routes">> \in Seq(Cached) BY DEF Cached
  <2> QED BY <1>0, <1>1, <1>2, <1>3, <2>1, TaskIs, TellStep
<1>4. ASSUME NEW q \in Select(db, "routes", k.r.parent), NEW s \in k.del,
             Becomes(w, [k EXCEPT !.pc = "link_write", !.row = [q EXCEPT !.refs = With("service", s, @)]])
      PROVE  IInv'
  <2> DEFINE row == [q EXCEPT !.refs = With("service", s, @)]
  <2>1. IsBody(q) /\ q.id # 0 BY <1>0, <1>4, Found DEF Tables
  <2>2. s \in Nat \ {0} BY <1>0, <1>1, <1>4 DEF WorkerOk
  <2>3. IsBody(row) /\ row.id # 0 BY <2>1, <2>2, SetRef
  <2> HIDE DEF row
  <2>4. [k EXCEPT !.pc = "link_write", !.row = row] = TaskState("link_write", k.r, row, k.del, k.sig)
    BY <1>0, TaskWith
  <2>5. Becomes(w, [k EXCEPT !.pc = "link_write", !.row = row]) BY <1>4 DEF row
  <2>6. Becomes(w, TaskState("link_write", k.r, row, k.del, k.sig)) BY <2>4, <2>5
  <2>7. "link_write" \notin OffPcs BY DEF OffPcs
  <2> QED BY <1>1, <1>2, <2>3, <2>6, <2>7, NextStatement
<1> QED BY <1>3, <1>4 DEF LinkRead

(* upsert_route_service writes the route with its new service. *)
LEMMA LinkWriteInv ==
  ASSUME IInv, NEW w \in Workers, LinkWrite(w)
  PROVE  IInv'
<1> DEFINE k == worker[w]
           res == Update(db, "routes", k.row.id, k.row)
<1>0. TypeInv /\ IsStore(db) /\ "routes" \in Tables BY DEF IInv, TypeInv, Tables
<1>1. k.pc = "link_write" /\ signals' = signals /\ Unmoved BY DEF LinkWrite, At
<1>2. k.pc \notin OffPcs BY <1>1 DEF OffPcs
<1>3. Statement(db, "routes", res) BY <1>0, <1>2, TaskIs, UpdateStatement
<1>4. SignalOf("routes") = <<"routes">> /\ <<"routes">> \in Seq(Cached) BY DEF SignalOf, Cached
<1>5. Finish(w, k.r, res, SignalOf("routes"), <<"routes">>) BY <1>4 DEF LinkWrite
<1> HIDE DEF res
<1> QED BY <1>0, <1>1, <1>2, <1>3, <1>4, <1>5, TaskIs, TableWrite

-----------------------------------------------------------------------------
(* Targets of an upstream.                                                    *)

(* A target that was found in its upstream. *)
LEMMA TargetFound ==
  ASSUME IsStore(db), NEW r, NEW x \in TargetIn(r)
  PROVE  IsRow(x) /\ IsBody(x) /\ x.id \in Nat \ {0}
<1>1. x \in db["targets"] /\ "targets" \in Tables BY DEF TargetIn, Tables
<1> QED BY <1>1, StoreTable

(* The handlers that look a target up and go on to change or delete it. *)
LEMMA NestedTargetInv ==
  ASSUME IInv, NEW w \in Workers, NEW r \in requests,
         UpdateNestedTarget(w, r) \/ DeleteNestedTarget(w, r)
  PROVE  IInv'
<1>1. CASE UpdateNestedTarget(w, r)
  <2>1. Arrives(w, r, "update_nested_target") /\ UNCHANGED <<db, signals>> /\ Unmoved
    BY <1>1 DEF UpdateNestedTarget
  <2>2. CASE Becomes(w, Idle) BY <2>1, <2>2, EndStep
  <2>3. CASE \E x \in TargetIn(r) : Becomes(w, Goto(w, [r EXCEPT !.id = x.id], "patch_target", r.row))
    BY <2>1, <2>3, GoOtherStep
  <2> QED BY <1>1, <2>2, <2>3 DEF UpdateNestedTarget
<1>2. CASE DeleteNestedTarget(w, r)
  <2>1. Arrives(w, r, "delete_nested_target") /\ UNCHANGED <<db, signals>> /\ Unmoved
    BY <1>2 DEF DeleteNestedTarget
  <2>2. CASE Becomes(w, Idle) BY <2>1, <2>2, EndStep
  <2>3. CASE \E x \in TargetIn(r) : Becomes(w, Goto(w, [r EXCEPT !.id = x.id], "drop_target", r.row))
    BY <2>1, <2>3, GoOtherStep
  <2> QED BY <1>2, <2>2, <2>3 DEF DeleteNestedTarget
<1> QED BY <1>1, <1>2

(* A row with another value, name and computed column. *)
LEMMA SetColumns ==
  ASSUME NEW r, IsBody(r), NEW v, NEW n, NEW x
  PROVE  IsBody([r EXCEPT !.val = v, !.name = n, !.key = x])
<1> DEFINE same == Row(r.id, r.name, r.key, r.val, r.refs)
           one == Row(r.id, r.name, r.key, v, r.refs)
           two == Row(r.id, n, r.key, v, r.refs)
           three == Row(r.id, n, x, v, r.refs)
<1>1. r = same BY BodyIs
<1>2. [same EXCEPT !.val = v] = one BY DEF Row
<1>3. [one EXCEPT !.name = n] = two BY DEF Row
<1>4. [two EXCEPT !.key = x] = three BY DEF Row
<1>5. IsBody(three) BY BodyIs, RowIsBody
<1> HIDE DEF same, one, two, three
<1>6. [r EXCEPT !.val = v, !.name = n, !.key = x] = three BY <1>1, <1>2, <1>3, <1>4, Zenon
<1> QED BY <1>5, <1>6, Zenon

(* The UPDATE of a target's columns. *)
LEMMA PatchTargetInv ==
  ASSUME IInv, NEW w \in Workers, PatchTarget(w)
  PROVE  IInv'
<1> DEFINE k == worker[w]
           now == Select(db, "targets", k.r.id)
           x == CHOOSE x \in now : TRUE
           v == IF k.row.val = "none" THEN x.val ELSE k.row.val
           n == IF k.row.name = NoName THEN x.name ELSE k.row.name
           c == IF k.row.name = NoName THEN x.key ELSE <<k.r.parent, k.row.name>>
           row == [x EXCEPT !.val = v, !.name = n, !.key = c]
           res == IF now = {} THEN Refused(db, "not_found") ELSE Update(db, "targets", x.id, row)
<1>0. TypeInv /\ IsStore(db) /\ "targets" \in Tables BY DEF IInv, TypeInv, Tables
<1>1. k.pc = "patch_target" /\ signals' = signals /\ Unmoved BY DEF PatchTarget, At
<1>2. k.pc \notin OffPcs BY <1>1 DEF OffPcs
<1>3. SignalOf("targets") = <<"targets">> /\ <<>> \in Seq(Cached) BY DEF SignalOf, Cached
<1>4. Finish(w, k.r, res, <<"targets">>, <<>>) BY DEF PatchTarget
<1>5. Statement(db, "targets", res)
  <2>1. CASE now = {} BY <1>0, <2>1, RefusedStatement
  <2>2. CASE now # {}
    <3>1. x \in now BY <2>2
    <3>2. IsBody(x) BY <1>0, <3>1, Found
    <3> HIDE DEF x, v, n, c
    <3>3. IsBody(row) BY <3>2, SetColumns
    <3> HIDE DEF row
    <3>4. Statement(db, "targets", Update(db, "targets", x.id, row)) BY <1>0, <3>3, UpdateStatement
    <3> QED BY <2>2, <3>4
  <2> QED BY <2>1, <2>2
<1> HIDE DEF res
<1> QED BY <1>0, <1>1, <1>2, <1>3, <1>4, <1>5, TaskIs, TableWrite

(* The DELETE of a target. *)
LEMMA DropTargetInv ==
  ASSUME IInv, NEW w \in Workers, DropTarget(w)
  PROVE  IInv'
<1> DEFINE k == worker[w]
<1>0. TypeInv /\ "targets" \in Tables BY DEF IInv, Tables
<1>1. k.pc = "drop_target" /\ signals' = signals /\ Unmoved BY DEF DropTarget, At
<1>2. k.pc \notin OffPcs BY <1>1 DEF OffPcs
<1>3. <<"targets">> \in Seq(Cached) /\ <<>> \in Seq(Cached) BY DEF Cached
<1>4. 1 \in DOMAIN <<"targets">> /\ <<"targets">>[1] = "targets" OBVIOUS
<1>5. Finish(w, k.r, Delete(db, "targets", k.r.id), <<"targets">>, <<>>) BY DEF DropTarget
<1> QED BY <1>0, <1>1, <1>2, <1>3, <1>4, <1>5, TaskIs, DeleteWrite

(* PUT of a target: found in its upstream, or left to the lookup by address. *)
LEMMA UpsertNestedTargetInv ==
  ASSUME IInv, NEW w \in Workers, NEW r \in requests, UpsertNestedTarget(w, r)
  PROVE  IInv'
<1> DEFINE row == [r.row EXCEPT !.refs = With("upstream", r.parent, @)]
<1>0. TypeInv /\ IsStore(db) /\ "upstreams" \in Tables BY DEF IInv, TypeInv, Tables
<1>1. Arrives(w, r, "upsert_nested_target") /\ UNCHANGED <<db, signals>> /\ Unmoved
  BY DEF UpsertNestedTarget
<1>2. Inserts("upsert_nested_target") BY DEF Inserts
<1>3. IsBody(r.row) /\ r.row.id # 0 BY <1>0, <1>1, <1>2, ArrivalIs
<1>4. CASE Select(db, "upstreams", r.parent) = {}
  <2>1. Becomes(w, Idle) BY <1>4 DEF UpsertNestedTarget
  <2> QED BY <1>1, <2>1, EndStep
<1>5. CASE Select(db, "upstreams", r.parent) # {}
  <2>1. r.parent \in Nat \ {0} BY <1>0, <1>5, Found
  <2>2. IsBody(row) /\ row.id # 0 BY <1>3, <2>1, SetRef
  <2>3. ASSUME NEW x \in TargetIn(r), Becomes(w, Goto(w, r, "upsert", [row EXCEPT !.id = x.id, !.key = x.key]))
        PROVE  IInv'
    <3> HIDE DEF row
    <3> DEFINE own == [row EXCEPT !.id = x.id]
               both == [own EXCEPT !.key = x.key]
    <3>1. x.id \in Nat \ {0} BY <1>0, <2>3, TargetFound
    <3>2. IsBody(own) /\ own.id = x.id BY <2>2, <3>1, SetId
    <3>3. Becomes(w, Goto(w, r, "upsert", both)) BY <2>3
    <3> HIDE DEF own
    <3>4. IsBody(both) /\ both.id # 0 BY <3>1, <3>2, SetKey
    <3> HIDE DEF both
    <3> QED BY <1>1, <3>3, <3>4, GoStep
  <2>4. CASE Becomes(w, Goto(w, r, "upsert_target", [row EXCEPT !.key = <<r.parent, r.row.name>>]))
    <3> HIDE DEF row
    <3> DEFINE new == [row EXCEPT !.key = <<r.parent, r.row.name>>]
    <3>1. IsBody(new) /\ new.id # 0 BY <2>2, SetKey
    <3> HIDE DEF new
    <3> QED BY <1>1, <2>4, <3>1, GoStep DEF new
  <2> QED BY <1>5, <2>3, <2>4 DEF UpsertNestedTarget
<1> QED BY <1>4, <1>5

(* The lookup by address. *)
LEMMA UpsertTargetLookupInv ==
  ASSUME IInv, NEW w \in Workers, UpsertTargetLookup(w)
  PROVE  IInv'
<1> DEFINE k == worker[w]
           i == UpsertId(db, "targets", k.row, TRUE)
           row == [k.row EXCEPT !.id = i]
<1>0. TypeInv /\ IsStore(db) /\ WorkerOk(k) /\ "targets" \in Tables BY DEF IInv, TypeInv, Tables
<1>1. k.pc = "upsert_target" /\ UNCHANGED <<db, signals>> /\ Unmoved BY DEF UpsertTargetLookup, At
<1>2. k.pc \notin OffPcs BY <1>1 DEF OffPcs
<1>3. IsRow(k.row) /\ IsBody(k.row) BY <1>0, <1>1, <1>2, TaskIs
<1>4. i \in Nat \ {0} BY <1>0, <1>3, UpsertIdOk
<1>5. Becomes(w, [k EXCEPT !.pc = "upsert", !.row.id = i]) BY DEF UpsertTargetLookup
<1> HIDE DEF i
<1>6. IsBody(row) /\ row.id # 0 BY <1>3, <1>4, SetId
<1>7. [k EXCEPT !.pc = "upsert", !.row.id = i] = [k EXCEPT !.pc = "upsert", !.row = row]
  BY <1>0 DEF WorkerOk
<1> HIDE DEF row
<1>8. [k EXCEPT !.pc = "upsert", !.row = row] = TaskState("upsert", k.r, row, k.del, k.sig)
  BY <1>0, TaskWith
<1>9. Becomes(w, TaskState("upsert", k.r, row, k.del, k.sig)) BY <1>5, <1>7, <1>8
<1>10. "upsert" \notin OffPcs BY DEF OffPcs
<1> QED BY <1>1, <1>2, <1>6, <1>9, <1>10, NextStatement

(* A status set in memory. *)
LEMMA SetTargetHealthInv ==
  ASSUME IInv, NEW w \in Workers, NEW r \in requests, SetTargetHealth(w, r)
  PROVE  IInv'
<1>0. TypeInv BY DEF IInv
<1>1. Arrives(w, r, "set_target_health") /\ UNCHANGED <<db, signals, worker>> /\ Unmoved
  BY DEF SetTargetHealth
<1>2. WorkerOk(worker[w]) /\ worker = [v \in Workers |-> worker[v]] BY <1>0 DEF TypeInv
<1>3. [worker EXCEPT ![w] = worker[w]] = worker BY <1>2
<1>4. Becomes(w, worker[w]) BY <1>1, <1>3 DEF Becomes
<1> QED BY <1>0, <1>1, <1>2, <1>4, ArrivalIs, ReadStep

-----------------------------------------------------------------------------
(* Certificates and their SNIs.                                               *)

(* A write to the certificates or SNIs, which may go unsignalled. *)
LEMMA SilentWrite ==
  ASSUME IInv, mode = "postgres", NEW w \in Workers, worker[w].pc # "signal",
         NEW t \in {"certificates", "snis"}, NEW res, Statement(db, t, res), db' = res.d,
         NEW k, WorkerOk(k), Becomes(w, k), Unmoved, signals' = signals
  PROVE  IInv'
<1>1. IsStore(db') /\ \A u \in Tables \ {t} : db'[u] = db[u] BY DEF Statement
<1>2. \A u \in Cached \ {"plugins", "certificates", "snis"} : db'[u] = db[u] BY <1>1, CachedTables
<1>3. db'["plugins"] = db["plugins"] BY <1>1 DEF Tables
<1>4. worker' = [worker EXCEPT ![w] = k] BY DEF Becomes
<1> QED BY <1>1, <1>2, <1>3, <1>4, WorkerStep

(* The handlers of certificates up to their first statement. *)
LEMMA CertificateReadInv ==
  ASSUME IInv, NEW w \in Workers, NEW r \in requests,
         \/ CreateCertificate(w, r) \/ UpdateCertificate(w, r) \/ UpsertCertificate(w, r)
         \/ DeleteCaCertificate(w, r)
  PROVE  IInv'
<1>0. TypeInv BY DEF IInv
<1>1. CASE CreateCertificate(w, r)
  <2>1. Arrives(w, r, "create_certificate") /\ UNCHANGED <<db, signals>> /\ Unmoved
    BY <1>1 DEF CreateCertificate
  <2>2. Becomes(w, Idle) \/ Becomes(w, Goto(w, r, "insert_certificate", r.row))
    BY <1>1 DEF CreateCertificate
  <2>3. Inserts("create_certificate") BY DEF Inserts
  <2>4. IsBody(r.row) /\ r.row.id # 0 BY <1>0, <2>1, <2>3, ArrivalIs
  <2> QED BY <2>1, <2>2, <2>4, EndStep, GoStep
<1>2. CASE UpdateCertificate(w, r)
  <2>1. Arrives(w, r, "update_certificate") /\ UNCHANGED <<db, signals>> /\ Unmoved
    BY <1>2 DEF UpdateCertificate
  <2>2. Becomes(w, Idle) \/ Becomes(w, Goto(w, r, "merge_certificate", r.row))
    BY <1>2 DEF UpdateCertificate
  <2>3. IsBody(r.row) BY <1>0, <2>1, ArrivalIs
  <2> QED BY <2>1, <2>2, <2>3, EndStep, GoStep
<1>3. CASE UpsertCertificate(w, r)
  <2> DEFINE row == [r.row EXCEPT !.id = r.id]
  <2>1. Arrives(w, r, "upsert_certificate") /\ UNCHANGED <<db, signals>> /\ Unmoved
    BY <1>3 DEF UpsertCertificate
  <2>2. Becomes(w, Goto(w, r, "upsert", row)) BY <1>3 DEF UpsertCertificate
  <2>3. IsBody(r.row) /\ r.id \in Nat \ {0} BY <1>0, <2>1, ArrivalIs
  <2>4. IsBody(row) /\ row.id # 0 BY <2>3, SetId
  <2> HIDE DEF row
  <2> QED BY <2>1, <2>2, <2>4, GoStep
<1>4. CASE DeleteCaCertificate(w, r)
  <2>1. Arrives(w, r, "delete_ca_certificate") /\ UNCHANGED <<db, signals>> /\ Unmoved
    BY <1>4 DEF DeleteCaCertificate
  <2>2. Becomes(w, Idle) \/ Becomes(w, Goto(w, r, "delete", NoRow)) BY <1>4 DEF DeleteCaCertificate
  <2>3. IsBody(NoRow) BY EmptyRefs, RowIsBody DEF NoRow
  <2>4. r.h = "delete_ca_certificate" BY <2>1 DEF Arrives
  <2> QED BY <2>1, <2>2, <2>3, <2>4, EndStep, GoStep
<1> QED BY <1>1, <1>2, <1>3, <1>4

(* The SNIs of a certificate that goes. *)
LEMMA DeleteCertificateInv ==
  ASSUME IInv, NEW w \in Workers, NEW r \in requests, DeleteCertificate(w, r)
  PROVE  IInv'
<1> DEFINE names == {s.name : s \in {s \in db["snis"] : Refers(s, "certificate", r.id)}}
           new == TaskState("sni_del", r, r.row, names, <<>>)
<1>0. TypeInv BY DEF IInv
<1>1. Arrives(w, r, "delete_certificate") /\ UNCHANGED <<db, signals>> /\ Unmoved
  BY DEF DeleteCertificate
<1>2. Becomes(w, [Goto(w, r, "sni_del", r.row) EXCEPT !.del = names]) BY DEF DeleteCertificate
<1> HIDE DEF names
<1>3. [Goto(w, r, "sni_del", r.row) EXCEPT !.del = names] = new
  <2>1. Goto(w, r, "sni_del", r.row) = TaskState("sni_del", r, r.row, {}, <<>>) BY DEF Goto, TaskState
  <2>2. [TaskState("sni_del", r, r.row, {}, <<>>) EXCEPT !.del = names] = new BY DEF TaskState
  <2> HIDE DEF new
  <2> QED BY <2>1, <2>2, Zenon
<1>4. WorkerOk(new) BY <1>0, <1>1, ArrivalIs, TaskOk
<1> HIDE DEF new
<1>5. Becomes(w, new) BY <1>2, <1>3
<1> QED BY <1>0, <1>1, <1>4, <1>5, ArrivalIs, ReadStep

(* The INSERT of a certificate. *)
LEMMA InsertCertificateInv ==
  ASSUME IInv, NEW w \in Workers, InsertCertificate(w)
  PROVE  IInv'
<1> DEFINE k == worker[w]
           res == Insert(db, "certificates", k.row)
           new == IF res.ok THEN [k EXCEPT !.pc = "sni_add"] ELSE Idle
<1>0. TypeInv /\ IsStore(db) /\ WorkerOk(k) /\ "certificates" \in Tables BY DEF IInv, TypeInv, Tables
<1>1. k.pc = "insert_certificate" /\ signals' = signals /\ Unmoved BY DEF InsertCertificate, At
<1>2. k.pc \notin OffPcs BY <1>1 DEF OffPcs
<1>3. IsRow(k.row) /\ k.row.id # 0 BY <1>0, <1>1, <1>2, TaskIs
<1>4. Statement(db, "certificates", res) BY <1>0, <1>3, InsertStatement
<1>5. db' = res.d /\ Becomes(w, new) BY DEF InsertCertificate
<1>6. [k EXCEPT !.pc = "sni_add"] = TaskState("sni_add", k.r, k.row, k.del, k.sig) BY <1>0, TaskWith
<1>7. WorkerOk(TaskState("sni_add", k.r, k.row, k.del, k.sig)) BY <1>0, <1>2, <1>3, TaskIs, TaskOk
<1> HIDE DEF res
<1>8. WorkerOk(new) BY <1>6, <1>7, IdleOk
<1> HIDE DEF new
<1> QED BY <1>0, <1>1, <1>2, <1>4, <1>5, <1>8, TaskIs, SilentWrite

(* The SELECT and merge of a certificate. *)
LEMMA MergeCertificateInv ==
  ASSUME IInv, NEW w \in Workers, MergeCertificate(w)
  PROVE  IInv'
<1> DEFINE k == worker[w]
<1>0. TypeInv /\ IsStore(db) /\ WorkerOk(k) /\ "certificates" \in Tables BY DEF IInv, TypeInv, Tables
<1>1. k.pc = "merge_certificate" /\ UNCHANGED <<db, signals>> /\ Unmoved BY DEF MergeCertificate, At
<1>2. k.pc \notin OffPcs BY <1>1 DEF OffPcs
<1>3. CASE Becomes(w, Idle) BY <1>0, <1>1, <1>2, <1>3, TaskIs, IdleOk, ReadStep
<1>4. ASSUME NEW old \in Select(db, "certificates", k.r.id),
             Becomes(w, [k EXCEPT !.pc = "update", !.row = Merged("certificates", old, k.row)])
      PROVE  IInv'
  <2> DEFINE row == Merged("certificates", old, k.row)
  <2>1. IsBody(old) /\ old.id # 0 BY <1>0, <1>4, Found
  <2>2. IsBody(row) /\ row.id # 0 BY <1>0, <1>2, <2>1, TaskIs, MergedBody
  <2> HIDE DEF row
  <2>3. [k EXCEPT !.pc = "update", !.row = row] = TaskState("update", k.r, row, k.del, k.sig)
    BY <1>0, TaskWith
  <2>4. Becomes(w, [k EXCEPT !.pc = "update", !.row = row]) BY <1>4 DEF row
  <2>5. Becomes(w, TaskState("update", k.r, row, k.del, k.sig)) BY <2>3, <2>4
  <2>6. "update" \notin OffPcs BY DEF OffPcs
  <2> QED BY <1>1, <1>2, <2>2, <2>5, <2>6, NextStatement
<1> QED BY <1>3, <1>4 DEF MergeCertificate

(* The names of a certificate are read. *)
LEMMA ReadSnisInv ==
  ASSUME IInv, NEW w \in Workers, ReadSnis(w)
  PROVE  IInv'
<1> DEFINE k == worker[w]
           names == {s.name : s \in {s \in db["snis"] : Refers(s, "certificate", k.row.id)}}
<1>0. TypeInv /\ WorkerOk(k) BY DEF IInv, TypeInv
<1>1. k.pc = "snis" /\ UNCHANGED <<db, signals>> /\ Unmoved BY DEF ReadSnis, At
<1>2. k.pc \notin OffPcs BY <1>1 DEF OffPcs
<1>3. Becomes(w, [k EXCEPT !.pc = "sni_del", !.del = names]) BY DEF ReadSnis
<1> HIDE DEF names
<1>4. [k EXCEPT !.pc = "sni_del", !.del = names] = TaskState("sni_del", k.r, k.row, names, k.sig)
  BY <1>0, TaskWith
<1>5. Becomes(w, TaskState("sni_del", k.r, k.row, names, k.sig)) BY <1>3, <1>4
<1>6. IsBody(k.row) /\ k.row.id # 0 BY <1>0, <1>1, <1>2, TaskIs
<1>7. "sni_del" \notin OffPcs BY DEF OffPcs
<1> QED BY <1>1, <1>2, <1>5, <1>6, <1>7, NextStatement

(* Names go one by one. *)
LEMMA DeleteSniInv ==
  ASSUME IInv, NEW w \in Workers, DeleteSni(w)
  PROVE  IInv'
<1> DEFINE k == worker[w]
           pc == IF k.r.h = "delete_certificate" THEN "delete" ELSE "sni_add"
<1>0. TypeInv /\ IsStore(db) /\ WorkerOk(k) /\ "snis" \in Tables BY DEF IInv, TypeInv, Tables
<1>1. k.pc = "sni_del" /\ signals' = signals /\ Unmoved BY DEF DeleteSni, At
<1>2. k.pc \notin OffPcs BY <1>1 DEF OffPcs
<1>3. k.r.h # "delete_certificate" => k.row.id # 0 BY <1>0, <1>1 DEF WorkerOk, HasRow
<1>4. CASE db' = db /\ Becomes(w, [k EXCEPT !.pc = pc])
  <2>1. [k EXCEPT !.pc = pc] = TaskState(pc, k.r, k.row, k.del, k.sig) BY <1>0, TaskWith
  <2>2. WorkerOk(TaskState(pc, k.r, k.row, k.del, k.sig)) BY <1>0, <1>2, <1>3, TaskIs, TaskOk
  <2> HIDE DEF pc
  <2>3. WorkerOk([k EXCEPT !.pc = pc]) BY <2>1, <2>2
  <2> QED BY <1>0, <1>1, <1>2, <1>4, <2>3, TaskIs, ReadStep
<1>5. ASSUME NEW n \in k.del, Becomes(w, [k EXCEPT !.del = @ \ {n}]),
             db' = [db EXCEPT !["snis"] = {s \in @ : s.name # n}]
      PROVE  IInv'
  <2> DEFINE rows == {s \in db["snis"] : s.name # n}
             left == k.del \ {n}
             res == Ok([db EXCEPT !["snis"] = rows])
  <2>1. IsTable(rows) BY <1>0, StoreTable, SubTable
  <2>2. db' = res.d BY <1>5 DEF Ok
  <2> HIDE DEF rows
  <2>3. Statement(db, "snis", res) BY <1>0, <2>1, TableStatement
  <2>4. Becomes(w, [k EXCEPT !.del = left]) BY <1>5
  <2> HIDE DEF res, left
  <2>5. [k EXCEPT !.del = left] = TaskState(k.pc, k.r, k.row, left, k.sig) BY <1>0, TaskWith
  <2>6. WorkerOk(TaskState("sni_del", k.r, k.row, left, k.sig)) BY <1>0, <1>2, <1>3, TaskIs, TaskOk
  <2>7. WorkerOk([k EXCEPT !.del = left]) BY <1>1, <2>5, <2>6
  <2> QED BY <1>0, <1>1, <1>2, <2>2, <2>3, <2>4, <2>7, TaskIs, SilentWrite
<1> QED BY <1>4, <1>5 DEF DeleteSni

(* A table of n rows leaves an id free among the first n + 1. *)
LEMMA FreeId ==
  ASSUME NEW rows, IsTable(rows)
  PROVE  \E i \in 1..(Cardinality(rows) + 1) : i \notin IdsOf(rows)
<1> DEFINE n == Cardinality(rows)
<1>1. n \in Nat /\ IsFiniteSet(IdsOf(rows)) /\ Cardinality(IdsOf(rows)) \in Nat
      /\ Cardinality(IdsOf(rows)) <= n
  BY IdsFinite
<1> HIDE DEF n
<1>2. SUFFICES ASSUME 1..(n + 1) \subseteq IdsOf(rows) PROVE FALSE BY DEF n
<1>3. Cardinality(1..(n + 1)) <= Cardinality(IdsOf(rows)) BY <1>1, <1>2, FS_Subset
<1>4. Cardinality(1..(n + 1)) = n + 1 BY <1>1, FS_Interval
<1> QED BY <1>1, <1>3, <1>4

(* A request with fewer names left. *)
LEMMA SetRequestSnis ==
  ASSUME NEW r, r = Request(r.h, r.t, r.id, r.row, r.parent, r.scope, r.snis), r.t \in TableOf(r.h), NEW s
  PROVE  LET q == [r EXCEPT !.snis = s]
         IN q = Request(q.h, q.t, q.id, q.row, q.parent, q.scope, q.snis) /\ q.t \in TableOf(q.h)
<1> DEFINE q == Request(r.h, r.t, r.id, r.row, r.parent, r.scope, s)
<1>1. [Request(r.h, r.t, r.id, r.row, r.parent, r.scope, r.snis) EXCEPT !.snis = s] = q BY DEF Request
<1>2. [r EXCEPT !.snis = s] = q BY <1>1, Zenon
<1>3. q = Request(q.h, q.t, q.id, q.row, q.parent, q.scope, q.snis) /\ q.h = r.h /\ q.t = r.t
  BY DEF Request
<1> HIDE DEF q
<1> QED BY <1>2, <1>3

(* New names come one by one, and are announced after the last. *)
LEMMA AddSniInv ==
  ASSUME IInv, NEW w \in Workers, AddSni(w)
  PROVE  IInv'
<1> DEFINE k == worker[w]
           free == CHOOSE i \in 1..(Cardinality(db["snis"]) + 1) : i \notin IdsOf(db["snis"])
           row == Row(free, Head(k.r.snis), NoName, "sni", With("certificate", k.row.id, NoRefs))
           res == Insert(db, "snis", row)
           rest == [k.r EXCEPT !.snis = Tail(k.r.snis)]
           new == IF res.ok THEN [k EXCEPT !.r = rest] ELSE Idle
<1>0. TypeInv /\ IsStore(db) /\ WorkerOk(k) /\ "snis" \in Tables BY DEF IInv, TypeInv, Tables
<1>1. k.pc = "sni_add" /\ signals' = signals /\ Unmoved BY DEF AddSni, At
<1>2. k.pc \notin OffPcs BY <1>1 DEF OffPcs
<1>3. IsBody(k.row) /\ k.row.id \in Nat \ {0} BY <1>0, <1>1, <1>2, TaskIs DEF IsBody
<1>4. CASE Signalling(w, k.r, <<"certificates", "snis">>) /\ db' = db
  <2>1. <<"certificates", "snis">> \in Seq(Cached) BY DEF Cached
  <2> QED BY <1>0, <1>1, <1>2, <1>4, <2>1, TaskIs, TellStep
<1>5. CASE db' = res.d /\ Becomes(w, IF res.ok THEN [k EXCEPT !.r.snis = Tail(@)] ELSE Idle)
  <2>1. [k EXCEPT !.r.snis = Tail(@)] = [k EXCEPT !.r = rest] BY <1>0 DEF WorkerOk
  <2>2. Becomes(w, new) BY <1>5, <2>1
  <2>3. IsTable(db["snis"]) BY <1>0, StoreTable
  <2>4. \E i \in 1..(Cardinality(db["snis"]) + 1) : i \notin IdsOf(db["snis"]) BY <2>3, FreeId
  <2>5. free \in 1..(Cardinality(db["snis"]) + 1) BY <2>4
  <2>6. free \in Nat \ {0}
    <3> HIDE DEF free
    <3>1. Cardinality(db["snis"]) \in Nat BY <2>3, IdsFinite
    <3> QED BY <2>5, <3>1
  <2> HIDE DEF free
  <2>7. IsRefs(With("certificate", k.row.id, NoRefs)) BY <1>3, EmptyRefs, OneRef
  <2>8. IsRow(row) BY <2>6, <2>7, RowIsBody DEF IsRow
  <2> HIDE DEF row
  <2>9. Statement(db, "snis", res) BY <1>0, <2>8, InsertStatement
  <2> HIDE DEF res
  <2>10. rest = Request(rest.h, rest.t, rest.id, rest.row, rest.parent, rest.scope, rest.snis)
         /\ rest.t \in TableOf(rest.h)
    BY <1>0, <1>2, TaskIs, SetRequestSnis
  <2> HIDE DEF rest
  <2>11. [k EXCEPT !.r = rest] = TaskState(k.pc, rest, k.row, k.del, k.sig) BY <1>0, TaskWith
  <2>12. WorkerOk(TaskState("sni_add", rest, k.row, k.del, k.sig)) BY <1>0, <1>2, <1>3, <2>10, TaskIs, TaskOk
  <2>13. WorkerOk(new) BY <1>1, <2>11, <2>12, IdleOk
  <2> HIDE DEF new
  <2> QED BY <1>0, <1>1, <1>2, <1>5, <2>2, <2>9, <2>13, TaskIs, SilentWrite
<1> QED BY <1>4, <1>5 DEF AddSni

-----------------------------------------------------------------------------
(* Signals, and the handlers of DB-less mode.                                 *)

(* A step that changes neither a table nor a handler. *)
LEMMA StutterInv ==
  ASSUME IInv, UNCHANGED <<mode, requests, db, worker, signals, refresher, cache, coverage, unread, torn>>
  PROVE  IInv'
<1>1. \A u : Announced(u)' <=> Announced(u) BY DEF Announced
<1>2. HandlerStep BY <1>1 DEF HandlerStep
<1>3. \A v \in Workers : WorkerOk(worker[v])' <=> WorkerOk(worker[v]) BY DEF WorkerOk, HasRow
<1>4. RefresherOk' BY DEF IInv, TypeInv, RefresherOk
<1>5. IsStore(db)' BY DEF IInv, TypeInv
<1>6. TypeInv' BY <1>3, <1>4, <1>5 DEF IInv, TypeInv
<1> QED BY <1>2, <1>6, HandlerCache, HandlerPlugins, HandlerCoverage DEF IInv

(* A task that held no signal goes on, with the tables as they are. *)
LEMMA OffStep ==
  ASSUME IInv, NEW w \in Workers, NEW k, WorkerOk(k), worker[w].pc # "signal", Becomes(w, k),
         OffRest, UNCHANGED <<db, torn>>
  PROVE  IInv'
<1>1. \A v \in Workers : worker'[v] = IF v = w THEN k ELSE worker[v]
  BY DEF IInv, TypeInv, Becomes
<1>2. \A u : Announced(u) => Announced(u)' BY <1>1 DEF Announced, OffRest
<1>3. HandlerStep BY <1>2 DEF HandlerStep, OffRest
<1>4. IsStore(db') /\ signals' \in Seq(Cached) BY DEF IInv, TypeInv, OffRest
<1>5. TypeInv' BY <1>4, TypesKept DEF IInv, OffRest, Becomes
<1> QED BY <1>3, <1>5, HandlerCache, HandlerPlugins, HandlerCoverage DEF IInv

(* The signals of a handler enter the channel. *)
LEMMA SendSignalInv ==
  ASSUME IInv, NEW w \in Workers, SendSignal(w)
  PROVE  IInv'
<1> DEFINE k == worker[w]
           new == CASE k.r.h = "delete_scoped_plugin" -> [k EXCEPT !.pc = "delete"]
                    [] k.r.h = "upsert_route_service" /\ k.del # {} -> [k EXCEPT !.pc = "link"]
                    [] OTHER -> Idle
<1>0. TypeInv /\ WorkerOk(k) BY DEF IInv, TypeInv
<1>1. k.pc = "signal" /\ db' = db /\ Unmoved BY DEF SendSignal, At
<1>2. signals' = signals \o k.sig /\ Becomes(w, new) BY DEF SendSignal
<1>3. signals \in Seq(Cached) /\ k.sig \in Seq(Cached) BY <1>0 DEF TypeInv, WorkerOk
<1>4. WorkerOk(new)
  <2>1. [k EXCEPT !.pc = "delete"] = TaskState("delete", k.r, k.row, k.del, k.sig) BY <1>0, TaskWith
  <2>2. [k EXCEPT !.pc = "link"] = TaskState("link", k.r, k.row, k.del, k.sig) BY <1>0, TaskWith
  <2>3. mode \in {"postgres", "off"} /\ (mode = "off" => k.r.h = "post_config")
    BY <1>0, <1>1 DEF TypeInv, WorkerOk
  <2>4. /\ k.r = Request(k.r.h, k.r.t, k.r.id, k.r.row, k.r.parent, k.r.scope, k.r.snis)
        /\ IsBody(k.row)
    BY <1>0, Zenon DEF WorkerOk
  <2>5. k.r.t \in TableOf(k.r.h) /\ \A s \in k.del : s \in Nat \ {0}
    BY <1>0, <1>1 DEF WorkerOk
  <2>6. CASE k.r.h = "delete_scoped_plugin"
    <3>1. mode = "postgres" BY <2>3, <2>6
    <3>2. new = TaskState("delete", k.r, k.row, k.del, k.sig) BY <2>1, <2>6
    <3>3. WorkerOk(TaskState("delete", k.r, k.row, k.del, k.sig)) BY <1>3, <2>4, <2>5, <2>6, <3>1, TaskOk
    <3> QED BY <3>2, <3>3, Zenon
  <2>7. CASE k.r.h = "upsert_route_service" /\ k.del # {}
    <3>1. mode = "postgres" BY <2>3, <2>7
    <3>2. new = TaskState("link", k.r, k.row, k.del, k.sig) BY <2>2, <2>7
    <3>3. WorkerOk(TaskState("link", k.r, k.row, k.del, k.sig)) BY <1>3, <2>4, <2>5, <3>1, TaskOk
    <3> QED BY <3>2, <3>3, Zenon
  <2>8. CASE ~(k.r.h = "delete_scoped_plugin") /\ ~(k.r.h = "upsert_route_service" /\ k.del # {})
    BY <2>8, IdleOk
  <2> QED BY <2>6, <2>7, <2>8
<1> HIDE DEF new
<1>5. \A v \in Workers : worker'[v] = IF v = w THEN new ELSE worker[v]
  BY <1>0, <1>2 DEF TypeInv, Becomes
<1>6. ASSUME NEW u, Announced(u) PROVE Announced(u)'
  <2>1. CASE \E i \in DOMAIN signals : signals[i] = u
    <3>1. PICK i \in DOMAIN signals : signals[i] = u BY <2>1
    <3>2. i \in DOMAIN signals' /\ signals'[i] = u BY <1>2, <1>3, <3>1
    <3> QED BY <3>2 DEF Announced
  <2>2. ASSUME NEW i \in DOMAIN k.sig, k.sig[i] = u PROVE Announced(u)'
    <3> DEFINE j == Len(signals) + i
               q == k.sig
    <3>1. q \in Seq(Cached) /\ i \in DOMAIN q /\ q[i] = u /\ signals' = signals \o q BY <1>2, <1>3, <2>2
    <3> HIDE DEF q
    <3>2. j \in DOMAIN (signals \o q) /\ (signals \o q)[j] = q[i]
      <4>1. i \in 1..Len(q) /\ Len(q) \in Nat /\ Len(signals) \in Nat BY <1>3, <3>1
      <4>2. Len(signals \o q) = Len(signals) + Len(q) BY <1>3, <3>1
      <4>3. j \in 1..Len(signals \o q) /\ j > Len(signals) /\ j - Len(signals) = i BY <4>1, <4>2
      <4> QED BY <1>3, <3>1, <4>1, <4>2, <4>3
    <3>3. j \in DOMAIN signals' /\ signals'[j] = u BY <3>1, <3>2
    <3> HIDE DEF j
    <3> QED BY <3>3 DEF Announced
  <2>3. ASSUME NEW v \in Workers, v # w, worker[v].pc = "signal",
               \E i \in DOMAIN worker[v].sig : worker[v].sig[i] = u
        PROVE  Announced(u)'
    <3>1. worker'[v] = worker[v] BY <1>5, <2>3
    <3> QED BY <2>3, <3>1 DEF Announced
  <2> QED BY <1>6, <2>1, <2>2, <2>3 DEF Announced
<1>7. HandlerStep BY <1>1, <1>6 DEF HandlerStep, Unmoved
<1>8. signals' \in Seq(Cached) /\ IsStore(db') BY <1>0, <1>1, <1>2, <1>3 DEF TypeInv
<1>9. TypeInv' BY <1>0, <1>1, <1>2, <1>4, <1>8, TypesKept DEF Unmoved, Becomes
<1> QED BY <1>7, <1>9, HandlerCache, HandlerPlugins, HandlerCoverage DEF IInv

(* The state of a task that reloads or reads the store. *)
LEMMA OffTaskOk ==
  ASSUME NEW pc \in {"load_data", "load_names", "load_foreign", "load", "signal", "lookup"},
         NEW r, NEW row, NEW del, NEW sig \in Seq(Cached), IsBody(row),
         r = Request(r.h, r.t, r.id, r.row, r.parent, r.scope, r.snis), r.t \in TableOf(r.h),
         pc # "lookup" => r.h = "post_config" /\ del = {}
  PROVE  WorkerOk(TaskState(pc, r, row, del, sig))
<1> DEFINE k == TaskState(pc, r, row, del, sig)
<1>1. k.pc = pc /\ k.r = r /\ k.row = row /\ k.del = del /\ k.sig = sig BY DEF TaskState
<1>2. k = [pc |-> k.pc, r |-> k.r, row |-> k.row, del |-> k.del, sig |-> k.sig] BY DEF TaskState
<1> HIDE DEF k
<1>3. WorkerOk(k) BY <1>1, <1>2 DEF WorkerOk, HasRow, OffPcs
<1> QED BY <1>3 DEF k

(* POST /config is taken up. *)
LEMMA PostConfigInv ==
  ASSUME IInv, NEW w \in Workers, NEW r \in requests, PostConfig(w, r)
  PROVE  IInv'
<1> DEFINE new == TaskState("load_data", r, r.row, {}, <<>>)
<1>0. TypeInv BY DEF IInv
<1>1. worker[w].pc # "signal" /\ r.h = "post_config" /\ UNCHANGED <<db, torn>> /\ OffRest
  BY DEF PostConfig, ArrivesOff
<1>2. Becomes(w, new) BY DEF PostConfig, Goto, TaskState
<1>3. <<>> \in Seq(Cached) OBVIOUS
<1>4. WorkerOk(new) BY <1>0, <1>1, <1>3, RequestIs, OffTaskOk
<1> HIDE DEF new
<1> QED BY <1>1, <1>2, <1>4, OffStep

(* A write lock is taken. *)
LEMMA LoadLockInv ==
  ASSUME IInv, NEW w \in Workers, NEW pc, NEW l, NEW next, LoadLock(w, pc, l, next),
         pc \in {"load_data", "load_names", "load_foreign"}, next \in {"load_names", "load_foreign", "load"}
  PROVE  IInv'
<1> DEFINE k == worker[w]
<1>0. WorkerOk(k) BY DEF IInv, TypeInv
<1>1. k.pc = pc /\ UNCHANGED <<db, torn>> /\ OffRest /\ Becomes(w, [k EXCEPT !.pc = next])
  BY DEF LoadLock, At
<1>2. [k EXCEPT !.pc = next] = TaskState(next, k.r, k.row, k.del, k.sig) BY <1>0, TaskWith
<1>3. /\ k.r = Request(k.r.h, k.r.t, k.r.id, k.r.row, k.r.parent, k.r.scope, k.r.snis)
      /\ IsBody(k.row)
  BY <1>0, Zenon DEF WorkerOk
<1>4. k.r.t \in TableOf(k.r.h) /\ k.sig \in Seq(Cached) /\ k.r.h = "post_config" /\ k.del = {}
  BY <1>0, <1>1 DEF WorkerOk
<1>5. WorkerOk(TaskState(next, k.r, k.row, k.del, k.sig)) BY <1>3, <1>4, OffTaskOk
<1>6. Becomes(w, TaskState(next, k.r, k.row, k.del, k.sig)) BY <1>1, <1>2
<1>7. k.pc # "signal" BY <1>1
<1> QED BY <1>1, <1>5, <1>6, <1>7, OffStep

(* The load: every entity type is announced, or the store is torn. *)
LEMMA LoadInv ==
  ASSUME IInv, NEW w \in Workers, Load(w)
  PROVE  IInv'
<1> DEFINE k == worker[w]
           whole == k.row.val # "malformed"
           sig == <<"services", "routes", "plugins", "upstreams", "certificates", "ca_certificates">>
           store == [t \in Tables |-> IF whole \/ t = "services" THEN Document[t] ELSE {}]
           new == IF whole THEN [k EXCEPT !.pc = "signal", !.sig = sig] ELSE Idle
<1>0. TypeInv /\ WorkerOk(k) BY DEF IInv, TypeInv
<1>1. k.pc = "load" /\ db' = store /\ torn' = ~whole /\ OffRest /\ Becomes(w, new)
  BY DEF Load, At
<1>2. IsStore(store)
  <2>1. \A t \in Tables : IsTable(Document[t]) BY StoreAssumption DEF IsStore
  <2>2. IsTable({}) BY FS_EmptySet DEF IsTable
  <2>3. store = [t \in Tables |-> store[t]] OBVIOUS
  <2>4. \A t \in Tables : store[t] = Document[t] \/ store[t] = {} OBVIOUS
  <2> HIDE DEF store
  <2>5. \A t \in Tables : IsTable(store[t])
    <3>1. SUFFICES ASSUME NEW t \in Tables PROVE IsTable(store[t]) OBVIOUS
    <3> QED BY <2>1, <2>2, <2>4
  <2> QED BY <2>3, <2>5 DEF IsStore
<1> HIDE DEF store
<1>3. sig \in Seq(Cached) BY DEF Cached
<1>4. \A t \in Cached : \E i \in DOMAIN sig : sig[i] \in Types(t)
  <2>1. /\ 1 \in DOMAIN sig /\ 2 \in DOMAIN sig /\ 3 \in DOMAIN sig /\ 4 \in DOMAIN sig
        /\ 5 \in DOMAIN sig /\ 6 \in DOMAIN sig
        /\ sig[1] = "services" /\ sig[2] = "routes" /\ sig[3] = "plugins" /\ sig[4] = "upstreams"
        /\ sig[5] = "certificates" /\ sig[6] = "ca_certificates"
    OBVIOUS
  <2> HIDE DEF sig
  <2>2. \A t \in Cached : \E i \in {1, 2, 3, 4, 5, 6} : sig[i] \in Types(t)
    BY <2>1 DEF Cached, Types
  <2> QED BY <2>1, <2>2
<1> HIDE DEF sig
<1>5. whole => new = TaskState("signal", k.r, k.row, k.del, sig)
  <2> DEFINE told == TaskState("signal", k.r, k.row, k.del, k.sig)
  <2>1. [k EXCEPT !.pc = "signal"] = told BY <1>0, TaskWith
  <2>2. [told EXCEPT !.sig = sig] = TaskState("signal", k.r, k.row, k.del, sig) BY DEF TaskState
  <2>3. [k EXCEPT !.pc = "signal", !.sig = sig] = TaskState("signal", k.r, k.row, k.del, sig)
    <3> HIDE DEF told, k
    <3> QED BY <2>1, <2>2, Zenon
  <2> QED BY <2>3
<1>6. WorkerOk(new)
  <2>1. /\ k.r = Request(k.r.h, k.r.t, k.r.id, k.r.row, k.r.parent, k.r.scope, k.r.snis)
        /\ IsBody(k.row)
    BY <1>0, Zenon DEF WorkerOk
  <2>2. k.r.t \in TableOf(k.r.h) /\ k.r.h = "post_config" /\ k.del = {}
    BY <1>0, <1>1 DEF WorkerOk
  <2>3. WorkerOk(TaskState("signal", k.r, k.row, k.del, sig)) BY <1>3, <2>1, <2>2, OffTaskOk
  <2> QED BY <1>5, <2>3, IdleOk
<1>7. whole => new.pc = "signal" /\ new.sig = sig BY <1>5 DEF TaskState
<1> HIDE DEF new
<1>8. \A v \in Workers : worker'[v] = IF v = w THEN new ELSE worker[v]
  BY <1>0, <1>1 DEF TypeInv, Becomes
<1>9. \A u : Announced(u) => Announced(u)'
  BY <1>1, <1>8 DEF Announced, OffRest
<1>10. whole => \A t \in Cached : \E u \in Types(t) : Announced(u)'
  <2>1. SUFFICES ASSUME whole, NEW t \in Cached PROVE \E u \in Types(t) : Announced(u)' OBVIOUS
  <2>2. PICK i \in DOMAIN sig : sig[i] \in Types(t) BY <1>4
  <2>3. worker'[w].pc = "signal" /\ worker'[w].sig = sig BY <1>7, <1>8, <2>1
  <2>4. Announced(sig[i])' BY <2>2, <2>3 DEF Announced
  <2> QED BY <2>2, <2>4
<1>11. HandlerStep BY <1>1, <1>9, <1>10 DEF HandlerStep, OffRest
<1>12. signals' \in Seq(Cached) /\ IsStore(db') BY <1>0, <1>1, <1>2 DEF TypeInv, OffRest
<1>13. TypeInv' BY <1>0, <1>1, <1>6, <1>12, TypesKept DEF OffRest, Becomes
<1> QED BY <1>11, <1>13, HandlerCache, HandlerPlugins, HandlerCoverage DEF IInv

(* The readers of the store. *)
LEMMA LookupInv ==
  ASSUME IInv, NEW w \in Workers,
         \/ LookupData(w)
         \/ \E r \in requests : \E l \in {"names", "foreign"} : LookupIndex(w, r, l)
  PROVE  IInv'
<1>0. TypeInv BY DEF IInv
<1>1. CASE LookupData(w)
  <2>1. worker[w].pc # "signal" /\ Becomes(w, Idle) /\ UNCHANGED <<db, torn>> /\ OffRest
    BY <1>1 DEF LookupData, At
  <2> QED BY <2>1, IdleOk, OffStep
<1>2. ASSUME NEW r \in requests, NEW l \in {"names", "foreign"}, LookupIndex(w, r, l) PROVE IInv'
  <2> DEFINE hits == {x \in index[r.t] : IF l = "names" THEN x.name = r.row.name ELSE x.refs = r.row.refs}
             new == [Goto(w, r, "lookup", r.row) EXCEPT !.del = IdsOf(hits)]
  <2>1. worker[w].pc # "signal" /\ UNCHANGED <<db, torn>> /\ OffRest BY <1>2 DEF LookupIndex, ArrivesOff
  <2>2. Becomes(w, Idle) \/ Becomes(w, new) BY <1>2 DEF LookupIndex
  <2> HIDE DEF hits
  <2>3. new = TaskState("lookup", r, r.row, IdsOf(hits), <<>>)
    <3>1. Goto(w, r, "lookup", r.row) = TaskState("lookup", r, r.row, {}, <<>>) BY DEF Goto, TaskState
    <3>2. [TaskState("lookup", r, r.row, {}, <<>>) EXCEPT !.del = IdsOf(hits)]
            = TaskState("lookup", r, r.row, IdsOf(hits), <<>>)
      BY DEF TaskState
    <3> QED BY <3>1, <3>2, Zenon
  <2>4. <<>> \in Seq(Cached) OBVIOUS
  <2>5. WorkerOk(new)
    <3>1. IsBody(r.row) /\ r.t \in TableOf(r.h)
          /\ r = Request(r.h, r.t, r.id, r.row, r.parent, r.scope, r.snis)
      BY <1>0, RequestIs
    <3>2. WorkerOk(TaskState("lookup", r, r.row, IdsOf(hits), <<>>)) BY <2>4, <3>1, OffTaskOk
    <3> HIDE DEF new
    <3> QED BY <2>3, <3>2, Zenon
  <2> HIDE DEF new
  <2> QED BY <2>1, <2>2, <2>5, IdleOk, OffStep
<1> QED BY <1>1, <1>2

-----------------------------------------------------------------------------
(* The refresher.                                                             *)

RefreshState(pc, pending, type, read) == [pc |-> pc, pending |-> pending, type |-> type, read |-> read]

(* The fields of a state of the refresher. *)
LEMMA RefreshFields ==
  ASSUME NEW pc, NEW pending, NEW type, NEW read
  PROVE  LET x == RefreshState(pc, pending, type, read)
         IN x.pc = pc /\ x.pending = pending /\ x.type = type /\ x.read = read
  BY DEF RefreshState

(* Where each of its steps leads. *)
LEMMA RefreshMoves ==
  ASSUME RefresherOk, NEW x, NEW p, NEW t, NEW r
  PROVE  LET n == refresher
         IN /\ [n EXCEPT !.pc = x] = RefreshState(x, n.pending, n.type, n.read)
            /\ [n EXCEPT !.pending = p] = RefreshState(n.pc, p, n.type, n.read)
            /\ [n EXCEPT !.read = r] = RefreshState(n.pc, n.pending, n.type, r)
            /\ [n EXCEPT !.pc = x, !.pending = p] = RefreshState(x, p, n.type, n.read)
            /\ [n EXCEPT !.type = t, !.read = r] = RefreshState(n.pc, n.pending, t, r)
<1>1. ASSUME NEW a, NEW b, NEW c, NEW d
      PROVE  LET n == RefreshState(a, b, c, d)
             IN /\ [n EXCEPT !.pc = x] = RefreshState(x, b, c, d)
                /\ [n EXCEPT !.pending = p] = RefreshState(a, p, c, d)
                /\ [n EXCEPT !.type = t] = RefreshState(a, b, t, d)
                /\ [n EXCEPT !.read = r] = RefreshState(a, b, c, r)
  BY DEF RefreshState
<1> DEFINE n == refresher
           same == RefreshState(n.pc, n.pending, n.type, n.read)
<1>2. refresher = same BY Zenon DEF RefresherOk, RefreshState
<1>3. [same EXCEPT !.pc = x] = RefreshState(x, n.pending, n.type, n.read) BY <1>1
<1>4. [same EXCEPT !.pending = p] = RefreshState(n.pc, p, n.type, n.read) BY <1>1
<1>5. [same EXCEPT !.type = t] = RefreshState(n.pc, n.pending, t, n.read) BY <1>1
<1>6. [same EXCEPT !.read = r] = RefreshState(n.pc, n.pending, n.type, r) BY <1>1
<1>7. [RefreshState(x, n.pending, n.type, n.read) EXCEPT !.pending = p] = RefreshState(x, p, n.type, n.read)
  BY <1>1
<1>8. [RefreshState(n.pc, n.pending, t, n.read) EXCEPT !.read = r] = RefreshState(n.pc, n.pending, t, r)
  BY <1>1
<1> HIDE DEF same
<1>13. [n EXCEPT !.pc = x] = RefreshState(x, n.pending, n.type, n.read) BY <1>2, <1>3, Zenon
<1>14. [n EXCEPT !.pending = p] = RefreshState(n.pc, p, n.type, n.read) BY <1>2, <1>4, Zenon
<1>15. [n EXCEPT !.read = r] = RefreshState(n.pc, n.pending, n.type, r) BY <1>2, <1>6, Zenon
<1>16. [n EXCEPT !.pc = x, !.pending = p] = RefreshState(x, p, n.type, n.read) BY <1>13, <1>7, Zenon
<1>17. [n EXCEPT !.type = t, !.read = r] = RefreshState(n.pc, n.pending, t, r) BY <1>2, <1>5, <1>8, Zenon
<1> QED BY <1>13, <1>14, <1>15, <1>16, <1>17, Zenon

(* Types are kept when the refresher goes on in a state of its own. *)
LEMMA RefreshTypes ==
  ASSUME TypeInv, Rest, RefresherOk', signals' \in Seq(Cached), cache' = [t \in Cached |-> cache'[t]]
  PROVE  TypeInv'
<1>1. UNCHANGED <<mode, requests, db, worker>> BY DEF Rest
<1>2. \A v \in Workers : WorkerOk(worker[v])' <=> WorkerOk(worker[v]) BY <1>1 DEF WorkerOk, HasRow
<1>3. IsStore(db)' BY <1>1 DEF TypeInv
<1> QED BY <1>1, <1>2, <1>3 DEF TypeInv

(* Entity types, and the tables they are refreshed from. *)
LEMMA TypesOf ==
  ASSUME NEW t \in Cached
  PROVE  /\ Types(t) \subseteq Cached /\ "none" \notin Cached /\ "coverage" \notin Cached
         /\ \A u \in Cached : u \in Types(t) <=> t \in Types(u)
         /\ t \in Types(t)
         /\ \/ t \in CoverageTables \cup {"ca_certificates"} /\ Types(t) = {t} /\ Sources(t) = <<t>>
            \/ /\ t \in {"upstreams", "targets"} /\ Types(t) = {"upstreams", "targets"}
               /\ Sources(t) = <<"upstreams", "targets">> /\ FirstOf(t) = "upstreams"
            \/ /\ t \in {"certificates", "snis"} /\ Types(t) = {"certificates", "snis"}
               /\ Sources(t) = <<"certificates", "snis">> /\ FirstOf(t) = "certificates"
  BY DEF Types, Cached, CoverageTables, Sources, FirstOf

(* Steps that move signals or wait: what is due stays due. *)
LEMMA QuietStep ==
  ASSUME IInv, Rest, UNCHANGED <<cache, coverage, unread>>, RefresherOk', signals' \in Seq(Cached),
         refresher.type = "none", refresher'.type = "none",
         refresher.pc # "coverage", refresher'.pc # "coverage", \A u \in Cached : Due(u) => Due(u)'
  PROVE  IInv'
<1>1. TypeInv' BY RefreshTypes DEF IInv, TypeInv
<1>2. UNCHANGED <<mode, db, torn>> BY DEF Rest
<1>3. Claimed' = Claimed /\ Claimed \subseteq Cached BY <1>2, Claims DEF Claimed, IInv, TypeInv
<1>4. \A t \in Cached : ~Reading(t) /\ ~Reading(t)'
  BY TypesOf DEF Reading
<1>5. CacheInv'
  <2>1. SUFFICES ASSUME NEW t \in Claimed PROVE TableServed(t)' BY <1>3 DEF CacheInv
  <2>2. TableServed(t) /\ t \in Cached BY <1>3 DEF IInv, CacheInv
  <2>3. TableDue(t) => TableDue(t)' BY <2>2, TypesOf DEF TableDue
  <2>4. Shown(db[t])' = Shown(db[t]) BY <1>2 DEF Shown, FirstPage
  <2> QED BY <1>2, <1>4, <2>2, <2>3, <2>4 DEF TableServed
<1>6. \A P : PluginsKnown(P) => PluginsKnown(P)' BY DEF PluginsKnown, Shown, FirstPage
<1>7. PluginsInv' BY <1>2, <1>6 DEF IInv, PluginsInv, Cached
<1>8. CoverageInv'
  <2>1. CoverageTables \subseteq Cached BY DEF CoverageTables, Cached
  <2>2. CoverageSettled => CoverageSettled'
    <3>1. CASE "coverage" \in unread BY <3>1 DEF CoverageSettled
    <3>2. ASSUME NEW P, coverage = BuildCoverage(db["routes"], db["services"], P),
                 db["plugins"] \subseteq P, PluginsKnown(P)
          PROVE  CoverageSettled'
      BY <1>2, <1>6, <3>2 DEF CoverageSettled
    <3> QED BY <3>1, <3>2 DEF CoverageSettled
  <2> QED BY <1>2, <2>1, <2>2 DEF IInv, CoverageInv
<1> QED BY <1>1, <1>5, <1>7, <1>8 DEF IInv

(* A signal that is received is collected. *)
LEMMA Received ==
  ASSUME TypeInv, Rest, signals # <<>>, signals' = Tail(signals), refresher'.type = "none",
         refresher.pending \cup {Head(signals)} \subseteq refresher'.pending
  PROVE  /\ signals' \in Seq(Cached) /\ Head(signals) \in Cached
         /\ \A u \in Cached : Due(u) => Due(u)'
<1> DEFINE q == signals
<1>1. q \in Seq(Cached) /\ q # <<>> BY DEF TypeInv
<1>2. Tail(q) \in Seq(Cached) /\ Head(q) \in Cached /\ Head(q) = q[1] BY <1>1
<1>3. ASSUME NEW u \in Cached, Due(u) PROVE Due(u)'
  <2>0. u # "none" BY DEF Cached
  <2>1. CASE u \in refresher.pending BY <2>0, <2>1 DEF Due
  <2>2. ASSUME NEW i \in DOMAIN q, q[i] = u PROVE Due(u)'
    <3>1. CASE i = 1 BY <1>2, <2>0, <2>2, <3>1 DEF Due
    <3>2. CASE i # 1
      <4>1. i \in 2..Len(q) /\ Len(q) \in Nat BY <1>1, <3>2
      <4>2. Len(Tail(q)) = Len(q) - 1 /\ i - 1 \in 1..(Len(q) - 1) BY <1>1, <4>1
      <4>3. (i - 1) \in DOMAIN Tail(q) /\ Tail(q)[i - 1] = q[i] BY <1>1, <1>2, <4>1, <4>2
      <4> HIDE DEF q
      <4>4. Announced(u)' BY <2>2, <4>3 DEF Announced, q
      <4> QED BY <4>4 DEF Due
    <3> QED BY <3>1, <3>2
  <2>3. ASSUME NEW v \in Workers, worker[v].pc = "signal", \E i \in DOMAIN worker[v].sig : worker[v].sig[i] = u
        PROVE  Due(u)'
    <3>1. worker' = worker BY DEF Rest
    <3>2. Announced(u)' BY <2>3, <3>1 DEF Announced
    <3> QED BY <3>2 DEF Due
  <2> QED BY <1>3, <2>1, <2>2, <2>3 DEF Due, Announced
<1> QED BY <1>2, <1>3

(* The first signal opens a window. *)
LEMMA FirstSignalInv ==
  ASSUME IInv, FirstSignal
  PROVE  IInv'
<1> DEFINE new == RefreshState("collect", {Head(signals)}, refresher.type, refresher.read)
<1>0. TypeInv /\ RefresherOk BY DEF IInv, TypeInv
<1>1. refresher.pc = "wait" /\ signals # <<>> /\ signals' = Tail(signals) /\ Rest
      /\ UNCHANGED <<cache, coverage, unread>>
  BY DEF FirstSignal
<1>2. refresher' = [refresher EXCEPT !.pc = "collect", !.pending = {Head(signals)}] BY DEF FirstSignal
<1>3. refresher' = new BY <1>0, <1>2, RefreshMoves
<1>4. refresher.pending = {} /\ refresher.type = "none" /\ refresher.read = <<>>
  BY <1>0, <1>1 DEF RefresherOk
<1>5. /\ refresher'.pc = "collect" /\ refresher'.pending = {Head(signals)} /\ refresher'.type = "none"
      /\ refresher'.read = <<>>
  BY <1>3, <1>4, RefreshFields
<1>6. signals' \in Seq(Cached) /\ Head(signals) \in Cached /\ \A u \in Cached : Due(u) => Due(u)'
  BY <1>0, <1>1, <1>4, <1>5, Received
<1>7. RefresherOk' BY <1>3, <1>4, <1>5, <1>6 DEF RefresherOk, RefreshState
<1> QED BY <1>1, <1>4, <1>5, <1>6, <1>7, QuietStep

(* Others join it. *)
LEMMA CollectSignalInv ==
  ASSUME IInv, CollectSignal
  PROVE  IInv'
<1> DEFINE pending == refresher.pending \cup {Head(signals)}
           new == RefreshState(refresher.pc, pending, refresher.type, refresher.read)
<1>0. TypeInv /\ RefresherOk BY DEF IInv, TypeInv
<1>1. refresher.pc = "collect" /\ signals # <<>> /\ signals' = Tail(signals) /\ Rest
      /\ UNCHANGED <<cache, coverage, unread>>
  BY DEF CollectSignal
<1>2. refresher' = [refresher EXCEPT !.pending = pending] BY DEF CollectSignal
<1>a. refresher.pending \subseteq Cached BY <1>0 DEF RefresherOk
<1>b. refresher.pending \cup {Head(signals)} \subseteq pending OBVIOUS
<1>c. Head(signals) \in Cached => pending \subseteq Cached BY <1>a
<1> HIDE DEF pending
<1>3. refresher' = new BY <1>0, <1>2, RefreshMoves
<1>4. refresher.type = "none" /\ refresher.read = <<>> BY <1>0, <1>1 DEF RefresherOk
<1>5. /\ refresher'.pc = "collect" /\ refresher'.pending = pending /\ refresher'.type = "none"
      /\ refresher'.read = <<>>
  BY <1>1, <1>3, <1>4, RefreshFields
<1>6. signals' \in Seq(Cached) /\ Head(signals) \in Cached /\ \A u \in Cached : Due(u) => Due(u)'
  BY <1>0, <1>1, <1>5, <1>b, Received
<1>7. RefresherOk' BY <1>1, <1>3, <1>4, <1>5, <1>6, <1>c DEF RefresherOk, RefreshState
<1> QED BY <1>1, <1>4, <1>5, <1>6, <1>7, QuietStep

(* The window closes, and a refresh ends. *)
LEMMA WindowInv ==
  ASSUME IInv, Deadline \/ RefreshDone
  PROVE  IInv'
<1>0. TypeInv /\ RefresherOk BY DEF IInv, TypeInv
<1>1. PICK x : /\ x = IF refresher.pc = "collect" THEN "refresh" ELSE "wait"
               /\ refresher' = [refresher EXCEPT !.pc = x] /\ Rest
               /\ UNCHANGED <<signals, cache, coverage, unread>>
  BY DEF Deadline, RefreshDone
<1>2. refresher' = RefreshState(x, refresher.pending, refresher.type, refresher.read)
  BY <1>0, <1>1, RefreshMoves
<1>3. /\ refresher.type = "none" /\ refresher.read = <<>> /\ refresher.pending \subseteq Cached
      /\ refresher.pc # "coverage" /\ (x = "wait" => refresher.pending = {})
  BY <1>0, <1>1 DEF RefresherOk, Deadline, RefreshDone
<1>4. /\ refresher'.pc = x /\ refresher'.pending = refresher.pending /\ refresher'.type = "none"
      /\ refresher'.read = <<>> /\ x \in {"refresh", "wait"}
  BY <1>1, <1>2, <1>3, RefreshFields
<1>5. RefresherOk' BY <1>2, <1>3, <1>4 DEF RefresherOk, RefreshState
<1>6. \A u : Due(u) => Due(u)' BY <1>1, <1>3, <1>4 DEF Due, Announced, Rest
<1>7. signals' \in Seq(Cached) BY <1>0, <1>1 DEF TypeInv
<1> QED BY <1>1, <1>3, <1>4, <1>5, <1>6, <1>7, QuietStep

(* Where it goes after a type, and after its coverage. *)
LEMMA RefreshTo ==
  ASSUME RefresherOk, NEW p
  PROVE  [refresher EXCEPT !.pc = "refresh", !.pending = p, !.type = "none", !.read = <<>>]
           = RefreshState("refresh", p, "none", <<>>)
<1> DEFINE n == refresher
           one == RefreshState("refresh", p, n.type, n.read)
           two == RefreshState("refresh", p, "none", n.read)
<1>1. [n EXCEPT !.pc = "refresh", !.pending = p] = one BY RefreshMoves
<1>2. [one EXCEPT !.type = "none"] = two BY DEF RefreshState
<1>3. [two EXCEPT !.read = <<>>] = RefreshState("refresh", p, "none", <<>>) BY DEF RefreshState
<1> HIDE DEF one, two, n
<1>4. [n EXCEPT !.pc = "refresh", !.pending = p, !.type = "none", !.read = <<>>]
        = RefreshState("refresh", p, "none", <<>>)
  BY <1>1, <1>2, <1>3, Zenon
<1> QED BY <1>4, Zenon DEF n

(* The state in which a type is read, or its coverage. *)
LEMMA RefreshOn ==
  ASSUME RefresherOk, NEW x, NEW t, NEW r
  PROVE  [refresher EXCEPT !.pc = x, !.type = t, !.read = r] = RefreshState(x, refresher.pending, t, r)
<1> DEFINE n == refresher
           one == RefreshState(x, n.pending, n.type, n.read)
           two == RefreshState(x, n.pending, t, n.read)
<1>1. [n EXCEPT !.pc = x] = one BY RefreshMoves
<1>2. [one EXCEPT !.type = t] = two BY DEF RefreshState
<1>3. [two EXCEPT !.read = r] = RefreshState(x, n.pending, t, r) BY DEF RefreshState
<1> HIDE DEF one, two, n
<1>4. [n EXCEPT !.pc = x, !.type = t, !.read = r] = RefreshState(x, n.pending, t, r)
  BY <1>1, <1>2, <1>3, Zenon
<1> QED BY <1>4, Zenon DEF n

(* The state after a type. *)
LEMMA RefreshedIs ==
  ASSUME RefresherOk, NEW t \in Cached
  PROVE  Refreshed(t) = IF t \in CoverageTables THEN RefreshState("coverage", refresher.pending, t, <<>>)
                        ELSE RefreshState("refresh", refresher.pending \ {t}, "none", <<>>)
<1>1. CASE t \in CoverageTables
  <2>1. Refreshed(t) = [refresher EXCEPT !.pc = "coverage", !.type = t, !.read = <<>>]
    BY <1>1 DEF Refreshed, CoverageTables
  <2>2. [refresher EXCEPT !.pc = "coverage", !.type = t, !.read = <<>>]
          = RefreshState("coverage", refresher.pending, t, <<>>)
    BY RefreshOn
  <2> QED BY <1>1, <2>1, <2>2
<1>2. CASE t \notin CoverageTables
  <2> DEFINE p == refresher.pending \ {t}
  <2>1. Refreshed(t) = [refresher EXCEPT !.pc = "refresh", !.pending = p, !.type = "none", !.read = <<>>]
    BY <1>2 DEF Refreshed, CoverageTables
  <2> HIDE DEF p
  <2>2. [refresher EXCEPT !.pc = "refresh", !.pending = p, !.type = "none", !.read = <<>>]
          = RefreshState("refresh", p, "none", <<>>)
    BY RefreshTo
  <2> QED BY <1>2, <2>1, <2>2 DEF p
<1> QED BY <1>1, <1>2

(* A type whose tables were read, or failed to be: its tables are served or   *)
(* marked unread, and the others are as they were.                            *)
LEMMA TypeDone ==
  ASSUME IInv, Rest, UNCHANGED <<signals, coverage>>, NEW t \in refresher.pending,
         refresher.pc = "refresh", refresher.type \in {"none", t}, refresher' = Refreshed(t),
         cache' = [u \in Cached |-> cache'[u]],
         \A u \in Cached \ Types(t) : cache'[u] = cache[u] /\ (u \in unread' <=> u \in unread),
         "coverage" \in unread' <=> "coverage" \in unread,
         \A u \in Claimed : u \in Types(t) =>
           torn \/ TableDue(u)' \/ u \in unread' \/ cache'[u] \in Shown(db[u]),
         t = "plugins" => PluginsKnown(db["plugins"])'
  PROVE  IInv'
<1>0. TypeInv /\ RefresherOk /\ t \in Cached /\ refresher.pending \subseteq Cached
  BY DEF IInv, TypeInv, RefresherOk
<1>1. UNCHANGED <<mode, db, torn, worker>> BY DEF Rest
<1>2. \/ t \in CoverageTables /\ refresher' = RefreshState("coverage", refresher.pending, t, <<>>)
      \/ t \notin CoverageTables /\ refresher' = RefreshState("refresh", refresher.pending \ {t}, "none", <<>>)
  BY <1>0, RefreshedIs
<1>3. /\ refresher'.read = <<>>
      /\ \/ /\ t \in CoverageTables /\ refresher'.pc = "coverage" /\ refresher'.type = t
            /\ refresher'.pending = refresher.pending
         \/ /\ t \notin CoverageTables /\ refresher'.pc = "refresh" /\ refresher'.type = "none"
            /\ refresher'.pending = refresher.pending \ {t}
  BY <1>2, RefreshFields
<1>4. RefresherOk'
  <2>1. refresher'.pending \subseteq Cached BY <1>0, <1>3
  <2>2. refresher'.read = [x \in DOMAIN refresher'.read |-> refresher'.read[x]]
        /\ DOMAIN refresher'.read \subseteq CoverageTables
    BY <1>3
  <2>3. refresher' = [pc |-> refresher'.pc, pending |-> refresher'.pending, type |-> refresher'.type,
                      read |-> refresher'.read]
    BY <1>2, <1>3 DEF RefreshState
  <2> QED BY <1>3, <2>1, <2>2, <2>3 DEF RefresherOk
<1>5. TypeInv'
  <2>1. signals' \in Seq(Cached) BY <1>0 DEF TypeInv
  <2> QED BY <1>0, <1>4, <2>1, RefreshTypes
<1>6. \A u \in Cached : u # t /\ Due(u) => Due(u)'
  <2>1. \A u : Announced(u)' <=> Announced(u) BY <1>1 DEF Announced
  <2>2. \A u \in Cached : u # "none" BY DEF Cached
  <2> QED BY <1>3, <2>1, <2>2 DEF Due
<1>7. \A u \in Cached : ~Reading(u)' BY <1>3, TypesOf DEF Reading
<1>8. CacheInv'
  <2>1. SUFFICES ASSUME NEW u \in Claimed, ~torn, ~TableDue(u)' PROVE TableServed(u)'
    BY <1>1 DEF CacheInv, TableServed, Claimed
  <2>2. u \in Cached BY <1>0, Claims DEF TypeInv
  <2>3. Shown(db[u])' = Shown(db[u]) BY <1>1 DEF Shown, FirstPage
  <2>4. CASE u \in Types(t) BY <1>7, <2>1, <2>2, <2>3, <2>4 DEF TableServed
  <2>5. CASE u \notin Types(t)
    <3>1. t \notin Types(u) BY <1>0, <2>2, <2>5, TypesOf
    <3>2. Types(u) \subseteq Cached /\ "none" \notin Types(u) BY <2>2, TypesOf
    <3>3. ~TableDue(u) BY <1>6, <2>1, <3>1, <3>2 DEF TableDue
    <3>4. ~Reading(u) BY <3>1, <3>2 DEF Reading
    <3>5. u \in unread \/ cache[u] \in Shown(db[u]) BY <2>1, <3>3, <3>4 DEF IInv, CacheInv, TableServed
    <3>6. u \in unread' \/ cache'[u] \in Shown(db[u]) BY <2>2, <2>5, <3>5
    <3> QED BY <1>7, <2>2, <2>3, <3>6 DEF TableServed
  <2> QED BY <2>4, <2>5
<1>9. "plugins" \in Cached /\ (t # "plugins" => "plugins" \notin Types(t))
  BY <1>0 DEF Cached, Types
<1>10. t # "plugins" => \A P : PluginsKnown(P) => PluginsKnown(P)'
  BY <1>9 DEF PluginsKnown, Shown, FirstPage
<1>11. PluginsInv' BY <1>1, <1>6, <1>9, <1>10 DEF IInv, PluginsInv
<1>12. CoverageInv'
  <2>1. CASE t \in CoverageTables
    <3>1. CoverageReading' BY <1>3 DEF CoverageReading
    <3> QED BY <1>3, <2>1, <3>1 DEF CoverageInv
  <2>2. CASE t \notin CoverageTables
    <3>1. CoverageTables \subseteq Cached /\ "plugins" \in CoverageTables BY DEF CoverageTables, Cached
    <3>2. CoverageSettled => CoverageSettled'
      <4>1. CASE "coverage" \in unread BY <4>1 DEF CoverageSettled
      <4>2. ASSUME NEW P, coverage = BuildCoverage(db["routes"], db["services"], P),
                   db["plugins"] \subseteq P, PluginsKnown(P)
            PROVE  CoverageSettled'
        BY <1>1, <1>10, <2>2, <3>1, <4>2 DEF CoverageSettled
      <4> QED BY <4>1, <4>2 DEF CoverageSettled
    <3>3. (\E u \in CoverageTables : Due(u)) => (\E u \in CoverageTables : Due(u)')
      BY <1>6, <2>2, <3>1
    <3>4. refresher.pc # "coverage" /\ refresher'.pc # "coverage" BY <1>3, <2>2
    <3> QED BY <1>1, <3>2, <3>3, <3>4 DEF IInv, CoverageInv
  <2> QED BY <2>1, <2>2
<1> QED BY <1>5, <1>8, <1>11, <1>12 DEF IInv

(* Sequences of one and of two values. *)
LEMMA Single ==
  ASSUME NEW x
  PROVE  /\ <<x>>[1] = x /\ Len(<<x>>) = 1 /\ DOMAIN <<x>> = {1} /\ Append(<<>>, x) = <<x>>
         /\ ToSet(<<x>>) = {x}
<1>1. <<x>>[1] = x /\ Len(<<x>>) = 1 /\ DOMAIN <<x>> = {1} /\ Append(<<>>, x) = <<x>> OBVIOUS
<1>2. ToSet(<<x>>) = {x} BY <1>1 DEF ToSet
<1> QED BY <1>1, <1>2

(* The same of two values. *)
LEMMA Pair ==
  ASSUME NEW x, NEW y
  PROVE  /\ <<x, y>>[1] = x /\ <<x, y>>[2] = y /\ Len(<<x, y>>) = 2 /\ DOMAIN <<x, y>> = {1, 2}
         /\ Append(<<x>>, y) = <<x, y>> /\ ToSet(<<x, y>>) = {x, y}
<1>1. <<x, y>>[1] = x /\ <<x, y>>[2] = y /\ Len(<<x, y>>) = 2 /\ DOMAIN <<x, y>> = {1, 2} OBVIOUS
<1>2. ToSet(<<x, y>>) = {x, y} BY <1>1 DEF ToSet
<1>3. Append(<<x>>, y) = <<x, y>>
  <2>1. <<x>> \in Seq({x, y}) /\ <<x, y>> \in Seq({x, y}) /\ Append(<<x>>, y) \in Seq({x, y}) OBVIOUS
  <2>2. Len(Append(<<x>>, y)) = 2 /\ Append(<<x>>, y)[1] = x /\ Append(<<x>>, y)[2] = y BY Single
  <2>3. ASSUME NEW s, NEW r, s \in Seq({x, y}), r \in Seq({x, y}), Len(s) = 2, Len(r) = 2,
               s[1] = r[1], s[2] = r[2]
        PROVE  s = r
    <3>1. DOMAIN s = 1..2 /\ DOMAIN r = 1..2 BY <2>3
    <3>2. \A i \in 1..2 : s[i] = r[i] BY <2>3
    <3>3. s = [i \in 1..2 |-> s[i]] /\ r = [i \in 1..2 |-> r[i]] BY <2>3, <3>1
    <3> QED BY <3>2, <3>3
  <2> QED BY <1>1, <2>1, <2>2, <2>3, Zenon
<1> QED BY <1>1, <1>2, <1>3

(* The page of each of two tables. *)
LEMMA PagesOfPair ==
  ASSUME NEW p, NEW q, NEW a, NEW b, a # b
  PROVE  /\ <<p, q>>[CHOOSE i \in DOMAIN <<p, q>> : <<a, b>>[i] = a] = p
         /\ <<p, q>>[CHOOSE i \in DOMAIN <<p, q>> : <<a, b>>[i] = b] = q
<1>1. (CHOOSE i \in {1, 2} : <<a, b>>[i] = a) = 1 BY Pair
<1>2. (CHOOSE i \in {1, 2} : <<a, b>>[i] = b) = 2 BY Pair
<1>3. DOMAIN <<p, q>> = {1, 2} /\ <<p, q>>[1] = p /\ <<p, q>>[2] = q BY Pair
<1> QED BY <1>1, <1>2, <1>3, Zenon

(* A page of the first of two tables is kept with its entity type. *)
LEMMA RefreshReads ==
  ASSUME RefresherOk, NEW t, NEW r
  PROVE  [refresher EXCEPT !.type = t, !.read = r]
           = RefreshState(refresher.pc, refresher.pending, t, r)
<1> DEFINE n == refresher
           same == RefreshState(n.pc, n.pending, n.type, n.read)
           one == RefreshState(n.pc, n.pending, t, n.read)
<1>1. n = same BY Zenon DEF RefresherOk, RefreshState
<1>2. [same EXCEPT !.type = t] = one BY DEF RefreshState
<1>3. [one EXCEPT !.read = r] = RefreshState(n.pc, n.pending, t, r) BY DEF RefreshState
<1> HIDE DEF one, same, n
<1>4. [n EXCEPT !.type = t, !.read = r] = RefreshState(n.pc, n.pending, t, r)
  BY <1>1, <1>2, <1>3, Zenon
<1> QED BY <1>4, Zenon DEF n

(* The first of two tables is read. *)
LEMMA FirstTable ==
  ASSUME IInv, Rest, UNCHANGED <<signals, cache, coverage, unread>>, NEW t \in refresher.pending,
         t \in {"upstreams", "targets", "certificates", "snis"},
         refresher.pc = "refresh", refresher.type = "none",
         NEW first, first = FirstPage(db[FirstOf(t)]),
         refresher' = RefreshState("refresh", refresher.pending, t, <<first>>)
  PROVE  IInv'
<1>0. TypeInv /\ RefresherOk /\ t \in Cached /\ refresher.pending \subseteq Cached
  BY DEF IInv, TypeInv, RefresherOk
<1>1. UNCHANGED <<mode, db, torn, worker>> BY DEF Rest
<1>a. <<first>>[1] = first BY Single
<1>2. refresher' = RefreshState("refresh", refresher.pending, t, <<first>>) OBVIOUS
<1>3. /\ refresher'.pc = "refresh" /\ refresher'.pending = refresher.pending /\ refresher'.type = t
      /\ refresher'.read = <<first>>
  BY <1>2, RefreshFields
<1>4. RefresherOk'
  <2>1. refresher' = [pc |-> refresher'.pc, pending |-> refresher'.pending, type |-> refresher'.type,
                      read |-> refresher'.read]
    BY <1>2, <1>3 DEF RefreshState
  <2> QED BY <1>0, <1>3, <1>a, <2>1 DEF RefresherOk
<1>5. TypeInv'
  <2>1. signals' \in Seq(Cached) /\ cache' = [u \in Cached |-> cache'[u]] BY <1>0 DEF TypeInv
  <2> QED BY <1>0, <1>4, <2>1, RefreshTypes
<1>6. \A u \in Cached : u # t /\ Due(u) => Due(u)'
  <2>1. \A u : Announced(u)' <=> Announced(u) BY <1>1 DEF Announced
  <2> QED BY <1>3, <2>1 DEF Due
<1>7. CacheInv'
  <2>1. SUFFICES ASSUME NEW u \in Claimed, ~torn, ~TableDue(u)' PROVE TableServed(u)'
    BY <1>1 DEF CacheInv, TableServed, Claimed
  <2>2. u \in Cached BY <1>0, Claims DEF TypeInv
  <2>3. Shown(db[u])' = Shown(db[u]) /\ FirstPage(db[u])' = FirstPage(db[u])
    BY <1>1 DEF Shown, FirstPage
  <2>4. CASE u \in Types(t)
    <3>1. t \in Types(u) BY <1>0, <2>2, <2>4, TypesOf
    <3>2. FirstOf(u) = FirstOf(t) BY <1>0, <2>4 DEF Types, FirstOf
    <3>3. Reading(u)' BY <1>3, <3>1 DEF Reading
    <3>4. u = FirstOf(u) => refresher'.read[1] = FirstPage(db[u]) BY <1>3, <1>a, <3>2
    <3> QED BY <2>3, <3>3, <3>4 DEF TableServed
  <2>5. CASE u \notin Types(t)
    <3>1. t \notin Types(u) BY <1>0, <2>2, <2>5, TypesOf
    <3>2. Types(u) \subseteq Cached /\ "none" \notin Types(u) BY <2>2, TypesOf
    <3>3. ~TableDue(u) BY <1>6, <2>1, <3>1, <3>2 DEF TableDue
    <3>4. ~Reading(u) /\ ~Reading(u)' BY <1>3, <3>1, <3>2 DEF Reading
    <3>5. u \in unread \/ cache[u] \in Shown(db[u]) BY <2>1, <3>3, <3>4 DEF IInv, CacheInv, TableServed
    <3> QED BY <2>3, <3>4, <3>5 DEF TableServed
  <2> QED BY <2>4, <2>5
<1>8. \A P : PluginsKnown(P) => PluginsKnown(P)' BY DEF PluginsKnown, Shown, FirstPage
<1>9. CoverageTables \subseteq Cached /\ t \notin CoverageTables /\ "plugins" \in CoverageTables
  BY DEF CoverageTables, Cached
<1>10. PluginsInv' BY <1>1, <1>6, <1>8, <1>9 DEF IInv, PluginsInv
<1>11. CoverageInv'
  <2>1. CoverageSettled => CoverageSettled'
    <3>1. CASE "coverage" \in unread BY <3>1 DEF CoverageSettled
    <3>2. ASSUME NEW P, coverage = BuildCoverage(db["routes"], db["services"], P),
                 db["plugins"] \subseteq P, PluginsKnown(P)
          PROVE  CoverageSettled'
      BY <1>1, <1>8, <3>2 DEF CoverageSettled
    <3> QED BY <3>1, <3>2 DEF CoverageSettled
  <2>2. (\E u \in CoverageTables : Due(u)) => (\E u \in CoverageTables : Due(u)') BY <1>6, <1>9
  <2>3. refresher.pc # "coverage" /\ refresher'.pc # "coverage" BY <1>3
  <2> QED BY <1>1, <2>1, <2>2, <2>3 DEF IInv, CoverageInv
<1> QED BY <1>5, <1>7, <1>10, <1>11 DEF IInv

(* The sources of an entity type are its tables. *)
LEMMA SourcesAre ==
  ASSUME NEW t \in Cached
  PROVE  ToSet(Sources(t)) = Types(t)
<1>1. CASE Sources(t) = <<t>> /\ Types(t) = {t} BY <1>1, Single
<1>a. \A x, y : ToSet(<<x, y>>) = {x, y} BY Pair
<1>2. CASE Sources(t) = <<"upstreams", "targets">> /\ Types(t) = {"upstreams", "targets"}
  BY <1>2, <1>a, Zenon
<1>3. CASE Sources(t) = <<"certificates", "snis">> /\ Types(t) = {"certificates", "snis"}
  BY <1>3, <1>a, Zenon
<1> QED BY <1>1, <1>2, <1>3, TypesOf

(* The entity type the refresher takes a page of. *)
LEMMA ReadSoFar ==
  ASSUME RefresherOk, refresher.pc = "refresh", refresher.pending # {},
         NEW t \in (IF refresher.type = "none" THEN refresher.pending ELSE {refresher.type})
  PROVE  /\ t \in refresher.pending /\ t \in Cached /\ refresher.type \in {"none", t}
         /\ refresher.type # "none" => t \in {"upstreams", "targets", "certificates", "snis"}
  BY DEF RefresherOk

(* What it has read of it. *)
LEMMA PageSoFar ==
  ASSUME RefresherOk, refresher.pc = "refresh"
  PROVE  \/ refresher.type = "none" /\ refresher.read = <<>>
         \/ refresher.type # "none" /\ \E p : refresher.read = <<p>>
<1>1. CASE refresher.type = "none" BY <1>1 DEF RefresherOk
<1>2. CASE refresher.type # "none"
  <2>1. refresher.read = <<refresher.read[1]>> BY <1>2 DEF RefresherOk
  <2> QED BY <1>2, <2>1, Zenon
<1> QED BY <1>1, <1>2

(* The only table of an entity type is read: the proxy gets its page. *)
LEMMA OnlyTable ==
  ASSUME IInv, Rest, UNCHANGED <<signals, coverage>>, NEW t \in refresher.pending, t \in Cached,
         Types(t) = {t}, refresher.pc = "refresh", refresher.type = "none",
         cache' = [u \in Cached |-> IF u \in Types(t) THEN FirstPage(db[t]) ELSE cache[u]],
         unread' = unread \ Types(t), refresher' = Refreshed(t)
  PROVE  IInv'
<1>0. TypeInv BY DEF IInv
<1>1. cache' = [u \in Cached |-> cache'[u]] /\ cache'[t] = FirstPage(db[t]) OBVIOUS
<1>2. \A u \in Cached \ Types(t) : cache'[u] = cache[u] /\ (u \in unread' <=> u \in unread) OBVIOUS
<1>3. "coverage" \in unread' <=> "coverage" \in unread BY TypesOf
<1>4. \A u \in Claimed : u \in Types(t) => cache'[u] \in Shown(db[u]) BY <1>1 DEF Shown
<1>5. t = "plugins" => PluginsKnown(db["plugins"])'
  <2>1. IsTable(db["plugins"]) BY <1>0, StoreTable DEF TypeInv, Tables
  <2>2. Shown(db["plugins"])' = Shown(db["plugins"]) /\ db' = db BY DEF Shown, FirstPage, Rest
  <2>3. cache'[t] \in Shown(db[t]) BY <1>1 DEF Shown
  <2>4. t = "plugins" => \E Q : IsTable(Q) /\ cache'["plugins"] \in Shown(Q)' /\ db'["plugins"] \subseteq Q
    BY <2>1, <2>2, <2>3
  <2> QED BY <2>4 DEF PluginsKnown
<1> HIDE DEF Shown
<1> QED BY <1>1, <1>2, <1>3, <1>4, <1>5, TypeDone

(* The second of two tables is read: the proxy gets both pages. *)
LEMMA SecondTable ==
  ASSUME IInv, Rest, UNCHANGED <<signals, coverage>>, NEW t \in refresher.pending, t \in Cached,
         t \in {"upstreams", "targets", "certificates", "snis"},
         refresher.pc = "refresh", refresher.type = t,
         NEW a, NEW b, Types(t) = {a, b}, a # b, a = FirstOf(t), a = FirstOf(a),
         NEW p, refresher.read[1] = p,
         cache' = [u \in Cached |-> IF u \in Types(t) THEN IF u = a THEN p ELSE FirstPage(db[b]) ELSE cache[u]],
         unread' = unread \ Types(t), refresher' = Refreshed(t)
  PROVE  IInv'
<1>0. TypeInv /\ RefresherOk /\ Types(t) \subseteq Cached BY TypesOf DEF IInv, TypeInv
<1>1. cache' = [u \in Cached |-> cache'[u]] /\ cache'[a] = p /\ cache'[b] = FirstPage(db[b]) BY <1>0
<1>2. \A u \in Cached \ Types(t) : cache'[u] = cache[u] /\ (u \in unread' <=> u \in unread) OBVIOUS
<1>3. "coverage" \in unread' <=> "coverage" \in unread BY TypesOf
<1>4. ASSUME a \in Claimed, ~torn, ~TableDue(a)' PROVE p = FirstPage(db[a])
  <2>1. a \in Cached /\ t \in Types(a) BY <1>0, TypesOf
  <2>2. Reading(a) BY <2>1 DEF Reading
  <2>3. \A u : Announced(u)' <=> Announced(u) BY DEF Announced, Rest
  <2>4. refresher' = RefreshState("refresh", refresher.pending \ {t}, "none", <<>>)
    BY <1>0, RefreshedIs DEF CoverageTables
  <2>5. refresher'.pending = refresher.pending \ {t} /\ refresher'.type = "none" BY <2>4, RefreshFields
  <2>6. \A u \in Types(a) : u # "none" BY <2>1, TypesOf
  <2>7. \A u \in Types(a) : Due(u) => Due(u)' BY <2>3, <2>5, <2>6 DEF Due
  <2>8. ~TableDue(a) BY <1>4, <2>7 DEF TableDue
  <2> QED BY <1>4, <2>2, <2>8 DEF IInv, CacheInv, TableServed
<1>5. \A u \in Claimed : u \in Types(t) =>
        torn \/ TableDue(u)' \/ u \in unread' \/ cache'[u] \in Shown(db[u])
  BY <1>1, <1>4 DEF Shown
<1>6. t # "plugins" OBVIOUS
<1> QED BY <1>1, <1>2, <1>3, <1>5, <1>6, TypeDone

(* A page of a table: of the first of two, or of the last, when the proxy     *)
(* gets the rows.                                                             *)
LEMMA ReadSourceInv ==
  ASSUME IInv, ReadSource
  PROVE  IInv'
<1>0. TypeInv /\ RefresherOk BY DEF IInv, TypeInv
<1>1. refresher.pc = "refresh" /\ refresher.pending # {} /\ Rest /\ UNCHANGED <<signals, coverage>>
  BY DEF ReadSource
<1> DEFINE n == Len(refresher.read) + 1
           read(t) == Append(refresher.read, FirstPage(db[Sources(t)[n]]))
<1>2. PICK t \in (IF refresher.type = "none" THEN refresher.pending ELSE {refresher.type}) :
        IF n < Len(Sources(t))
        THEN /\ refresher' = [refresher EXCEPT !.type = t, !.read = read(t)]
             /\ UNCHANGED <<cache, unread>>
        ELSE /\ cache' = [u \in Cached |-> IF u \in ToSet(Sources(t))
                            THEN read(t)[CHOOSE i \in DOMAIN read(t) : Sources(t)[i] = u] ELSE cache[u]]
             /\ unread' = unread \ ToSet(Sources(t))
             /\ refresher' = Refreshed(t)
  BY DEF ReadSource
<1>3. /\ t \in refresher.pending /\ t \in Cached /\ refresher.type \in {"none", t}
      /\ refresher.type # "none" => t \in {"upstreams", "targets", "certificates", "snis"}
  BY <1>0, <1>1, ReadSoFar
<1>4. ToSet(Sources(t)) = Types(t) BY <1>3, SourcesAre
<1>5. CASE Sources(t) = <<t>> /\ Types(t) = {t} /\ t \notin {"upstreams", "targets", "certificates", "snis"}
  <2>1. refresher.type = "none" /\ refresher.read = <<>>
    BY <1>0, <1>1, <1>3, <1>5, PageSoFar
  <2>2. n = 1 /\ Len(Sources(t)) = 1 /\ Sources(t)[1] = t
    <3>1. Len(<<>>) = 0 OBVIOUS
    <3> QED BY <1>5, <2>1, <3>1, Single
  <2>3. read(t) = <<FirstPage(db[t])>> BY <2>1, <2>2, Single
  <2>4. DOMAIN read(t) = {1} /\ read(t)[1] = FirstPage(db[t]) BY <2>3, Single
  <2> HIDE DEF read, n
  <2>5. /\ cache' = [u \in Cached |-> IF u \in Types(t)
                       THEN read(t)[CHOOSE i \in DOMAIN read(t) : Sources(t)[i] = u] ELSE cache[u]]
        /\ unread' = unread \ Types(t)
        /\ refresher' = Refreshed(t)
    BY <1>2, <1>4, <2>2
  <2>6. read(t)[CHOOSE i \in DOMAIN read(t) : Sources(t)[i] = t] = FirstPage(db[t])
    <3>1. (CHOOSE i \in {1} : Sources(t)[i] = t) = 1 BY <2>2
    <3> QED BY <2>4, <3>1, Zenon
  <2>7. cache' = [u \in Cached |-> IF u \in Types(t) THEN FirstPage(db[t]) ELSE cache[u]]
    BY <1>5, <2>5, <2>6
  <2> QED BY <1>1, <1>3, <1>5, <2>1, <2>5, <2>7, OnlyTable
<1>6. ASSUME NEW a, NEW b, Sources(t) = <<a, b>>, Types(t) = {a, b}, a # b, a = FirstOf(t), a = FirstOf(a),
             t \in {"upstreams", "targets", "certificates", "snis"}
      PROVE  IInv'
  <2>1. Len(Sources(t)) = 2 /\ Sources(t)[1] = a /\ Sources(t)[2] = b BY <1>6, Pair
  <2>2. CASE refresher.type = "none"
    <3>1. refresher.read = <<>> BY <1>0, <1>1, <2>2, PageSoFar
    <3>2. n = 1
      <4>1. Len(<<>>) = 0 OBVIOUS
      <4> QED BY <3>1, <4>1
    <3>3. read(t) = <<FirstPage(db[a])>> BY <2>1, <3>1, <3>2, Single
    <3> HIDE DEF read, n
    <3>4. refresher' = [refresher EXCEPT !.type = t, !.read = read(t)] /\ UNCHANGED <<cache, unread>>
      BY <1>2, <2>1, <3>2
    <3>5. refresher' = RefreshState(refresher.pc, refresher.pending, t, read(t))
      BY <1>0, <3>4, RefreshReads
    <3>6. refresher' = RefreshState("refresh", refresher.pending, t, <<FirstPage(db[a])>>)
      BY <1>1, <3>3, <3>5
    <3>7. PICK first : first = FirstPage(db[a]) OBVIOUS
    <3>8. refresher' = RefreshState("refresh", refresher.pending, t, <<first>>) BY <3>6, <3>7
    <3>9. first = FirstPage(db[FirstOf(t)]) BY <1>6, <3>7
    <3> QED BY <1>1, <1>3, <1>6, <2>2, <3>4, <3>8, <3>9, FirstTable
  <2>3. CASE refresher.type # "none"
    <3>1. PICK p : refresher.read = <<p>> BY <1>0, <1>1, <2>3, PageSoFar
    <3>2. n = 2 /\ refresher.read[1] = p
      <4>1. Len(<<p>>) = 1 /\ <<p>>[1] = p BY Single
      <4> QED BY <3>1, <4>1
    <3>3. read(t) = <<p, FirstPage(db[b])>>
      <4>1. read(t) = Append(<<p>>, FirstPage(db[b])) BY <2>1, <3>1, <3>2
      <4> QED BY <4>1, Pair
    <3> HIDE DEF read, n
    <3>4. /\ cache' = [u \in Cached |-> IF u \in Types(t)
                         THEN read(t)[CHOOSE i \in DOMAIN read(t) : Sources(t)[i] = u] ELSE cache[u]]
          /\ unread' = unread \ Types(t)
          /\ refresher' = Refreshed(t)
      BY <1>2, <1>4, <2>1, <3>2
    <3>5. /\ read(t)[CHOOSE i \in DOMAIN read(t) : Sources(t)[i] = a] = p
          /\ read(t)[CHOOSE i \in DOMAIN read(t) : Sources(t)[i] = b] = FirstPage(db[b])
      BY <1>6, <3>3, PagesOfPair
    <3>6. cache' = [u \in Cached |-> IF u \in Types(t) THEN IF u = a THEN p ELSE FirstPage(db[b]) ELSE cache[u]]
      BY <1>6, <3>4, <3>5
    <3>7. refresher.type = t BY <1>3, <2>3
    <3> QED BY <1>1, <1>3, <1>6, <3>2, <3>4, <3>6, <3>7, SecondTable
  <2> QED BY <2>2, <2>3
<1>7. CASE t \in {"upstreams", "targets"}
  <2>1. /\ Sources(t) = <<"upstreams", "targets">> /\ Types(t) = {"upstreams", "targets"}
        /\ FirstOf(t) = "upstreams" /\ FirstOf("upstreams") = "upstreams"
    BY <1>7 DEF Sources, Types, FirstOf
  <2> QED BY <1>6, <1>7, <2>1
<1>8. CASE t \in {"certificates", "snis"}
  <2>1. /\ Sources(t) = <<"certificates", "snis">> /\ Types(t) = {"certificates", "snis"}
        /\ FirstOf(t) = "certificates" /\ FirstOf("certificates") = "certificates"
    BY <1>8 DEF Sources, Types, FirstOf
  <2> QED BY <1>6, <1>8, <2>1
<1>9. CASE t \notin {"upstreams", "targets", "certificates", "snis"}
  BY <1>3, <1>5, <1>9, TypesOf
<1> QED BY <1>7, <1>8, <1>9

(* A read that fails marks its tables, and goes on. *)
LEMMA ReadFailsInv ==
  ASSUME IInv, ReadFails
  PROVE  IInv'
<1>0. TypeInv /\ RefresherOk BY DEF IInv, TypeInv
<1>1. refresher.pc = "refresh" /\ refresher.pending # {} /\ Rest /\ UNCHANGED <<signals, cache, coverage>>
  BY DEF ReadFails
<1>2. PICK t \in (IF refresher.type = "none" THEN refresher.pending ELSE {refresher.type}) :
        unread' = unread \cup ToSet(Sources(t)) /\ refresher' = Refreshed(t)
  BY DEF ReadFails
<1>3. t \in refresher.pending /\ t \in Cached /\ refresher.type \in {"none", t}
  BY <1>0, <1>1, ReadSoFar
<1>4. unread' = unread \cup Types(t) BY <1>2, <1>3, SourcesAre
<1>5. "coverage" \notin Types(t) /\ t \in Types(t) BY <1>3, TypesOf
<1>6. \A u \in Cached \ Types(t) : cache'[u] = cache[u] /\ (u \in unread' <=> u \in unread) BY <1>1, <1>4
<1>7. cache' = [u \in Cached |-> cache'[u]] BY <1>0, <1>1 DEF TypeInv
<1>8. t = "plugins" => PluginsKnown(db["plugins"])' BY <1>4, <1>5 DEF PluginsKnown
<1>9. "coverage" \in unread' <=> "coverage" \in unread BY <1>4, <1>5
<1>10. \A u \in Claimed : u \in Types(t) => u \in unread' BY <1>4
<1> QED BY <1>1, <1>2, <1>3, <1>6, <1>7, <1>8, <1>9, <1>10, TypeDone

(* A table joins those the coverage was read from. *)
LEMMA WithTable ==
  ASSUME NEW t, NEW v, NEW f
  PROVE  /\ With(t, v, f) = [u \in DOMAIN f \cup {t} |-> With(t, v, f)[u]]
         /\ DOMAIN With(t, v, f) = DOMAIN f \cup {t} /\ With(t, v, f)[t] = v
         /\ \A u \in DOMAIN f : u # t => With(t, v, f)[u] = f[u]
  BY DEF With, Over

(* The tables read so far are kept with another. *)
LEMMA RefreshAdds ==
  ASSUME RefresherOk, NEW r
  PROVE  [refresher EXCEPT !.read = r]
           = RefreshState(refresher.pc, refresher.pending, refresher.type, r)
<1> DEFINE n == refresher
           same == RefreshState(n.pc, n.pending, n.type, n.read)
<1>1. n = same BY Zenon DEF RefresherOk, RefreshState
<1>2. [same EXCEPT !.read = r] = RefreshState(n.pc, n.pending, n.type, r) BY DEF RefreshState
<1> HIDE DEF same, n
<1>3. [n EXCEPT !.read = r] = RefreshState(n.pc, n.pending, n.type, r)
  BY <1>1, <1>2, Zenon
<1> QED BY <1>3, Zenon DEF n

(* One of the three reads of the coverage: the table is the one of the       *)
(* database, and for plugins the cache was read from a set that includes it. *)
LEMMA CoverageReadInv ==
  ASSUME IInv, CoverageRead
  PROVE  IInv'
<1>0. TypeInv /\ RefresherOk BY DEF IInv, TypeInv
<1>1. refresher.pc = "coverage" /\ Rest /\ UNCHANGED <<signals, cache, coverage, unread>>
  BY DEF CoverageRead
<1>2. PICK t \in CoverageTables \ DOMAIN refresher.read :
        refresher' = [refresher EXCEPT !.read = With(t, LoadAll(db[t], PageSize), refresher.read)]
  BY DEF CoverageRead
<1>3. UNCHANGED <<mode, db, torn, worker>> BY <1>1 DEF Rest
<1>4. LoadAll(db[t], PageSize) = db[t]
  <2>1. IsTable(db[t]) BY <1>0, StoreTable DEF TypeInv, Tables, CoverageTables
  <2> QED BY <2>1, LoadAllWhole
<1> DEFINE read == With(t, db[t], refresher.read)
<1>5. /\ read = [u \in DOMAIN refresher.read \cup {t} |-> read[u]]
      /\ DOMAIN read = DOMAIN refresher.read \cup {t} /\ read[t] = db[t]
      /\ \A u \in DOMAIN refresher.read : u # t => read[u] = refresher.read[u]
  BY DEF With, Over
<1> HIDE DEF read
<1>6. refresher' = [refresher EXCEPT !.read = read] BY <1>2, <1>4 DEF read
<1>7. refresher' = RefreshState(refresher.pc, refresher.pending, refresher.type, read)
  BY <1>0, <1>6, RefreshAdds
<1>8. /\ refresher'.pc = refresher.pc /\ refresher'.pending = refresher.pending
      /\ refresher'.type = refresher.type /\ refresher'.read = read
  BY <1>7, RefreshFields
<1>9. /\ DOMAIN refresher.read \subseteq CoverageTables /\ refresher.type \in CoverageTables
      /\ refresher.pending \subseteq Cached
  BY <1>0, <1>1 DEF RefresherOk
<1>10. RefresherOk'
  <2>1. refresher' = [pc |-> refresher'.pc, pending |-> refresher'.pending, type |-> refresher'.type,
                      read |-> refresher'.read]
    BY <1>7, <1>8, Zenon DEF RefreshState
  <2>2. refresher'.read = [u \in DOMAIN refresher'.read |-> refresher'.read[u]]
        /\ DOMAIN refresher'.read \subseteq CoverageTables
    <3>1. DOMAIN read \subseteq CoverageTables BY <1>5, <1>9
    <3>2. read = [u \in DOMAIN read |-> read[u]] BY <1>5, Zenon
    <3> QED BY <1>8, <3>1, <3>2, Zenon
  <2> QED BY <1>1, <1>8, <1>9, <2>1, <2>2, Zenon DEF RefresherOk
<1>11. TypeInv'
  <2>1. signals' \in Seq(Cached) /\ cache' = [u \in Cached |-> cache'[u]] BY <1>0, <1>1 DEF TypeInv
  <2> QED BY <1>0, <1>1, <1>10, <2>1, RefreshTypes
<1>12. \A u : Due(u)' <=> Due(u)
  <2>1. \A u : Announced(u)' <=> Announced(u) BY <1>1, <1>3 DEF Announced
  <2> QED BY <1>8, <2>1 DEF Due
<1>13. \A u : ~Reading(u) /\ ~Reading(u)' BY <1>1, <1>8 DEF Reading
<1>14. CacheInv'
  <2>1. SUFFICES ASSUME NEW u \in Claimed PROVE TableServed(u)' BY <1>3 DEF CacheInv, Claimed
  <2>2. TableServed(u) BY DEF IInv, CacheInv
  <2>3. TableDue(u)' <=> TableDue(u) BY <1>12 DEF TableDue
  <2>4. Shown(db[u])' = Shown(db[u]) BY <1>3 DEF Shown, FirstPage
  <2> QED BY <1>1, <1>3, <1>13, <2>2, <2>3, <2>4 DEF TableServed
<1>15. \A P : PluginsKnown(P) => PluginsKnown(P)' BY <1>1 DEF PluginsKnown, Shown, FirstPage
<1>16. PluginsInv' BY <1>3, <1>12, <1>15 DEF IInv, PluginsInv
<1>17. CoverageInv'
  <2>1. SUFFICES ASSUME ~torn, \A u \in CoverageTables : ~Due(u) PROVE CoverageReading'
    BY <1>1, <1>3, <1>8, <1>12 DEF CoverageInv
  <2>2. CoverageReading BY <1>1, <2>1 DEF IInv, CoverageInv
  <2>3. PluginsKnown(db["plugins"]) BY <2>1 DEF IInv, PluginsInv, CoverageTables
  <2>4. \A u \in {"routes", "services"} : u \in DOMAIN read => read[u] = db[u]
    BY <1>5, <2>2 DEF CoverageReading
  <2>5. "plugins" \in DOMAIN read => db["plugins"] \subseteq read["plugins"] /\ PluginsKnown(read["plugins"])
    <3>1. CASE t = "plugins" BY <1>5, <2>3, <3>1
    <3>2. CASE t # "plugins" BY <1>5, <2>2, <3>2 DEF CoverageReading
    <3> QED BY <3>1, <3>2
  <2> QED BY <1>3, <1>8, <1>15, <2>4, <2>5 DEF CoverageReading
<1> QED BY <1>11, <1>14, <1>16, <1>17 DEF IInv

(* The state after the coverage. *)
LEMMA CoverageLeft ==
  ASSUME RefresherOk
  PROVE  [refresher EXCEPT !.pc = "refresh", !.pending = @ \ {refresher.type}, !.type = "none", !.read = <<>>]
           = RefreshState("refresh", refresher.pending \ {refresher.type}, "none", <<>>)
<1> DEFINE p == refresher.pending \ {refresher.type}
<1> HIDE DEF p
<1>1. [refresher EXCEPT !.pc = "refresh", !.pending = p, !.type = "none", !.read = <<>>]
        = RefreshState("refresh", p, "none", <<>>)
  BY RefreshTo
<1> QED BY <1>1, Zenon DEF p

(* The refresher leaves the coverage, with an index or with a mark. *)
LEMMA CoverageEnd ==
  ASSUME IInv, Rest, UNCHANGED <<signals, cache>>, refresher.pc = "coverage",
         refresher' = RefreshState("refresh", refresher.pending \ {refresher.type}, "none", <<>>),
         \A u \in Cached : u \in unread' <=> u \in unread,
         ~torn /\ (\A u \in CoverageTables : ~Due(u)) => CoverageSettled'
  PROVE  IInv'
<1>0. TypeInv /\ RefresherOk BY DEF IInv, TypeInv
<1>1. UNCHANGED <<mode, db, torn, worker>> BY DEF Rest
<1>2. refresher.type \in CoverageTables /\ refresher.pending \subseteq Cached BY <1>0 DEF RefresherOk
<1> DEFINE p == refresher.pending \ {refresher.type}
<1>4. refresher' = RefreshState("refresh", p, "none", <<>>) OBVIOUS
<1> HIDE DEF p
<1>5. /\ refresher'.pc = "refresh" /\ refresher'.pending = p /\ refresher'.type = "none"
      /\ refresher'.read = <<>>
  BY <1>4, RefreshFields
<1>6. RefresherOk'
  <2>1. refresher' = [pc |-> refresher'.pc, pending |-> refresher'.pending, type |-> refresher'.type,
                      read |-> refresher'.read]
    BY <1>4, <1>5, Zenon DEF RefreshState
  <2>2. p \subseteq Cached BY <1>2 DEF p
  <2> QED BY <1>5, <2>1, <2>2, Zenon DEF RefresherOk
<1>7. TypeInv'
  <2>1. signals' \in Seq(Cached) /\ cache' = [u \in Cached |-> cache'[u]] BY <1>0 DEF TypeInv
  <2> QED BY <1>0, <1>6, <2>1, RefreshTypes
<1>8. \A u \in Cached : Due(u)' <=> Due(u)
  <2>1. \A u : Announced(u)' <=> Announced(u) BY <1>1 DEF Announced
  <2>2. "none" \notin Cached BY DEF Cached
  <2> QED BY <1>5, <2>1, <2>2 DEF Due, p
<1>9. \A u \in Cached : ~Reading(u) /\ ~Reading(u)' BY <1>5, TypesOf DEF Reading
<1>10. CacheInv'
  <2>1. SUFFICES ASSUME NEW u \in Claimed PROVE TableServed(u)' BY <1>1 DEF CacheInv, Claimed
  <2>2. TableServed(u) /\ u \in Cached BY <1>0, Claims DEF IInv, CacheInv, TypeInv
  <2>3. TableDue(u)' <=> TableDue(u) BY <1>8, <2>2, TypesOf DEF TableDue
  <2>4. Shown(db[u])' = Shown(db[u]) BY <1>1 DEF Shown, FirstPage
  <2> QED BY <1>1, <1>9, <2>2, <2>3, <2>4 DEF TableServed
<1>11. "plugins" \in Cached /\ CoverageTables \subseteq Cached BY DEF Cached, CoverageTables
<1>12. \A P : PluginsKnown(P) => PluginsKnown(P)' BY <1>11 DEF PluginsKnown, Shown, FirstPage
<1>13. PluginsInv' BY <1>1, <1>8, <1>11, <1>12 DEF IInv, PluginsInv
<1>14. CoverageInv'
  <2>1. CASE torn \/ \E u \in CoverageTables : Due(u) BY <1>1, <1>8, <1>11, <2>1 DEF CoverageInv
  <2>2. CASE ~torn /\ \A u \in CoverageTables : ~Due(u) BY <1>5, <2>2 DEF CoverageInv
  <2> QED BY <2>1, <2>2
<1> QED BY <1>7, <1>10, <1>13, <1>14 DEF IInv

(* The index is built from the three tables that were read. *)
LEMMA CoverageBuildInv ==
  ASSUME IInv, CoverageBuild
  PROVE  IInv'
<1>1. /\ refresher.pc = "coverage" /\ DOMAIN refresher.read = CoverageTables
      /\ coverage' = BuildCoverage(refresher.read["routes"], refresher.read["services"],
                                   refresher.read["plugins"])
      /\ unread' = unread \ {"coverage"}
      /\ refresher' = RefreshState("refresh", refresher.pending \ {refresher.type}, "none", <<>>)
      /\ Rest /\ UNCHANGED <<signals, cache>>
  <2>1. RefresherOk BY DEF IInv, TypeInv
  <2> QED BY <2>1, CoverageLeft DEF CoverageBuild
<1>2. \A u \in Cached : u \in unread' <=> u \in unread BY <1>1 DEF Cached
<1>3. ASSUME ~torn, \A u \in CoverageTables : ~Due(u) PROVE CoverageSettled'
  <2>1. CoverageReading BY <1>1, <1>3 DEF IInv, CoverageInv
  <2>2. PICK P : P = refresher.read["plugins"] OBVIOUS
  <2>3. /\ refresher.read["routes"] = db["routes"] /\ refresher.read["services"] = db["services"]
        /\ db["plugins"] \subseteq P /\ PluginsKnown(P)
    BY <1>1, <2>1, <2>2 DEF CoverageReading, CoverageTables
  <2>4. PluginsKnown(P)'
    <3>1. cache' = cache /\ ("plugins" \in unread => "plugins" \in unread') BY <1>1
    <3> QED BY <2>3, <3>1 DEF PluginsKnown, Shown, FirstPage
  <2>5. db' = db BY <1>1 DEF Rest
  <2>6. coverage' = BuildCoverage(db["routes"], db["services"], P) BY <1>1, <2>2, <2>3
  <2> QED BY <2>3, <2>4, <2>5, <2>6 DEF CoverageSettled
<1> QED BY <1>1, <1>2, <1>3, CoverageEnd

(* A read that fails leaves the index and the mark that it is behind. *)
LEMMA CoverageFailsInv ==
  ASSUME IInv, CoverageFails
  PROVE  IInv'
<1>1. /\ refresher.pc = "coverage" /\ unread' = unread \cup {"coverage"}
      /\ refresher' = RefreshState("refresh", refresher.pending \ {refresher.type}, "none", <<>>)
      /\ Rest /\ UNCHANGED <<signals, cache>>
  <2>1. RefresherOk BY DEF IInv, TypeInv
  <2> QED BY <2>1, CoverageLeft DEF CoverageFails
<1>2. \A u \in Cached : u \in unread' <=> u \in unread BY <1>1 DEF Cached
<1>3. CoverageSettled' BY <1>1 DEF CoverageSettled
<1> QED BY <1>1, <1>2, <1>3, CoverageEnd

-----------------------------------------------------------------------------
(* The theorem.                                                               *)

(* At the start: the proxy was loaded from the tables, and nothing is under   *)
(* way.                                                                       *)
LEMMA InitInv == Init => IInv
<1>1. SUFFICES ASSUME Init PROVE IInv OBVIOUS
<1>2. /\ mode \in {"postgres", "off"} /\ requests \in Workloads /\ db = Seed
      /\ worker = [w \in Workers |-> Idle] /\ signals = <<>>
      /\ refresher = RefreshState("wait", {}, "none", <<>>)
      /\ cache = [t \in Cached |-> Loaded(mode, Seed[t])]
      /\ coverage = (IF mode = "off" THEN Unavailable ELSE CoverageOf(Seed))
      /\ unread = (IF mode = "off" THEN {"coverage"} ELSE {})
  BY <1>1 DEF Init, RefreshState
<1>3. refresher.pc = "wait" /\ refresher.pending = {} /\ refresher.type = "none" /\ refresher.read = <<>>
  BY <1>2, RefreshFields
<1>4. RefresherOk
  <2>1. refresher = [pc |-> refresher.pc, pending |-> refresher.pending, type |-> refresher.type,
                     read |-> refresher.read]
    BY <1>2, <1>3, Zenon DEF RefreshState
  <2> QED BY <1>3, <2>1, Zenon DEF RefresherOk
<1>5. WorkerOk(Idle) BY IdleOk
<1>6. TypeInv
  <2>1. \A w \in Workers : WorkerOk(worker[w]) BY <1>2, <1>5
  <2>2. IsStore(db) BY <1>2, StoreAssumption
  <2>3. cache = [t \in Cached |-> cache[t]] /\ worker = [w \in Workers |-> worker[w]] BY <1>2
  <2>4. signals \in Seq(Cached) BY <1>2
  <2> QED BY <1>2, <1>4, <2>1, <2>2, <2>3, <2>4 DEF TypeInv
<1>7. \A t \in Cached : IsTable(db[t]) /\ cache[t] \in Shown(db[t])
  <2>1. SUFFICES ASSUME NEW t \in Cached PROVE IsTable(db[t]) /\ cache[t] \in Shown(db[t]) OBVIOUS
  <2>2. IsTable(db[t]) BY <1>6, CachedTables, StoreTable DEF TypeInv
  <2>3. LoadAll(db[t], PageSize) = db[t] BY <2>2, LoadAllWhole
  <2>4. cache[t] = Loaded(mode, db[t]) BY <1>2
  <2> QED BY <2>2, <2>3, <2>4 DEF Loaded, Shown
<1>8. \A t : ~Reading(t) BY <1>3 DEF Reading
<1>9. CacheInv
  <2>1. \A t \in Claimed : t \in Cached BY <1>2, Claims
  <2> QED BY <1>7, <1>8, <2>1 DEF CacheInv, TableServed
<1>10. "plugins" \in Cached BY DEF Cached
<1>11. PluginsKnown(db["plugins"]) BY <1>7, <1>10 DEF PluginsKnown
<1>12. PluginsInv BY <1>11 DEF PluginsInv
<1>13. CoverageSettled
  <2>1. CASE mode = "off" BY <1>2, <2>1 DEF CoverageSettled
  <2>2. CASE mode # "off"
    <3>1. coverage = BuildCoverage(db["routes"], db["services"], db["plugins"])
      BY <1>2, <2>2 DEF CoverageOf
    <3> QED BY <1>11, <3>1 DEF CoverageSettled
  <2> QED BY <2>1, <2>2
<1>14. CoverageInv BY <1>3, <1>13 DEF CoverageInv
<1> QED BY <1>6, <1>9, <1>12, <1>14 DEF IInv

(* Every handler keeps the invariant with its first statement ... *)
LEMMA HandlerInv ==
  ASSUME IInv, NEW w \in Workers, NEW r \in requests, Handler(w, r)
  PROVE  IInv'
<1>1. CASE CreateEntity(w, r) BY <1>1, CreateEntityInv
<1>2. CASE UpdateRead(w, r) BY <1>2, UpdateReadInv
<1>3. CASE UpsertLookup(w, r) BY <1>3, UpsertLookupInv
<1>4. CASE DeleteEntity(w, r) BY <1>4, DeleteEntityInv
<1>5. CASE CreateRoute(w, r) BY <1>5, CreateRouteInv
<1>6. CASE \/ CreateNestedRoute(w, r) \/ CreateCertificateSni(w, r)
           \/ CreateNestedTarget(w, r) \/ CreateNestedKey(w, r)
  BY <1>6, NestedInv
<1>7. CASE ServicePlugins(w, r) BY <1>7, ScopedPluginInv DEF ServicePlugins
<1>8. CASE RoutePlugins(w, r) BY <1>8, ScopedPluginInv DEF RoutePlugins
<1>9. CASE ConsumerPlugins(w, r) BY <1>9, ScopedPluginInv DEF ConsumerPlugins
<1>10. CASE UpdateRouteService(w, r) BY <1>10, UpdateRouteServiceInv
<1>11. CASE UpsertRouteService(w, r) BY <1>11, UpsertRouteServiceInv
<1>12. CASE UpdateNestedTarget(w, r) \/ DeleteNestedTarget(w, r) BY <1>12, NestedTargetInv
<1>13. CASE UpsertNestedTarget(w, r) BY <1>13, UpsertNestedTargetInv
<1>14. CASE SetTargetHealth(w, r) BY <1>14, SetTargetHealthInv
<1>15. CASE \/ CreateCertificate(w, r) \/ UpdateCertificate(w, r) \/ UpsertCertificate(w, r)
            \/ DeleteCaCertificate(w, r)
  BY <1>15, CertificateReadInv
<1>16. CASE DeleteCertificate(w, r) BY <1>16, DeleteCertificateInv
<1>17. CASE WriteRefused(w, r) BY <1>17, StutterInv DEF WriteRefused, OffRest
<1>18. CASE PostConfig(w, r) BY <1>18, PostConfigInv
<1>19. CASE GetById(w, r) BY <1>19, StutterInv DEF GetById, OffRest
<1>20. CASE \E l \in {"names", "foreign"} : LookupIndex(w, r, l) BY <1>20, LookupInv
<1> QED
  BY <1>1, <1>2, <1>3, <1>4, <1>5, <1>6, <1>7, <1>8, <1>9, <1>10, <1>11, <1>12, <1>13, <1>14, <1>15,
     <1>16, <1>17, <1>18, <1>19, <1>20
  DEF Handler

(* ... and with those that follow. *)
LEMMA StepInv ==
  ASSUME IInv, NEW w \in Workers, Step(w)
  PROVE  IInv'
<1>1. CASE SendSignal(w) BY <1>1, SendSignalInv
<1>2. CASE UpdateWrite(w) BY <1>2, UpdateWriteInv
<1>3. CASE UpsertWrite(w) BY <1>3, UpsertWriteInv
<1>4. CASE InsertStep(w) BY <1>4, InsertStepInv
<1>5. CASE MergeRead(w) BY <1>5, MergeReadInv
<1>6. CASE DeleteStep(w) BY <1>6, DeleteStepInv
<1>7. CASE LinkRead(w) BY <1>7, LinkReadInv
<1>8. CASE LinkWrite(w) BY <1>8, LinkWriteInv
<1>9. CASE PatchTarget(w) BY <1>9, PatchTargetInv
<1>10. CASE DropTarget(w) BY <1>10, DropTargetInv
<1>11. CASE UpsertTargetLookup(w) BY <1>11, UpsertTargetLookupInv
<1>12. CASE InsertCertificate(w) BY <1>12, InsertCertificateInv
<1>13. CASE MergeCertificate(w) BY <1>13, MergeCertificateInv
<1>14. CASE ReadSnis(w) BY <1>14, ReadSnisInv
<1>15. CASE DeleteSni(w) BY <1>15, DeleteSniInv
<1>16. CASE AddSni(w) BY <1>16, AddSniInv
<1>17. CASE LoadData(w) BY <1>17, LoadLockInv DEF LoadData
<1>18. CASE LoadNames(w) BY <1>18, LoadLockInv DEF LoadNames
<1>19. CASE LoadForeign(w) BY <1>19, LoadLockInv DEF LoadForeign
<1>20. CASE Load(w) BY <1>20, LoadInv
<1>21. CASE LookupData(w) BY <1>21, LookupInv
<1> QED
  BY <1>1, <1>2, <1>3, <1>4, <1>5, <1>6, <1>7, <1>8, <1>9, <1>10, <1>11, <1>12, <1>13, <1>14, <1>15,
     <1>16, <1>17, <1>18, <1>19, <1>20, <1>21
  DEF Step

(* The refresher keeps the invariant. *)
LEMMA RefresherInv ==
  ASSUME IInv, Refresher
  PROVE  IInv'
  BY FirstSignalInv, CollectSignalInv, WindowInv, ReadSourceInv, ReadFailsInv, CoverageReadInv,
     CoverageBuildInv, CoverageFailsInv
  DEF Refresher

(* The invariant is inductive. *)
LEMMA NextInv ==
  ASSUME IInv, [Next]_vars
  PROVE  IInv'
<1>1. CASE UNCHANGED vars BY <1>1, StutterInv DEF vars
<1>2. CASE Next BY <1>2, HandlerInv, StepInv, RefresherInv DEF Next
<1> QED BY <1>1, <1>2

(* When nothing is under way, nothing is due: the invariant is the property.  *)
LEMMA InvSettled == IInv => SettledCache
<1>1. SUFFICES ASSUME IInv, Quiet, ~torn
               PROVE  /\ \A t \in Claimed \ unread : cache[t] \in Shown(db[t])
                      /\ unread = {} /\ cache["plugins"] = db["plugins"]
                         /\ Cardinality(db["plugins"]) < PageSize => coverage = CoverageOf(db)
  BY DEF SettledCache, Claimed
<1>2. TypeInv /\ RefresherOk BY <1>1 DEF IInv, TypeInv
<1>3. refresher.pc = "wait" /\ refresher.pending = {} BY <1>1, <1>2 DEF Quiet, RefresherOk
<1>4. \A u : ~Due(u)
  <2>1. DOMAIN signals = {} BY <1>1 DEF Quiet
  <2>2. \A u : ~Announced(u) BY <1>1, <2>1 DEF Quiet, Announced
  <2> QED BY <1>3, <2>2 DEF Due
<1>5. ASSUME NEW t \in Claimed \ unread PROVE cache[t] \in Shown(db[t])
  BY <1>1, <1>3, <1>4, <1>5 DEF IInv, CacheInv, TableServed, TableDue, Reading
<1>6. ASSUME unread = {}, cache["plugins"] = db["plugins"], Cardinality(db["plugins"]) < PageSize
      PROVE  coverage = CoverageOf(db)
  <2>1. CoverageSettled BY <1>1, <1>3, <1>4 DEF IInv, CoverageInv
  <2>2. PICK P : /\ coverage = BuildCoverage(db["routes"], db["services"], P)
                 /\ db["plugins"] \subseteq P /\ PluginsKnown(P)
    BY <1>6, <2>1 DEF CoverageSettled
  <2>3. PICK Q : IsTable(Q) /\ cache["plugins"] \in Shown(Q) /\ P \subseteq Q
    BY <1>6, <2>2 DEF PluginsKnown
  <2>4. Q = db["plugins"]
    <3>1. CASE cache["plugins"] = Q BY <1>6, <3>1
    <3>2. CASE cache["plugins"] = FirstPage(Q)
      <4>1. db["plugins"] = FirstPage(Q) /\ db["plugins"] \subseteq Q BY <1>6, <2>2, <2>3, <3>2
      <4> QED BY <1>6, <2>3, <4>1, ShortPage
    <3> QED BY <2>3, <3>1, <3>2 DEF Shown
  <2>5. P = db["plugins"] BY <2>2, <2>3, <2>4
  <2> QED BY <2>2, <2>5 DEF CoverageOf
<1> QED BY <1>5, <1>6

(* Every write reaches the proxy: when no request, signal or refresh is under *)
(* way, the proxy serves the rows of the database and the index of AI policy  *)
(* coverage counts them, for any number of workers and any requests.          *)
THEOREM CacheSettles == Spec => []SettledCache
<1>1. Init => IInv BY InitInv
<1>2. IInv /\ [Next]_vars => IInv' BY NextInv
<1>3. IInv => SettledCache BY InvSettled
<1> QED BY <1>1, <1>2, <1>3, PTL DEF Spec
=============================================================================
