----------------------------- MODULE EntityStore -----------------------------
(* The data-access objects of kong-db: PgDao over PostgreSQL and DblessDao    *)
(* over the in-memory store of DB-less mode (crates/kong-db/src/dao/          *)
(* postgres.rs, dbless.rs), as operators on a value `d` that maps every table *)
(* to its set of rows.  One operator is one SQL statement, which PostgreSQL   *)
(* runs atomically; handlers that need several statements are sequences of    *)
(* steps in the module AdminApi.                                              *)
(*                                                                            *)
(* A row keeps what the handlers tell apart: its id (ids are ordered, as the  *)
(* uuids are), its endpoint key `name`, its computed column `key`             *)
(* (cache_key), one ordinary column `val`, and `refs`, the foreign keys that  *)
(* are not NULL, a function from column to id.                                *)
EXTENDS Naturals, FiniteSets, Sequences, SequencesExt, FiniteSetsExt

CONSTANT NoName    \* the NULL of the columns name and key

Tables == {"services", "routes", "consumers", "plugins", "upstreams",
           "targets", "certificates", "snis", "ca_certificates", "vaults",
           "key_sets", "keys"}

Fk(t, c, o, rule) == [table |-> t, column |-> c, owner |-> o, rule |-> rule]

\* The REFERENCES clauses of the migrations.  ca_certificates is an array of
\* ids in the row of a service, so nothing in the database protects it.
ForeignKeys ==
  { Fk("routes", "service", "services", "RESTRICT"),
    Fk("services", "client_certificate", "certificates", "RESTRICT"),
    Fk("upstreams", "client_certificate", "certificates", "RESTRICT"),
    Fk("snis", "certificate", "certificates", "CASCADE"),
    Fk("targets", "upstream", "upstreams", "CASCADE"),
    Fk("plugins", "route", "routes", "CASCADE"),
    Fk("plugins", "service", "services", "CASCADE"),
    Fk("plugins", "consumer", "consumers", "CASCADE"),
    Fk("keys", "set", "key_sets", "CASCADE") }

\* Tables whose endpoint key is UNIQUE, and tables with a UNIQUE cache_key.
NameUnique == Tables \ {"plugins", "targets", "certificates", "ca_certificates"}
KeyUnique  == {"plugins", "targets", "keys"}

Row(i, n, k, v, refs) == [id |-> i, name |-> n, key |-> k, val |-> v, refs |-> refs]
NoRefs == [c \in {} |-> 0]
\* The columns of f over those of g, and one column set.
Over(f, g) == [c \in DOMAIN f \cup DOMAIN g |-> IF c \in DOMAIN f THEN f[c] ELSE g[c]]
With(c, x, g) == Over([d \in {c} |-> x], g)
IdsOf(rows) == {r.id : r \in rows}
Refers(r, c, i) == c \in DOMAIN r.refs /\ r.refs[c] = i

\* The body of a request, and a row: ids and foreign keys are positive, the id
\* of a body may be left out.
IsRefs(f) == f = [c \in DOMAIN f |-> f[c]] /\ \A c \in DOMAIN f : f[c] \in Nat \ {0}
IsBody(r) == r = Row(r.id, r.name, r.key, r.val, r.refs) /\ r.id \in Nat /\ IsRefs(r.refs)
IsRow(r) == IsBody(r) /\ r.id # 0
IsTable(rows) == IsFiniteSet(rows) /\ \A r \in rows : IsRow(r)
IsStore(d) == d = [t \in Tables |-> d[t]] /\ \A t \in Tables : IsTable(d[t])

Ok(d) == [ok |-> TRUE, err |-> "none", d |-> d]

\* map_sqlx_error: the constraint that fails names the error of the answer
\* (23505, 23503); a statement that fails leaves the database as it was.
Refused(d, e) == [ok |-> FALSE, err |-> e, d |-> d]

UniqueClash(rows, t, r) ==
  \E o \in rows : /\ o.id # r.id
                  /\ \/ t \in NameUnique /\ r.name # NoName /\ o.name = r.name
                     \/ t \in KeyUnique /\ r.key # NoName /\ o.key = r.key

Dangling(d, t, r) ==
  \E fk \in ForeignKeys : /\ fk.table = t
                          /\ fk.column \in DOMAIN r.refs
                          /\ r.refs[fk.column] \notin IdsOf(d[fk.owner])

\* PgDao::insert.
Insert(d, t, r) ==
  IF r.id \in IdsOf(d[t]) \/ UniqueClash(d[t], t, r) THEN Refused(d, "unique")
  ELSE IF Dangling(d, t, r) THEN Refused(d, "foreign")
  ELSE Ok([d EXCEPT ![t] = @ \cup {r}])

\* PgDao::select, by id or by endpoint key: the row found, or none.
Select(d, t, i) == {r \in d[t] : r.id = i}
SelectByName(d, t, n) ==
  LET found == {r \in d[t] : r.name = n /\ n # NoName}
  IN IF found = {} THEN {} ELSE {CHOOSE r \in found : \A o \in found : r.id <= o.id}

\* PgDao::page: rows after `offset` in the order of their ids, one more than
\* `size` fetched to know whether a next page exists; the offset of the next
\* page is the last id of this one, 0 when this is the last.
Page(rows, offset, size) ==
  LET after == IdsOf({r \in rows : r.id > offset})
      ids   == {i \in after : Cardinality({j \in after : j <= i}) <= size}
  IN [data |-> {r \in rows : r.id \in ids},
      next |-> IF ids = after THEN 0 ELSE CHOOSE i \in ids : \A j \in ids : j <= i]

\* PgDao::update: every column of the body that the schema knows is set, id and
\* created_at never; a row that is gone is NotFound.
Update(d, t, i, r) ==
  IF i \notin IdsOf(d[t]) THEN Refused(d, "not_found")
  ELSE LET new == [r EXCEPT !.id = i]
       IN IF UniqueClash(d[t], t, new) THEN Refused(d, "unique")
          ELSE IF Dangling(d, t, new) THEN Refused(d, "foreign")
          ELSE Ok([d EXCEPT ![t] = {o \in @ : o.id # i} \cup {new}])

\* PgDao::upsert, first statement: by endpoint key the id of an existing row
\* takes the place of the one in the body.
UpsertId(d, t, r, byName) ==
  LET found == SelectByName(d, t, r.name)
  IN IF byName /\ found # {} THEN (CHOOSE o \in found : TRUE).id ELSE r.id

\* PgDao::upsert, second statement: INSERT ... ON CONFLICT (id) DO UPDATE.
Upsert(d, t, r) ==
  IF r.id \in IdsOf(d[t]) THEN Update(d, t, r.id, r) ELSE Insert(d, t, r)

\* PgDao::delete with the ON DELETE rules of the schema.  No table that
\* cascades owns another one that does, so one level is enough.
Delete(d, t, i) ==
  LET owned(u, rule) == {r \in d[u] : \E fk \in ForeignKeys :
                           /\ fk.table = u /\ fk.owner = t /\ fk.rule = rule
                           /\ Refers(r, fk.column, i)}
  IN IF i \notin IdsOf(d[t]) THEN Refused(d, "not_found")
     ELSE IF \E u \in Tables : owned(u, "RESTRICT") # {} THEN Refused(d, "foreign")
     ELSE Ok([u \in Tables |->
               (IF u = t THEN {r \in d[u] : r.id # i} ELSE d[u]) \ owned(u, "CASCADE")])

\* PgDao::select_by_foreign_key.
SelectByForeignKey(d, t, c, i, offset, size) ==
  Page({r \in d[t] : Refers(r, c, i)}, offset, size)

\* DblessDao::page with filters: ten pages are read from the store, filtered,
\* and paged again; only then does a next page exist.
FilteredPage(rows, match, offset, size) ==
  LET read == Page(rows, offset, size * 10).data
      hits == {r \in read : r \in match}
  IN IF Cardinality(hits) > size THEN Page(hits, 0, size)
     ELSE [data |-> hits, next |-> 0]

\* load_all: pages of `size` until the one that has no next offset.
LoadAll(rows, size) ==
  LET Pages[o \in {0} \cup IdsOf(rows)] ==
        LET p == Page(rows, o, size)
        IN p.data \cup (IF p.next = 0 \/ p.next = o THEN {} ELSE Pages[p.next])
  IN Pages[0]
==============================================================================
