------------------------------- MODULE NoSql -------------------------------
(***************************************************************************)
(* The document layer (sfs-nosql: db.rs, index.rs, query.rs, record.rs,    *)
(* value.rs): records stored packed or slotted in the content of a unit,   *)
(* and one index unit per property value holding the keys that carry it.   *)
(*                                                                         *)
(* A unit's content is a sequence of cells: a count or a directory, a      *)
(* property with its value, a value alone, a key.  A write at an offset    *)
(* overlays cells and never shortens the content, so what a longer version *)
(* left stays behind the shorter one.  Values are W-bit signed numbers; the*)
(* ones in Wide do not fit an index key.  An engine transaction is one step*)
(* (a Db borrows the engine for itself).                                   *)
(***************************************************************************)
EXTENDS Integers, Sequences, FiniteSets, SequencesExt, FiniteSetsExt

CONSTANTS
  Pks,         \* primary keys, a set of numbers
  Props,       \* property names, a set of numbers (their order is used)
  W,           \* width of a value in bits
  Inputs,      \* the records the calls are given
  Wide,        \* the values too large for an index key
  RepeatPk     \* whether a bulk load may name one record twice

VARIABLES
  unit,     \* [Pks -> content], the record units, NoUnit when absent
  index,    \* [Props -> [order keys -> content]], the index units
  want,     \* [Pks -> record], the map from property to value each key stands for
  indexed   \* the keys last written through an indexing call

vars == <<unit, index, want, indexed>>

NoUnit == <<>>
NoRecord == <<>>      \* a record of no property is not told from no record
Values == -(2 ^ (W - 1)) .. 2 ^ (W - 1) - 1
Indexable(r) == \A p \in DOMAIN r : r[p] \notin Wide

---------------------------------------------------------------------------
\* Content of a unit

\* Engine::write at an offset, counted in cells.
Overlay(content, off, cells) ==
  [i \in 1 .. Max({Len(content), off + Len(cells)}) |->
     IF i \in off + 1 .. off + Len(cells) THEN cells[i - off] ELSE content[i]]

Names(r) == SetToSortSeq(DOMAIN r, <)

\* Record::encode_content: the number of properties, then each with its value.
encode_content(r) ==
  <<[packed |-> Cardinality(DOMAIN r)]>> \o [i \in DOMAIN Names(r) |->
     [name |-> Names(r)[i], value |-> r[Names(r)[i]]]]

\* Record::encode_slotted: a directory from property to slot, a slot per value.
encode_slotted(r) ==
  <<[dir |-> [p \in DOMAIN r |-> CHOOSE i \in DOMAIN Names(r) : Names(r)[i] = p]]>>
    \o [i \in DOMAIN Names(r) |-> [value |-> r[Names(r)[i]]]]

IsSlotted(content) == "dir" \in DOMAIN content[1]
parse_slotted_dir(content) == content[1].dir

decode_slotted(content) ==
  [p \in DOMAIN parse_slotted_dir(content) |->
     content[parse_slotted_dir(content)[p] + 1].value]

decode_packed(content) ==
  [p \in {content[i].name : i \in 2 .. content[1].packed + 1} |->
     content[CHOOSE i \in 2 .. content[1].packed + 1 : content[i].name = p].value]

decode_content(content) ==
  IF IsSlotted(content) THEN decode_slotted(content) ELSE decode_packed(content)

get(u, pk) == IF u[pk] = NoUnit THEN NoRecord ELSE decode_content(u[pk])
Entries(r) == {<<p, r[p]>> : p \in DOMAIN r}

---------------------------------------------------------------------------
\* The index

\* order_key: the sign bit is flipped, so that byte order is value order.
order_key(v) == (v + 2 ^ (W - 1)) % 2 ^ W

index_key_fits(v) == v \notin Wide

encode_pks(S) == <<Cardinality(S)>> \o SetToSortSeq(S, <)
decode_pks(content) ==
  IF content = NoUnit THEN {} ELSE {content[i] : i \in 2 .. content[1] + 1}

\* index_add: a key already present is left alone.
index_add(ix, p, v, pk) ==
  LET S == decode_pks(ix[p][order_key(v)]) IN
  IF pk \in S THEN ix
  ELSE [ix EXCEPT ![p][order_key(v)] = Overlay(@, 0, encode_pks(S \cup {pk}))]

\* Mutant of index_remove: an entry left without a key is not cleared.
index_remove_keep_last(ix, p, v, pk) ==
  LET S == decode_pks(ix[p][order_key(v)]) IN
  IF pk \notin S \/ S = {pk} THEN ix
  ELSE [ix EXCEPT ![p][order_key(v)] = Overlay(@, 0, encode_pks(S \ {pk}))]

\* index_remove: a value that was never indexed is skipped, an entry that is left
\* without a key is removed.
index_remove(ix, p, v, pk) ==
  LET S == decode_pks(ix[p][order_key(v)]) IN
  IF ~index_key_fits(v) \/ pk \notin S THEN ix
  ELSE [ix EXCEPT ![p][order_key(v)] =
          IF S = {pk} THEN NoUnit ELSE Overlay(@, 0, encode_pks(S \ {pk}))]

AddAll(ix, r, pk) ==
  FoldSet(LAMBDA e, x : index_add(x, e[1], e[2], pk), ix, Entries(r))
RemoveAll(ix, r, pk) ==
  FoldSet(LAMBDA e, x : index_remove(x, e[1], e[2], pk), ix, Entries(r))

\* Query::eq and Query::range.
eq(p, v) == decode_pks(index[p][order_key(v)])
range(p, lo, hi) ==
  UNION {decode_pks(index[p][o]) : o \in order_key(lo) .. order_key(hi)}

---------------------------------------------------------------------------
\* The operations of a Db

Init ==
  /\ unit = [pk \in Pks |-> NoUnit]
  /\ index = [p \in Props |-> [o \in 0 .. 2 ^ W - 1 |-> NoUnit]]
  /\ want = [pk \in Pks |-> NoRecord]
  /\ indexed = {}

Done(pk, r) == want' = [want EXCEPT ![pk] = r]

\* Db::put; a value that cannot be indexed is refused before anything changes.
put(pk, r) ==
  /\ Indexable(r)
  /\ unit' = [unit EXCEPT ![pk] = Overlay(@, 0, encode_content(r))]
  /\ index' = AddAll(RemoveAll(index, get(unit, pk), pk), r, pk)
  /\ indexed' = indexed \cup {pk}
  /\ Done(pk, r)

\* Db::put_many: the versions to remove from the index are all read before the
\* transaction.  A value that cannot be indexed fails the whole transaction.
put_many(pk1, r1, pk2, r2) ==
  LET u1 == [unit EXCEPT ![pk1] = Overlay(@, 0, encode_content(r1))]
      x1 == AddAll(RemoveAll(index, get(unit, pk1), pk1), r1, pk1)
  IN
  /\ Indexable(r1) /\ Indexable(r2)
  /\ pk1 # pk2 \/ RepeatPk
  /\ unit' = [u1 EXCEPT ![pk2] = Overlay(@, 0, encode_content(r2))]
  /\ index' = AddAll(RemoveAll(x1, get(unit, pk2), pk2), r2, pk2)
  /\ indexed' = indexed \cup {pk1, pk2}
  /\ want' = [want EXCEPT ![pk1] = r1, ![pk2] = r2]

\* Db::put_unindexed: the old version's entries go, none is added.
put_unindexed(pk, r) ==
  /\ unit' = [unit EXCEPT ![pk] = Overlay(@, 0, encode_content(r))]
  /\ index' = RemoveAll(index, get(unit, pk), pk)
  /\ indexed' = indexed \ {pk}
  /\ Done(pk, r)

\* Db::put_patchable.
put_patchable(pk, r) ==
  /\ Indexable(r)
  /\ unit' = [unit EXCEPT ![pk] = Overlay(@, 0, encode_slotted(r))]
  /\ index' = AddAll(RemoveAll(index, get(unit, pk), pk), r, pk)
  /\ indexed' = indexed \cup {pk}
  /\ Done(pk, r)

\* Db::patch: one slot of a slotted record is written, one property indexed again.
patch(pk, p, v) ==
  LET slot == parse_slotted_dir(unit[pk])[p]
      old == unit[pk][slot + 1].value
  IN
  /\ unit[pk] # NoUnit
  /\ IsSlotted(unit[pk])
  /\ p \in DOMAIN parse_slotted_dir(unit[pk])
  /\ index_key_fits(v)
  /\ unit' = [unit EXCEPT ![pk] = Overlay(@, slot, <<[value |-> v]>>)]
  /\ index' = index_add(index_remove(index, p, old, pk), p, v, pk)
  /\ UNCHANGED indexed
  /\ Done(pk, [want[pk] EXCEPT ![p] = v])

\* Db::delete.
delete(pk) ==
  /\ unit[pk] # NoUnit
  /\ index' = RemoveAll(index, get(unit, pk), pk)
  /\ unit' = [unit EXCEPT ![pk] = NoUnit]
  /\ indexed' = indexed \ {pk}
  /\ Done(pk, NoRecord)

Next ==
  \E pk \in Pks :
    \/ \E r \in Inputs : put(pk, r) \/ put_unindexed(pk, r) \/ put_patchable(pk, r)
    \/ \E r \in Inputs, pk2 \in Pks, r2 \in Inputs : put_many(pk, r, pk2, r2)
    \/ \E p \in Props, v \in Values : patch(pk, p, v)
    \/ delete(pk)

Spec == Init /\ [][Next]_vars

---------------------------------------------------------------------------
\* Properties

\* Every key reads back the record it was last given, whatever longer, shorter,
\* packed or slotted version its unit held before (Db::get over an overwrite that
\* never truncates).
RecordsExact == \A pk \in Pks : get(unit, pk) = want[pk]

Carriers(p, lo, hi) ==
  {pk \in indexed : p \in DOMAIN want[pk] /\ want[pk][p] \in lo .. hi}

\* A query by value or by range returns exactly the indexed records whose property
\* lies there, after any sequence of calls and changes of layout (index.rs: the
\* index never disagrees with the records).
IndexExact ==
  \A p \in Props, lo, hi \in Values \ Wide :
    lo <= hi => /\ range(p, lo, hi) = Carriers(p, lo, hi)
                /\ eq(p, lo) = Carriers(p, lo, lo)
============================================================================
