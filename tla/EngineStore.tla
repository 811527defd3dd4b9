---------------------------- MODULE EngineStore ----------------------------
(***************************************************************************)
(* The durable account store (saas/store.rs, saas/blobstore.rs) as         *)
(* operators: what a request makes of the container's raw keys (kv) and of *)
(* the append-only block log.  A value is written by one engine publish,   *)
(* an insert by two (create, then write), so a request is the sequence of  *)
(* publishes it issues and a crash keeps a prefix of it.                   *)
(***************************************************************************)
EXTENDS CausalUnit, SequencesExt

CONSTANTS
  Absent,    \* the key is not in the catalog
  Hollow    \* the unit exists and has no content yet

\* The keys of one account (`acct/<account>/...`) and the token table.
Keys == {"srp", "recsrp", "wrapped", "recblob", "vv", "rec", "tokens"}
NoKeys == [k \in Keys |-> Absent]

-----------------------------------------------------------------------------
(* The engine's raw-key operations: each publishes once.                    *)

\* The unit is in the catalogs, without content.
create_unit_raw_key(k) == [key |-> k, val |-> Hollow]
\* The whole framed value, at offset 0, in one new record.
write_raw_key(k, v) == [key |-> k, val |-> v]
uuid_for_raw_key(kv, k) == kv[k] # Absent

\* get_value: a unit without content is too short for its length prefix.
Unreadable(kv, k) == kv[k] = Hollow
Stored(kv, k) == kv[k] \notin {Absent, Hollow}

\* Mutant of put_value: an update removes the key and inserts it again.
put_value_remove(kv, k, v) ==
  (IF kv[k] = Absent THEN <<>> ELSE <<write_raw_key(k, Absent)>>)
    \o <<create_unit_raw_key(k), write_raw_key(k, v)>>

\* put_value: a key that exists is overwritten in one publish; a new one is
\* created empty first.
put_value(kv, k, v) ==
  IF uuid_for_raw_key(kv, k) THEN <<write_raw_key(k, v)>>
  ELSE <<create_unit_raw_key(k), write_raw_key(k, v)>>

\* The keys after the first n publishes of a request.
Published(kv, ps, n) ==
  [k \in Keys |->
     LET hits == {i \in 1 .. n : ps[i].key = k}
     IN  IF hits = {} THEN kv[k] ELSE ps[Max(hits)].val]

-----------------------------------------------------------------------------
(* The requests: the publishes they issue.  `<<>>` is an error or a no-op.  *)

register(kv, s) ==
  IF kv["srp"] # Absent THEN <<>> ELSE put_value(kv, "srp", s)

account_exists(kv) == Stored(kv, "srp")
update_credentials(kv, s) == put_value(kv, "srp", s)
put_recovery_credentials(kv, s) == put_value(kv, "recsrp", s)
put_wrapped_key(kv, s) == put_value(kv, "wrapped", s)
put_recovery_blob(kv, s) == put_value(kv, "recblob", s)
persist_tokens(kv, ts) == put_value(kv, "tokens", ts)

\* The stored vector is read and joined before it is written back.
set_vv(kv, v) ==
  IF Unreadable(kv, "vv") THEN <<>>
  ELSE put_value(kv, "vv", IF kv["vv"] = Absent THEN v ELSE Join(kv["vv"], v))

\* Mutant of put_record: the frontier keeps what the new record dominates.
put_record_no_evict(kv, v) ==
  LET frontier == IF kv["rec"] = Absent THEN {} ELSE kv["rec"]
  IN  IF Unreadable(kv, "rec") \/ \E w \in frontier : StrictlyDominates(w, v)
        THEN <<>>
        ELSE put_value(kv, "rec", frontier \cup {v})

\* The frontier is read, a stale record ignored, dominated ones evicted.
put_record(kv, v) ==
  LET frontier == IF kv["rec"] = Absent THEN {} ELSE kv["rec"]
  IN  IF Unreadable(kv, "rec") THEN <<>>
      ELSE IF \E w \in frontier : StrictlyDominates(w, v) THEN <<>>
      ELSE put_value(kv, "rec", {w \in frontier : ~Dominates(v, w)} \cup {v})

\* list_units reads the vector of every unit of the account; one that cannot
\* be read fails the whole listing.
list_units_fails(kv) == Unreadable(kv, "vv")

-----------------------------------------------------------------------------
(* The block log: intact records [ct, ok |-> TRUE], at most one torn tail. *)

\* The newest record of a key wins.
get_block(log) == IF log = <<>> THEN Absent ELSE Last(log).ct

BlobPut(log, ct) == Append(log, [ct |-> ct, ok |-> TRUE])
BlobTorn(log, ct) == Append(log, [ct |-> ct, ok |-> FALSE])

put_block(log, ct) == IF log # <<>> THEN log ELSE BlobPut(log, ct)
overwrite_block(log, ct) == BlobPut(log, ct)

\* Scan to the first record that does not verify and truncate there.
BlobOpen(log) ==
  LET bad == {i \in DOMAIN log : ~log[i].ok}
  IN  IF bad = {} THEN log ELSE SubSeq(log, 1, Min(bad) - 1)
=============================================================================
