---------------------------- MODULE ServerStore ----------------------------
(***************************************************************************)
(* What the hosted store promises for one account: the in-memory reference *)
(* implementation of saas/lib.rs.  Every operation takes effect at once    *)
(* and nothing that took effect is ever lost.  The account is the first    *)
(* component of every key of the store, so accounts never meet: one is     *)
(* modelled, with one unit of data.  Blobs are opaque: a credential or a   *)
(* wrapped key is the secret it was made from, a record its version        *)
(* vector, a block the suite its ciphertext was sealed under.              *)
(***************************************************************************)
EXTENDS CausalUnit

CONSTANTS
  Absent,    \* no value stored
  Secrets,   \* passwords and recovery codes
  Suites     \* what distinguishes two ciphertexts of one block

VARIABLES
  blocks,                \* the block of the unit, or Absent
  vvs,                   \* the accumulated version vector, or Absent
  records,               \* the record frontier: a set of version vectors
  srp_credentials,       \* the secret behind the SRP verifier, or Absent
  recovery_credentials,  \* the secret behind the recovery verifier, or Absent
  wrapped_keys,          \* the secret that wraps the root key, or Absent
  recovery_blobs         \* the code that wraps the root key, or Absent

vars == <<blocks, vvs, records, srp_credentials, recovery_credentials,
          wrapped_keys, recovery_blobs>>

Init ==
  /\ blocks = Absent /\ vvs = Absent /\ records = {}
  /\ srp_credentials = Absent /\ recovery_credentials = Absent
  /\ wrapped_keys = Absent /\ recovery_blobs = Absent

\* Write-once: the block that is already there is kept.
put_block(ct) ==
  /\ blocks' = IF blocks = Absent THEN ct ELSE blocks
  /\ UNCHANGED <<vvs, records, srp_credentials, recovery_credentials, wrapped_keys, recovery_blobs>>

overwrite_block(ct) ==
  /\ blocks' = ct
  /\ UNCHANGED <<vvs, records, srp_credentials, recovery_credentials, wrapped_keys, recovery_blobs>>

set_vv(v) ==
  /\ vvs' = IF vvs = Absent THEN v ELSE Join(vvs, v)
  /\ UNCHANGED <<blocks, records, srp_credentials, recovery_credentials, wrapped_keys, recovery_blobs>>

\* A dominated record is stale; a newer one evicts what it dominates.
put_record(v) ==
  /\ records' = IF \E w \in records : StrictlyDominates(w, v)
                  THEN records
                  ELSE {w \in records : ~Dominates(v, w)} \cup {v}
  /\ UNCHANGED <<blocks, vvs, srp_credentials, recovery_credentials, wrapped_keys, recovery_blobs>>

\* Insert-only; the request may carry the wrapped root key as well.
register(s, w) ==
  /\ srp_credentials = Absent
  /\ srp_credentials' = s
  /\ wrapped_keys' \in {w, wrapped_keys}
  /\ UNCHANGED <<blocks, vvs, records, recovery_credentials, recovery_blobs>>

update_credentials(s, w) ==
  /\ srp_credentials # Absent
  /\ srp_credentials' = s
  /\ wrapped_keys' \in {w, wrapped_keys}
  /\ UNCHANGED <<blocks, vvs, records, recovery_credentials, recovery_blobs>>

put_recovery_credentials(s) ==
  /\ recovery_credentials' = s
  /\ UNCHANGED <<blocks, vvs, records, srp_credentials, wrapped_keys, recovery_blobs>>

put_recovery_blob(s) ==
  /\ recovery_blobs' = s
  /\ UNCHANGED <<blocks, vvs, records, srp_credentials, recovery_credentials, wrapped_keys>>

Next ==
  \/ \E ct \in Suites : put_block(ct) \/ overwrite_block(ct)
  \/ \E v \in [Hosts -> 0 .. 1] : set_vv(v) \/ put_record(v)
  \/ \E s \in Secrets :
       \/ register(s, s) \/ update_credentials(s, s)
       \/ put_recovery_credentials(s) \/ put_recovery_blob(s)

Spec == Init /\ [][Next]_vars
=============================================================================
