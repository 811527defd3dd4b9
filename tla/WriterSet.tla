----------------------------- MODULE WriterSet ------------------------------
(***************************************************************************)
(* The owner-signed set of writers of a container                          *)
(* (sfs-core/src/version/writerset.rs).  Every set carries its own epoch   *)
(* and the key epoch of the re-keying it is bound to.  Signatures are      *)
(* perfect: a sealed set is the value the owner sealed, and the foreign    *)
(* owners that the code turns away do not occur.                           *)
(***************************************************************************)
EXTENDS Naturals

CONSTANTS
  Members,   \* identities that may ever write
  Owner      \* the one that seals sets

WriterSets ==
  [epoch : Nat, key_epoch : Nat, writers : SUBSET Members, removed : SUBSET Members]

contains(ws, m) == m \in ws.writers

\* writers \union removed: whose records on disk may be read.
authorized(ws) == ws.writers \cup ws.removed

is_valid_successor_of(ws, prev) ==
  /\ ws.epoch > prev.epoch
  /\ ws.key_epoch >= prev.key_epoch
  /\ prev.writers \subseteq ws.writers \/ ws.key_epoch > prev.key_epoch

\* The set add_writer seals.
successor_adding(ws, m) ==
  [epoch |-> ws.epoch + 1, key_epoch |-> ws.key_epoch,
   writers |-> ws.writers \cup {m}, removed |-> ws.removed]

\* Mutant of successor_removing: no tombstone is kept.
successor_dropping(ws, ms, ke) ==
  [epoch |-> ws.epoch + 1, key_epoch |-> ke,
   writers |-> ws.writers \ ms, removed |-> ws.removed]

\* The set remove_writer and remove_writers seal.
successor_removing(ws, ms, ke) ==
  [epoch |-> ws.epoch + 1, key_epoch |-> ke,
   writers |-> ws.writers \ ms, removed |-> ws.removed \cup ms]

\* The set reseal_writer_set_at_key_epoch seals.
successor_resealed(ws, ke) ==
  [epoch |-> ws.epoch + 1, key_epoch |-> ke, writers |-> ws.writers, removed |-> ws.removed]
=============================================================================
