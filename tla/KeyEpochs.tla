----------------------------- MODULE KeyEpochs ------------------------------
(***************************************************************************)
(* Writer sets, signatures and re-keying of one container with several     *)
(* replicas (sfs-core/src/version/store.rs), reconciled by sync            *)
(* (sfs-sync/src/lib.rs, step 0b and the record steps) through a server    *)
(* (sfs-saas) or with a live peer (sfs-sync/src/peer.rs).                  *)
(*                                                                         *)
(* A replica belongs to one identity.  Each identity writes one unit of    *)
(* its own, so that versions are totally ordered (concurrent versions are  *)
(* the subject of StoreSync); a record is its version, the identity that   *)
(* signed it (the unit's) and the key epoch it is sealed under.  Every     *)
(* header commit is atomic (HeaderCommit): an operation of one commit is   *)
(* one step, and revoke, which takes several, may stop between them.       *)
(***************************************************************************)
EXTENDS WriterSet, FiniteSets

CONSTANTS
  Server,       \* the transport that is a store
  Units,        \* those who write
  Topologies,   \* the sets of transports that may be used together
  Added,        \* how many members the owner has added
  MaxEpoch,     \* bound: sets the owner seals
  MaxKey,       \* bound: re-keyings
  MaxWrites,    \* bound: writes of each identity
  MaxSyncs      \* bound: syncs under way at a time

ASSUME KeyEpochsAssumption ==
  /\ Owner \in Members /\ Server \notin Members
  /\ Units \subseteq Members
  /\ Topologies \subseteq SUBSET (Members \cup {Server})
  /\ Added \in Nat

Transports == Members \cup {Server}

VARIABLES
  key,      \* header.key_epoch of each replica; its root key is that epoch's
  wset,     \* the set each header points to, and the server's
  recs,     \* the records each replica, and the server, holds
  grants,   \* the key epochs of the grants each transport holds, by grantee
  sess,     \* each replica's sync
  task,     \* the owner's revoke
  net       \* the transports in use; does the server check signatures?

vars == <<key, wset, recs, grants, sess, task, net>>

NoGrant == 0   \* the grants of epoch 0 are not looked at
None == [ver |-> 0, key |-> 0]
Records == [ver : Nat, key : Nat]

First == [epoch |-> Added, key_epoch |-> 0,
          writers |-> Members, removed |-> {}]

Idle == [at |-> "idle", via |-> Server, blob |-> First]
NoTask == [at |-> "none", remove |-> {}, left |-> {}, epoch |-> 0]

\* The owner has created the container (create_writerset), added the others and
\* handed everyone a copy and the key.
Init ==
  /\ key = [r \in Members |-> 0]
  /\ wset = [t \in Transports |-> First]
  /\ recs = [t \in Transports |-> [u \in Units |-> None]]
  /\ grants = [t \in Transports |-> [r \in Members |-> NoGrant]]
  /\ sess = [r \in Members |-> Idle]
  /\ task = NoTask
  /\ net \in [links : Topologies, enforce : BOOLEAN]
  /\ net.enforce => Server \in net.links

-----------------------------------------------------------------------------
(* Operations of one engine *)

\* Nobody else is using the engine.
Free(r) == sess[r].at = "idle" /\ (r = Owner => task.at = "none")

\* verify_record_signature in its two scopes.
MayAccept(ws, signer) == contains(ws, signer)
MayRead(ws, signer) == signer \in authorized(ws)

\* load_and_verify_writerset.
Loads(ws, ke) == ws.key_epoch <= ke

\* A new write: write_unit_record signs it, and refuses a signer who is not in
\* the set.
Write(r) ==
  /\ Free(r) /\ r \in Units
  /\ MayAccept(wset[r], r)
  /\ recs[r][r].ver < MaxWrites
  /\ recs' = [recs EXCEPT ![r][r] = [ver |-> @.ver + 1, key |-> key[r]]]
  /\ UNCHANGED <<key, wset, grants, sess, task, net>>

\* The owner's engine commits a new set.
Seals(ws) ==
  /\ ws.epoch <= MaxEpoch
  /\ is_valid_successor_of(ws, wset[Owner])
  /\ wset' = [wset EXCEPT ![Owner] = ws]

add_writer(m) ==
  /\ Free(Owner)
  /\ ~contains(wset[Owner], m)
  /\ Seals(successor_adding(wset[Owner], m))
  /\ UNCHANGED <<key, recs, grants, sess, task, net>>

\* rekey_core: every record is written again under the new key with its own
\* signature, and one publish names them all and the key epoch.
Rekeyed(rs, ke) ==
  [u \in Units |-> IF rs[u].ver = 0 THEN None ELSE [ver |-> rs[u].ver, key |-> ke]]

\* read_unit_record and the Preserve form of write_unit_record, for all records.
Readable(r) ==
  \A u \in Units : recs[r][u].ver > 0 => recs[r][u].key = key[r] /\ MayRead(wset[r], u)

remove_writers(ms) ==
  /\ ms # {} /\ ms \subseteq wset[Owner].writers \ {Owner}
  /\ key[Owner] > wset[Owner].key_epoch
  /\ Seals(successor_removing(wset[Owner], ms, key[Owner]))

\* Rotate has left the set's key epoch behind, so it is always sealed again.
reseal_writer_set_at_key_epoch == Seals(successor_resealed(wset[Owner], key[Owner]))

\* revoke, step 1: rotate_root_key.
Rotate(ms) ==
  /\ Free(Owner)
  /\ key[Owner] < MaxKey
  /\ ms \subseteq Members \ {Owner}
  /\ Readable(Owner)
  /\ key' = [key EXCEPT ![Owner] = @ + 1]
  /\ recs' = [recs EXCEPT ![Owner] = Rekeyed(@, key[Owner] + 1)]
  /\ task' = [at |-> "rotated", remove |-> ms, left |-> {}, epoch |-> 0]
  /\ UNCHANGED <<wset, grants, sess, net>>

\* revoke, step 2, and step 3 that hands out the grants of everybody left.
Reset ==
  /\ task.at = "rotated"
  /\ IF task.remove = {} THEN reseal_writer_set_at_key_epoch ELSE remove_writers(task.remove)
  /\ task' = [at |-> "grants", remove |-> {}, left |-> wset'[Owner].writers \ {Owner},
              epoch |-> key[Owner]]
  /\ UNCHANGED <<key, recs, grants, sess, net>>

\* The members to remove are not all in the set: revoke fails after its first step.
ResetFails ==
  /\ task.at = "rotated"
  /\ ~(task.remove \subseteq wset[Owner].writers)
  /\ task' = NoTask
  /\ UNCHANGED <<key, wset, recs, grants, sess, net>>

\* remove_writer(s) on its own, after a revoke that was cut short.
RemoveLater(ms) ==
  /\ Free(Owner)
  /\ remove_writers(ms)
  /\ UNCHANGED <<key, recs, grants, sess, task, net>>

\* grant_read: the key is sealed for r with the epoch it was rotated to.
seal_key_grant(t, r) == grants' = [grants EXCEPT ![t][r] = task.epoch]

\* put_key_grant of one grant; a peer writes it into its own container.
Upload(r, t) ==
  /\ task.at = "grants" /\ r \in task.left
  /\ t # Server => Free(t) /\ MayAccept(wset[t], t)
  /\ seal_key_grant(t, r)
  /\ task' = IF task.left = {r} THEN NoTask ELSE [task EXCEPT !.left = @ \ {r}]
  /\ UNCHANGED <<key, wset, recs, sess, net>>

\* The owner's process ends.
OwnerCrash ==
  /\ task.at # "none"
  /\ task' = NoTask
  /\ UNCHANGED <<key, wset, recs, grants, sess, net>>

-----------------------------------------------------------------------------
(* SyncEngine::sync_impl *)

adopt_writer_set(r, blob) ==
  wset' = IF is_valid_successor_of(blob, wset[r]) THEN [wset EXCEPT ![r] = blob] ELSE wset

\* Mutant of Leads: the set's own epoch is not compared with the key's.
LeadsNever(blob, ke) == FALSE

\* The set belongs to a re-keying this container has not been through.
Leads(blob, ke) == blob.key_epoch > ke

Goto(r, where) == sess' = [sess EXCEPT ![r].at = where]
Fail(r) == sess' = [sess EXCEPT ![r] = Idle]

\* get_writer_set.  A set that leads is adopted only with its key: a plain sync
\* ends here, and sync_with_identity asks for its grant.
Begin(r, t) ==
  LET at(where, blob) == sess' = [sess EXCEPT ![r] = [at |-> where, via |-> t, blob |-> blob]] IN
  /\ Free(r)
  /\ t # r /\ (t # Server => Free(t))
  /\ Cardinality({q \in Members : sess[q].at # "idle"}) < MaxSyncs
  /\ IF Leads(wset[t], key[r])
     THEN at("grant", wset[t]) /\ UNCHANGED wset
     ELSE at("put", First) /\ adopt_writer_set(r, wset[t])
  /\ UNCHANGED <<key, recs, grants, task, net>>

\* adopt_rekey: the records under the new key, the key epoch and the set in one
\* publish.
adopt_rekey(r, blob) ==
  /\ key' = [key EXCEPT ![r] = blob.key_epoch]
  /\ wset' = [wset EXCEPT ![r] = blob]
  /\ recs' = [recs EXCEPT ![r] = Rekeyed(@, blob.key_epoch)]

\* open_key_grant: r opens the grant sealed for it, which carries its key epoch.
open_key_grant(t, r, ke) == grants[t][r] = ke

\* get_key_grant: a grant of exactly the pulled set's epoch.
Grant(r) ==
  LET blob == sess[r].blob
      t    == sess[r].via
  IN
  /\ sess[r].at = "grant"
  /\ t # Server => sess[t].at = "idle"
  /\ IF open_key_grant(t, r, blob.key_epoch) /\ is_valid_successor_of(blob, wset[r]) /\ Readable(r)
     THEN /\ adopt_rekey(r, blob)
          /\ sess' = [sess EXCEPT ![r] = [at |-> "put", via |-> t, blob |-> First]]
     ELSE /\ sess' = [sess EXCEPT ![r] = Idle]
          /\ UNCHANGED <<key, wset, recs>>
  /\ UNCHANGED <<grants, task, net>>

\* Mutant of is_downgrade: the server keeps whatever it is sent.
is_downgrade_never(blob, stored) == FALSE

\* EngineStore::put_writer_set.
is_downgrade(blob, stored) ==
  \/ blob.key_epoch < stored.key_epoch
  \/ blob.key_epoch = stored.key_epoch /\ blob.epoch < stored.epoch

\* The server refuses a downgrade.
PutAtServer(r) ==
  IF is_downgrade(wset[r], wset[Server])
  THEN Fail(r) /\ UNCHANGED wset
  ELSE Goto(r, "push") /\ wset' = [wset EXCEPT ![Server] = wset[r]]

\* A peer passes over a set that leads its key and adopts a successor.
PutAtPeer(r, t) ==
  /\ sess[t].at = "idle"
  /\ Goto(r, "push")
  /\ IF Leads(wset[r], key[t]) THEN UNCHANGED wset ELSE adopt_writer_set(t, wset[r])

\* put_writer_set of the local set.
Put(r) ==
  /\ sess[r].at = "put"
  /\ IF sess[r].via = Server THEN PutAtServer(r) ELSE PutAtPeer(r, sess[r].via)
  /\ UNCHANGED <<key, recs, grants, task, net>>

\* import_record: the receiver must be able to open it, and accepts a new record
\* only from a current writer.
Imports(t, u, rec) == rec.key = key[t] /\ MayAccept(wset[t], u)

\* The trailer in the clear names the signer, who must be a current writer.
verify_record_trailer(ws, u) == MayAccept(ws, u)

\* A server that enforces signatures checks the record against its set, and
\* stores it under another lock.
PushToServer(r, u) ==
  IF net.enforce
  THEN /\ IF verify_record_trailer(wset[Server], u) THEN Goto(r, "store") ELSE Fail(r)
       /\ UNCHANGED recs
  ELSE recs' = [recs EXCEPT ![Server][u] = recs[r][u]] /\ UNCHANGED sess

PushToPeer(r, t, u) ==
  /\ sess[t].at = "idle"
  /\ IF Imports(t, u, recs[r][u])
     THEN recs' = [recs EXCEPT ![t][u] = recs[r][u]] /\ UNCHANGED sess
     ELSE Fail(r) /\ UNCHANGED recs

\* put_record of a unit the other side does not have in this version.
Push(r, u) ==
  LET t == sess[r].via IN
  /\ sess[r].at = "push"
  /\ recs[r][u].ver > recs[t][u].ver
  /\ IF t = Server THEN PushToServer(r, u) ELSE PushToPeer(r, t, u)
  /\ UNCHANGED <<key, wset, grants, task, net>>

Store(r, u) ==
  /\ sess[r].at = "store"
  /\ recs[r][u].ver > recs[Server][u].ver
  /\ recs' = [recs EXCEPT ![Server][u] = recs[r][u]]
  /\ Goto(r, "push")
  /\ UNCHANGED <<key, wset, grants, task, net>>

\* Nothing is left to push.
Pushed(r) ==
  /\ sess[r].at \in {"push", "store"}
  /\ \A u \in Units : recs[r][u].ver <= recs[sess[r].via][u].ver
  /\ Goto(r, "pull")
  /\ UNCHANGED <<key, wset, recs, grants, task, net>>

\* get_records and import_record of a unit that the other side has in a later
\* version; an error ends the sync.
Pull(r, u) ==
  LET t == sess[r].via IN
  /\ sess[r].at = "pull"
  /\ t # Server => sess[t].at = "idle"
  /\ recs[t][u].ver > recs[r][u].ver
  /\ IF Imports(r, u, recs[t][u])
     THEN recs' = [recs EXCEPT ![r][u] = recs[t][u]] /\ UNCHANGED sess
     ELSE Fail(r) /\ UNCHANGED recs
  /\ UNCHANGED <<key, wset, grants, task, net>>

Pulled(r) ==
  /\ sess[r].at = "pull"
  /\ \A u \in Units : recs[r][u].ver >= recs[sess[r].via][u].ver
  /\ sess' = [sess EXCEPT ![r] = Idle]
  /\ UNCHANGED <<key, wset, recs, grants, task, net>>

\* A call fails or the process ends.
Abort(r) ==
  /\ sess[r].at # "idle"
  /\ sess' = [sess EXCEPT ![r] = Idle]
  /\ UNCHANGED <<key, wset, recs, grants, task, net>>

OwnerStep ==
  \/ \E m \in Members : add_writer(m)
  \/ \E ms \in SUBSET Members : Rotate(ms) \/ RemoveLater(ms)
  \/ Reset \/ ResetFails \/ OwnerCrash
  \/ \E r \in Members, t \in net.links : Upload(r, t)

SyncStep(r) ==
  \/ \E t \in net.links : Begin(r, t)
  \/ Grant(r) \/ Put(r) \/ Pushed(r) \/ Pulled(r) \/ Abort(r)
  \/ \E u \in Units : Push(r, u) \/ Store(r, u) \/ Pull(r, u)

Next == OwnerStep \/ \E r \in Members : Write(r) \/ SyncStep(r)

Spec == Init /\ [][Next]_vars

-----------------------------------------------------------------------------
(* What is promised *)

Sets == {wset[t] : t \in Transports}

\* Whatever was interrupted, every replica opens again: its set is bound to no
\* re-keying its header has not been through (load_and_verify_writerset), and
\* every record on disk opens with the header's key and carries the signature of
\* somebody in writers \union removed (read_unit_record), so that records of
\* removed members stay readable.
Reopens ==
  \A r \in Members :
    /\ Loads(wset[r], key[r])
    /\ Readable(r)

\* The sets at the replicas and at the server are sets of one chain: those of the
\* same epoch are equal, and a later one has no lower key epoch, forgets nobody
\* who may have signed a record, and drops a writer only with a new key.
OneChain ==
  \A a, b \in Sets :
    /\ a.epoch = b.epoch => a = b
    /\ a.epoch < b.epoch =>
         /\ a.key_epoch <= b.key_epoch
         /\ authorized(a) \subseteq authorized(b)
         /\ a.key_epoch = b.key_epoch => a.writers \subseteq b.writers

\* Nobody goes back: no replica and not the server to an earlier set, no replica
\* to an earlier key.
NoDowngrade ==
  [][/\ \A t \in Transports : wset'[t].epoch >= wset[t].epoch
     /\ \A r \in Members : key'[r] >= key[r]]_vars

\* A sync that has taken up the new key runs to its end under it: no record it is
\* offered is under another key (SyncOutcome::RekeyApplied).
RekeyRoundCompletes ==
  \A r \in Members :
    sess[r].at = "pull" =>
      \A u \in Units :
        recs[sess[r].via][u].ver > recs[r][u].ver => recs[sess[r].via][u].key = key[r]
=============================================================================
