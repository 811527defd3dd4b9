-------------------------- MODULE KeyEpochsProofs ---------------------------
(***************************************************************************)
(* Proofs about KeyEpochs for any number of members, of units and of       *)
(* re-keyings: every replica opens again (Reopens), the sets at large form *)
(* one chain (OneChain), and nobody goes back (NoDowngrade).               *)
(*                                                                         *)
(* None of these is inductive.  A set travels in a sync between the moment *)
(* it was read and the moment it is adopted, so the chain has to include   *)
(* the sets in flight (Chain); that a freshly sealed set extends the chain *)
(* needs the owner's to be the newest of all (OwnerNewest), which in turn  *)
(* needs that the owner never adopts one; and that a grant never takes a   *)
(* replica back to an earlier key needs the set it was asked for to lead   *)
(* the key still (GrantLeads).                                             *)
(***************************************************************************)
EXTENDS KeyEpochs, TLAPS

Stages == {"none", "rotated", "grants"}
Phases == {"idle", "grant", "put", "push", "store", "pull"}
Tasks == [at : Stages, remove : SUBSET Members, left : SUBSET Members, epoch : Nat]
Sessions == [at : Phases, via : Transports, blob : WriterSets]

TypeInv ==
  /\ key \in [Members -> Nat]
  /\ wset \in [Transports -> WriterSets]
  /\ recs \in [Transports -> [Units -> Records]]
  /\ sess \in [Members -> Sessions]
  /\ task \in Tasks
  /\ net.links \subseteq Transports

\* Every set that a container or the server holds, or that a sync carries.
Chain == Sets \cup {sess[r].blob : r \in Members} \cup {First}

Follows(a, b) ==
  /\ a.epoch = b.epoch => a = b
  /\ a.epoch < b.epoch =>
       /\ a.key_epoch <= b.key_epoch
       /\ authorized(a) \subseteq authorized(b)
       /\ a.key_epoch = b.key_epoch => a.writers \subseteq b.writers

Chained == \A a, b \in Chain : Follows(a, b)

OwnerNewest == \A a \in Chain : a.epoch <= wset[Owner].epoch

GrantLeads ==
  \A r \in Members : sess[r].at = "grant" => Leads(sess[r].blob, key[r])

IInv == TypeInv /\ Chained /\ OwnerNewest /\ GrantLeads /\ Reopens

\* What NoDowngrade says of a step.
NoneBack ==
  /\ \A t \in Transports : wset'[t].epoch >= wset[t].epoch
  /\ \A r \in Members : key'[r] >= key[r]

-----------------------------------------------------------------------------
(* Facts about the chain *)

\* The sets of the chain are writer sets.
LEMMA ChainType == ASSUME TypeInv PROVE Chain \subseteq WriterSets
  BY KeyEpochsAssumption DEF TypeInv, Chain, Sets, Sessions, First, WriterSets, Transports

\* A step that brings no new set and leaves the owner's alone keeps the chain.
LEMMA ChainKept ==
  ASSUME IInv, Chain' \subseteq Chain, wset'[Owner] = wset[Owner]
  PROVE  Chained' /\ OwnerNewest'
  BY DEF IInv, Chained, OwnerNewest

\* The owner never adopts a set, and a member that adopts one forgets nobody.
LEMMA Adopting ==
  ASSUME IInv, NEW r \in Members, NEW blob \in Chain, is_valid_successor_of(blob, wset[r])
  PROVE  /\ r # Owner
         /\ authorized(wset[r]) \subseteq authorized(blob)
<1>1. wset[r] \in Chain
  BY DEF Chain, Sets, Transports
<1>2. /\ wset[r] \in WriterSets /\ blob \in WriterSets /\ wset[Owner] \in WriterSets
  BY <1>1, ChainType, KeyEpochsAssumption DEF IInv, TypeInv, Transports
<1>3. wset[r].epoch < blob.epoch
  BY <1>2 DEF is_valid_successor_of, WriterSets
<1>4. blob.epoch <= wset[Owner].epoch
  BY DEF IInv, OwnerNewest
<1>5. r # Owner
  BY <1>2, <1>3, <1>4 DEF WriterSets
<1>6. Follows(wset[r], blob)
  BY <1>1 DEF IInv, Chained
<1> QED
  BY <1>3, <1>5, <1>6 DEF Follows

\* A set the owner seals as a successor of its own, which forgets nobody and
\* drops a writer only with a new key, extends the chain.
LEMMA Sealing ==
  ASSUME IInv, NEW ws \in WriterSets,
         is_valid_successor_of(ws, wset[Owner]),
         authorized(wset[Owner]) \subseteq authorized(ws),
         wset' = [wset EXCEPT ![Owner] = ws], sess' = sess
  PROVE  Chained' /\ OwnerNewest'
<1>1. /\ wset[Owner] \in Chain /\ wset[Owner] \in WriterSets
      /\ wset \in [Transports -> WriterSets] /\ Owner \in Transports
  BY KeyEpochsAssumption DEF Chain, Sets, Transports, IInv, TypeInv
<1>2. wset'[Owner] = ws
  BY <1>1
<1>3. Chain' \subseteq Chain \cup {ws}
  <2>1. Sets' \subseteq Sets \cup {ws}
    BY <1>1 DEF Sets
  <2> QED
    BY <2>1 DEF Chain, First
<1>4. \A a \in Chain : a \in WriterSets /\ a.epoch < ws.epoch
  BY <1>1, ChainType DEF IInv, OwnerNewest, is_valid_successor_of, WriterSets
<1>5. \A a \in Chain : Follows(a, ws)
  <2> SUFFICES ASSUME NEW a \in Chain PROVE Follows(a, ws)
    OBVIOUS
  <2>1. Follows(a, wset[Owner]) /\ a.epoch <= wset[Owner].epoch
    BY <1>1 DEF IInv, Chained, OwnerNewest
  <2>2. a \in WriterSets /\ a.epoch < ws.epoch
    BY <1>4
  <2>3. /\ a.key_epoch <= wset[Owner].key_epoch
        /\ authorized(a) \subseteq authorized(wset[Owner])
        /\ a.key_epoch = wset[Owner].key_epoch => a.writers \subseteq wset[Owner].writers
    BY <1>1, <2>1, <2>2 DEF Follows, WriterSets
  <2>4. /\ wset[Owner].key_epoch <= ws.key_epoch
        /\ wset[Owner].key_epoch = ws.key_epoch => wset[Owner].writers \subseteq ws.writers
    BY <1>1 DEF is_valid_successor_of, WriterSets
  <2>5. a.key_epoch \in Nat /\ wset[Owner].key_epoch \in Nat /\ ws.key_epoch \in Nat
        /\ a.epoch \in Nat /\ ws.epoch \in Nat
    BY <1>1, <2>2 DEF WriterSets
  <2> QED
    BY <2>2, <2>3, <2>4, <2>5 DEF Follows
<1>6. \A a, b \in Chain \cup {ws} : Follows(a, b)
  <2>1. \A a \in Chain : Follows(ws, a)
    BY <1>4 DEF Follows, WriterSets
  <2>2. Follows(ws, ws)
    BY DEF Follows, WriterSets
  <2> QED
    BY <1>5, <2>1, <2>2 DEF IInv, Chained
<1>7. \A a \in Chain \cup {ws} : a.epoch <= ws.epoch
  BY <1>4 DEF WriterSets
<1> QED
  BY <1>2, <1>3, <1>6, <1>7 DEF Chained, OwnerNewest

\* A step in which every set at rest or in flight was in the chain before, and
\* the owner keeps its own.
LEMMA NothingNew ==
  ASSUME IInv, wset'[Owner] = wset[Owner],
         \A t \in Transports : wset'[t] \in Chain,
         \A r \in Members : sess'[r].blob \in Chain
  PROVE  Chained' /\ OwnerNewest'
<1>1. Chain' \subseteq Chain
  BY DEF Chain, Sets, First
<1> QED
  BY <1>1, ChainKept

\* What is in the chain.
LEMMA InChain ==
  /\ \A t \in Transports : wset[t] \in Chain
  /\ \A r \in Members : wset[r] \in Chain /\ sess[r].blob \in Chain
  /\ First \in Chain
  BY DEF Chain, Sets, Transports

\* Records, keys and sets that a step leaves alone open as before.
LEMMA OpensAsBefore ==
  ASSUME IInv, key' = key, wset' = wset, recs' = recs
  PROVE  Reopens'
  BY DEF IInv, Reopens, Readable, Loads, MayRead, authorized

\* The constants of the module are well typed.
LEMMA ConstantTypes ==
  /\ First \in WriterSets /\ Idle \in Sessions /\ NoTask \in Tasks /\ None \in Records
  /\ Owner \in Members /\ Owner \in Transports /\ Server \in Transports
  /\ Members \subseteq Transports /\ Units \subseteq Members
<1>1. /\ Owner \in Members /\ Owner \in Transports /\ Server \in Transports
      /\ Members \subseteq Transports /\ Units \subseteq Members
  BY KeyEpochsAssumption DEF Transports
<1>2. First \in WriterSets
  BY KeyEpochsAssumption DEF First, WriterSets
<1>3. Idle \in Sessions
  BY <1>1, <1>2 DEF Idle, Sessions, Phases
<1>4. NoTask \in Tasks
  BY DEF NoTask, Tasks, Stages
<1>5. None \in Records
  BY DEF None, Records
<1> QED
  BY <1>1, <1>2, <1>3, <1>4, <1>5

\* A step that leaves keys and sets alone takes nobody back.
LEMMA NobodyMoves == ASSUME TypeInv, key' = key, wset' = wset PROVE NoneBack
  BY DEF TypeInv, NoneBack, WriterSets

-----------------------------------------------------------------------------
(* One lemma for each kind of step *)

LEMMA InitIInv == Init => IInv
<1> SUFFICES ASSUME Init PROVE IInv
  OBVIOUS
<1>1. TypeInv
  BY ConstantTypes, KeyEpochsAssumption DEF Init, TypeInv, Transports
<1>2. Chain = {First}
  BY ConstantTypes DEF Init, Chain, Sets, Idle
<1>3. Chained /\ OwnerNewest
  BY <1>2, ConstantTypes DEF Chained, OwnerNewest, Follows, Init, WriterSets
<1>4. GrantLeads
  BY DEF Init, GrantLeads, Idle
<1>5. Reopens
  <2> SUFFICES ASSUME NEW r \in Members PROVE Loads(wset[r], key[r]) /\ Readable(r)
    BY DEF Reopens
  <2>1. key[r] = 0 /\ wset[r] = First /\ recs[r] = [u \in Units |-> None]
    BY ConstantTypes DEF Init
  <2>2. First.key_epoch = 0 /\ None.ver = 0
    BY DEF First, None
  <2> QED
    BY <2>1, <2>2 DEF Readable, Loads
<1> QED
  BY <1>1, <1>3, <1>4, <1>5 DEF IInv

\* Steps of the owner's revoke that touch only its own progress and the grants.
LEMMA TaskStep ==
  ASSUME IInv, UNCHANGED <<key, wset, recs, sess, net>>, task' \in Tasks
  PROVE  IInv' /\ NoneBack
<1>1. TypeInv'
  BY DEF IInv, TypeInv
<1>2. Chained' /\ OwnerNewest'
  BY NothingNew, InChain
<1>3. GrantLeads'
  BY DEF IInv, GrantLeads
<1>4. Reopens'
  BY OpensAsBefore
<1> QED
  BY <1>1, <1>2, <1>3, <1>4, NobodyMoves DEF IInv

\* Steps of a sync that only move it on, or end it.
LEMMA SessionStep ==
  ASSUME IInv, NEW r \in Members, NEW s \in Sessions,
         s.at # "grant", s.blob \in Chain,
         sess' = [sess EXCEPT ![r] = s],
         UNCHANGED <<key, wset, recs, task, net>>
  PROVE  IInv' /\ NoneBack
<1>1. TypeInv'
  BY DEF IInv, TypeInv
<1>2. \A q \in Members : sess'[q] = IF q = r THEN s ELSE sess[q]
  BY DEF IInv, TypeInv
<1>3. Chained' /\ OwnerNewest'
  BY <1>2, NothingNew, InChain
<1>4. GrantLeads'
  BY <1>2 DEF IInv, GrantLeads
<1>5. Reopens'
  BY OpensAsBefore
<1> QED
  BY <1>1, <1>3, <1>4, <1>5, NobodyMoves DEF IInv

\* A record arrives at t, be it written there, pushed or pulled: a replica takes
\* it only under its own key and from a writer of its set.
LEMMA RecordStep ==
  ASSUME IInv, NEW t \in Transports, NEW u \in Units, NEW rec \in Records,
         t # Server => Imports(t, u, rec),
         recs' = [recs EXCEPT ![t][u] = rec],
         UNCHANGED <<key, wset, sess, task, net>>
  PROVE  IInv' /\ NoneBack
<1>1. TypeInv'
  BY DEF IInv, TypeInv
<1>2. Chained' /\ OwnerNewest'
  BY NothingNew, InChain
<1>3. GrantLeads'
  BY DEF IInv, GrantLeads
<1>4. Reopens'
  <2> SUFFICES ASSUME NEW q \in Members PROVE (Loads(wset[q], key[q]) /\ Readable(q))'
    BY DEF Reopens
  <2>1. Loads(wset[q], key[q])'
    BY DEF IInv, Reopens, Loads
  <2>2. Readable(q)
    BY DEF IInv, Reopens
  <2>3. q \in Transports /\ q # Server
    BY KeyEpochsAssumption DEF Transports
  <2>4. CASE q # t
    <3>1. recs'[q] = recs[q]
      BY <2>3, <2>4 DEF IInv, TypeInv
    <3> QED
      BY <2>1, <2>2, <3>1 DEF Readable, MayRead, authorized
  <2>5. CASE q = t
    <3>1. \A v \in Units : recs'[q][v] = IF v = u THEN rec ELSE recs[q][v]
      BY <2>3, <2>5 DEF IInv, TypeInv
    <3>2. rec.key = key[q] /\ MayRead(wset[q], u)
      BY <2>3, <2>5 DEF Imports, MayAccept, MayRead, contains, authorized
    <3> QED
      BY <2>1, <2>2, <3>1, <3>2 DEF Readable, MayRead, authorized
  <2> QED
    BY <2>4, <2>5
<1> QED
  BY <1>1, <1>2, <1>3, <1>4, NobodyMoves DEF IInv

\* A set of the chain arrives at t while the sync of r moves on: a replica takes
\* it only as a successor of its own, and not ahead of its key.
LEMMA SetStep ==
  ASSUME IInv, NEW t \in Transports, NEW blob \in Chain,
         blob.epoch >= wset[t].epoch,
         t # Server => is_valid_successor_of(blob, wset[t]) /\ ~Leads(blob, key[t]),
         wset' = [wset EXCEPT ![t] = blob],
         NEW r \in Members, NEW s \in Sessions, s.at # "grant", s.blob \in Chain,
         sess' = [sess EXCEPT ![r] = s],
         UNCHANGED <<key, recs, task, net>>
  PROVE  IInv' /\ NoneBack
<1>1. blob \in WriterSets
  BY ChainType DEF IInv
<1>2. TypeInv'
  BY <1>1 DEF IInv, TypeInv
<1>3. \A q \in Members : sess'[q] = IF q = r THEN s ELSE sess[q]
  BY DEF IInv, TypeInv
<1>4. \A q \in Transports : wset'[q] = IF q = t THEN blob ELSE wset[q]
  BY DEF IInv, TypeInv
<1>5. t \in Members => t # Owner /\ authorized(wset[t]) \subseteq authorized(blob)
  BY Adopting, KeyEpochsAssumption
<1>6. wset'[Owner] = wset[Owner]
  BY <1>4, <1>5, ConstantTypes
<1>7. Chained' /\ OwnerNewest'
  BY <1>3, <1>4, <1>6, NothingNew, InChain
<1>8. GrantLeads'
  BY <1>3 DEF IInv, GrantLeads
<1>9. Reopens'
  <2> SUFFICES ASSUME NEW q \in Members PROVE (Loads(wset[q], key[q]) /\ Readable(q))'
    BY DEF Reopens
  <2>1. Loads(wset[q], key[q]) /\ Readable(q)
    BY DEF IInv, Reopens
  <2>2. CASE q # t
    <3>1. wset'[q] = wset[q]
      BY <1>4, <2>2, ConstantTypes
    <3> QED
      BY <2>1, <3>1 DEF Readable, Loads, MayRead, authorized
  <2>3. CASE q = t
    <3>1. wset'[q] = blob /\ authorized(wset[q]) \subseteq authorized(blob)
      BY <1>4, <1>5, <2>3
    <3>2. ~Leads(blob, key[q])
      BY <2>3, KeyEpochsAssumption
    <3>3. Loads(wset[q], key[q])'
      BY <1>1, <3>1, <3>2 DEF Loads, Leads, WriterSets, IInv, TypeInv
    <3>4. Readable(q)'
      BY <2>1, <3>1 DEF Readable, MayRead, authorized
    <3> QED
      BY <3>3, <3>4
  <2> QED
    BY <2>2, <2>3
<1>10. NoneBack
  BY <1>4 DEF IInv, TypeInv, NoneBack, WriterSets
<1> QED
  BY <1>2, <1>7, <1>8, <1>9, <1>10 DEF IInv

\* The owner's engine commits a successor of its set that forgets nobody and is
\* not ahead of its key.
LEMMA SealStep ==
  ASSUME IInv, NEW ws \in WriterSets,
         is_valid_successor_of(ws, wset[Owner]), Loads(ws, key[Owner]),
         authorized(wset[Owner]) \subseteq authorized(ws),
         wset' = [wset EXCEPT ![Owner] = ws],
         task' \in Tasks, UNCHANGED <<key, recs, sess, net>>
  PROVE  IInv' /\ NoneBack
<1>1. TypeInv'
  BY DEF IInv, TypeInv
<1>2. Chained' /\ OwnerNewest'
  BY Sealing
<1>3. GrantLeads'
  BY DEF IInv, GrantLeads
<1>4. \A q \in Members : wset'[q] = IF q = Owner THEN ws ELSE wset[q]
  BY ConstantTypes DEF IInv, TypeInv
<1>5. Reopens'
  BY <1>4 DEF IInv, Reopens, Readable, Loads, MayRead, authorized
<1>6. NoneBack
  <2>1. \A t \in Transports : wset'[t] = IF t = Owner THEN ws ELSE wset[t]
    BY DEF IInv, TypeInv
  <2> QED
    BY <2>1, ConstantTypes DEF IInv, TypeInv, NoneBack, WriterSets, is_valid_successor_of
<1> QED
  BY <1>1, <1>2, <1>3, <1>5, <1>6 DEF IInv

\* The three successors the code seals are writer sets that forget nobody.
LEMMA Adding ==
  ASSUME NEW ws \in WriterSets, NEW m \in Members
  PROVE  /\ successor_adding(ws, m) \in WriterSets
         /\ authorized(ws) \subseteq authorized(successor_adding(ws, m))
         /\ successor_adding(ws, m).key_epoch = ws.key_epoch
  BY DEF WriterSets, authorized, successor_adding

LEMMA Removing ==
  ASSUME NEW ws \in WriterSets, NEW ms \in SUBSET Members, NEW ke \in Nat
  PROVE  /\ successor_removing(ws, ms, ke) \in WriterSets
         /\ authorized(ws) \subseteq authorized(successor_removing(ws, ms, ke))
         /\ successor_removing(ws, ms, ke).key_epoch = ke
  BY DEF WriterSets, authorized, successor_removing

LEMMA Resealing ==
  ASSUME NEW ws \in WriterSets, NEW ke \in Nat
  PROVE  /\ successor_resealed(ws, ke) \in WriterSets
         /\ authorized(ws) \subseteq authorized(successor_resealed(ws, ke))
         /\ successor_resealed(ws, ke).key_epoch = ke
  BY DEF WriterSets, authorized, successor_resealed

\* A replica's records are written again under another key that its set is not
\* ahead of.
LEMMA RekeyedOpens ==
  ASSUME IInv, NEW r \in Members, NEW ke \in Nat,
         \A u \in Units : recs[r][u].ver > 0 => MayRead(wset[r], u)
  PROVE  /\ Rekeyed(recs[r], ke) \in [Units -> Records]
         /\ \A u \in Units : Rekeyed(recs[r], ke)[u].ver > 0 =>
              Rekeyed(recs[r], ke)[u].key = ke /\ MayRead(wset[r], u)
<1>1. recs[r] \in [Units -> Records]
  BY ConstantTypes DEF IInv, TypeInv
<1>2. \A u \in Units : /\ Rekeyed(recs[r], ke)[u] \in Records
                       /\ recs[r][u].ver = 0 => Rekeyed(recs[r], ke)[u].ver = 0
                       /\ recs[r][u].ver # 0 => Rekeyed(recs[r], ke)[u].key = ke
  BY <1>1 DEF Rekeyed, Records, None
<1>3. \A u \in Units : recs[r][u].ver \in Nat
  BY <1>1 DEF Records
<1>4. Rekeyed(recs[r], ke) \in [Units -> Records]
  BY <1>1 DEF Rekeyed, Records, None
<1> QED
  BY <1>2, <1>3, <1>4

-----------------------------------------------------------------------------
(* The actions *)

LEMMA WriteStep ==
  ASSUME IInv, NEW r \in Members, Write(r)
  PROVE  IInv' /\ NoneBack
<1> DEFINE rec == [ver |-> recs[r][r].ver + 1, key |-> key[r]]
<1>1. r \in Units /\ r \in Transports /\ recs[r][r] \in Records /\ key[r] \in Nat
  BY ConstantTypes DEF Write, IInv, TypeInv
<1>2. rec \in Records /\ rec.key = key[r]
  BY <1>1 DEF Records
<1>3. recs' = [recs EXCEPT ![r][r] = rec]
  BY DEF Write
<1>4. Imports(r, r, rec)
  BY <1>2 DEF Write, Imports
<1> HIDE DEF rec
<1> QED
  BY <1>1, <1>2, <1>3, <1>4, RecordStep DEF Write

\* add_writer, remove_writer(s) and revoke's second step.
LEMMA AddStep ==
  ASSUME IInv, NEW m \in Members, add_writer(m)
  PROVE  IInv' /\ NoneBack
<1> DEFINE ws == successor_adding(wset[Owner], m)
<1>1. wset[Owner] \in WriterSets /\ Loads(wset[Owner], key[Owner])
  BY ConstantTypes DEF IInv, TypeInv, Reopens
<1>2. /\ ws \in WriterSets /\ authorized(wset[Owner]) \subseteq authorized(ws)
      /\ ws.key_epoch = wset[Owner].key_epoch
  BY <1>1, Adding
<1>3. is_valid_successor_of(ws, wset[Owner]) /\ wset' = [wset EXCEPT ![Owner] = ws]
  BY DEF add_writer, Seals
<1>4. Loads(ws, key[Owner])
  BY <1>1, <1>2 DEF Loads
<1>5. task' \in Tasks
  BY DEF add_writer, IInv, TypeInv
<1> HIDE DEF ws
<1> QED
  BY <1>2, <1>3, <1>4, <1>5, SealStep DEF add_writer

LEMMA RemoveStep ==
  ASSUME IInv, NEW ms \in SUBSET Members, remove_writers(ms),
         task' \in Tasks, UNCHANGED <<key, recs, sess, net>>
  PROVE  IInv' /\ NoneBack
<1> DEFINE ws == successor_removing(wset[Owner], ms, key[Owner])
<1>1. wset[Owner] \in WriterSets /\ key[Owner] \in Nat
  BY ConstantTypes DEF IInv, TypeInv
<1>2. /\ ws \in WriterSets /\ authorized(wset[Owner]) \subseteq authorized(ws)
      /\ ws.key_epoch = key[Owner]
  BY <1>1, Removing
<1>3. is_valid_successor_of(ws, wset[Owner]) /\ wset' = [wset EXCEPT ![Owner] = ws]
  BY DEF remove_writers, Seals
<1>4. Loads(ws, key[Owner])
  BY <1>1, <1>2 DEF Loads
<1> HIDE DEF ws
<1> QED
  BY <1>2, <1>3, <1>4, SealStep

LEMMA ResealStep ==
  ASSUME IInv, reseal_writer_set_at_key_epoch,
         task' \in Tasks, UNCHANGED <<key, recs, sess, net>>
  PROVE  IInv' /\ NoneBack
<1> DEFINE ws == successor_resealed(wset[Owner], key[Owner])
<1>1. wset[Owner] \in WriterSets /\ key[Owner] \in Nat
  BY ConstantTypes DEF IInv, TypeInv
<1>2. /\ ws \in WriterSets /\ authorized(wset[Owner]) \subseteq authorized(ws)
      /\ ws.key_epoch = key[Owner]
  BY <1>1, Resealing
<1>3. is_valid_successor_of(ws, wset[Owner]) /\ wset' = [wset EXCEPT ![Owner] = ws]
  BY DEF reseal_writer_set_at_key_epoch, Seals
<1>4. Loads(ws, key[Owner])
  BY <1>1, <1>2 DEF Loads
<1> HIDE DEF ws
<1> QED
  BY <1>2, <1>3, <1>4, SealStep

LEMMA ResetStep ==
  ASSUME IInv, Reset
  PROVE  IInv' /\ NoneBack
<1>1. task.remove \in SUBSET Members /\ key[Owner] \in Nat
  BY ConstantTypes DEF IInv, TypeInv, Tasks
<1>2. wset'[Owner] \in WriterSets
  <2>1. wset[Owner] \in WriterSets /\ wset \in [Transports -> WriterSets]
    BY ConstantTypes DEF IInv, TypeInv
  <2>2. CASE task.remove = {}
    BY <1>1, <2>1, <2>2, Resealing, ConstantTypes
    DEF Reset, reseal_writer_set_at_key_epoch, Seals
  <2>3. CASE task.remove # {}
    <3>1. successor_removing(wset[Owner], task.remove, key[Owner]) \in WriterSets
      BY <1>1, <2>1, Removing
    <3>2. wset' = [wset EXCEPT ![Owner] =
                     successor_removing(wset[Owner], task.remove, key[Owner])]
      BY <2>3 DEF Reset, remove_writers, Seals
    <3> QED
      BY <2>1, <3>1, <3>2, ConstantTypes
  <2> QED
    BY <2>2, <2>3
<1>3. task' \in Tasks
  BY <1>1, <1>2 DEF Reset, Tasks, Stages, WriterSets
<1> QED
  BY <1>1, <1>3, RemoveStep, ResealStep DEF Reset

\* revoke's first step.
LEMMA RotateStep ==
  ASSUME IInv, NEW ms \in SUBSET Members, Rotate(ms)
  PROVE  IInv' /\ NoneBack
<1> DEFINE ke == key[Owner] + 1
<1>1. key[Owner] \in Nat /\ ke \in Nat /\ Readable(Owner) /\ Loads(wset[Owner], key[Owner])
  BY ConstantTypes DEF IInv, TypeInv, Rotate, Reopens
<1>2. /\ Rekeyed(recs[Owner], ke) \in [Units -> Records]
      /\ \A u \in Units : Rekeyed(recs[Owner], ke)[u].ver > 0 =>
           Rekeyed(recs[Owner], ke)[u].key = ke /\ MayRead(wset[Owner], u)
  BY <1>1, RekeyedOpens, ConstantTypes DEF Readable
<1>3. /\ key' = [key EXCEPT ![Owner] = ke]
      /\ recs' = [recs EXCEPT ![Owner] = Rekeyed(recs[Owner], ke)]
      /\ UNCHANGED <<wset, sess, net>>
  BY DEF Rotate
<1>4. task' \in Tasks
  BY ConstantTypes DEF Rotate, Tasks, Stages
<1>5. ke >= key[Owner]
  BY <1>1
<1> HIDE DEF ke
<1>6. TypeInv'
  BY <1>1, <1>2, <1>3, <1>4, ConstantTypes DEF IInv, TypeInv
<1>7. Chained' /\ OwnerNewest'
  BY <1>3, NothingNew, InChain
<1>8. /\ \A q \in Members : key'[q] = IF q = Owner THEN ke ELSE key[q]
      /\ \A q \in Members : recs'[q] = IF q = Owner THEN Rekeyed(recs[q], ke) ELSE recs[q]
  BY <1>3, ConstantTypes DEF IInv, TypeInv
<1>9. sess[Owner].at # "grant"
  BY DEF Rotate, Free
<1>10. GrantLeads'
  BY <1>3, <1>8, <1>9 DEF IInv, GrantLeads
<1>11. Reopens'
  <2> SUFFICES ASSUME NEW q \in Members PROVE (Loads(wset[q], key[q]) /\ Readable(q))'
    BY DEF Reopens
  <2>1. CASE q = Owner
    <3>1. Loads(wset[q], key[q])'
      BY <1>1, <1>3, <1>5, <1>8, <2>1, ConstantTypes DEF Loads, IInv, TypeInv, WriterSets
    <3>2. Readable(q)'
      BY <1>2, <1>3, <1>8, <2>1 DEF Readable, MayRead, authorized
    <3> QED
      BY <3>1, <3>2
  <2>2. CASE q # Owner
    <3>1. key'[q] = key[q] /\ recs'[q] = recs[q] /\ wset'[q] = wset[q]
      BY <1>3, <1>8, <2>2
    <3> QED
      BY <3>1 DEF IInv, Reopens, Readable, Loads, MayRead, authorized
  <2> QED
    BY <2>1, <2>2
<1>12. NoneBack
  BY <1>1, <1>3, <1>5, <1>8 DEF NoneBack, IInv, TypeInv, WriterSets
<1> QED
  BY <1>6, <1>7, <1>10, <1>11, <1>12 DEF IInv

\* get_writer_set.
LEMMA BeginStep ==
  ASSUME IInv, NEW r \in Members, NEW t \in net.links, Begin(r, t)
  PROVE  IInv' /\ NoneBack
<1>1. t \in Transports /\ wset[t] \in Chain /\ wset[t] \in WriterSets
  BY InChain DEF IInv, TypeInv
<1>2. CASE Leads(wset[t], key[r])
  <2> DEFINE s == [at |-> "grant", via |-> t, blob |-> wset[t]]
  <2>1. s \in Sessions /\ s.blob = wset[t]
    BY <1>1 DEF Sessions, Phases
  <2>2. sess' = [sess EXCEPT ![r] = s] /\ UNCHANGED <<key, wset, recs, task, net>>
    BY <1>2 DEF Begin
  <2> HIDE DEF s
  <2>3. \A q \in Members : sess'[q] = IF q = r THEN s ELSE sess[q]
    BY <2>2 DEF IInv, TypeInv
  <2>4. TypeInv'
    BY <2>1, <2>2 DEF IInv, TypeInv
  <2>5. Chained' /\ OwnerNewest'
    BY <1>1, <2>1, <2>2, <2>3, NothingNew, InChain
  <2>6. GrantLeads'
    BY <1>2, <2>1, <2>2, <2>3 DEF IInv, GrantLeads
  <2>7. Reopens' /\ NoneBack
    BY <2>2, OpensAsBefore, NobodyMoves DEF IInv
  <2> QED
    BY <2>4, <2>5, <2>6, <2>7 DEF IInv
<1>3. CASE ~Leads(wset[t], key[r])
  <2> DEFINE s == [at |-> "put", via |-> t, blob |-> First]
  <2>1. s \in Sessions /\ s.at # "grant" /\ s.blob \in Chain
    BY <1>1, ConstantTypes, InChain DEF Sessions, Phases
  <2>2. /\ sess' = [sess EXCEPT ![r] = s] /\ UNCHANGED <<key, recs, task, net>>
        /\ adopt_writer_set(r, wset[t])
    BY <1>3 DEF Begin
  <2> HIDE DEF s
  <2>3. CASE is_valid_successor_of(wset[t], wset[r])
    <3>1. wset' = [wset EXCEPT ![r] = wset[t]]
      BY <2>2, <2>3 DEF adopt_writer_set
    <3>2. wset[t].epoch >= wset[r].epoch
      BY <1>1, <2>3, ConstantTypes DEF is_valid_successor_of, IInv, TypeInv, WriterSets
    <3> QED
      BY <1>1, <1>3, <2>1, <2>2, <2>3, <3>1, <3>2, ConstantTypes, SetStep
  <2>4. CASE ~is_valid_successor_of(wset[t], wset[r])
    BY <2>1, <2>2, <2>4, SessionStep DEF adopt_writer_set
  <2> QED
    BY <2>3, <2>4
<1> QED
  BY <1>2, <1>3

\* get_key_grant and adopt_rekey: the set led the key when the sync read it, and
\* leads it still.
LEMMA GrantStep ==
  ASSUME IInv, NEW r \in Members, Grant(r)
  PROVE  IInv' /\ NoneBack
<1> DEFINE blob == sess[r].blob
           t == sess[r].via
           ke == blob.key_epoch
<1>1. /\ blob \in Chain /\ blob \in WriterSets /\ t \in Transports /\ ke \in Nat
      /\ wset[r] \in WriterSets /\ key[r] \in Nat
  BY InChain, ConstantTypes DEF IInv, TypeInv, Sessions, WriterSets
<1>2. CASE open_key_grant(t, r, ke) /\ is_valid_successor_of(blob, wset[r]) /\ Readable(r)
  <2> DEFINE s == [at |-> "put", via |-> t, blob |-> First]
  <2>1. s \in Sessions /\ s.at # "grant" /\ s.blob = First
    BY <1>1, ConstantTypes DEF Sessions, Phases
  <2>2. /\ sess' = [sess EXCEPT ![r] = s]
        /\ key' = [key EXCEPT ![r] = ke]
        /\ wset' = [wset EXCEPT ![r] = blob]
        /\ recs' = [recs EXCEPT ![r] = Rekeyed(recs[r], ke)]
        /\ UNCHANGED <<task, net>>
    BY <1>2 DEF Grant, adopt_rekey
  <2>3. r # Owner /\ authorized(wset[r]) \subseteq authorized(blob)
    BY <1>1, <1>2, Adopting
  <2>4. ke > key[r] /\ blob.epoch > wset[r].epoch
    BY <1>1, <1>2 DEF Grant, IInv, GrantLeads, Leads, is_valid_successor_of
  <2>5. /\ Rekeyed(recs[r], ke) \in [Units -> Records]
        /\ \A u \in Units : Rekeyed(recs[r], ke)[u].ver > 0 =>
             Rekeyed(recs[r], ke)[u].key = ke /\ MayRead(wset[r], u)
    BY <1>1, <1>2, RekeyedOpens DEF Readable
  <2>6. ke = blob.key_epoch
    OBVIOUS
  <2> HIDE DEF s, blob, ke
  <2>7. TypeInv'
    BY <1>1, <2>1, <2>2, <2>5, ConstantTypes DEF IInv, TypeInv
  <2>8. /\ \A q \in Members : sess'[q] = IF q = r THEN s ELSE sess[q]
        /\ \A q \in Members : key'[q] = IF q = r THEN ke ELSE key[q]
        /\ \A q \in Members : recs'[q] = IF q = r THEN Rekeyed(recs[q], ke) ELSE recs[q]
        /\ \A q \in Transports : wset'[q] = IF q = r THEN blob ELSE wset[q]
    BY <2>2, ConstantTypes DEF IInv, TypeInv
  <2>9. Chained' /\ OwnerNewest'
    BY <1>1, <2>1, <2>3, <2>8, NothingNew, InChain, ConstantTypes
  <2>10. GrantLeads'
    BY <2>1, <2>8 DEF IInv, GrantLeads
  <2>11. Reopens'
    <3> SUFFICES ASSUME NEW q \in Members PROVE (Loads(wset[q], key[q]) /\ Readable(q))'
      BY DEF Reopens
    <3>1. CASE q = r
      <4>1. wset'[q] = blob /\ key'[q] = ke /\ recs'[q] = Rekeyed(recs[r], ke)
        BY <2>8, <3>1, ConstantTypes
      <4>2. Loads(wset[q], key[q])'
        BY <1>1, <2>6, <4>1 DEF Loads
      <4>3. Readable(q)'
        BY <2>3, <2>5, <4>1 DEF Readable, MayRead, authorized
      <4> QED
        BY <4>2, <4>3
    <3>2. CASE q # r
      <4>1. key'[q] = key[q] /\ recs'[q] = recs[q] /\ wset'[q] = wset[q]
        BY <2>8, <3>2, ConstantTypes
      <4> QED
        BY <4>1 DEF IInv, Reopens, Readable, Loads, MayRead, authorized
    <3> QED
      BY <3>1, <3>2
  <2>12. NoneBack
    <3>1. \A q \in Transports : wset[q].epoch \in Nat
      BY DEF IInv, TypeInv, WriterSets
    <3>2. blob.epoch \in Nat
      BY <1>1 DEF WriterSets
    <3>3. \A q \in Transports : wset'[q].epoch >= wset[q].epoch
      BY <2>4, <2>8, <3>1, <3>2
    <3>4. \A q \in Members : key'[q] >= key[q]
      BY <1>1, <2>4, <2>8 DEF IInv, TypeInv
    <3> QED
      BY <3>3, <3>4 DEF NoneBack
  <2> QED
    BY <2>7, <2>9, <2>10, <2>11, <2>12 DEF IInv
<1>3. CASE ~(open_key_grant(t, r, ke) /\ is_valid_successor_of(blob, wset[r]) /\ Readable(r))
  <2>1. sess' = [sess EXCEPT ![r] = Idle] /\ UNCHANGED <<key, wset, recs, task, net>>
    BY <1>3 DEF Grant
  <2>2. Idle.at # "grant" /\ Idle.blob \in Chain
    BY InChain DEF Idle
  <2> QED
    BY <2>1, <2>2, ConstantTypes, SessionStep
<1> QED
  BY <1>2, <1>3

\* A sync that goes on or ends, and nothing else happens.
LEMMA GotoStep ==
  ASSUME IInv, NEW r \in Members, NEW where \in Phases \ {"grant"}
  PROVE  LET s == [sess[r] EXCEPT !.at = where] IN
         /\ s \in Sessions /\ s.at # "grant" /\ s.blob \in Chain
         /\ Goto(r, where) => sess' = [sess EXCEPT ![r] = s]
  BY InChain DEF IInv, TypeInv, Sessions, Goto

LEMMA FailStep ==
  ASSUME IInv, NEW r \in Members, Fail(r), UNCHANGED <<key, wset, recs, task, net>>
  PROVE  IInv' /\ NoneBack
<1>1. Idle.at # "grant" /\ Idle.blob \in Chain
  BY InChain DEF Idle
<1> QED
  BY <1>1, ConstantTypes, SessionStep DEF Fail

LEMMA OnlyGoto ==
  ASSUME IInv, NEW r \in Members, NEW where \in Phases \ {"grant"},
         Goto(r, where), UNCHANGED <<key, wset, recs, task, net>>
  PROVE  IInv' /\ NoneBack
  BY GotoStep, SessionStep

\* put_writer_set, where the server turns a downgrade away and a peer takes only
\* a successor.
LEMMA PutStep ==
  ASSUME IInv, NEW r \in Members, Put(r)
  PROVE  IInv' /\ NoneBack
<1> DEFINE t == sess[r].via
           s == [sess[r] EXCEPT !.at = "push"]
<1>1. /\ t \in Transports /\ wset[r] \in Chain /\ wset[t] \in Chain
      /\ wset[r] \in WriterSets /\ wset[t] \in WriterSets
  BY InChain, ConstantTypes DEF IInv, TypeInv, Sessions
<1>2. "push" \in Phases \ {"grant"}
  BY DEF Phases
<1>3. /\ s \in Sessions /\ s.at # "grant" /\ s.blob \in Chain
      /\ Goto(r, "push") => sess' = [sess EXCEPT ![r] = s]
  BY <1>2, GotoStep
<1>4. UNCHANGED <<key, recs, task, net>>
  BY DEF Put
<1>5. CASE t = Server
  <2>1. CASE is_downgrade(wset[r], wset[Server])
    BY <1>4, <1>5, <2>1, FailStep DEF Put, PutAtServer
  <2>2. CASE ~is_downgrade(wset[r], wset[Server])
    <3>1. Goto(r, "push") /\ wset' = [wset EXCEPT ![Server] = wset[r]]
      BY <1>5, <2>2 DEF Put, PutAtServer
    <3>2. Follows(wset[r], wset[Server])
      BY <1>1, <1>5 DEF IInv, Chained
    <3>3. wset[r].epoch >= wset[Server].epoch
      BY <1>1, <1>5, <2>2, <3>2 DEF Follows, is_downgrade, WriterSets
    <3> HIDE DEF s
    <3> QED
      BY <1>1, <1>3, <1>4, <1>5, <3>1, <3>3, SetStep
  <2> QED
    BY <2>1, <2>2
<1>6. CASE t # Server
  <2>1. Goto(r, "push") /\ t \in Members
    BY <1>1, <1>6 DEF Put, PutAtPeer, Transports
  <2>2. CASE Leads(wset[r], key[t]) \/ ~is_valid_successor_of(wset[r], wset[t])
    <3>1. UNCHANGED wset
      BY <1>6, <2>2 DEF Put, PutAtPeer, adopt_writer_set
    <3> QED
      BY <1>2, <1>4, <2>1, <3>1, OnlyGoto
  <2>3. CASE ~Leads(wset[r], key[t]) /\ is_valid_successor_of(wset[r], wset[t])
    <3>1. wset' = [wset EXCEPT ![t] = wset[r]]
      BY <1>6, <2>3 DEF Put, PutAtPeer, adopt_writer_set
    <3>2. wset[r].epoch >= wset[t].epoch
      BY <1>1, <2>3 DEF is_valid_successor_of, WriterSets
    <3> HIDE DEF s, t
    <3> QED
      BY <1>1, <1>3, <1>4, <2>1, <2>3, <3>1, <3>2, SetStep
  <2> QED
    BY <2>2, <2>3
<1> QED
  BY <1>5, <1>6

\* put_record at the server or at a peer.
LEMMA PushStep ==
  ASSUME IInv, NEW r \in Members, NEW u \in Units, Push(r, u)
  PROVE  IInv' /\ NoneBack
<1> DEFINE t == sess[r].via
<1>1. t \in Transports /\ recs[r][u] \in Records
  BY ConstantTypes DEF IInv, TypeInv, Sessions
<1>2. UNCHANGED <<key, wset, task, net>>
  BY DEF Push
<1>3. "store" \in Phases \ {"grant"}
  BY DEF Phases
<1>4. CASE t = Server /\ net.enforce
  BY <1>2, <1>3, <1>4, FailStep, OnlyGoto DEF Push, PushToServer
<1>5. CASE t = Server /\ ~net.enforce
  <2>1. recs' = [recs EXCEPT ![t][u] = recs[r][u]] /\ UNCHANGED sess
    BY <1>5 DEF Push, PushToServer
  <2> QED
    BY <1>1, <1>2, <1>5, <2>1, RecordStep
<1>6. CASE t # Server
  <2>1. CASE Imports(t, u, recs[r][u])
    <3>1. recs' = [recs EXCEPT ![t][u] = recs[r][u]] /\ UNCHANGED sess
      BY <1>6, <2>1 DEF Push, PushToPeer
    <3> QED
      BY <1>1, <1>2, <2>1, <3>1, RecordStep
  <2>2. CASE ~Imports(t, u, recs[r][u])
    BY <1>2, <1>6, <2>2, FailStep DEF Push, PushToPeer
  <2> QED
    BY <2>1, <2>2
<1> QED
  BY <1>4, <1>5, <1>6

\* The second half of a push to a server that enforces signatures.
LEMMA StoreStep ==
  ASSUME IInv, NEW r \in Members, NEW u \in Units, Store(r, u)
  PROVE  IInv' /\ NoneBack
<1> DEFINE s == [sess[r] EXCEPT !.at = "push"]
<1>1. "push" \in Phases \ {"grant"}
  BY DEF Phases
<1>2. /\ s \in Sessions /\ s.at # "grant" /\ s.blob \in Chain
      /\ sess' = [sess EXCEPT ![r] = s]
  BY <1>1, GotoStep DEF Store
<1>3. /\ recs' = [recs EXCEPT ![Server][u] = recs[r][u]]
      /\ UNCHANGED <<key, wset, task, net>>
  BY DEF Store
<1> HIDE DEF s
<1>4. recs[r][u] \in Records
  BY ConstantTypes DEF IInv, TypeInv
<1>5. TypeInv'
  BY <1>2, <1>3, <1>4, ConstantTypes DEF IInv, TypeInv
<1>6. \A q \in Members : sess'[q] = IF q = r THEN s ELSE sess[q]
  BY <1>2 DEF IInv, TypeInv
<1>7. Chained' /\ OwnerNewest'
  BY <1>2, <1>3, <1>6, NothingNew, InChain
<1>8. GrantLeads'
  BY <1>2, <1>3, <1>6 DEF IInv, GrantLeads
<1>9. \A q \in Members : recs'[q] = recs[q]
  BY <1>3, ConstantTypes, KeyEpochsAssumption DEF IInv, TypeInv
<1>10. Reopens'
  BY <1>3, <1>9 DEF IInv, Reopens, Readable, Loads, MayRead, authorized
<1> QED
  BY <1>3, <1>5, <1>7, <1>8, <1>10, NobodyMoves DEF IInv

\* get_records and import_record.
LEMMA PullStep ==
  ASSUME IInv, NEW r \in Members, NEW u \in Units, Pull(r, u)
  PROVE  IInv' /\ NoneBack
<1> DEFINE t == sess[r].via
<1>1. t \in Transports /\ recs[t][u] \in Records /\ r \in Transports
  BY ConstantTypes DEF IInv, TypeInv, Sessions
<1>2. UNCHANGED <<key, wset, task, net>>
  BY DEF Pull
<1>3. CASE Imports(r, u, recs[t][u])
  <2>1. recs' = [recs EXCEPT ![r][u] = recs[t][u]] /\ UNCHANGED sess
    BY <1>3 DEF Pull
  <2> QED
    BY <1>1, <1>2, <1>3, <2>1, RecordStep
<1>4. CASE ~Imports(r, u, recs[t][u])
  BY <1>2, <1>4, FailStep DEF Pull
<1> QED
  BY <1>3, <1>4

\* What is left of revoke: a grant handed out, a failure, the end of the process.
LEMMA TaskSteps ==
  ASSUME IInv,
         ResetFails \/ OwnerCrash \/ \E r \in Members, t \in net.links : Upload(r, t)
  PROVE  IInv' /\ NoneBack
<1>1. CASE ResetFails \/ OwnerCrash
  BY <1>1, TaskStep, ConstantTypes DEF ResetFails, OwnerCrash
<1>2. ASSUME NEW r \in Members, NEW t \in net.links, Upload(r, t)
      PROVE  IInv' /\ NoneBack
  <2>1. task' \in Tasks
    <3>1. task \in Tasks
      BY DEF IInv, TypeInv
    <3> QED
      BY <1>2, <3>1, ConstantTypes DEF Upload, Tasks
  <2> QED
    BY <1>2, <2>1, TaskStep DEF Upload
<1> QED
  BY <1>1, <1>2

LEMMA NextStep ==
  ASSUME IInv, [Next]_vars
  PROVE  IInv' /\ NoneBack
<1>1. CASE UNCHANGED vars
  BY <1>1, TaskStep DEF vars, IInv, TypeInv
<1>2. ASSUME NEW m \in Members, add_writer(m)
      PROVE  IInv' /\ NoneBack
  BY <1>2, AddStep
<1>3. ASSUME NEW ms \in SUBSET Members, Rotate(ms)
      PROVE  IInv' /\ NoneBack
  BY <1>3, RotateStep
<1>4. ASSUME NEW ms \in SUBSET Members, RemoveLater(ms)
      PROVE  IInv' /\ NoneBack
  <2>1. task' \in Tasks
    BY <1>4 DEF RemoveLater, IInv, TypeInv
  <2> QED
    BY <1>4, <2>1, RemoveStep DEF RemoveLater
<1>5. CASE Reset
  BY <1>5, ResetStep
<1>6. CASE ResetFails \/ OwnerCrash \/ \E r \in Members, t \in net.links : Upload(r, t)
  BY <1>6, TaskSteps
<1>7. CASE OwnerStep
  BY <1>2, <1>3, <1>4, <1>5, <1>6, <1>7 DEF OwnerStep
<1>8. ASSUME NEW r \in Members, Write(r) \/ SyncStep(r)
      PROVE  IInv' /\ NoneBack
  <2>1. CASE Write(r)
    BY <2>1, WriteStep
  <2>2. CASE \E t \in net.links : Begin(r, t)
    BY <2>2, BeginStep
  <2>3. CASE Grant(r)
    BY <2>3, GrantStep
  <2>4. CASE Put(r)
    BY <2>4, PutStep
  <2>5. CASE Pushed(r)
    <3>1. "pull" \in Phases \ {"grant"}
      BY DEF Phases
    <3> QED
      BY <2>5, <3>1, OnlyGoto DEF Pushed
  <2>6. CASE Pulled(r) \/ Abort(r)
    BY <2>6, FailStep DEF Pulled, Abort, Fail
  <2>7. CASE \E u \in Units : Push(r, u) \/ Store(r, u) \/ Pull(r, u)
    BY <2>7, PushStep, StoreStep, PullStep
  <2> QED
    BY <1>8, <2>1, <2>2, <2>3, <2>4, <2>5, <2>6, <2>7 DEF SyncStep
<1> QED
  BY <1>1, <1>7, <1>8 DEF Next

-----------------------------------------------------------------------------
(* The theorems *)

LEMMA Inductive == Spec => []IInv
<1>1. IInv /\ [Next]_vars => IInv'
  BY NextStep
<1> QED
  BY InitIInv, <1>1, PTL DEF Spec

\* Whatever revoke, sync or process end was interrupted by what, every replica
\* opens again: load_and_verify_writerset accepts its set and read_unit_record
\* every record, those of removed members included.
THEOREM AlwaysReopens == Spec => []Reopens
<1>1. IInv => Reopens
  BY DEF IInv
<1> QED
  BY Inductive, <1>1, PTL

\* The writer sets at the replicas and at the server are sets of one chain,
\* whoever seals, adopts or puts them and in whatever order.
THEOREM SetsFormOneChain == Spec => []OneChain
<1>1. IInv => OneChain
  <2> SUFFICES ASSUME Chained PROVE OneChain
    BY DEF IInv
  <2>1. Sets \subseteq Chain
    BY DEF Chain
  <2> QED
    BY <2>1 DEF Chained, Follows, OneChain
<1> QED
  BY Inductive, <1>1, PTL

\* No replica and not the server goes back to an earlier set, and no replica to
\* an earlier key: is_valid_successor_of at a replica and the downgrade check of
\* put_writer_set at the server are enough.
THEOREM NobodyGoesBack == Spec => NoDowngrade
<1>1. IInv /\ [Next]_vars => NoneBack
  BY NextStep
<1>2. IInv /\ [Next]_vars => [/\ \A t \in Transports : wset'[t].epoch >= wset[t].epoch
                             /\ \A r \in Members : key'[r] >= key[r]]_vars
  BY <1>1 DEF NoneBack
<1> QED
  BY Inductive, <1>2, PTL DEF Spec, NoDowngrade
=============================================================================
