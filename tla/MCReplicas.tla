----------------------------- MODULE MCReplicas -----------------------------
(***************************************************************************)
(* Instances for model checking: what replicas exchange and keep.  Writer  *)
(* sets and root keys, direct synchronisation of two engines, content      *)
(* ciphers, the history of one unit, and the transfer of blocks.  A        *)
(* behaviour belongs to one of them.                                       *)
(***************************************************************************)
EXTENDS KeyEpochs, Integers, TLC

CONSTANTS
  rep1, rep2  \* two replicas

\* Two machines on which the suites rank differently.
Rankings == {<<"gcm", "xts", "none">>, <<"none", "xts", "gcm">>}

\* Everything for one second, then one version per two-second band.
Schedule == [keep_all |-> 1, hourly |-> 2, hour |-> 2]

\* A chunk of at most eight bytes: two small blocks, or the large one alone.
Size == "x" :> 2 @@ "y" :> 3 @@ "z" :> 7
Batches == {<<"x", "y", "z">>, <<"z", "y">>}

VARIABLES
  part, pe_rec, pe_past, pe_sess, pe_log, pe_seen, pe_ops, rc_cc, rc_chain,
  rc_tail, rc_store, rc_sess, rc_bench, hi_chain, hi_live, hi_tail,
  hi_journaled, hi_batch, hi_stamps, hi_now, hi_commits, hi_was, hi_lost,
  hi_restarted, bt_now, bt_nonces, bt_tokens, bt_issued, bt_rightKey,
  bt_session, bt_blocks, bt_call, bt_held, bt_bought

peerVars == <<pe_rec, pe_past, pe_sess, pe_log, pe_seen, pe_ops>>
peerOff ==
  /\ pe_rec = 0 /\ pe_past = 0 /\ pe_sess = 0 /\ pe_log = 0 /\ pe_seen = 0
  /\ pe_ops = 0

Peer == INSTANCE PeerSync WITH
  Hosts <- {1, 2}, MaxFrags <- 2, Shared <- {1, 2}, MaxOps <- 4,
  MaxOther <- 2, rec <- pe_rec, past <- pe_past, sess <- pe_sess,
  log <- pe_log, seen <- pe_seen, ops <- pe_ops

recipherVars == <<rc_cc, rc_chain, rc_tail, rc_store, rc_sess, rc_bench>>
recipherOff ==
  /\ rc_cc = 0 /\ rc_chain = 0 /\ rc_tail = 0 /\ rc_store = 0 /\ rc_sess = 0
  /\ rc_bench = 0

Suites == INSTANCE Recipher WITH
  Replicas <- {rep1, rep2}, Writer <- rep1, Rankings <- Rankings, MaxFrags <- 2,
  MaxVer <- 2, MaxSyncs <- 1, MaxBench <- 0, cc <- rc_cc, chain <- rc_chain,
  tail <- rc_tail, store <- rc_store, sess <- rc_sess, bench <- rc_bench

historyVars == <<hi_chain, hi_live, hi_tail, hi_journaled, hi_batch, hi_stamps, hi_now,
      hi_commits, hi_was, hi_lost, hi_restarted>>
historyOff ==
  /\ hi_chain = 0 /\ hi_live = 0 /\ hi_tail = 0 /\ hi_journaled = 0
  /\ hi_batch = 0 /\ hi_stamps = 0 /\ hi_now = 0 /\ hi_commits = 0
  /\ hi_was = 0 /\ hi_lost = 0 /\ hi_restarted = 0

Past == INSTANCE History WITH
  MaxSize <- 3, Band <- 2, MaxVer <- 3, MaxChain <- 4, MaxCommits <- 1,
  MaxTime <- 1, Schedule <- Schedule, Keep <- 1, chain <- hi_chain,
  live <- hi_live, tail <- hi_tail, journaled <- hi_journaled,
  batch <- hi_batch, stamps <- hi_stamps, now <- hi_now,
  commits <- hi_commits, was <- hi_was, lost <- hi_lost,
  restarted <- hi_restarted

transferVars == <<bt_now, bt_nonces, bt_tokens, bt_issued, bt_rightKey, bt_session,
      bt_blocks, bt_call, bt_held, bt_bought>>
transferOff ==
  /\ bt_now = 0 /\ bt_nonces = 0 /\ bt_tokens = 0 /\ bt_issued = 0
  /\ bt_rightKey = 0 /\ bt_session = 0 /\ bt_blocks = 0 /\ bt_call = 0
  /\ bt_held = 0 /\ bt_bought = 0

Transfer == INSTANCE BlockTransfer WITH
  Blocks <- {"x", "y", "z"}, Size <- Size, ChunkBytes <- 8, ChunkCount <- 2,
  RequestKeys <- 2, Budget <- 8, MaxBody <- 16, NonceTtl <- 1,
  TokenTtl <- 1, MaxTime <- 1, MaxNonces <- 2, Batches <- Batches,
  now <- bt_now, nonces <- bt_nonces, tokens <- bt_tokens,
  issued <- bt_issued, rightKey <- bt_rightKey, session <- bt_session,
  blocks <- bt_blocks, call <- bt_call, held <- bt_held, bought <- bt_bought

-----------------------------------------------------------------------------
(* One part moves; the variables of the others are switched off. *)

MCInit ==
  /\ part \in {"keys", "peer", "recipher", "history", "transfer"}
  /\ Init
  /\ IF part = "peer" THEN Peer!Init ELSE peerOff
  /\ IF part = "recipher" THEN Suites!Init ELSE recipherOff
  /\ IF part = "history" THEN Past!Init ELSE historyOff
  /\ IF part = "transfer" THEN Transfer!Init ELSE transferOff
  /\ (part # "keys" => net = [links |-> {Server}, enforce |-> FALSE])

MCNext ==
  \/ part = "keys" /\ Next
     /\ UNCHANGED <<part, peerVars, recipherVars, historyVars, transferVars>>
  \/ part = "peer" /\ Peer!Next
     /\ UNCHANGED <<part, vars, recipherVars, historyVars, transferVars>>
  \/ part = "recipher" /\ Suites!Next
     /\ UNCHANGED <<part, vars, peerVars, historyVars, transferVars>>
  \/ part = "history" /\ Past!Next
     /\ UNCHANGED <<part, vars, peerVars, recipherVars, transferVars>>
  \/ part = "transfer" /\ Transfer!Next
     /\ UNCHANGED <<part, vars, peerVars, recipherVars, historyVars>>

MCVars == <<part, vars, peerVars, recipherVars, historyVars, transferVars>>

MCSpec == MCInit /\ [][MCNext]_MCVars

-----------------------------------------------------------------------------
\* Two engines that sync directly while both go on writing: no update is lost,
\* equal vectors mean equal content, and a block holds the version its record
\* names (SyncEngine::sync over EngineTransport).
PeersAgree ==
  part = "peer" => Peer!BytesAsNamed /\ Peer!NoLostUpdate /\ Peer!SameVectorSameUnit

\* Every fragment, at home and after any exchange, opens under the suite its
\* record stamps for it (Engine::recipher, import_record).
OpensAsStamped == part = "recipher" => Suites!OpensAsStamped

\* A retained version is checked out byte for byte, and what a commit pins
\* survives eviction (Engine::checkout, commit, evict_with_strategy).
VersionsKept == part = "history" => Past!CheckoutExact /\ Past!CommitKept

\* Blocks cut into requests and windows arrive under the names they were sent
\* with, or the call fails (put_blocks, get_blocks), and a challenge buys at most
\* one session (PeerState::verify_and_issue).
TransferExact ==
  part = "transfer" => Transfer!TransferExact /\ Transfer!OneSessionPerChallenge
=============================================================================
