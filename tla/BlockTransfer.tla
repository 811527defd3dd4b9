---------------------------- MODULE BlockTransfer ----------------------------
(***************************************************************************)
(* One client of a peer daemon: the key-possession sign-in and the batched *)
(* transfer of blocks (sfs-saas/src/net.rs, p2p.rs, server.rs, wire.rs).   *)
(*                                                                         *)
(* A request is handled atomically under the daemon's engine lock; it or   *)
(* its answer may be lost, which the client sees as an error.  Another     *)
(* client works on the same blocks between requests.  Sizes are in units   *)
(* of the framing of one block.                                            *)
(***************************************************************************)
EXTENDS Integers, Sequences, FiniteSets, FiniteSetsExt, SequencesExt, TLC

CONSTANTS
  Blocks,       \* block keys (unit, fragment, version)
  Size,         \* [Blocks -> Nat], of their ciphertext
  ChunkBytes,   \* CHUNK_BYTES of put_blocks
  ChunkCount,   \* CHUNK_COUNT
  RequestKeys,  \* REQUEST_MAX_KEYS of get_blocks
  Budget,       \* BLOCKS_GET_RESPONSE_BUDGET
  MaxBody,      \* MAX_BODY_BYTES
  NonceTtl, TokenTtl,
  MaxTime,
  MaxNonces,    \* challenges answered
  Batches       \* the sequences of blocks a call may be given

VARIABLES
  now,
  nonces,    \* PeerState.nonces: nonce -> time
  tokens,    \* PeerState.tokens: token -> time; a token is named by its nonce
  issued,    \* challenges answered so far
  rightKey,  \* whether the client has the peer's root key
  session,   \* the client: nonce and token it holds, 0 for none
  blocks,    \* what the daemon holds: block -> who stored it, or "absent"
  call,      \* the client's call: [op, keys, i, out, state]
  held,      \* block -> what the daemon held for it since the get began
  bought     \* nonce -> tokens issued for it

peer == <<nonces, tokens, issued, bought>>
vars == <<now, peer, rightKey, session, blocks, call, held>>

Idle == [op |-> "none", keys |-> <<>>, i |-> 1, out |-> <<>>, state |-> "idle"]
Outcomes == {"ok", "request lost", "answer lost"}

Fresh(table, ttl) == {n \in DOMAIN table : now - table[n] < ttl}

---------------------------------------------------------------------------
\* Sign-in: connect_p2p

\* POST /p2p/challenge: issue_nonce drops the expired ones.
Challenge(o) ==
  /\ call.state = "idle" /\ session.nonce = 0 /\ issued < MaxNonces
  /\ IF o = "request lost" THEN UNCHANGED <<nonces, issued>>
     ELSE /\ issued' = issued + 1
          /\ nonces' = (issued + 1 :> now) @@ [n \in Fresh(nonces, NonceTtl) |-> nonces[n]]
  /\ session' = IF o = "ok" THEN [session EXCEPT !.nonce = issued + 1] ELSE session
  /\ UNCHANGED <<now, tokens, bought, rightKey, blocks, call, held>>

\* The nonce is consumed first, whatever the proof is.
verify_and_issue(n, proof) ==
  /\ nonces' = [m \in DOMAIN nonces \ {n} |-> nonces[m]]
  /\ IF n \in Fresh(nonces, NonceTtl) /\ proof
     THEN /\ tokens' = (n :> now) @@ [t \in Fresh(tokens, TokenTtl) |-> tokens[t]]
          /\ bought' = [bought EXCEPT ![n] = @ + 1]
     ELSE UNCHANGED <<tokens, bought>>

\* POST /p2p/auth.  The same answer may reach the daemon again.
Auth(o, again) ==
  LET n == session.nonce
      granted == o = "ok" /\ n \in Fresh(nonces, NonceTtl) /\ rightKey
  IN
  /\ call.state = "idle" /\ n # 0
  /\ IF o = "request lost" THEN UNCHANGED <<nonces, tokens, bought>>
     ELSE verify_and_issue(n, rightKey)
  /\ session' = [nonce |-> IF again THEN n ELSE 0, token |-> IF granted THEN n ELSE session.token]
  /\ UNCHANGED <<now, issued, rightKey, blocks, call, held>>

\* PeerState::authed.
authed == session.token \in Fresh(tokens, TokenTtl)

\* The daemon starts again: nonces and tokens are kept in memory only.
Restart ==
  /\ nonces' = <<>> /\ tokens' = <<>>
  /\ UNCHANGED <<now, issued, bought, rightKey, session, blocks, call, held>>

Tick ==
  /\ now < MaxTime /\ now' = now + 1
  /\ UNCHANGED <<peer, rightKey, session, blocks, call, held>>

---------------------------------------------------------------------------
\* Transfers

Begin(op, keys) ==
  /\ session.token # 0 /\ call.state = "idle" /\ call.op = "none"
  /\ call' = [Idle EXCEPT !.op = op, !.keys = keys, !.state = "running"]
  /\ held' = [b \in Blocks |-> IF op = "get" THEN {blocks[b]} ELSE {}]
  /\ UNCHANGED <<now, peer, rightKey, session, blocks>>

\* Sum of f over the positions first .. last of a sequence of blocks.
Bytes(keys, first, last, per) ==
  FoldFunction(LAMBDA b, n : Size[b] + per + n, 0, SubSeq(keys, first, last))

\* The longest prefix from i on that is not cut before its second member by the
\* limit, which is what the loops of put_blocks and collect_block_gets take.
Prefix(keys, i, last, limit, per) ==
  Max({j \in i .. last : j = i \/ Bytes(keys, i, j, per) <= limit})

\* put_blocks chunks by bytes and by count.
ChunkEnd(keys, i) ==
  Prefix(keys, i, Min({i + ChunkCount - 1, Len(keys)}), ChunkBytes, 1)

\* The body of POST /v1/blocks-put: the chunk and its own count.
Body(keys, i, j) == 1 + Bytes(keys, i, j, 1)

\* apply_block_puts: in order, insert if absent, up to the first store error.
apply_block_puts(keys, i, j) ==
  blocks' = [b \in Blocks |->
               IF blocks[b] = "absent" /\ \E k \in i .. j : keys[k] = b THEN "mine" ELSE blocks[b]]

Fail == call' = [call EXCEPT !.state = "failed"]

\* One chunk of put_blocks, of which the store takes the blocks up to upto.
PutChunk(o, upto) ==
  LET j == ChunkEnd(call.keys, call.i)
      taken == o # "request lost" /\ authed /\ Body(call.keys, call.i, j) <= MaxBody
  IN
  /\ call.op = "put" /\ call.state = "running" /\ upto \in call.i - 1 .. j
  /\ IF taken THEN apply_block_puts(call.keys, call.i, upto) ELSE UNCHANGED blocks
  /\ IF ~taken \/ upto < j \/ o # "ok"
     THEN call' = [call EXCEPT !.state = IF Body(call.keys, call.i, j) > MaxBody
                                         THEN "too large" ELSE "failed"]
     ELSE call' = [call EXCEPT !.i = j + 1, !.state = IF j = Len(call.keys) THEN "done" ELSE @]
  /\ UNCHANGED <<now, peer, rightKey, session, held>>

BlobSize(b) == IF blocks[b] = "absent" THEN 0 ELSE Size[b]

\* Mutant of collect_block_gets: an absent block leaves no entry.
collect_present(keys, i, last) ==
  SelectSeq([k \in 1 .. last - i + 1 |-> blocks[keys[i + k - 1]]], LAMBDA b : b # "absent")

\* collect_block_gets: an in-order prefix that fits the budget, at least one; an
\* absent block is an empty blob.
collect_block_gets(keys, i, last) ==
  LET size(j) == FoldFunction(LAMBDA b, n : BlobSize(b) + n, 0, SubSeq(keys, i, j))
      end == Max({j \in i .. last : \A m \in i + 1 .. j : size(m) <= Budget})
  IN  [k \in 1 .. end - i + 1 |-> blocks[keys[i + k - 1]]]

\* One request of get_blocks; the client goes on after what it got.
GetWindow(o) ==
  LET last == Min({call.i + RequestKeys - 1, Len(call.keys)})
      blobs == collect_block_gets(call.keys, call.i, last)
  IN
  /\ call.op = "get" /\ call.state = "running"
  /\ IF o # "ok" \/ ~authed THEN Fail
     ELSE IF Len(blobs) = 0 \/ Len(blobs) > last - call.i + 1
     THEN call' = [call EXCEPT !.state = "bad count"]
     ELSE call' = [call EXCEPT !.out = @ \o blobs, !.i = @ + Len(blobs),
                               !.state = IF call.i + Len(blobs) > Len(call.keys) THEN "done" ELSE @]
  /\ UNCHANGED <<now, peer, rightKey, session, blocks, held>>

Return ==
  /\ call.state \notin {"idle", "running"}
  /\ call' = Idle /\ held' = [b \in Blocks |-> {}]
  /\ UNCHANGED <<now, peer, rightKey, session, blocks>>

\* Another client stores a block, or overwrites one after a re-cipher.
Other(b, overwrite) ==
  /\ blocks[b] = "absent" \/ overwrite
  /\ blocks' = [blocks EXCEPT ![b] = "theirs"]
  /\ held' = [held EXCEPT ![b] = IF call.op = "get" THEN @ \cup {"theirs"} ELSE @]
  /\ UNCHANGED <<now, peer, rightKey, session, call>>

---------------------------------------------------------------------------
Init ==
  /\ now = 0 /\ nonces = <<>> /\ tokens = <<>> /\ issued = 0
  /\ bought = [n \in 1 .. MaxNonces |-> 0]
  /\ rightKey \in BOOLEAN
  /\ session = [nonce |-> 0, token |-> 0]
  /\ blocks = [b \in Blocks |-> "absent"]
  /\ call = Idle /\ held = [b \in Blocks |-> {}]

Next ==
  \/ \E o \in Outcomes : Challenge(o) \/ GetWindow(o) \/ \E again \in BOOLEAN : Auth(o, again)
  \/ \E o \in Outcomes, upto \in 0 .. Cardinality(Blocks) : PutChunk(o, upto)
  \/ \E op \in {"put", "get"}, keys \in Batches : Begin(op, keys)
  \/ Return \/ Restart \/ Tick
  \/ \E b \in Blocks, overwrite \in BOOLEAN : Other(b, overwrite)

Spec == Init /\ [][Next]_vars

---------------------------------------------------------------------------
\* Properties

\* However a batch is cut into requests and whatever is stored meanwhile, a put that
\* returns has every block stored, a get that returns has one answer for every key
\* asked for, each a value the daemon held for that very key since the call began,
\* and no call fails for its size or its count (put_blocks, get_blocks,
\* collect_block_gets).
TransferExact ==
  /\ call.state \notin {"too large", "bad count"}
  /\ call.state = "done" /\ call.op = "put" =>
       \A k \in DOMAIN call.keys : blocks[call.keys[k]] # "absent"
  /\ call.state = "done" /\ call.op = "get" =>
       /\ Len(call.out) = Len(call.keys)
       /\ \A k \in DOMAIN call.keys : call.out[k] \in held[call.keys[k]]

\* However often an answer is lost or sent again, a challenge buys at most one
\* session, and only a client with the peer's key has one (verify_and_issue).
OneSessionPerChallenge ==
  /\ \A n \in DOMAIN bought : bought[n] <= 1
  /\ ~rightKey => tokens = <<>> /\ call.state = "idle"
=============================================================================
