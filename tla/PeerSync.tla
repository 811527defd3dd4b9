------------------------------ MODULE PeerSync ------------------------------
(***************************************************************************)
(* Two engines that synchronise one unit directly: SyncEngine::sync over   *)
(* EngineTransport (sfs-sync/src/peer.rs), as the P2P server serves it.    *)
(* The client's engine is held for the whole sync; the server takes its    *)
(* engine's lock for each request (sfs-saas/src/p2p.rs), so the server may *)
(* write between two requests.  Nothing but its own chain of records       *)
(* stands behind the server: a block is exported from the record chain,    *)
(* whose blocks an in-place write reuses, and imported into the head.      *)
(***************************************************************************)
EXTENDS CausalUnit, SequencesExt

CONSTANTS
  Shared,   \* fragments of the unit that all replicas start with
  MaxOps,   \* bound: local operations
  MaxOther  \* bound: the same once something unusual has happened

VARIABLES
  rec,    \* each replica's record of the unit
  past,   \* each replica's superseded records of the unit, oldest first
  sess,   \* the sync under way
  log,    \* ghost: what was written
  seen,   \* history variable: the less usual things that have happened
  ops     \* local operations so far

vars == <<rec, past, sess, log, seen, ops>>

NoSess == [at |-> "idle", c |-> 0, s |-> 0, pre |-> NoRecord]
Creator == CHOOSE h \in Hosts : \A g \in Hosts : h <= g
SharedRecord(k) == Write(Created, Creator, 1, k, Full)
Event(v, h, sets, cuts) == [dot |-> DotOf(v, h), vv |-> v, sets |-> sets, cuts |-> cuts]

Init ==
  /\ \E k \in Shared :
       /\ rec = [r \in Hosts |-> SharedRecord(k)]
       /\ log = {Event(SharedRecord(k).head.vv, Creator, 1 .. k, {})}
       /\ seen = IF k = 1 THEN {} ELSE {"fragments"}
  /\ past = [r \in Hosts |-> <<>>]
  /\ sess = NoSess
  /\ ops = 0

-----------------------------------------------------------------------------
\* What a superseded record still says; a record rewritten without a change of
\* its fragments needs no second entry.
Entry(s) == [map |-> s.map, data |-> s.data, n |-> s.n]
Chained(chain, old, new) ==
  IF Entry(old.head) = Entry(new.head) THEN chain ELSE Append(chain, Entry(old.head))

\* An in-place write of fragments fs reuses the head's blocks: every record
\* that shares them now locates the new bytes.
Overwritten(chain, old, new, fs) ==
  [i \in DOMAIN chain |->
     [chain[i] EXCEPT !.data = [f \in Frags |->
        IF f \in fs /\ @[f] # Hole /\ @[f] = old.head.data[f] THEN new.head.data[f] ELSE @[f]]]]

\* Packed dots are compared as numbers: sync id first, then host.
AtMost(d, e) == d.n < e.n \/ (d.n = e.n /\ d.h <= e.h)

\* resolve_with_version, then the test for an exact hit: the newest record with
\* the fragment at or below version d; Hole if that is not d, or has no block.
Resolved(chain, f, d) ==
  LET at == {i \in DOMAIN chain : f <= chain[i].n /\ AtMost(chain[i].map[f], d)} IN
  IF at = {} THEN Hole
  ELSE LET e == chain[CHOOSE i \in at : \A j \in at : j <= i]
       IN IF e.map[f] = d THEN e.data[f] ELSE Hole

\* export_block: the bytes found for version d of fragment f, in the head's
\* chain or else in that of a strain; Hole: not found.
ExportBlock(r, chain, f, d) ==
  LET whole == Append(chain, Entry(r.head))
      hits == SelectSeq(
                <<Resolved(whole, f, d)>> \o
                [i \in DOMAIN r.strains |->
                   Resolved(Append(SubSeq(whole, 1, r.strains[i].base), Entry(r.strains[i])), f, d)],
                LAMBDA b : b # Hole)
  IN IF hits = <<>> THEN Hole ELSE hits[1]

-----------------------------------------------------------------------------
(* Local operations *)

\* The engine is free: not the client's; the server's between two requests.
\* The operation leaves a unit of n fragments.
Local(r, n) ==
  /\ r # sess.c
  /\ seen' = seen \cup (IF n > 1 THEN {"fragments"} ELSE {})
                  \cup (IF r = sess.s THEN {sess.at} ELSE {})
  /\ ops < IF seen' = {} THEN MaxOps ELSE MaxOther
  /\ ops' = ops + 1
  /\ UNCHANGED sess

DoWrite(r, inPlace) ==
  \E i \in Frags, j \in Frags, len \in 1 .. Full :
    LET old == rec[r]
        new == Write(old, r, i, j, len)
    IN /\ Local(r, new.head.n)
       /\ old.strains = <<>>
       /\ i <= j
       /\ NoGap(old, i)
       /\ rec' = [rec EXCEPT ![r] = new]
       /\ past' = [past EXCEPT ![r] =
                     IF inPlace THEN Overwritten(Chained(@, old, new), old, new, i .. j)
                     ELSE Chained(@, old, new)]
       /\ log' = log \cup {Event(new.head.vv, r, i .. j, {})}

DoResolve(r) ==
  \E n \in Frags :
    LET new == Resolve(rec[r], r, n, Full) IN
    /\ Local(r, n)
    /\ rec[r].strains # <<>>
    /\ rec' = [rec EXCEPT ![r] = new]
    /\ past' = [past EXCEPT ![r] = Chained(@, rec[r], new)]
    /\ log' = log \cup {Event(new.head.vv, r, 1 .. n, Frags \ (1 .. n))}

-----------------------------------------------------------------------------
(* SyncEngine::sync over EngineTransport *)

Client == sess.c
Serving == sess.s
Goto(where) == sess' = [sess EXCEPT !.at = where]

Begin(c, s) ==
  LET push == ~Dominates(rec[s].head.vv, rec[c].head.vv) IN
  /\ sess = NoSess
  /\ c # s
  /\ sess' = [at |-> IF push THEN "record" ELSE "pull", c |-> c, s |-> s, pre |-> rec[c]]
  /\ UNCHANGED <<rec, past, log, seen, ops>>

\* An engine is its record with the chain behind it; both are replaced together.
Engine(r) == [rec |-> rec[r], past |-> past[r]]
With(x, new) == [rec |-> new, past |-> Chained(x.past, x.rec, new)]
Update(r, x) ==
  /\ rec' = [rec EXCEPT ![r] = x.rec]
  /\ past' = [past EXCEPT ![r] = x.past]

Imported(x, p) == With(x, ImportRecord(x.rec, p, Len(x.past) + 1))

InOrder == [f \in Frags |-> f]

\* put_record: the peer imports the client's head.
PushRecord ==
  /\ sess.at = "record"
  /\ Update(Serving, Imported(Engine(Serving), Projection(rec[Client].head, rec[Client].meta)))
  /\ Goto("blocks")
  /\ UNCHANGED <<log, seen, ops>>

\* put_block: nothing if the version can be exported, else import_block.
PutBlock(x, f, d, b) ==
  IF ExportBlock(x.rec, x.past, f, d) # Hole THEN x
  ELSE With(x, ImportBlock(x.rec, f, d, b, FragLen(x.rec.head, f)))

\* put_blocks: the head's fragments in order, those it can export.
PushBlocks ==
  LET mine == Engine(Client)
      d(f) == mine.rec.head.map[f]
      b(f) == ExportBlock(mine.rec, mine.past, f, d(f))
      put(x, f) == IF d(f) = Hole \/ b(f) = Hole THEN x ELSE PutBlock(x, f, d(f), b(f))
  IN /\ sess.at = "blocks"
     /\ Update(Serving, FoldLeft(put, Engine(Serving), InOrder))
     /\ Goto("pull")
     /\ UNCHANGED <<log, seen, ops>>

\* export_records_frontier: the strains, then the head.
Frontier(r) ==
  [i \in DOMAIN r.strains |-> Projection(r.strains[i], Zero)] \o <<Projection(r.head, r.meta)>>

Pull ==
  LET need == ~Dominates(sess.pre.head.vv, rec[Serving].head.vv) IN
  /\ sess.at = "pull"
  /\ Update(Client, IF need THEN FoldLeft(Imported, Engine(Client), Frontier(rec[Serving]))
                    ELSE Engine(Client))
  /\ Goto("fetch")
  /\ UNCHANGED <<log, seen, ops>>

Had(s, f) == IF s.data[f] = Hole THEN Hole ELSE s.map[f]
Wanted(r) == {f \in Frags : r.head.map[f] \notin {Hole, Had(sess.pre.head, f)}}

\* get_block, at the server as it is now.
GetBlock(f, d) == ExportBlock(rec[Serving], past[Serving], f, d)

Got(x, f, d, len) == With(x, ImportBlock(x.rec, f, d, GetBlock(f, d), len))

\* Fragments in order; the first one the peer does not find ends the sync.
Fetch ==
  LET h == rec[Client].head
      wanted == Wanted(rec[Client])
      got == {f \in wanted : \A g \in wanted : g <= f => GetBlock(g, h.map[g]) # Hole}
      get(x, f) == IF f \in got THEN Got(x, f, h.map[f], FragLen(h, f)) ELSE x
  IN /\ sess.at = "fetch"
     /\ Update(Client, FoldLeft(get, Engine(Client), InOrder))
     /\ IF got = wanted THEN Goto("strains") ELSE sess' = NoSess
     /\ UNCHANGED <<log, seen, ops>>

FetchStrains ==
  LET ss == rec[Client].strains
      lacks(i, f) == ss[i].map[f] # Hole /\ ss[i].data[f] = Hole /\ GetBlock(f, ss[i].map[f]) # Hole
      get(x, i) == FoldLeft(LAMBDA y, f : IF lacks(i, f) THEN Got(y, f, ss[i].map[f], FragLen(ss[i], f))
                                          ELSE y, x, InOrder)
  IN /\ sess.at = "strains"
     /\ Update(Client, FoldLeftDomain(get, Engine(Client), ss))
     /\ sess' = NoSess
     /\ UNCHANGED <<log, seen, ops>>

Next ==
  \/ \E r \in Hosts, inPlace \in BOOLEAN : DoWrite(r, inPlace)
  \/ \E r \in Hosts : DoResolve(r)
  \/ \E c, s \in Hosts : Begin(c, s)
  \/ PushRecord \/ PushBlocks \/ Pull \/ Fetch \/ FetchStrains

Spec == Init /\ [][Next]_vars

-----------------------------------------------------------------------------
AllStreams == UNION {Streams(rec[r]) : r \in Hosts}

\* None of the unusual things in how has happened: units of several fragments,
\* and writes of a serving engine at a step of the sync it serves.
Without(how) == seen \cap how = {}

\* The shape of the state.
TypeOK ==
  /\ \A s \in AllStreams :
       /\ s.map \in [Frags -> Dots] /\ s.data \in [Frags -> Dots]
       /\ s.n \in 0 .. MaxFrags /\ s.last \in 0 .. Full /\ s.vv \in Vectors
       /\ \A f \in Frags : f > s.n => s.map[f] = Hole
  /\ \A r \in Hosts : \A i \in DOMAIN rec[r].strains : rec[r].strains[i].base \in 1 .. Len(past[r]) + 1
  /\ sess.at \in {"idle", "record", "blocks", "pull", "fetch", "strains"}

\* A block holds bytes of the version its record names: they were sealed under
\* the (unit, fragment, version) they will be opened with.  For units of one
\* fragment, while the server does not write between the requests of a pull.
BytesAsNamed ==
  Without({"fetch", "strains", "fragments"}) => \A s \in AllStreams : \A f \in Frags : s.data[f] \in {Hole, s.map[f]}

\* A replica has seen the dot of every fragment it names.
DotsSeen == \A s \in AllStreams : \A f \in Frags : HasSeenDot(s.vv, s.map[f])

\* No update is lost: a stream whose vector covers a write holds, in every
\* fragment the write set, that write or one made with knowledge of it.  For
\* units of one fragment, while the server does not write in the middle of a push.
NoLostUpdate ==
  Without({"fragments", "record", "blocks"}) =>
  \A s \in AllStreams : \A e \in log : HasSeenDot(s.vv, e.dot) =>
    \A f \in e.sets \cup e.cuts :
      \/ s.map[f] = IF f \in e.sets THEN e.dot ELSE Hole
      \/ \E g \in log : /\ g # e
                       /\ f \in g.sets \cup g.cuts
                       /\ HasSeenDot(s.vv, g.dot) /\ HasSeenDot(g.vv, e.dot)

\* Two streams with one vector are one version: the same fragments and size.
\* Under the conditions of NoLostUpdate.
Version(s) == [map |-> s.map, n |-> s.n, last |-> s.last, exp |-> s.exp]
SameVectorSameUnit ==
  Without({"fragments", "record", "blocks"}) => \A s, t \in AllStreams : s.vv = t.vv => Version(s) = Version(t)
=============================================================================
