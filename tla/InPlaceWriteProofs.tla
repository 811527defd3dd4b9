-------------------------- MODULE InPlaceWriteProofs --------------------------
(***************************************************************************)
(* The invariant of InPlaceWriteInv holds in every reachable state, power  *)
(* failures and recovery included, and what follows from it: the engine of *)
(* version/store.rs is crash-safe, frees no slot a readable root names,    *)
(* keeps its history, and implements the transactional store.              *)
(***************************************************************************)
EXTENDS InPlaceWriteInv, TLAPS

\* A power failure leaves each block old, new or torn, and a clean one as it is.
LEMMA OutcomeIs ==
  ASSUME NEW S, NEW b, NEW d, DOMAIN b = S, NEW o \in Outcomes(b, d)
  PROVE  /\ o = [i \in S |-> o[i]]
         /\ \A i \in S : o[i] \in {b[i], d[i], Torn} /\ (b[i] = d[i] => o[i] = d[i])
BY Zenon DEF Outcomes

\* The allocator of a new session: nothing free, the frontier above what the header names.
LEMMA EmptiedIs ==
  ASSUME NEW r \in [Frags -> Loc], NEW low \in 0 .. MaxTail
  PROVE  /\ Emptied(low, r) \in Allocs
         /\ Emptied(low, r).free = {} /\ Emptied(low, r).deferred = {} /\ Emptied(low, r).freeTail = {}
         /\ Emptied(low, r).low = low
         /\ \A f \in Frags : r[f].loc < Emptied(low, r).frontier
<1> DEFINE S == {1} \cup Live(r)
<1>1. S \in SUBSET Nat /\ S # {} /\ \A x \in S : x <= MaxSlot /\ 1 <= x
  BY Constants DEF Live, Loc
<1>2. \A f \in Frags : r[f].loc \in Nat /\ (r[f].loc = 0 \/ r[f].loc \in S)
  BY DEF Live, Loc
<1> HIDE DEF S
<1>3. Max(S) \in S /\ \A x \in S : x <= Max(S)
  BY <1>1, MaxExists, Constants, Zenon
<1>4. PICK m \in 1 .. MaxSlot : m = Max(S)
  <2>1. Max(S) \in Nat /\ Max(S) <= MaxSlot /\ 1 <= Max(S)
    BY <1>1, <1>3, Zenon
  <2> QED
    BY <2>1
<1>5. \A f \in Frags : r[f].loc < m + 1
  BY <1>2, <1>3, <1>4
<1>6. Emptied(low, r) = [frontier |-> m + 1, free |-> {}, deferred |-> {}, low |-> low, freeTail |-> {}]
  BY <1>4, Zenon DEF Emptied, S
<1>7. m + 1 \in 1 .. MaxSlot + 1
  BY Constants
<1> QED
  BY <1>5, <1>6, <1>7 DEF Allocs

\* A power failure keeps, writes or tears each dirty block, and keeps either header.
LEMMA CrashInv == ASSUME Inv, Crash PROVE Inv'
<1> SUFFICES ASSUME IInv PROVE IInv'
  BY Zenon DEF Inv
<1>1. PICK s \in Outcomes(cache.slot, disk.slot), t \in Outcomes(cache.tail, disk.tail) :
        disk' = [slot |-> s, tail |-> t]
  BY Zenon DEF Crash
<1>2. /\ disk'.slot = s /\ disk'.tail = t /\ cache' = disk'
      /\ \A i \in Slots : s[i] \in {cache.slot[i], disk.slot[i], Torn} /\ (cache.slot[i] = disk.slot[i] => s[i] = disk.slot[i])
      /\ \A p \in Positions : t[p] \in {cache.tail[p], disk.tail[p], Torn} /\ (cache.tail[p] = disk.tail[p] => t[p] = disk.tail[p])
      /\ s = [i \in Slots |-> s[i]] /\ t = [p \in Positions |-> t[p]]
  <2>1. DOMAIN cache.slot = Slots /\ DOMAIN cache.tail = Positions
    BY Zenon DEF IInv, Types, Blocks
  <2>2. /\ s = [i \in Slots |-> s[i]]
        /\ \A i \in Slots : s[i] \in {cache.slot[i], disk.slot[i], Torn} /\ (cache.slot[i] = disk.slot[i] => s[i] = disk.slot[i])
    BY <2>1, OutcomeIs
  <2>3. /\ t = [p \in Positions |-> t[p]]
        /\ \A p \in Positions : t[p] \in {cache.tail[p], disk.tail[p], Torn} /\ (cache.tail[p] = disk.tail[p] => t[p] = disk.tail[p])
    BY <2>1, OutcomeIs
  <2> QED
    BY <1>1, <2>2, <2>3, Zenon DEF Crash
<1>3. disk' \in Blocks
  <2>1. \A i \in Slots : s[i] \in Block \cup {Blank, Torn}
    BY <1>2, Zenon DEF IInv, Types, Blocks
  <2>2. \A p \in Positions : t[p] \in Image \cup {Blank, Torn}
    BY <1>2, Zenon DEF IInv, Types, Blocks
  <2>3. s \in [Slots -> Block \cup {Blank, Torn}] /\ t \in [Positions -> Image \cup {Blank, Torn}]
    BY <2>1, <2>2, <1>2, Zenon
  <2> QED
    BY <1>1, <2>3, Zenon DEF Blocks
<1>4. /\ hdr' = hdr \/ (hdr' = prop /\ prop # None)
      /\ hdr' \in Header /\ prop' = None /\ pc' = "closed" /\ root' = hdr'.root /\ seq' = hdr'.seq
      /\ journaled' = {} /\ batch' = FALSE /\ op' = NoOp /\ alloc' = Emptied(0, hdr'.root)
      /\ UNCHANGED <<writes, fault, acked, dropped>> /\ (Clean' => Clean)
  BY Zenon DEF Crash, IInv, Types, ghosts, Clean
<1>5. /\ alloc' \in Allocs /\ alloc'.free = {} /\ alloc'.deferred = {} /\ alloc'.freeTail = {}
      /\ \A f \in Frags : hdr'.root[f].loc < alloc'.frontier
  <2>1. PICK r \in [Frags -> Loc] : r = hdr'.root
    BY <1>4, Zenon DEF Header
  <2>2. 0 \in 0 .. MaxTail
    BY Constants
  <2> QED
    BY <2>1, <2>2, <1>4, EmptiedIs
<1>6. ~Busy' /\ Cur' = hdr'.root
  BY <1>4, Zenon DEF Busy, Cur
<1>7. Types'
  BY <1>2, <1>3, <1>4, <1>5, NoOpType, Zenon DEF IInv, Types, Header
<1>8. Aged'
  BY <1>4, <1>6, Zenon DEF IInv, Aged
<1>9. Slotted'
  <2>1. fault # "write" => SameFragment(hdr'.root, hdr'.root)
    BY <1>4, Zenon DEF IInv, Slotted
  <2> QED
    BY <2>1, <1>4, <1>5, <1>6, Zenon DEF Slotted
<1>10. Steady'
  BY <1>2, <1>4, Zenon DEF Steady
<1>11. Watermark'
  BY <1>2, <1>4, Zenon DEF Watermark
<1>12. Reads' /\ Pending' /\ PutoffGuarded' /\ Superseded'
  BY <1>4, <1>6, Zenon DEF Reads, Pending, PutoffGuarded, Superseded
<1>13. ASSUME NEW p \in Positions, disk.tail[p] # Blank, Clean PROVE disk'.tail[p] # Blank
  BY <1>2, <1>13 DEF IInv, Watermark, Blank, Torn
<1>14. ASSUME Clean, hdr' = hdr, NEW p \in Positions, Durably(p)
       PROVE  Durably(p)' /\ cache'.tail[p] = cache.tail[p]
  <2>1. disk'.tail[p] = disk.tail[p] /\ cache.tail[p] = disk.tail[p]
    BY <1>2, <1>14, Zenon DEF Durably
  <2>2. CASE p <= hdr.tail
    BY <2>1, <2>2, <1>2, <1>14, Zenon DEF Durably
  <2>3. CASE ~(p <= hdr.tail)
    <3>1. hdr.tail + 1 \in Positions
      BY <2>3, Constants DEF IInv, Types, Header, Positions
    <3> QED
      BY <2>1, <2>3, <3>1, <1>2, <1>13, <1>14, Zenon DEF Durably
  <2> QED
    BY <2>2, <2>3, Zenon
\* The proposed header is the one the power failure kept.
<1>15. ASSUME Clean, hdr' # hdr
       PROVE  /\ hdr' = prop /\ pc \in {"written", "writerset"} /\ disk = cache /\ hdr'.seq = hdr.seq + 1
              /\ s = cache.slot /\ t = cache.tail
  <2>1. hdr' = prop /\ pc \in {"written", "writerset"} /\ disk = cache
    BY <1>4, <1>15, Zenon DEF IInv, Steady
  <2>2. hdr'.seq = hdr.seq + 1
    BY <2>1, <1>15 DEF IInv, Steady
  <2>3. cache.slot = [i \in Slots |-> cache.slot[i]] /\ cache.tail = [p \in Positions |-> cache.tail[p]]
    BY Zenon DEF IInv, Types, Blocks
  <2>4. s = cache.slot /\ t = cache.tail
    BY <2>1, <2>3, <1>2
  <2> QED
    BY <2>1, <2>2, <2>4, Zenon
<1>16. Images'
  <2> SUFFICES ASSUME Clean, NEW p \in Positions PROVE Right(disk.tail[p])'
    BY <1>2, <1>4, Zenon DEF Images
  <2>1. Right(cache.tail[p]) /\ Right(disk.tail[p])
    BY Zenon DEF IInv, Images
  <2>2. CASE hdr' = hdr
    BY <2>1, <2>2, <1>2 DEF Right, IsImage
  <2>3. CASE hdr' # hdr
    <3>1. disk'.tail[p] = cache.tail[p] /\ hdr'.seq = hdr.seq + 1
      BY <2>3, <1>2, <1>15, Zenon
    <3>2. IsImage(cache.tail[p]) => cache.tail[p].target <= hdr'.seq /\ cache.tail[p].target \in Nat
      BY <2>1, <3>1, Zenon DEF Right, IInv, Types, Blocks, IsImage, Image
    <3> QED
      BY <3>1, <3>2, <1>4 DEF Right, Header
  <2> QED
    BY <2>2, <2>3, Zenon
<1>17. Guarded'
  <2> SUFFICES ASSUME Clean, NEW f \in Frags, ~Intact(f)'
               PROVE  \E p \in Positions : Undoes(cache.tail[p], f)' /\ Durably(p)'
    BY <1>4, Zenon DEF Guarded
  <2>1. hdr.root[f].loc # 0 => hdr.root[f].loc \in Slots
    BY DEF IInv, Types, Header, Loc, Slots
  <2>2. CASE hdr' = hdr
    <3>1. ~Intact(f)
      BY <2>1, <2>2, <1>2 DEF Intact, Sealed
    <3>2. PICK p \in Positions : Undoes(cache.tail[p], f) /\ Durably(p)
      BY <3>1, Zenon DEF IInv, Guarded
    <3> QED
      BY <2>2, <3>2, <1>14, Zenon DEF Undoes
  <2>3. CASE hdr' # hdr
    <3>1. /\ hdr' = prop /\ pc \in {"written", "writerset"} /\ disk = cache
          /\ disk'.slot = cache.slot /\ cache'.slot = cache.slot
      BY <2>3, <1>2, <1>15, Zenon
    <3>2. CASE pc = "written"
      <4>1. prop.root = root /\ Cur = root /\ ~Putoff(f)
        BY <3>2 DEF IInv, Steady, Cur, Busy, Putoff
      <4> QED
        BY <3>1, <4>1, Zenon DEF IInv, Reads, Intact
    <3>3. CASE pc = "writerset"
      <4>1. prop.root = hdr.root /\ journaled = {}
        BY <3>3 DEF IInv, Steady
      <4>2. Intact(f)
        BY <3>3, <4>1, Zenon DEF IInv, Guarded
      <4> QED
        BY <3>1, <4>1, <4>2, Zenon DEF Intact
    <3> QED
      BY <3>1, <3>2, <3>3, Zenon
  <2> QED
    BY <2>2, <2>3, Zenon
<1>18. Acked'
  <2> SUFFICES ASSUME Clean, NEW v \in acked \ dropped
               PROVE  \/ \E f \in Frags : hdr'.root[f].loc # 0 /\ v = <<f, hdr'.root[f].id>>
                      \/ \E p \in Positions : Keeps(cache.tail[p], v)' /\ Durably(p)'
    BY <1>4, Zenon DEF Acked
  <2>1. \/ \E f \in Frags : hdr.root[f].loc # 0 /\ v = <<f, hdr.root[f].id>>
        \/ \E p \in Positions : Keeps(cache.tail[p], v) /\ Durably(p) /\ (pc # "closed" => Held(p))
    BY Zenon DEF IInv, Acked
  <2>2. CASE hdr' = hdr
    <3>1. CASE \E p \in Positions : Keeps(cache.tail[p], v) /\ Durably(p)
      <4>1. PICK p \in Positions : Keeps(cache.tail[p], v) /\ Durably(p)
        BY <3>1, Zenon
      <4> QED
        BY <2>2, <4>1, <1>14, Zenon
    <3> QED
      BY <2>1, <2>2, <3>1, Zenon
  <2>3. CASE hdr' # hdr
    <3>1. /\ hdr' = prop /\ pc \in {"written", "writerset"} /\ disk = cache
          /\ disk'.tail = cache.tail /\ cache'.tail = cache.tail
      BY <2>3, <1>2, <1>15, Zenon
    <3>2. CASE pc = "written"
      <4>1. prop.root = root /\ Cur = root /\ prop.tail = alloc.low
        BY <3>2 DEF IInv, Steady, Cur, Busy
      <4>2. \A p \in Positions : Held(p) /\ Keeps(cache.tail[p], v) => Durably(p)' /\ Keeps(cache.tail[p], v)'
        BY <3>1, <4>1, Zenon DEF Held, Durably, Keeps
      <4>3. CASE \E f \in Frags : hdr.root[f].loc # 0 /\ v = <<f, hdr.root[f].id>>
        <5>1. PICK f \in Frags : hdr.root[f].loc # 0 /\ v = <<f, hdr.root[f].id>>
          BY <4>3, Zenon
        <5>2. CASE root[f].loc # 0 /\ root[f].id = hdr.root[f].id
          BY <3>1, <4>1, <5>1, <5>2, Zenon
        <5>3. CASE \E p \in Positions : Held(p) /\ Keeps(cache.tail[p], v)
          BY <4>2, <5>3, Zenon
        <5> QED
          BY <3>2, <4>1, <5>1, <5>2, <5>3, Zenon DEF IInv, Superseded
      <4> QED
        BY <2>1, <3>2, <4>2, <4>3, Zenon
    <3>3. CASE pc = "writerset"
      <4>1. prop.root = hdr.root /\ prop.tail = hdr.tail
        BY <3>3 DEF IInv, Steady
      <4> QED
        BY <2>1, <3>1, <4>1, Zenon DEF Durably
    <3> QED
      BY <3>1, <3>2, <3>3, Zenon
  <2> QED
    BY <2>2, <2>3, Zenon
<1> QED
  BY <1>7, <1>8, <1>9, <1>10, <1>11, <1>12, <1>16, <1>17, <1>18, Zenon DEF IInv

\* The scan finds every undo image that is needed and the undo pass restores the committed blocks.
LEMMA ReopenInv == ASSUME Inv, Reopen PROVE Inv'
<1> SUFFICES ASSUME IInv PROVE IInv'
  BY Zenon DEF Inv
<1>1. /\ pc = "closed" /\ alloc' = Emptied(Max({0} \cup Scanned), hdr.root)
      /\ cache' = [cache EXCEPT !.slot = [x \in Slots |->
           IF UndoFor(x) # {} THEN cache.tail[Min(UndoFor(x))].bytes ELSE cache.slot[x]]]
      /\ pc' = (IF Undo = {} THEN "idle" ELSE "recover")
      /\ UNCHANGED <<disk, hdr, prop, root, seq, journaled, batch, op, writes, crashes, fault, acked, dropped>>
  BY Zenon DEF Reopen
<1>2. ScanTo \in 0 .. MaxTail /\ hdr.tail \in 0 .. MaxTail /\ hdr.tail <= ScanTo
      /\ (hdr.tail < ScanTo => cache.tail[hdr.tail + 1] # Blank)
  BY Constants DEF ScanTo, IInv, Types, Header
<1>3. Scanned \subseteq Positions /\ \A p \in Positions : p \in Scanned <=> p <= ScanTo /\ IsImage(cache.tail[p])
  BY <1>2, Constants DEF Scanned, Positions
<1>4. PICK low \in 0 .. MaxTail : low = Max({0} \cup Scanned) /\ (\A p \in Scanned : p <= low) /\ low <= ScanTo
  <2> DEFINE S == {0} \cup Scanned
  <2>1. S \in SUBSET Nat /\ S # {} /\ 0 \in S /\ \A x \in S : x <= ScanTo
    BY <1>2, <1>3 DEF Positions
  <2>2. Scanned \subseteq S
    BY Zenon
  <2>3. ScanTo \in Nat /\ ScanTo <= MaxTail
    BY <1>2
  <2> HIDE DEF S
  <2>4. Max(S) \in S /\ \A x \in S : x <= Max(S)
    BY <2>1, <2>3, MaxExists, Zenon
  <2>5. Max(S) \in 0 .. MaxTail /\ Max(S) <= ScanTo
    <3>1. Max(S) \in Nat /\ Max(S) <= ScanTo
      BY <2>1, <2>4, Zenon
    <3> QED
      BY <2>3, <3>1, Constants
  <2>6. Max(S) = Max({0} \cup Scanned)
    BY Zenon DEF S
  <2> QED
    BY <2>2, <2>4, <2>5, <2>6, Zenon
<1>5. /\ alloc' \in Allocs /\ alloc'.free = {} /\ alloc'.deferred = {} /\ alloc'.freeTail = {} /\ alloc'.low = low
      /\ \A f \in Frags : hdr.root[f].loc < alloc'.frontier
  <2>1. PICK r \in [Frags -> Loc] : r = hdr.root
    BY Zenon DEF IInv, Types, Header
  <2> QED
    BY <2>1, <1>1, <1>4, EmptiedIs, Zenon
<1>6. \A x \in Slots : UndoFor(x) # {} =>
        \E p \in Positions : /\ p = Min(UndoFor(x)) /\ IsImage(cache.tail[p]) /\ cache.tail[p] \in Image
                             /\ cache.tail[p].inplace = x /\ cache.tail[p].target > hdr.seq
  <2> SUFFICES ASSUME NEW x \in Slots, UndoFor(x) # {}
               PROVE  LET p == Min(UndoFor(x)) IN
                      /\ p \in Positions /\ IsImage(cache.tail[p]) /\ cache.tail[p] \in Image
                      /\ cache.tail[p].inplace = x /\ cache.tail[p].target > hdr.seq
    BY Zenon
  <2>1. UndoFor(x) \in SUBSET Nat
    <3>1. UndoFor(x) \subseteq Scanned
      BY Zenon DEF UndoFor, Undo
    <3>2. Positions \subseteq Nat
      BY DEF Positions
    <3> QED
      BY <3>1, <3>2, <1>3, Zenon
  <2>2. Min(UndoFor(x)) \in UndoFor(x)
    BY <2>1, MinExists, Zenon
  <2>3. PICK p \in UndoFor(x) : p = Min(UndoFor(x))
    BY <2>2, Zenon
  <2>4. /\ p \in Positions /\ IsImage(cache.tail[p])
        /\ cache.tail[p].inplace = x /\ cache.tail[p].target > hdr.seq
    BY <2>3, <1>3, Zenon DEF UndoFor, Undo
  <2>5. cache.tail[p] \in Image
    BY <2>4, Zenon DEF IInv, Types, Blocks, IsImage
  <2> QED
    BY <2>3, <2>4, <2>5, Zenon
<1>7. cache'.tail = cache.tail /\ cache' \in Blocks
      /\ \A x \in Slots : cache'.slot[x] = IF UndoFor(x) # {} THEN cache.tail[Min(UndoFor(x))].bytes ELSE cache.slot[x]
  <2> DEFINE new == [x \in Slots |-> IF UndoFor(x) # {} THEN cache.tail[Min(UndoFor(x))].bytes ELSE cache.slot[x]]
  <2>1. cache' = [cache EXCEPT !.slot = new]
    BY <1>1, Zenon
  <2>2. ASSUME NEW x \in Slots PROVE new[x] \in Block \cup {Blank, Torn}
    <3>1. CASE UndoFor(x) # {}
      BY <3>1, <1>6, Zenon DEF Image
    <3>2. CASE UndoFor(x) = {}
      BY <3>2, Zenon DEF IInv, Types, Blocks
    <3> QED
      BY <3>1, <3>2, Zenon
  <2>3. new \in [Slots -> Block \cup {Blank, Torn}]
    BY <2>2, Zenon
  <2>4. \A x \in Slots : new[x] = IF UndoFor(x) # {} THEN cache.tail[Min(UndoFor(x))].bytes ELSE cache.slot[x]
    BY Zenon
  <2> HIDE DEF new
  <2>5. cache'.slot = new /\ cache'.tail = cache.tail /\ cache' \in Blocks
    BY <2>1, <2>3, Zenon DEF IInv, Types, Blocks
  <2> QED
    BY <2>4, <2>5, Zenon
<1>8. ~Busy' /\ Cur' = root /\ (Clean' => Clean) /\ pc' \in {"idle", "recover"}
  BY <1>1, Zenon DEF Busy, Cur, Clean
<1>9. Clean => root = hdr.root /\ disk = cache /\ journaled = {} /\ prop = None
  BY <1>1, Zenon DEF IInv, Slotted, Steady, Clean
<1>10. ASSUME NEW p \in Positions, Clean, Durably(p), IsImage(cache.tail[p]) PROVE p \in Scanned /\ p <= low
  <2>1. p <= ScanTo
    <3>1. CASE p <= hdr.tail
      BY <3>1, <1>2 DEF Positions
    <3>2. CASE ~(p <= hdr.tail)
      <4>1. hdr.tail < MaxTail
        BY <3>2, <1>2, Constants DEF Positions
      <4>2. ScanTo = MaxTail
        BY <3>2, <4>1, <1>9, <1>10 DEF Durably, ScanTo
      <4> QED
        BY <4>2 DEF Positions
    <3> QED
      BY <3>1, <3>2, Zenon
  <2> QED
    BY <2>1, <1>3, <1>4, <1>10, Zenon
<1>11. Types'
  BY <1>1, <1>5, <1>7, Zenon DEF IInv, Types
<1>12. Aged'
  BY <1>1, <1>8, Zenon DEF IInv, Aged
<1>13. Slotted'
  <2>1. fault # "write" => /\ root = hdr.root /\ SameFragment(hdr.root, hdr.root)
                           /\ prop # None => SameFragment(prop.root, prop.root)
    BY <1>1, Zenon DEF IInv, Slotted
  <2>2. UNCHANGED <<hdr, prop, root, fault>>
    BY <1>1, Zenon
  <2> QED
    BY <2>1, <2>2, <1>5, <1>8, Zenon DEF Slotted
<1>14. Steady'
  BY <1>1, <1>8, <1>9, Zenon DEF IInv, Steady
<1>15. Watermark'
  <2>1. ASSUME hdr.tail < low PROVE cache.tail[hdr.tail + 1] # Blank
    BY <2>1, <1>2, <1>4
  <2> QED
    BY <2>1, <1>1, <1>5, <1>7, <1>8, Zenon DEF IInv, Watermark
<1>16. ASSUME Clean, NEW f \in Frags, hdr.root[f].loc # 0
       PROVE  cache'.slot[hdr.root[f].loc] = Sealed(f, hdr.root[f])
  <2>1. PICK x \in Slots : x = hdr.root[f].loc
    BY <1>16 DEF IInv, Types, Header, Loc, Slots
  <2>2. CASE UndoFor(x) # {}
    <3>1. PICK p \in Positions : /\ p = Min(UndoFor(x)) /\ IsImage(cache.tail[p])
                                 /\ cache.tail[p].inplace = x /\ cache.tail[p].target > hdr.seq
      BY <2>2, <1>6, Zenon
    <3>2. Right(cache.tail[p])
      BY <1>16, Zenon DEF IInv, Images
    <3>3. cache'.slot[x] = cache.tail[p].bytes
      BY <2>2, <3>1, <1>7, Zenon
    <3> QED
      BY <2>1, <3>1, <3>2, <3>3, <1>16, Zenon DEF Right
  <2>3. CASE UndoFor(x) = {}
    <3>1. Intact(f)
      <4> SUFFICES ASSUME ~Intact(f) PROVE FALSE
        BY Zenon
      <4>1. PICK p \in Positions : Undoes(cache.tail[p], f) /\ Durably(p)
        BY <1>16, Zenon DEF IInv, Guarded
      <4>2. p \in Scanned
        BY <4>1, <1>10, <1>16, Zenon DEF Undoes
      <4>3. hdr.seq + 1 > hdr.seq
        BY DEF IInv, Types, Header
      <4>4. p \in UndoFor(x)
        BY <2>1, <4>1, <4>2, <4>3, <1>16, Zenon DEF Undoes, UndoFor, Undo
      <4> QED
        BY <2>3, <4>4, Zenon
    <3> QED
      BY <2>1, <2>3, <3>1, <1>7, <1>16, Zenon DEF Intact
  <2> QED
    BY <2>2, <2>3, Zenon
<1>17. Reads'
  BY <1>8, <1>9, <1>16, Zenon DEF Reads, Sealed
<1>18. Pending' /\ PutoffGuarded'
  BY <1>8, Zenon DEF Pending, PutoffGuarded
<1>19. Images'
  BY <1>1, <1>8 DEF IInv, Images, Right, Sealed
<1>20. Guarded'
  <2> SUFFICES ASSUME Clean, NEW f \in Frags, ~Intact(f)'
               PROVE  /\ \E p \in Positions : Undoes(cache.tail[p], f)' /\ Durably(p)' /\ p <= alloc'.low /\ Held(p)'
                      /\ pc' = "recover"
    BY <1>8, Zenon DEF Guarded
  <2>1. ~Intact(f)
    BY <1>1, <1>9, <1>16, Zenon DEF Intact, Sealed
  <2>2. PICK p \in Positions : Undoes(cache.tail[p], f) /\ Durably(p)
    BY <2>1, Zenon DEF IInv, Guarded
  <2>3. p \in Scanned /\ p <= low
    BY <2>2, <1>10, Zenon DEF Undoes
  <2>4. hdr.seq + 1 > hdr.seq
    BY DEF IInv, Types, Header
  <2>5. hdr.root[f].loc # 0
    BY <2>1, Zenon DEF Intact
  <2>6. p \in Undo
    BY <2>2, <2>3, <2>4, <2>5, Zenon DEF Undo, Undoes
  <2>7. pc' = "recover"
    BY <2>6, <1>1, Zenon
  <2>8. Undoes(cache.tail[p], f)' /\ Durably(p)'
    BY <2>2, <1>1 DEF Undoes, Durably
  <2>9. Held(p)'
    BY <2>3, <1>5, Zenon DEF Held
  <2> QED
    BY <2>3, <2>7, <2>8, <2>9, <1>5, Zenon
<1>21. Acked'
  <2> SUFFICES ASSUME Clean, NEW v \in acked \ dropped
               PROVE  \/ \E f \in Frags : hdr.root[f].loc # 0 /\ v = <<f, hdr.root[f].id>>
                      \/ \E p \in Positions : Keeps(cache.tail[p], v)' /\ Durably(p)' /\ Held(p)'
    BY <1>1, <1>8, Zenon DEF Acked
  <2>1. CASE \E p \in Positions : Keeps(cache.tail[p], v) /\ Durably(p)
    <3>1. PICK p \in Positions : Keeps(cache.tail[p], v) /\ Durably(p)
      BY <2>1, Zenon
    <3>2. p <= low
      BY <3>1, <1>10, Zenon DEF Keeps
    <3> QED
      BY <3>1, <3>2, <1>1, <1>5, <1>7, Zenon DEF Keeps, Durably, Held
  <2> QED
    BY <2>1, Zenon DEF IInv, Acked
<1>22. Superseded'
  BY <1>1, <1>8, <1>9, Zenon DEF Superseded
<1> QED
  BY <1>11, <1>12, <1>13, <1>14, <1>15, <1>17, <1>18, <1>19, <1>20, <1>21, <1>22, Zenon DEF IInv

\* A new container.
LEMMA InitInv == Init => Inv
<1> SUFFICES ASSUME Init PROVE IInv
  BY Zenon DEF Inv
<1>1. /\ cache \in Blocks /\ \A p \in Positions : cache.tail[p] = Blank
      /\ cache.slot[1] = [frag |-> 1, id |-> 0] /\ disk = cache
  BY ConstantsAssumption DEF Init, Blocks, Block, Slots
<1>2. /\ root \in [Frags -> Loc] /\ \A f \in Frags : root[f] = IF f = 1 THEN [loc |-> 1, id |-> 0] ELSE Hole
  BY Constants DEF Init, Loc, Hole
<1>3. /\ alloc \in Allocs /\ alloc.free = {} /\ alloc.deferred = {} /\ alloc.freeTail = {} /\ alloc.low = 0
      /\ \A f \in Frags : root[f].loc < alloc.frontier
  <2>1. 0 \in 0 .. MaxTail
    BY Constants
  <2> QED
    BY <1>2, <2>1, EmptiedIs, Zenon DEF Init
<1>4. /\ hdr = [seq |-> 0, root |-> root, tail |-> 0] /\ prop = None /\ seq = 0 /\ journaled = {}
      /\ batch = FALSE /\ op = NoOp /\ pc = "idle" /\ writes = 0 /\ fault = "none"
      /\ acked = Versions(root) /\ dropped = {}
  BY Zenon DEF Init
<1>5. Types
  <2>1. acked \subseteq Frags \X (0 .. MaxWrites)
    BY <1>2, <1>4 DEF Versions, Loc
  <2>2. hdr \in Header
    BY <1>2, <1>4, Constants DEF Header
  <2>3. seq \in Nat /\ journaled \subseteq Frags /\ writes \in 0 .. MaxWrites
    BY <1>4, Constants
  <2>4. batch \in BOOLEAN
    BY <1>4, Zenon
  <2> QED
    BY <1>1, <1>2, <1>3, <1>4, <2>1, <2>2, <2>3, <2>4, NoOpType, Zenon DEF Types
<1>6. ~Busy /\ Cur = root
  BY <1>4, Zenon DEF Busy, Cur
<1>7. Aged
  BY <1>2, <1>4, <1>6 DEF Aged, Hole
<1>8. Slotted
  BY <1>2, <1>3, <1>4, <1>6 DEF Slotted, SameFragment, Hole
<1>9. Steady
  BY <1>1, <1>4, Zenon DEF Steady
<1>10. Watermark
  BY <1>1, <1>3, <1>4 DEF Watermark
<1>11. Reads /\ Pending /\ PutoffGuarded
  BY <1>1, <1>2, <1>6 DEF Reads, Pending, PutoffGuarded, Hole, Sealed
<1>12. Images
  BY <1>1, Zenon DEF Images, Right, IsImage
<1>13. Guarded
  BY <1>1, <1>2, <1>4 DEF Guarded, Intact, Sealed, Hole
<1>14. Acked
  BY <1>4, Zenon DEF Acked, Versions
<1>15. Superseded
  BY <1>4, <1>6, Zenon DEF Superseded
<1> QED
  BY <1>5, <1>7, <1>8, <1>9, <1>10, <1>11, <1>12, <1>13, <1>14, <1>15, Zenon DEF IInv

\* Every step keeps the invariant.
LEMMA NextInv == ASSUME TRUE \notin WriterSetIn, Inv, [Next]_vars PROVE Inv'
<1>1. CASE UNCHANGED vars
  <2>1. /\ cache' = cache /\ disk' = disk /\ hdr' = hdr /\ prop' = prop /\ root' = root /\ seq' = seq
        /\ journaled' = journaled /\ batch' = batch /\ op' = op /\ alloc' = alloc /\ pc' = pc
        /\ writes' = writes /\ fault' = fault /\ acked' = acked /\ dropped' = dropped
    BY <1>1, Zenon DEF vars
  <2>2. Types => Types'
    BY <2>1, Zenon DEF Types
  <2>3. Aged => Aged'
    BY <2>1, Zenon DEF Aged, Busy
  <2>4. Slotted => Slotted'
    BY <2>1, Zenon DEF Slotted, SameFragment, Cur, Busy
  <2>5. Steady => Steady'
    BY <2>1, Zenon DEF Steady, Clean
  <2>6. Watermark => Watermark'
    BY <2>1, Zenon DEF Watermark, Clean
  <2>7. Reads => Reads'
    BY <2>1, Zenon DEF Reads, Clean, Cur, Busy, Putoff
  <2>8. Pending => Pending'
    BY <2>1, Zenon DEF Pending, Clean, Busy
  <2>9. Images => Images'
    BY <2>1, Zenon DEF Images, Clean, Right
  <2>10. Guarded => Guarded'
    <3>1. (Clean' <=> Clean) /\ (Lapsing' <=> Lapsing) /\ \A f \in Frags : Intact(f)' <=> Intact(f)
      BY <2>1, Zenon DEF Clean, Lapsing, Intact
    <3>2. \A p \in Positions : (Durably(p)' <=> Durably(p)) /\ (Held(p)' <=> Held(p))
      BY <2>1, Zenon DEF Durably, Held
    <3>3. \A f \in Frags, p \in Positions : Undoes(cache.tail[p], f)' <=> Undoes(cache.tail[p], f)
      BY <2>1, Zenon DEF Undoes
    <3> QED
      BY <2>1, <3>1, <3>2, <3>3, Zenon DEF Guarded
  <2>11. PutoffGuarded => PutoffGuarded'
    BY <2>1, Zenon DEF PutoffGuarded, Clean, Busy, Undoes, Durably, Held
  <2>12. Acked => Acked'
    BY <2>1, Zenon DEF Acked, Clean, Durably, Held
  <2>13. Superseded => Superseded'
    BY <2>1, Zenon DEF Superseded, Clean, Cur, Busy, Held
  <2> QED
    BY <2>2, <2>3, <2>4, <2>5, <2>6, <2>7, <2>8, <2>9, <2>10, <2>11, <2>12, <2>13, Zenon DEF Inv, IInv
<1>2. CASE BeginBatch
  BY <1>2, BeginBatchInv, Zenon
<1>3. CASE CommitBatch
  BY <1>3, CommitBatchInv, Zenon
<1>4. CASE AbortTransaction
  BY <1>4, AbortTransactionInv, Zenon
<1>5. CASE \E kind \in {"write", "rechunk"}, i, j \in Frags : i <= j /\ BeginWrite(kind, i .. j)
  <2>1. PICK kind \in {"write", "rechunk"}, i \in Frags, j \in Frags : BeginWrite(kind, i .. j)
    BY <1>5, Zenon
  <2>2. i .. j \in SUBSET Frags
    <3>1. i \in Nat /\ i >= 1 /\ j \in Nat /\ 1 .. j \subseteq Frags
      BY ConstantsAssumption
    <3> QED
      BY <3>1
  <2> QED
    BY <2>1, <2>2, BeginWriteInv, Zenon
<1>6. CASE StageInPlace
  BY <1>6, StageInPlaceInv, Zenon
<1>7. CASE StageRelocate
  BY <1>7, StageRelocateInv, Zenon
<1>8. CASE StageRechunk
  BY <1>8, StageRechunkInv, Zenon
<1>9. CASE Drain
  BY <1>9, DrainInv, Zenon
<1>10. CASE DrainFails
  BY <1>10, DrainFailsInv, Zenon
<1>11. CASE Apply
  BY <1>11, ApplyInv, Zenon
<1>12. CASE FinishWrite
  BY <1>12, FinishWriteInv, Zenon
<1>13. CASE FinishFails
  BY <1>13, FinishFailsInv, Zenon
<1>14. CASE \E D \in SUBSET Positions : Evict(D)
  BY <1>14, EvictInv, Zenon
<1>15. CASE PublishFlush
  BY <1>15, PublishFlushInv, Zenon
<1>16. CASE PublishFlushFails
  BY <1>16, PublishFlushFailsInv, Zenon
<1>17. CASE CommitHeader
  BY <1>17, CommitHeaderInv, Zenon
<1>18. CASE CommitRefused
  BY <1>18, CommitRefusedInv, Zenon
<1>19. CASE HeaderFlush
  BY <1>19, HeaderFlushInv, Zenon
<1>20. CASE HeaderFlushFails
  BY <1>20, HeaderFlushFailsInv, Zenon
<1>21. CASE ChangeWriterSet
  BY <1>21, ChangeWriterSetInv, Zenon
<1>22. CASE WriterSetFlush
  BY <1>22, WriterSetFlushInv, Zenon
<1>23. CASE Crash
  BY <1>23, CrashInv, Zenon
<1>24. CASE Reopen
  BY <1>24, ReopenInv, Zenon
<1>25. CASE RecoverFlush
  BY <1>25, RecoverFlushInv, Zenon
<1> QED
  BY <1>1, <1>2, <1>3, <1>4, <1>5, <1>6, <1>7, <1>8, <1>9, <1>10, <1>11, <1>12, <1>13, <1>14, <1>15, <1>16,
     <1>17, <1>18, <1>19, <1>20, <1>21, <1>22, <1>23, <1>24, <1>25, ZenonT(60) DEF Next

\* What the proofs use of Clean: it is never regained.
LEMMA StaysFaulty == ASSUME Next, Clean' PROVE Clean
BY Zenon DEF Next, Clean, Fault, BeginBatch, CommitBatch, AbortTransaction, BeginWrite, StageInPlace, StageRelocate,
   StageRechunk, Drain, DrainFails, Apply, FinishWrite, FinishFails, Evict, PublishFlush, PublishFlushFails,
   CommitHeader, CommitRefused, HeaderFlush, HeaderFlushFails, ChangeWriterSet, WriterSetFlush, Crash, Reopen,
   RecoverFlush

\* What reads return, as long as no operation failed.
Seen == IF pc \in {"closed", "recover"} THEN Named(hdr.root) ELSE Named(root)

\* Reads of an idle engine return the versions its root names.
LEMMA ReadsSeen == Inv /\ Clean => View = Seen
<1> SUFFICES ASSUME IInv, Clean, pc = "idle" PROVE Content(root) = Named(root)
  BY Zenon DEF Inv, View, Seen, Durable
<1>1. ASSUME NEW f \in Frags, root[f].loc # 0 PROVE cache.slot[root[f].loc] = [frag |-> f, id |-> root[f].id]
  BY <1>1, Zenon DEF IInv, Reads, Cur, Busy, Putoff, Sealed
<1> QED
  BY <1>1, Zenon DEF Content, Named

\* FinishWrite is an update of the fragments the write touched.
LEMMA FinishIsUpdate ==
  ASSUME Inv, Clean, FinishWrite
  PROVE  \E F \in SUBSET Frags, n \in 1 .. MaxWrites :
           /\ \A f \in Frags : Named(root)[f].id < n
           /\ Named(op.rec) = [f \in Frags |-> IF f \in F THEN [frag |-> f, id |-> n] ELSE Named(root)[f]]
<1> IInv
  BY Zenon DEF Inv
<1> DEFINE F == {f \in Frags : op.rec[f] # root[f]}
<1>1. Busy
  BY Zenon DEF FinishWrite, Busy
<1>2. /\ \A f \in Frags : root[f].id < writes /\ root[f].id \in Nat
      /\ \A f \in F : op.rec[f].id = writes /\ op.rec[f].loc # 0
  BY <1>1 DEF IInv, Aged, Types, Loc
<1>3. writes \in 1 .. MaxWrites
  <2>1. writes \in Nat /\ writes <= MaxWrites
    BY DEF IInv, Types
  <2>2. \E f \in Frags : root[f].id < writes /\ root[f].id \in Nat
    BY <1>2, Constants, Zenon
  <2> QED
    BY <2>1, <2>2
<1>4. \A f \in Frags : Named(root)[f].id < writes
  BY <1>2, <1>3 DEF Named, Blank
<1>5. Named(op.rec) = [f \in Frags |-> IF f \in F THEN [frag |-> f, id |-> writes] ELSE Named(root)[f]]
  BY <1>2, Zenon DEF Named
<1> HIDE DEF F
<1>6. F \in SUBSET Frags
  BY Zenon DEF F
<1> QED
  BY <1>3, <1>4, <1>5, <1>6, Zenon

\* Every step is a step of the transactional store, or leaves it alone.
LEMMA StoreStep ==
  ASSUME Inv, Inv', [Next]_vars, Clean'
  PROVE  Store!Next \/ UNCHANGED <<Durable, View>>
<1> IInv /\ IInv'
  BY Zenon DEF Inv
<1>1. CASE UNCHANGED vars
  BY <1>1, Zenon DEF vars, Durable, View, Content
<1> SUFFICES ASSUME Next PROVE Store!Next \/ UNCHANGED <<Durable, View>>
  BY <1>1, Zenon
<1>2. Clean /\ View = Seen
  BY StaysFaulty, ReadsSeen, Zenon
<1>3. View' = Seen'
  <2>1. ASSUME NEW f \in Frags, root'[f].loc # 0, pc' = "idle"
        PROVE  cache'.slot[root'[f].loc] = [frag |-> f, id |-> root'[f].id]
    BY <2>1, Zenon DEF IInv, Reads, Cur, Busy, Putoff, Sealed
  <2>2. pc' = "idle" => Content(root)' = Named(root)'
    BY <2>1, Zenon DEF Content, Named
  <2> QED
    BY <2>2, Zenon DEF View, Seen, Durable
<1>4. CASE FinishWrite
  <2>1. PICK F \in SUBSET Frags, n \in 1 .. MaxWrites :
           /\ \A f \in Frags : Named(root)[f].id < n
           /\ Named(op.rec) = [f \in Frags |-> IF f \in F THEN [frag |-> f, id |-> n] ELSE Named(root)[f]]
    BY <1>2, <1>4, FinishIsUpdate, Zenon
  <2>2. Seen = Named(root) /\ Seen' = Named(op.rec) /\ Durable' = Durable
    BY <1>4, Zenon DEF FinishWrite, Seen, Durable
  <2>3. Store!Update(F, n)
    BY <1>2, <1>3, <2>1, <2>2, Zenon DEF Store!Update
  <2> QED
    BY <2>3, Zenon DEF Store!Next
<1>5. CASE HeaderFlush
  <2>1. prop.root = root
    BY <1>2, <1>5 DEF IInv, Steady, HeaderFlush
  <2>2. Seen = Named(root) /\ Seen' = Named(root) /\ Durable' = Named(root)
    BY <1>5, <2>1, Zenon DEF HeaderFlush, Seen, Durable, Named
  <2> QED
    BY <1>2, <1>3, <2>2, Zenon DEF Store!Next, Store!Commit
<1>6. CASE Crash
  <2>1. CASE hdr' = hdr
    BY <1>3, <1>6, <2>1, Zenon DEF Crash, Seen, Durable, Store!Next, Store!FallBack
  <2>2. CASE hdr' # hdr
    <3>1. hdr' = prop /\ prop # None /\ Seen' = Named(prop.root) /\ Durable' = Named(prop.root)
      BY <1>6, <2>2, Zenon DEF Crash, Seen, Durable
    <3>2. pc \in {"written", "writerset"}
      BY <1>2, <3>1, Zenon DEF IInv, Steady
    <3>3. CASE pc = "written"
      <4>1. prop.root = root /\ Seen = Named(root)
        BY <1>2, <3>3 DEF IInv, Steady, Seen
      <4> QED
        BY <1>2, <1>3, <3>1, <4>1, Zenon DEF Store!Next, Store!Commit
    <3>4. CASE pc = "writerset"
      <4>1. prop.root = hdr.root
        BY <1>2, <3>4 DEF IInv, Steady
      <4> QED
        BY <1>3, <3>1, <4>1, Zenon DEF Durable, Store!Next, Store!FallBack
    <3> QED
      BY <3>2, <3>3, <3>4, Zenon
  <2> QED
    BY <2>1, <2>2, Zenon
<1>7. CASE WriterSetFlush
  <2>1. prop.root = hdr.root
    BY <1>2, <1>7 DEF IInv, Steady, WriterSetFlush
  <2> QED
    BY <1>2, <1>3, <1>7, <2>1, Zenon DEF WriterSetFlush, Seen, Durable
<1>8. CASE Reopen \/ RecoverFlush
  <2>1. root = hdr.root /\ root' = root /\ hdr' = hdr
    BY <1>2, <1>8, Zenon DEF IInv, Slotted, Clean, Reopen, RecoverFlush
  <2> QED
    BY <1>2, <1>3, <2>1, Zenon DEF Seen, Durable, Named
<1>9. ASSUME ~(FinishWrite \/ HeaderFlush \/ Crash \/ WriterSetFlush \/ Reopen \/ RecoverFlush)
      PROVE  Durable' = Durable /\ Seen' = Seen
  <2>1. hdr' = hdr /\ root' = root /\ (pc' \in {"closed", "recover"} <=> pc \in {"closed", "recover"})
    BY <1>9, Zenon DEF Next, BeginBatch, CommitBatch, AbortTransaction, BeginWrite, StageInPlace, StageRelocate,
       StageRechunk, Staging, Drain, DrainFails, Apply, FinishFails, Evict, PublishFlush, PublishFlushFails,
       CommitHeader, CommitRefused, HeaderFlushFails, ChangeWriterSet
  <2> QED
    BY <2>1, Zenon DEF Seen, Durable, Named
<1> QED
  BY <1>2, <1>3, <1>4, <1>5, <1>6, <1>7, <1>8, <1>9, Zenon

\* What the invariant says of reads, of the committed version and of the freelist.
LEMMA InvImplies == Inv => CrashSafe /\ FreeIsUnreferenced /\ HistoryKept
<1> SUFFICES ASSUME IInv PROVE CrashSafe /\ FreeIsUnreferenced /\ HistoryKept
  BY Zenon DEF Inv
<1>1. TypeOK
  <2>1. \A b \in {cache, disk} :
         /\ b.slot \in [Slots -> Block \cup {Blank, Torn}]
         /\ \A p \in Positions : b.tail[p] \in Image \/ b.tail[p] \in {Blank, Torn}
    BY Zenon DEF IInv, Types, Blocks
  <2> QED
    BY <2>1, Zenon DEF IInv, Types, TypeOK, Header, Allocs
<1>2. ReadsNameVersion
  BY ReadsSeen, Zenon DEF Inv, ReadsNameVersion, View, Seen
<1>3. Restorable
  <2> SUFFICES ASSUME Clean, NEW f \in Frags, hdr.root[f].loc # 0,
                      disk.slot[hdr.root[f].loc] # [frag |-> f, id |-> hdr.root[f].id]
               PROVE  \E p \in Positions : /\ IsImage(disk.tail[p]) /\ disk.tail[p].target > hdr.seq
                                           /\ disk.tail[p].inplace = hdr.root[f].loc
                                           /\ disk.tail[p].bytes = [frag |-> f, id |-> hdr.root[f].id]
    BY Zenon DEF Restorable
  <2>1. ~Intact(f)
    BY Zenon DEF Intact, Sealed
  <2>2. PICK p \in Positions : Undoes(cache.tail[p], f) /\ Durably(p)
    BY <2>1, Zenon DEF IInv, Guarded
  <2>3. hdr.seq + 1 > hdr.seq
    BY DEF IInv, Types, Header
  <2> QED
    BY <2>2, <2>3, Zenon DEF Undoes, Durably, Sealed
<1>4. FreeIsUnreferenced
  <2> SUFFICES ASSUME fault # "write", pc = "idle"
               PROVE  /\ alloc.free \cap (Live(root) \cup Live(hdr.root) \cup alloc.deferred) = {}
                      /\ alloc.deferred \cap Live(root) = {}
                      /\ \A s \in Live(root) : s < alloc.frontier
    BY Zenon DEF FreeIsUnreferenced
  <2>1. Cur = root
    BY Zenon DEF Cur, Busy
  <2> QED
    BY <2>1, Zenon DEF IInv, Slotted, Live
<1>5. HistoryKept
  <2> SUFFICES ASSUME Clean, pc = "idle", NEW v \in acked \ dropped, v \notin Versions(root)
               PROVE  \E p \in (1 .. alloc.low) \ alloc.freeTail :
                        /\ IsImage(cache.tail[p]) /\ <<cache.tail[p].frag, cache.tail[p].id>> = v
                        /\ cache.tail[p].bytes = [frag |-> v[1], id |-> v[2]]
    BY Zenon DEF HistoryKept
  <2>1. v = <<v[1], v[2]>> /\ Cur = root
    BY DEF IInv, Types, Cur, Busy
  <2>2. \E p \in Positions : Held(p) /\ Keeps(cache.tail[p], v)
    <3>1. CASE \E f \in Frags : hdr.root[f].loc # 0 /\ v = <<f, hdr.root[f].id>>
      <4>1. PICK f \in Frags : hdr.root[f].loc # 0 /\ v = <<f, hdr.root[f].id>>
        BY <3>1, Zenon
      <4>2. ~(root[f].loc # 0 /\ root[f].id = hdr.root[f].id)
        BY <4>1, Zenon DEF Versions
      <4> QED
        BY <2>1, <4>1, <4>2, Zenon DEF IInv, Superseded
    <3> QED
      BY <3>1, Zenon DEF IInv, Acked
  <2>3. PICK p \in Positions : Held(p) /\ Keeps(cache.tail[p], v)
    BY <2>2, Zenon
  <2>4. p \in (1 .. alloc.low) \ alloc.freeTail
    BY <2>3 DEF Held, Positions
  <2> QED
    BY <2>1, <2>3, <2>4, Zenon DEF Keeps
<1> QED
  BY <1>1, <1>2, <1>3, <1>4, <1>5, Zenon DEF CrashSafe

\* The invariant holds in every reachable state.
LEMMA Invariance == ASSUME TRUE \notin WriterSetIn PROVE Spec => []Inv
<1>1. Inv /\ [Next]_vars => Inv'
  BY NextInv, Zenon
<1> QED
  BY <1>1, InitInv, PTL DEF Spec

\* The engine of version/store.rs is crash-safe for every unit, container, history of
\* failures and number of power failures: its reads return what its records name, and
\* until the next header is durable each committed block is on disk or has a durable
\* undo image there (stage_write, publish, rebuild_allocator).  The hypothesis: the
\* writer set changes only while no overwrite is uncommitted.
THEOREM EngineIsCrashSafe == ASSUME TRUE \notin WriterSetIn PROVE Spec => []CrashSafe
<1>1. Inv => CrashSafe
  BY InvImplies, Zenon
<1> QED
  BY <1>1, Invariance, PTL

\* Slots on the freelist or parked by stage_rechunk are named by no root that can still
\* be read, whatever fails, except a write that failed (retire_block, publish_deferred).
THEOREM FreedIsUnreferenced == ASSUME TRUE \notin WriterSetIn PROVE Spec => []FreeIsUnreferenced
<1>1. Inv => FreeIsUnreferenced
  BY InvImplies, Zenon
<1> QED
  BY <1>1, Invariance, PTL

\* A committed version stays readable, live or in the tail, across later writes, failed
\* barriers of publish and power failures, until it is evicted or re-chunked unpinned
\* (evict_block, evict_with_strategy, stage_rechunk).
THEOREM HistoryIsKept == ASSUME TRUE \notin WriterSetIn PROVE Spec => []HistoryKept
<1>1. Inv => HistoryKept
  BY InvImplies, Zenon
<1> QED
  BY <1>1, Invariance, PTL

\* Writes, batches, publishes, evictions, power failures and recoveries implement the
\* transactional store: every step of the engine is an update, a commit, a fall back to
\* the last commit, or invisible.
THEOREM EngineIsTransactional == ASSUME TRUE \notin WriterSetIn PROVE Spec => RefinesTransactionalStore
<1>1. Init => Store!Init
  BY InitInv, ReadsSeen DEF Init, Seen, Clean, Durable, Store!Init
<1>2. Inv /\ Inv' /\ [Next]_vars => [Clean' => Store!Next]_<<Durable, View>>
  BY StoreStep, Zenon
<1> QED
  BY <1>1, <1>2, Invariance, PTL DEF Spec, RefinesTransactionalStore
===============================================================================
