-------------------------- MODULE AllocatorProofs --------------------------
(***************************************************************************)
(* What the freelist and the allocator guarantee, for files, extents and   *)
(* histories of any size.                                                  *)
(*                                                                         *)
(* First the freelist: insertion adds exactly the freed blocks and keeps   *)
(* the list coalesced, taking the head of an entry removes exactly the     *)
(* lent blocks, and in a coalesced list first fit misses no run.  Freeing  *)
(* a set of extents is an induction over its size.                         *)
(*                                                                         *)
(* Then the allocator.  Its invariants are not inductive alone: what keeps *)
(* a lent block from being lent again is that extents of the current       *)
(* state, of the committed one, those waiting to be freed and the stale    *)
(* images of the tail are pairwise apart, that each lies on its side of    *)
(* the watermarks, that the tag of an extent names its region, and that    *)
(* all that is committed lies below the floor of an open scope.            *)
(***************************************************************************)
EXTENDS Allocator, NumberFacts, FiniteSetTheorems, TLAPS

Extents == [at : Nat, len : Nat \ {0}]

-----------------------------------------------------------------------------
(* Facts about extents *)

\* A block is free when an entry holds it.
LEMMA InBlocks ==
  ASSUME NEW list \in SUBSET Extents, NEW b \in Int
  PROVE  b \in Blocks(list) <=> \E e \in list : e.at <= b /\ b < End(e)
<1>1. \A e \in list : e.at \in Nat /\ e.len \in Nat \ {0}
  BY Zenon DEF Extents
<1>2. \A e \in list : b \in BlocksOf(e) <=> e.at <= b /\ b < End(e)
  BY <1>1 DEF BlocksOf, Run, End
<1> QED
  BY <1>2, Zenon DEF Blocks

LEMMA BlocksAreNat == ASSUME NEW list \in SUBSET Extents PROVE Blocks(list) \subseteq Nat
  BY DEF Blocks, BlocksOf, Run, Extents

-----------------------------------------------------------------------------
(* First fit *)

\* In a coalesced list a run of free blocks lies in one entry.
LEMMA RunInEntry ==
  ASSUME NEW list \in SUBSET Extents, IsCoalesced(list), NEW n \in Nat \ {0},
         NEW b \in Int, Run(b, n) \subseteq Blocks(list)
  PROVE  \E e \in list : e.at <= b /\ b + n <= End(e)
<1>1. b \in Blocks(list)
  BY DEF Run
<1>2. PICK e \in list : e.at <= b /\ b < End(e)
  BY <1>1, InBlocks, Zenon
<1>3. e.at \in Nat /\ e.len \in Nat \ {0} /\ End(e) \in Nat
  BY DEF Extents, End
<1>4. CASE End(e) < b + n
  <2>1. End(e) \in Blocks(list)
    BY <1>2, <1>3, <1>4 DEF Run
  <2>2. PICK f \in list : f.at <= End(e) /\ End(e) < End(f)
    BY <2>1, <1>3, InBlocks
  <2>3. f.at \in Nat /\ f.len \in Nat \ {0} /\ End(f) \in Nat
    BY DEF Extents, End
  <2>4. e = f
    BY <2>2, <2>3, <1>3 DEF IsCoalesced, End
  <2> QED
    BY <2>2, <2>4, <1>3
<1> QED
  BY <1>2, <1>3, <1>4

\* An entry that is long enough begins a run.
LEMMA EntryIsRun ==
  ASSUME NEW list \in SUBSET Extents, NEW n \in Nat \ {0}, NEW e \in list, e.len >= n
  PROVE  e.at \in Blocks(list) /\ Run(e.at, n) \subseteq Blocks(list)
<1>1. e.at \in Nat /\ e.len \in Nat \ {0}
  BY Zenon DEF Extents
<1>2. BlocksOf(e) \subseteq Blocks(list)
  BY Zenon DEF Blocks
<1> QED
  BY <1>1, <1>2 DEF BlocksOf, Run

\* First fit over the entries of a coalesced list returns the lowest run of n free
\* blocks, and finds one whenever there is one (Freelist::first_fit).
THEOREM FirstFitExact ==
  ASSUME NEW list \in SUBSET Extents, IsCoalesced(list), NEW n \in Nat \ {0}
  PROVE  FindsLowestRun(list, n)
<1> DEFINE runs == {b \in Blocks(list) : Run(b, n) \subseteq Blocks(list)}
<1>1. \A e \in list : e.at \in Nat /\ e.len \in Nat \ {0} /\ End(e) = e.at + e.len
  BY Zenon DEF Extents, End
<1>2. \A b \in runs : b \in Nat /\ \E e \in list : e.at <= b /\ e.len >= n /\ b + n <= End(e)
  BY <1>1, BlocksAreNat, RunInEntry
<1>3. \A e \in list : e.len >= n => e.at \in runs
  BY EntryIsRun, Zenon
<1>4. ASSUME NEW e \in FirstFit(list, n), NEW c \in runs
      PROVE  e.at \in runs /\ e.at <= c
  <2>1. e \in list /\ e.len >= n /\ \A f \in list : f.len >= n => e.at <= f.at
    BY Zenon DEF FirstFit
  <2>2. PICK f \in list : f.at <= c /\ f.len >= n
    BY <1>2, Zenon
  <2> QED
    BY <2>1, <1>2, <1>3
<1>5. ASSUME NEW b \in runs, \A c \in runs : b <= c
      PROVE  \E e \in FirstFit(list, n) : e.at = b
  <2>1. PICK e \in list : e.at <= b /\ e.len >= n
    BY <1>2, Zenon
  <2>2. e.at = b
    BY <2>1, <1>2, <1>3, <1>5
  <2>3. \A f \in list : f.len >= n => e.at <= f.at
    BY <2>2, <1>3, <1>5, Zenon
  <2> QED
    BY <2>1, <2>2, <2>3, Zenon DEF FirstFit
<1>6. \A e \in FirstFit(list, n) : e.at \in runs /\ \A c \in runs : e.at <= c
  BY <1>3, <1>4, Zenon DEF FirstFit
<1>7. {e.at : e \in FirstFit(list, n)} = {b \in runs : \A c \in runs : b <= c}
  BY <1>5, <1>6
<1> QED
  BY <1>7, Zenon DEF FindsLowestRun

-----------------------------------------------------------------------------
(* Taking blocks *)

\* Lending n blocks from the head of an entry takes exactly these from the list and
\* keeps it coalesced (Freelist::remove_range as alloc_aligned uses it).
THEOREM RemoveExact ==
  ASSUME NEW list \in SUBSET Extents, IsCoalesced(list),
         NEW e \in list, NEW n \in Nat \ {0}, n <= e.len
  PROVE  /\ Removed(list, e, n) \in SUBSET Extents
         /\ IsCoalesced(Removed(list, e, n))
         /\ Blocks(Removed(list, e, n)) = Blocks(list) \ Run(e.at, n)
<1> DEFINE rest == [at |-> e.at + n, len |-> e.len - n]
           left == Removed(list, e, n)
<1>1. \A f \in list : f.at \in Nat /\ f.len \in Nat \ {0} /\ End(f) = f.at + f.len
  BY Zenon DEF Extents, End
<1>2. /\ e.len > n => left = (list \ {e}) \cup {rest} /\ rest \in Extents
      /\ e.len = n => left = list \ {e}
  BY DEF Removed, Extents
<1>3. left \in SUBSET Extents
  BY <1>1, <1>2
<1>4. \A f \in list \ {e} : End(f) < e.at \/ End(e) < f.at
  BY Zenon DEF IsCoalesced
<1>5. End(rest) = End(e)
  BY <1>1 DEF End
<1>6. IsCoalesced(left)
  <2>1. CASE e.len = n
    BY <2>1, <1>2, Zenon DEF IsCoalesced
  <2>2. CASE e.len > n
    <3>1. \A f \in list \ {e} : End(f) < rest.at \/ End(rest) < f.at
      BY <1>1, <1>4, <1>5
    <3> QED
      BY <2>2, <3>1, <1>2, Zenon DEF IsCoalesced
  <2> QED
    BY <2>1, <2>2, <1>1
<1>7. ASSUME NEW b \in Nat
      PROVE  b \in Blocks(left) <=> b \in Blocks(list) /\ b \notin Run(e.at, n)
  <2>1. b \in Run(e.at, n) <=> e.at <= b /\ b < e.at + n
    BY <1>1 DEF Run
  <2>2. b \in Blocks(list) <=> \E f \in list : f.at <= b /\ b < End(f)
    BY InBlocks
  <2>3. b \in Blocks(left) <=> \E f \in left : f.at <= b /\ b < End(f)
    BY <1>3, InBlocks
  <2>4. \A f \in list \ {e} : f.at <= b /\ b < End(f) => ~(e.at <= b /\ b < End(e))
    BY <1>1, <1>4
  <2>5. CASE e.len = n
    BY <2>1, <2>2, <2>3, <2>4, <2>5, <1>1, <1>2, Zenon
  <2>6. CASE e.len > n
    <3>1. rest.at <= b /\ b < End(rest) <=> e.at + n <= b /\ b < End(e)
      BY <1>5, Zenon
    <3> QED
      BY <2>1, <2>2, <2>3, <2>4, <3>1, <1>1, <1>2
  <2> QED
    BY <2>5, <2>6, <1>1
<1>8. Blocks(left) = Blocks(list) \ Run(e.at, n)
  BY <1>3, <1>7, BlocksAreNat, Zenon
<1> QED
  BY <1>3, <1>6, <1>8, Zenon

-----------------------------------------------------------------------------
(* Freeing blocks *)

\* Inserting a freed extent adds exactly its blocks to the list and keeps it
\* coalesced, whatever neighbours it touches or overlaps (Freelist::insert).
THEOREM InsertExact ==
  ASSUME NEW list \in SUBSET Extents, IsCoalesced(list),
         NEW addr \in Nat, NEW size \in Nat \ {0}
  PROVE  /\ Inserted(list, addr, size) \in SUBSET Extents
         /\ IsCoalesced(Inserted(list, addr, size))
         /\ Blocks(Inserted(list, addr, size)) = Blocks(list) \cup Run(addr, size)
<1> DEFINE pred == Predecessor(list, addr)
           start == Min({addr} \cup {e.at : e \in pred})
           end == Max({addr + size} \cup {End(e) : e \in pred})
           succs == {e \in list \ pred : start <= e.at /\ e.at <= end}
           last == Max({end} \cup {End(e) : e \in succs})
           new == [at |-> start, len |-> last - start]
           kept == list \ (pred \cup succs)
<1>1. Inserted(list, addr, size) = kept \cup {new}
  BY Zenon DEF Inserted
<1>2. \A e \in list : e.at \in Nat /\ e.len \in Nat \ {0} /\ End(e) \in Nat /\ e.at < End(e)
  BY DEF Extents, End
<1>3. \A e, f \in list : e # f => End(e) < f.at \/ End(f) < e.at
  BY Zenon DEF IsCoalesced
<1>4. \A e \in list : e.at <= addr /\ addr <= End(e) <=> e \in pred
  <2>1. ASSUME NEW e \in list, e.at <= addr, addr <= End(e), NEW f \in list, f.at <= addr
        PROVE  f.at <= e.at
    BY <2>1, <1>2, <1>3
  <2> QED
    BY <2>1, Zenon DEF Predecessor
<1>5. \A e, f \in pred : e = f
  BY <1>2, <1>3 DEF Predecessor
<1>6. pred \subseteq list
  BY Zenon DEF Predecessor
<1>7. /\ start \in Nat /\ end \in Nat
      /\ start <= addr /\ addr + size <= end
      /\ \A e \in pred : start = e.at /\ End(e) <= end
      /\ \A b \in Nat : start <= b /\ b < end =>
           (addr <= b /\ b < addr + size) \/ \E e \in pred : e.at <= b /\ b < End(e)
      /\ pred = {} => start = addr
  <2>1. CASE pred = {}
    <3>1. /\ {addr} \cup {e.at : e \in pred} = {addr, addr}
          /\ {addr + size} \cup {End(e) : e \in pred} = {addr + size, addr + size}
      BY <2>1, Zenon
    <3>2. Min({addr, addr}) = addr /\ Max({addr + size, addr + size}) = addr + size
      BY MinOfTwo, MaxOfTwo
    <3>3. start = addr /\ end = addr + size
      BY <3>1, <3>2, Zenon
    <3> HIDE DEF start, end
    <3> QED
      BY <2>1, <3>3
  <2>2. ASSUME NEW p \in pred
        PROVE  <1>7!:
    <3>1. pred = {p}
      BY <1>5, Zenon
    <3>2. p.at \in Nat /\ End(p) \in Nat /\ p.at <= addr /\ addr <= End(p)
      BY <1>2, <1>4, <1>6, Zenon
    <3>3. {addr} \cup {e.at : e \in pred} = {addr, p.at}
      BY <3>1, Zenon
    <3>4. {addr + size} \cup {End(e) : e \in pred} = {addr + size, End(p)}
      BY <3>1, Zenon
    <3>5. start = p.at
      <4>1. Min({addr, p.at}) = p.at
        BY <3>2, MinOfTwo
      <4> QED
        BY <4>1, <3>3, Zenon
    <3>6. end = IF addr + size <= End(p) THEN End(p) ELSE addr + size
      <4>1. Max({addr + size, End(p)}) = IF addr + size <= End(p) THEN End(p) ELSE addr + size
        BY <3>2, MaxOfTwo
      <4> QED
        BY <4>1, <3>4, Zenon
    <3> HIDE DEF start, end
    <3> QED
      BY <3>1, <3>2, <3>5, <3>6
  <2> QED
    BY <2>1, <2>2, Zenon
<1> HIDE DEF start, end, pred
<1>8. \A e, f \in succs : End(e) > end /\ End(f) > end => e = f
  BY <1>2, <1>3, <1>7
<1>9. /\ last \in Nat /\ end <= last
      /\ \A e \in succs : End(e) <= last
      /\ \/ last = end
         \/ \E e \in succs : last = End(e)
  <2> DEFINE ends == {end} \cup {End(e) : e \in succs}
  <2>1. ends \in SUBSET Int /\ end \in ends /\ \A e \in succs : End(e) \in ends
    BY <1>2, <1>7
  <2>2. \A x \in ends : x = end \/ \E e \in succs : x = End(e)
    BY Zenon
  <2>3. last = Max(ends)
    BY Zenon
  <2> HIDE DEF last, ends
  <2>4. CASE \A e \in succs : End(e) <= end
    <3>1. \A x \in ends : x <= end
      BY <2>2, <2>4, <1>7
    <3>2. last = end
      BY <2>1, <2>3, <3>1, MaxIs, Zenon
    <3> QED
      BY <2>4, <3>2, <1>7
  <2>5. ASSUME NEW s \in succs, End(s) > end
        PROVE  <1>9!:
    <3>1. \A e \in succs : End(e) <= End(s)
      BY <2>5, <1>2, <1>7, <1>8
    <3>2. \A x \in ends : x <= End(s)
      BY <2>2, <2>5, <3>1, <1>2, <1>7
    <3>3. last = End(s)
      BY <2>1, <2>3, <3>2, MaxIs, Zenon
    <3> QED
      BY <2>5, <3>1, <3>3, <1>2, <1>7
  <2> QED
    BY <2>4, <2>5, <1>2, <1>7
<1> HIDE DEF last
<1>10. new \in Extents /\ new.at = start /\ End(new) = last
  BY <1>7, <1>9 DEF Extents, End
<1>11. \A e \in kept : End(e) < start \/ last < e.at
  <2> SUFFICES ASSUME NEW e \in kept
               PROVE  End(e) < start \/ last < e.at
    BY Zenon
  <2>1. CASE e.at < start
    <3>1. CASE pred = {}
      BY <2>1, <3>1, <1>2, <1>4, <1>7
    <3>2. ASSUME NEW p \in pred
          PROVE  End(e) < start
      BY <2>1, <1>2, <1>3, <1>6, <1>7
    <3> QED
      BY <3>1, <3>2, Zenon
  <2>2. CASE e.at > end
    <3>1. ASSUME NEW s \in succs PROVE End(s) < e.at
      BY <2>2, <1>2, <1>3, <1>7
    <3> QED
      BY <2>2, <3>1, <1>9, Zenon
  <2> QED
    BY <2>1, <2>2, <1>2, <1>7
<1>12. Inserted(list, addr, size) \in SUBSET Extents
  BY <1>1, <1>10, Zenon
<1> HIDE DEF new
<1>13. IsCoalesced(Inserted(list, addr, size))
  BY <1>1, <1>3, <1>10, <1>11, Zenon DEF IsCoalesced
<1>14. ASSUME NEW b \in Nat
       PROVE  b \in Blocks(Inserted(list, addr, size)) <=> b \in Blocks(list) \/ b \in Run(addr, size)
  <2>1. b \in Run(addr, size) <=> addr <= b /\ b < addr + size
    BY DEF Run
  <2>2. b \in Blocks(list) <=> \E e \in list : e.at <= b /\ b < End(e)
    BY InBlocks
  <2>3. b \in Blocks(Inserted(list, addr, size))
          <=> (\E e \in kept : e.at <= b /\ b < End(e)) \/ (start <= b /\ b < last)
    BY <1>1, <1>10, InBlocks
  <2>4. ASSUME NEW e \in pred \cup succs, e.at <= b, b < End(e)
        PROVE  start <= b /\ b < last
    BY <2>4, <1>2, <1>6, <1>7, <1>9
  <2>5. ASSUME addr <= b, b < addr + size
        PROVE  start <= b /\ b < last
    BY <2>5, <1>7, <1>9
  <2>6. ASSUME start <= b, b < last
        PROVE  (addr <= b /\ b < addr + size) \/ \E e \in list : e.at <= b /\ b < End(e)
    <3>1. CASE b < end
      BY <2>6, <3>1, <1>6, <1>7, Zenon
    <3>2. CASE b >= end
      BY <2>6, <3>2, <1>2, <1>7, <1>9
    <3> QED
      BY <3>1, <3>2, <1>7
  <2> QED
    BY <2>1, <2>2, <2>3, <2>4, <2>5, <2>6, Zenon
<1>15. Blocks(Inserted(list, addr, size)) = Blocks(list) \cup Run(addr, size)
  <2>1. Run(addr, size) \subseteq Nat
    BY DEF Run
  <2> QED
    BY <2>1, <1>12, <1>14, BlocksAreNat, Zenon
<1> QED
  BY <1>12, <1>13, <1>15, Zenon

\* The recursion of InsertedAll defines a function: g is one.
Inserting(g, list, S) ==
  g = [T \in SUBSET S |-> IF T = {} THEN list
        ELSE Inserted(g[T \ {Some(T)}], Some(T).at, Some(T).len)]

LEMMA Exists ==
  ASSUME NEW S, IsFiniteSet(S), NEW list
  PROVE  \E g : Inserting(g, list, S)
<1> DEFINE Upto(k) == {T \in SUBSET S : Cardinality(T) <= k}
           P == {k \in Nat : \E g : g = [T \in Upto(k) |-> IF T = {} THEN list ELSE Inserted(g[T \ {Some(T)}], Some(T).at, Some(T).len)]}
<1>0. \A T \in SUBSET S : IsFiniteSet(T) /\ Cardinality(T) \in Nat /\ (T = {} <=> Cardinality(T) = 0)
  BY FS_Subset, FS_CardinalityType, FS_EmptySet, Zenon
<1>1. 0 \in P
  <2> DEFINE g == [T \in Upto(0) |-> list]
  <2>1. g = [T \in Upto(0) |-> IF T = {} THEN list ELSE Inserted(g[T \ {Some(T)}], Some(T).at, Some(T).len)]
    BY <1>0
  <2> QED
    BY <2>1, Zenon
<1>2. ASSUME NEW k \in P PROVE k + 1 \in P
  <2>1. PICK g : g = [T \in Upto(k) |-> IF T = {} THEN list ELSE Inserted(g[T \ {Some(T)}], Some(T).at, Some(T).len)]
    BY <1>2, Zenon
  <2> DEFINE h == [T \in Upto(k + 1) |-> IF T = {} THEN list ELSE Inserted(g[T \ {Some(T)}], Some(T).at, Some(T).len)]
  <2>2. ASSUME NEW T \in Upto(k + 1), T # {}
        PROVE  T \ {Some(T)} \in Upto(k) /\ T \ {Some(T)} \in Upto(k + 1)
    <3>1. Some(T) \in T
      BY <2>2, Zenon DEF Some
    <3>2. Cardinality(T \ {Some(T)}) = Cardinality(T) - 1
      BY <1>0, <3>1, FS_RemoveElement, Zenon
    <3> QED
      BY <3>2, <1>0
  <2>3. \A T \in Upto(k) : h[T] = g[T] /\ T \in Upto(k + 1)
    <3>1. k \in Nat
      BY Zenon
    <3>2. \A T \in Upto(k) : T \in Upto(k + 1)
      BY <1>0
    <3>3. \A T \in Upto(k) : g[T] = IF T = {} THEN list ELSE Inserted(g[T \ {Some(T)}], Some(T).at, Some(T).len)
      BY <2>1, Zenon
    <3> QED
      BY <3>2, <3>3, Zenon
  <2>4. h = [T \in Upto(k + 1) |-> IF T = {} THEN list ELSE Inserted(h[T \ {Some(T)}], Some(T).at, Some(T).len)]
    BY <2>2, <2>3, Zenon
  <2>5. k + 1 \in Nat
    OBVIOUS
  <2> HIDE DEF h
  <2> QED
    BY <2>4, <2>5, Zenon
<1>3. P = Nat
  <2> HIDE DEF P
  <2>1. P \subseteq Nat BY DEF P
  <2> QED
    BY <1>1, <1>2, <2>1, NatInd, Zenon
<1>4. Cardinality(S) \in P /\ Upto(Cardinality(S)) = SUBSET S
  <2>1. \A T \in SUBSET S : Cardinality(T) <= Cardinality(S)
    BY FS_Subset, Zenon
  <2> QED
  BY <1>0, <1>3, <2>1, Zenon
<1>5. PICK g : g = [T \in Upto(Cardinality(S)) |-> IF T = {} THEN list
                     ELSE Inserted(g[T \ {Some(T)}], Some(T).at, Some(T).len)]
  BY <1>4, Zenon
<1>6. Inserting(g, list, S)
  BY <1>4, <1>5, Zenon DEF Inserting
<1> QED
  BY <1>6, Zenon

\* InsertedAll is the value of that function.
LEMMA InsertedAllIs ==
  ASSUME NEW S, IsFiniteSet(S), NEW list
  PROVE  \E h : InsertedAll(list, S) = h[S] /\ Inserting(h, list, S)
<1> DEFINE h == CHOOSE h : Inserting(h, list, S)
<1>1. InsertedAll(list, S) = h[S]
  BY Zenon DEF InsertedAll, Inserting
<1>2. Inserting(h, list, S)
  BY Exists, Zenon
<1> HIDE DEF h
<1> QED
  BY <1>1, <1>2, Zenon

\* Freeing a finite set of extents, one after the other in any order, adds exactly
\* their blocks to the list and keeps it coalesced (publish_deferred's loop).
THEOREM InsertAllExact ==
  ASSUME NEW list \in SUBSET Extents, IsCoalesced(list), NEW S, IsFiniteSet(S),
         \A e \in S : e.at \in Nat /\ e.len \in Nat \ {0}
  PROVE  /\ InsertedAll(list, S) \in SUBSET Extents
         /\ IsCoalesced(InsertedAll(list, S))
         /\ Blocks(InsertedAll(list, S)) = Blocks(list) \cup Blocks(S)
<1>1. PICK h : InsertedAll(list, S) = h[S] /\ Inserting(h, list, S)
  BY InsertedAllIs, Zenon
<1>2. \A T \in SUBSET S : h[T] = IF T = {} THEN list
                        ELSE Inserted(h[T \ {Some(T)}], Some(T).at, Some(T).len)
  BY <1>1, Zenon DEF Inserting
<1> DEFINE Good(T) == /\ h[T] \in SUBSET Extents
                      /\ IsCoalesced(h[T])
                      /\ Blocks(h[T]) = Blocks(list) \cup Blocks(T)
           P == {k \in Nat : \A T \in SUBSET S : Cardinality(T) = k => Good(T)}
<1>3. \A T \in SUBSET S : IsFiniteSet(T) /\ Cardinality(T) \in Nat /\ (T = {} <=> Cardinality(T) = 0)
  BY FS_Subset, FS_CardinalityType, FS_EmptySet, Zenon
<1>4. 0 \in P
  <2>1. Good({})
    BY <1>2, Zenon DEF Blocks
  <2> HIDE DEF Good
  <2> QED
    BY <2>1, <1>3, Zenon
<1>5. ASSUME NEW k \in P PROVE k + 1 \in P
  <2> SUFFICES ASSUME NEW T \in SUBSET S, Cardinality(T) = k + 1
               PROVE  Good(T)
    <3>1. k + 1 \in Nat
      OBVIOUS
    <3> QED
      BY <3>1, Zenon
  <2> DEFINE x == Some(T)
             U == T \ {x}
  <2>1. T # {} /\ k \in Nat
    BY <1>3
  <2>2. x \in T
    BY <2>1, Zenon DEF Some
  <2> HIDE DEF x
  <2>3. U \in SUBSET S /\ Cardinality(U) = k
    <3>1. Cardinality(T \ {x}) = Cardinality(T) - 1
      BY <1>3, <2>2, FS_RemoveElement, Zenon
    <3> QED
      BY <3>1
  <2>4. Good(U)
    BY <2>3, <1>5, Zenon
  <2>5. h[T] = Inserted(h[U], x.at, x.len)
    BY <1>2, <2>1, Zenon DEF x
  <2>6. x.at \in Nat /\ x.len \in Nat \ {0}
    BY <2>2, Zenon
  <2>7. /\ h[T] \in SUBSET Extents
        /\ IsCoalesced(h[T])
        /\ Blocks(h[T]) = Blocks(h[U]) \cup BlocksOf(x)
    <3>1. /\ Inserted(h[U], x.at, x.len) \in SUBSET Extents
          /\ IsCoalesced(Inserted(h[U], x.at, x.len))
          /\ Blocks(Inserted(h[U], x.at, x.len)) = Blocks(h[U]) \cup Run(x.at, x.len)
      <4>1. PICK before : before = h[U]
        OBVIOUS
      <4>2. before \in SUBSET Extents /\ IsCoalesced(before)
        BY <2>4, <4>1, Zenon
      <4>3. /\ Inserted(before, x.at, x.len) \in SUBSET Extents
            /\ IsCoalesced(Inserted(before, x.at, x.len))
            /\ Blocks(Inserted(before, x.at, x.len)) = Blocks(before) \cup Run(x.at, x.len)
        BY <4>2, <2>6, InsertExact, SMT
      <4> QED
        BY <4>1, <4>3, Zenon
    <3> QED
      BY <2>5, <3>1, Zenon DEF BlocksOf
  <2>8. Blocks(T) = Blocks(U) \cup BlocksOf(x)
    BY <2>2 DEF Blocks
  <2> QED
    BY <2>4, <2>7, <2>8, Zenon
<1>6. P = Nat
  <2> HIDE DEF P
  <2>1. P \subseteq Nat BY DEF P
  <2> QED
    BY <1>4, <1>5, <2>1, NatInd, Zenon
<1>7. Good(S)
  <2>1. Cardinality(S) \in P
    BY <1>3, <1>6, Zenon
  <2> HIDE DEF Good
  <2> QED
    BY <2>1, Zenon
<1> QED
  BY <1>1, <1>7, Zenon

-----------------------------------------------------------------------------
(* The inductive invariant *)

Wide == [at : Nat, len : Sizes, region : Regions]
Named == held \cup deferred \cup committed.held
Slots == packed \cup committed.packed

Numbers ==
  /\ len \in Nat /\ hwm \in Nat /\ low \in Nat /\ wal \in Nat /\ Top \in Nat
  /\ hwm <= low /\ low <= Top /\ Top <= len /\ len <= MaxLen /\ 0 < len
  /\ floor \in {NoFloor} \cup Nat
  /\ floor <= hwm

Lists ==
  /\ free \in [Regions -> SUBSET Extents]
  /\ \A r \in Regions : IsCoalesced(free[r])

Shape ==
  /\ Named \cup stale \subseteq Wide
  /\ tags \subseteq [at : Nat, region : Regions]
  /\ IsFiniteSet(deferred)

\* Forward and tail extents, free blocks and tags lie on their side of the
\* watermarks.
Placed ==
  /\ \A e \in Named : ~InTail(e) => \A b \in BlocksOf(e) : b < hwm
  /\ \A e \in held \cup stale : InTail(e) => \A b \in BlocksOf(e) : low <= b /\ b < Top
  /\ \A e \in stale : InTail(e)
  /\ \A e \in deferred : e.region = "LiveMid"
  /\ \A e \in committed.held : ~InTail(e)
  /\ \A r \in Forward : \A b \in FreeIn(r) : b < hwm
  /\ \A b \in FreeIn("EvictionTail") : low <= b /\ b < Top
  /\ \A t \in tags : IF InTail(t) THEN low <= t.at /\ t.at < Top ELSE t.at < hwm

\* No two extents overlap, of the current state, the committed one and those that
\* wait, and none is free.
Apart ==
  /\ \A e, f \in Named \cup stale : e # f => BlocksOf(e) \cap BlocksOf(f) = {}
  /\ held \cap deferred = {}
  /\ \A e \in Named : BlocksOf(e) \cap AllFree = {}
  /\ \A r, s \in Regions : r # s => FreeIn(r) \cap FreeIn(s) = {}

\* Block a is used for packing.
Packing(a) ==
  a < hwm /\ a \notin AllFree /\ \A e \in Named : a \notin BlocksOf(e)

SlotsApart ==
  /\ Slots \subseteq [at : Nat, from : 0 .. PackUnits - 1, n : 1 .. PackUnits - 1]
  /\ \A p \in Slots : Packing(p.at)

PackApart ==
  pack # NoPack =>
    /\ pack \in [at : Nat, used : 1 .. PackUnits]
    /\ Packing(pack.at)
    /\ \A p \in Slots : p.at = pack.at => p.from + p.n <= pack.used

\* A freed extent is routed to the list of its own region.
Tagged == \A t \in tags, e \in held \cup deferred : t.at = e.at => t.region = e.region

\* A scope reclaims nothing that the committed header names.
Floored == floor # NoFloor => \A e \in committed.held : e.at < floor

IInv == Numbers /\ Lists /\ Shape /\ Placed /\ Apart /\ SlotsApart /\ PackApart /\ Tagged /\ Floored

-----------------------------------------------------------------------------
(* Lending *)

LEMMA SizesArePositive == Sizes \subseteq Nat \ {0}
  BY AllocatorAssumption

\* The block a watermark gives out: the file grows by enough to keep the two
\* watermarks from crossing (grow_for).
LEMMA LentIs ==
  ASSUME Numbers, NEW r \in Regions, NEW n \in Nat \ {0}
  PROVE  \/ /\ FirstFit(free[r], n) # {}
            /\ Lent(n, r) = [at |-> Some(FirstFit(free[r], n)).at, by |-> 0, hwm |-> hwm, low |-> low]
         \/ /\ FirstFit(free[r], n) = {}
            /\ \E by \in Nat :
                 /\ hwm + n <= low + by
                 /\ Lent(n, r) = IF r \in Forward
                                 THEN [at |-> hwm, by |-> by, hwm |-> hwm + n, low |-> low + by]
                                 ELSE [at |-> low + by - n, by |-> by, hwm |-> hwm, low |-> low + by - n]
<1> DEFINE fits == FirstFit(free[r], n)
           need == IF low - hwm < n THEN n - (low - hwm) ELSE 0
           by == IF fits = {} /\ hwm + n > low THEN Growth(n) ELSE 0
<1>1. CASE fits # {}
  BY <1>1, Zenon DEF Lent
<1>2. CASE fits = {}
  <2>1. GrowChunk \in Int /\ len - low \in Int /\ need \in Int
    BY AllocatorAssumption DEF Numbers
  <2>2. Growth(n) \in Int /\ Growth(n) >= GrowChunk /\ Growth(n) >= need
    <3> DEFINE tail == len - low
               m == Max({GrowChunk, tail, need})
    <3>1. Growth(n) = m
      BY Zenon DEF Growth
    <3>2. tail \in Int
      BY <2>1, Zenon
    <3> HIDE DEF need, tail
    <3>3. m \in Int /\ m >= GrowChunk /\ m >= need
      BY <2>1, <3>2, MaxOfThree, Zenon
    <3> QED
      BY <3>1, <3>3, Zenon
  <2>3. by \in Nat /\ hwm + n <= low + by
    <3>1. CASE hwm + n > low
      BY <1>2, <2>2 DEF Numbers
    <3>2. CASE ~(hwm + n > low)
      BY <3>2 DEF Numbers
    <3> QED
      BY <3>1, <3>2, Zenon
  <2>4. Lent(n, r) = IF r \in Forward
                     THEN [at |-> hwm, by |-> by, hwm |-> hwm + n, low |-> low + by]
                     ELSE [at |-> low + by - n, by |-> by, hwm |-> hwm, low |-> low + by - n]
    BY <1>2, Zenon DEF Lent
  <2> HIDE DEF by
  <2> QED
    BY <1>2, <2>3, <2>4, Zenon
<1> QED
  BY <1>1, <1>2, Zenon

\* What lending n blocks of region r does to the allocator, seen from outside: the
\* lent blocks were free or beyond a watermark, and are no longer free.
LoanOK(loan, n, r) ==
  /\ loan.at \in Nat /\ loan.by \in Nat
  /\ hwm' \in Nat /\ low' \in Nat /\ len' \in Nat /\ wal' \in Nat
  /\ hwm <= hwm' /\ hwm' <= low' /\ low' <= low + loan.by
  /\ Top' = Top + loan.by /\ Top' <= len' /\ len' <= MaxLen /\ 0 < len'
  /\ Lists'
  /\ r \in Forward => \A b \in Run(loan.at, n) : b < hwm'
  /\ r \notin Forward => \A b \in Run(loan.at, n) : low' <= b /\ b < Top'
  /\ \A s \in Forward : \A b \in FreeIn(s)' : b \in FreeIn(s)
  /\ \A b \in FreeIn("EvictionTail")' : b - loan.by \in FreeIn("EvictionTail")
  /\ \A s \in Regions : \A b \in FreeIn(s)' : b \notin Run(loan.at, n)
  /\ \A b \in Run(loan.at, n) : b < hwm => b \in AllFree
  /\ \A b \in Run(loan.at, n) : b - loan.by >= low => b - loan.by \in AllFree

LEMMA LoanFromList ==
  ASSUME IInv, NEW r \in Regions, NEW n \in Nat \ {0}, FirstFit(free[r], n) # {},
         TakeLoan(Lent(n, r), n, r)
  PROVE  LoanOK(Lent(n, r), n, r)
<1> DEFINE loan == Lent(n, r)
           e == Some(FirstFit(free[r], n))
<1>1. e \in free[r] /\ e.len >= n
  BY Zenon DEF Some, FirstFit
<1>2. loan = [at |-> e.at, by |-> 0, hwm |-> hwm, low |-> low]
  BY LentIs, Zenon DEF IInv
<1> HIDE DEF loan, e
<1>3. /\ len' = len /\ hwm' = hwm /\ low' = low /\ wal' = wal
      /\ free' = [free EXCEPT ![r] = Removed(free[r], e, n)]
  BY <1>2 DEF TakeLoan, loan, e, IInv, Numbers
<1>4. free[r] \in SUBSET Extents /\ IsCoalesced(free[r]) /\ e.at \in Nat /\ e.len \in Nat \ {0}
  BY <1>1 DEF IInv, Lists, Extents
<1>5. /\ Removed(free[r], e, n) \in SUBSET Extents
      /\ IsCoalesced(Removed(free[r], e, n))
      /\ Blocks(Removed(free[r], e, n)) = FreeIn(r) \ Run(e.at, n)
  BY <1>1, <1>4, RemoveExact, Zenon DEF FreeIn
<1>6. Lists'
  BY <1>3, <1>5, Zenon DEF IInv, Lists
<1>7. FreeIn(r)' = FreeIn(r) \ Run(e.at, n) /\ \A s \in Regions : s # r => FreeIn(s)' = FreeIn(s)
  BY <1>3, <1>5, Zenon DEF FreeIn, IInv, Lists
<1>8. Run(e.at, n) \subseteq FreeIn(r)
  BY <1>1, <1>4, EntryIsRun, Zenon DEF FreeIn
<1>9. Run(e.at, n) \subseteq AllFree
  BY <1>8, Zenon DEF AllFree
<1>10. \A s \in Regions : \A b \in FreeIn(s)' : b \in FreeIn(s) /\ b \notin Run(e.at, n)
  BY <1>7, <1>8, Zenon DEF IInv, Apart
<1>11. Top' = Top
  BY <1>3, Zenon DEF Top
<1>12. \A b \in Run(e.at, n) : b \in Int
  BY DEF Run
<1>13. /\ r \in Forward => \A b \in Run(e.at, n) : b < hwm
       /\ r \notin Forward => \A b \in Run(e.at, n) : low <= b /\ b < Top
  BY <1>8, Zenon DEF IInv, Placed, Regions
<1>14. \A b \in FreeIn("EvictionTail")' : b - 0 \in FreeIn("EvictionTail")
  <2>1. \A b \in FreeIn("EvictionTail") : b \in Int
    BY BlocksAreNat DEF FreeIn, IInv, Lists, Regions
  <2> QED
    BY <2>1, <1>10 DEF Regions
<1>15. \A s \in Forward : s \in Regions
  BY Zenon DEF Regions
<1>16. \A b \in Run(e.at, n) : b - 0 = b
  BY <1>12
<1>17. LoanOK(loan, n, r)
  <2>1. loan.at = e.at /\ loan.by = 0
    BY <1>2, Zenon
  <2>2. /\ hwm' \in Nat /\ low' \in Nat /\ len' \in Nat /\ wal' \in Nat
        /\ hwm <= hwm' /\ hwm' <= low' /\ low' <= low + 0
        /\ Top' = Top + 0 /\ Top' <= len' /\ len' <= MaxLen /\ 0 < len'
    BY <1>3, <1>11 DEF IInv, Numbers
  <2> QED
    BY <2>1, <2>2, <1>3, <1>4, <1>6, <1>9, <1>10, <1>11, <1>13, <1>14, <1>15, <1>16 DEF LoanOK
<1> QED
  BY <1>17, Zenon DEF loan

\* Moving every entry up by the same amount moves the free blocks.
LEMMA MovedList ==
  ASSUME NEW list \in SUBSET Extents, IsCoalesced(list), NEW by \in Nat
  PROVE  LET moved == {[e EXCEPT !.at = @ + by] : e \in list}
         IN /\ moved \in SUBSET Extents
            /\ IsCoalesced(moved)
            /\ \A b \in Blocks(moved) : b \in Int /\ b - by \in Blocks(list)
<1> DEFINE up(e) == [e EXCEPT !.at = @ + by]
           moved == {up(e) : e \in list}
<1>1. \A e \in list : /\ e.at \in Nat /\ e.len \in Nat \ {0}
                      /\ up(e) \in Extents /\ up(e).at = e.at + by /\ up(e).len = e.len
  BY DEF Extents
<1> HIDE DEF up
<1>2. \A e \in list : End(up(e)) = End(e) + by /\ End(e) \in Nat
  BY <1>1 DEF End
<1>3. moved \in SUBSET Extents
  BY <1>1, Zenon
<1>4. IsCoalesced(moved)
  <2> SUFFICES ASSUME NEW e \in list, NEW f \in list, up(e) # up(f)
               PROVE  End(up(e)) < up(f).at \/ End(up(f)) < up(e).at
    BY Zenon DEF IsCoalesced
  <2>1. End(e) < f.at \/ End(f) < e.at
    BY Zenon DEF IsCoalesced
  <2> QED
    BY <2>1, <1>1, <1>2
<1>5. ASSUME NEW b \in Blocks(moved) PROVE b \in Int /\ b - by \in Blocks(list)
  <2>1. b \in Int
    BY <1>3, BlocksAreNat
  <2>2. PICK f \in moved : f.at <= b /\ b < End(f)
    BY <2>1, <1>3, InBlocks, Zenon
  <2>3. PICK e \in list : f = up(e)
    BY <2>2, Zenon
  <2>4. e.at <= b - by /\ b - by < End(e) /\ b - by \in Int
    BY <2>1, <2>2, <2>3, <1>1, <1>2
  <2> QED
    BY <2>1, <2>4, InBlocks, Zenon
<1> QED
  BY <1>3, <1>4, <1>5, Zenon DEF up

LEMMA LoanFromFrontier ==
  ASSUME IInv, NEW r \in Regions, NEW n \in Nat \ {0}, FirstFit(free[r], n) = {},
         TakeLoan(Lent(n, r), n, r)
  PROVE  LoanOK(Lent(n, r), n, r)
<1> DEFINE loan == Lent(n, r)
           tail == "EvictionTail"
           moved == {[e EXCEPT !.at = @ + loan.by] : e \in free[tail]}
<1>1. PICK by \in Nat :
        /\ hwm + n <= low + by
        /\ loan = IF r \in Forward
                  THEN [at |-> hwm, by |-> by, hwm |-> hwm + n, low |-> low + by]
                  ELSE [at |-> low + by - n, by |-> by, hwm |-> hwm, low |-> low + by - n]
  BY LentIs, Zenon DEF IInv
<1> HIDE DEF loan
<1>2. /\ hwm \in Nat /\ low \in Nat /\ len \in Nat /\ wal \in Nat /\ Top \in Nat
      /\ hwm <= low /\ low <= Top /\ Top <= len /\ 0 < len
  BY Zenon DEF IInv, Numbers
<1>3. /\ loan.by = by /\ loan.at \in Nat
      /\ r \in Forward => loan.at = hwm /\ loan.hwm = hwm + n /\ loan.low = low + by
      /\ r \notin Forward => loan.at = low + by - n /\ loan.hwm = hwm /\ loan.low = low + by - n
  BY <1>1, <1>2
<1>4. /\ len' = len + by /\ len + by <= MaxLen
      /\ hwm' = loan.hwm /\ low' = loan.low
      /\ wal' = IF wal = 0 THEN 0 ELSE wal + by
      /\ free' = [free EXCEPT ![tail] = moved]
  BY <1>3, Zenon DEF TakeLoan, loan
<1>5. /\ hwm' \in Nat /\ low' \in Nat /\ len' \in Nat /\ wal' \in Nat
      /\ hwm <= hwm' /\ hwm' <= low' /\ low' <= low + by
      /\ Top' = Top + by /\ Top' <= len' /\ len' <= MaxLen /\ 0 < len'
  BY <1>1, <1>2, <1>4 DEF Top
<1>6. tail \in Regions /\ \A s \in Regions : s \in Forward \/ s = tail
  BY Zenon DEF Regions
<1>7. free[tail] \in SUBSET Extents /\ IsCoalesced(free[tail])
  BY <1>6, Zenon DEF IInv, Lists
<1>8. /\ moved \in SUBSET Extents
      /\ IsCoalesced(moved)
      /\ \A b \in Blocks(moved) : b \in Int /\ b - by \in Blocks(free[tail])
  BY <1>3, <1>7, MovedList, Zenon
<1> HIDE DEF moved
<1>9. Lists'
  BY <1>4, <1>6, <1>8, Zenon DEF IInv, Lists
<1>10. /\ \A b \in FreeIn(tail)' : b \in Int /\ b - by \in FreeIn(tail)
       /\ \A s \in Forward : FreeIn(s)' = FreeIn(s)
  BY <1>4, <1>6, <1>8, Zenon DEF FreeIn, IInv, Lists, Forward, Regions
<1>11. \A b \in Run(loan.at, n) : b \in Int /\ loan.at <= b /\ b < loan.at + n
  BY <1>3 DEF Run
<1>12. \A b \in FreeIn(tail)' : b \in Int /\ low + by <= b
  BY <1>10, <1>2 DEF IInv, Placed
<1>13. \A s \in Forward : \A b \in FreeIn(s) : b \in Int /\ b < hwm
  BY BlocksAreNat DEF IInv, Placed, Lists, FreeIn, Regions
<1>14. ASSUME NEW b \in Run(loan.at, n)
       PROVE  b \in Int /\ hwm <= b /\ b < low + by
                /\ (r \in Forward => b < hwm') /\ (r \notin Forward => low' <= b /\ b < Top')
  BY <1>2, <1>3, <1>4, <1>5, <1>11
<1>15. \A s \in Regions : \A b \in FreeIn(s)' : b \notin Run(loan.at, n)
  BY <1>2, <1>6, <1>10, <1>12, <1>13, <1>14
<1>16. LoanOK(loan, n, r)
  BY <1>2, <1>3, <1>5, <1>9, <1>10, <1>14, <1>15 DEF LoanOK
<1> QED
  BY <1>16, Zenon DEF loan

LEMMA LoanSound ==
  ASSUME IInv, NEW r \in Regions, NEW n \in Nat \ {0}, TakeLoan(Lent(n, r), n, r)
  PROVE  LoanOK(Lent(n, r), n, r)
  BY LoanFromList, LoanFromFrontier, Zenon

-----------------------------------------------------------------------------
(* What the engine holds, when the tail moves *)

Up(e, by) == IF InTail(e) THEN [e EXCEPT !.at = @ + by] ELSE e

LEMMA ShiftedIsUp == ASSUME NEW S, NEW by PROVE Shifted(S, by) = {Up(e, by) : e \in S}
  BY Zenon DEF Shifted, Up

LEMMA WideBlocks ==
  ASSUME NEW e \in Wide
  PROVE  /\ e.at \in Nat /\ e.len \in Nat \ {0} /\ e.region \in Regions
         /\ \A b : b \in BlocksOf(e) <=> b \in Int /\ e.at <= b /\ b < e.at + e.len
<1>1. e.at \in Nat /\ e.len \in Nat \ {0} /\ e.region \in Regions
  BY SizesArePositive, Zenon DEF Wide
<1> QED
  BY <1>1 DEF BlocksOf, Run

LEMMA UpIs ==
  ASSUME NEW e \in Wide, NEW by \in Nat
  PROVE  /\ Up(e, by) \in Wide
         /\ Up(e, by).region = e.region
         /\ Up(e, by).at = IF InTail(e) THEN e.at + by ELSE e.at
         /\ ~InTail(e) => Up(e, by) = e
         /\ \A b \in BlocksOf(Up(e, by)) :
              b \in Int /\ (IF InTail(e) THEN b - by ELSE b) \in BlocksOf(e)
<1>1. /\ Up(e, by) \in Wide /\ Up(e, by).region = e.region /\ Up(e, by).len = e.len
      /\ Up(e, by).at = IF InTail(e) THEN e.at + by ELSE e.at
  BY DEF Up, Wide
<1>2. ~InTail(e) => Up(e, by) = e
  BY Zenon DEF Up
<1>3. ASSUME NEW b \in BlocksOf(Up(e, by))
      PROVE  b \in Int /\ (IF InTail(e) THEN b - by ELSE b) \in BlocksOf(e)
  <2>1. b \in Int /\ Up(e, by).at <= b /\ b < Up(e, by).at + Up(e, by).len
    BY <1>1, WideBlocks, Zenon
  <2> QED
    BY <1>1, WideBlocks
<1> QED
  BY <1>1, <1>2, <1>3, Zenon

\* The blocks of a moved extent lie on its side of the new watermarks.
LEMMA MovedPlaced ==
  ASSUME IInv, NEW r, NEW n, NEW loan, LoanOK(loan, n, r), NEW e \in Named \cup stale
  PROVE  /\ e \in Wide /\ Up(e, loan.by) \in Wide
         /\ Up(e, loan.by).region = e.region
         /\ Up(e, loan.by).at = IF InTail(e) THEN e.at + loan.by ELSE e.at
         /\ ~InTail(e) => Up(e, loan.by) = e
         /\ \A b \in BlocksOf(Up(e, loan.by)) :
              /\ b \in Int
              /\ InTail(e) => /\ b - loan.by \in BlocksOf(e) /\ b - loan.by >= low
                              /\ low' <= b /\ b < Top' /\ hwm' <= b
              /\ ~InTail(e) => b \in BlocksOf(e) /\ b < hwm /\ b < hwm'
<1> DEFINE u == Up(e, loan.by)
<1>1. e \in Wide
  BY Zenon DEF IInv, Shape
<1>2. /\ loan.by \in Nat /\ low \in Nat /\ Top \in Nat /\ hwm \in Nat /\ hwm' \in Nat /\ low' \in Nat
      /\ hwm <= hwm' /\ hwm' <= low' /\ low' <= low + loan.by /\ Top' = Top + loan.by
  BY Zenon DEF LoanOK, IInv, Numbers
<1>3. /\ u \in Wide /\ u.region = e.region
      /\ u.at = IF InTail(e) THEN e.at + loan.by ELSE e.at
      /\ ~InTail(e) => u = e
      /\ \A b \in BlocksOf(u) :
           b \in Int /\ (IF InTail(e) THEN b - loan.by ELSE b) \in BlocksOf(e)
  BY <1>1, <1>2, UpIs, Zenon
<1> HIDE DEF u
<1>4. /\ InTail(e) => \A b \in BlocksOf(e) : low <= b /\ b < Top
      /\ ~InTail(e) => \A b \in BlocksOf(e) : b < hwm
  BY Zenon DEF IInv, Placed, Named, InTail
<1>5. ASSUME NEW b \in BlocksOf(u)
      PROVE  /\ b \in Int
             /\ InTail(e) => /\ b - loan.by \in BlocksOf(e) /\ b - loan.by >= low
                             /\ low' <= b /\ b < Top' /\ hwm' <= b
             /\ ~InTail(e) => b \in BlocksOf(e) /\ b < hwm /\ b < hwm'
  BY <1>2, <1>3, <1>4
<1> QED
  BY <1>1, <1>3, <1>5, Zenon DEF u

\* A moved extent is not lent again and not free.
LEMMA MovedNotLent ==
  ASSUME IInv, NEW r, NEW n, NEW loan, LoanOK(loan, n, r), NEW e \in Named
  PROVE  /\ BlocksOf(Up(e, loan.by)) \cap Run(loan.at, n) = {}
         /\ BlocksOf(Up(e, loan.by)) \cap AllFree' = {}
<1> DEFINE u == Up(e, loan.by)
<1>1. BlocksOf(e) \cap AllFree = {}
  BY Zenon DEF IInv, Apart
<1>2. \A b \in BlocksOf(u) :
              /\ b \in Int
              /\ InTail(e) => /\ b - loan.by \in BlocksOf(e) /\ b - loan.by >= low
                              /\ low' <= b /\ b < Top' /\ hwm' <= b
              /\ ~InTail(e) => b \in BlocksOf(e) /\ b < hwm /\ b < hwm'
  BY MovedPlaced, Zenon
<1> HIDE DEF u
<1>3. ASSUME NEW b \in BlocksOf(u), b \in Run(loan.at, n) PROVE FALSE
  BY <1>1, <1>2, <1>3, Zenon DEF LoanOK
<1>4. \A s \in Regions : FreeIn(s) \subseteq AllFree
  BY Zenon DEF AllFree
<1>5. ASSUME NEW b \in BlocksOf(u), NEW s \in Regions, b \in FreeIn(s)' PROVE FALSE
  <2>1. CASE s \in Forward
    <3>1. b \in FreeIn(s)
      BY <2>1, <1>5, Zenon DEF LoanOK
    <3>2. b < hwm
      BY <2>1, <3>1, Zenon DEF IInv, Placed
    <3>3. ~InTail(e)
      BY <1>2, <3>2 DEF LoanOK, IInv, Numbers
    <3> QED
      BY <3>1, <3>3, <1>1, <1>2, <1>4, Zenon
  <2>2. CASE s = "EvictionTail"
    <3>1. b - loan.by \in FreeIn(s)
      BY <2>2, <1>5, Zenon DEF LoanOK
    <3>2. low <= b - loan.by
      BY <2>2, <3>1, Zenon DEF IInv, Placed
    <3>3. InTail(e)
      BY <1>2, <3>2 DEF LoanOK, IInv, Numbers
    <3> QED
      BY <3>1, <3>3, <1>1, <1>2, <1>4, Zenon
  <2> QED
    BY <2>1, <2>2, Zenon DEF Regions
<1>6. \A b \in AllFree' : \E s \in Regions : b \in FreeIn(s)'
  BY Zenon DEF AllFree
<1> QED
  BY <1>3, <1>5, <1>6, Zenon DEF u

\* Extents that were apart stay apart.
LEMMA MovedApart ==
  ASSUME IInv, NEW r, NEW n, NEW loan, LoanOK(loan, n, r),
         NEW e \in Named \cup stale, NEW f \in Named \cup stale, e # f
  PROVE  BlocksOf(Up(e, loan.by)) \cap BlocksOf(Up(f, loan.by)) = {}
<1>1. BlocksOf(e) \cap BlocksOf(f) = {}
  BY Zenon DEF IInv, Apart
<1>2. hwm' \in Nat /\ low' \in Nat
  BY Zenon DEF LoanOK
<1> SUFFICES ASSUME NEW b, b \in BlocksOf(Up(e, loan.by)), b \in BlocksOf(Up(f, loan.by))
             PROVE  FALSE
  BY Zenon
<1>3. /\ b \in Int
      /\ InTail(e) => b - loan.by \in BlocksOf(e) /\ hwm' <= b
      /\ ~InTail(e) => b \in BlocksOf(e) /\ b < hwm'
  BY MovedPlaced, Zenon
<1>4. /\ InTail(f) => b - loan.by \in BlocksOf(f) /\ hwm' <= b
      /\ ~InTail(f) => b \in BlocksOf(f) /\ b < hwm'
  BY MovedPlaced, Zenon
<1> QED
  BY <1>1, <1>2, <1>3, <1>4

\* A packed block is not lent again, not free and in no moved extent.
LEMMA MovedSlot ==
  ASSUME IInv, NEW r, NEW n, NEW loan, LoanOK(loan, n, r), NEW a \in Nat, Packing(a)
  PROVE  /\ a < hwm' /\ a \notin Run(loan.at, n) /\ a \notin AllFree'
         /\ \A e \in Named : a \notin BlocksOf(Up(e, loan.by))
<1>1. /\ loan.by \in Nat /\ low \in Nat /\ hwm \in Nat /\ hwm' \in Nat
      /\ hwm <= hwm' /\ hwm <= low
  BY Zenon DEF LoanOK, IInv, Numbers
<1>2. a < hwm' /\ a \notin Run(loan.at, n)
  BY <1>1 DEF LoanOK, Packing
<1>3. ASSUME NEW s \in Regions, a \in FreeIn(s)' PROVE FALSE
  <2>1. CASE s \in Forward
    <3>1. a \in FreeIn(s)
      BY <2>1, <1>3, Zenon DEF LoanOK
    <3> QED
      BY <3>1, <1>3, Zenon DEF AllFree, Packing, Regions
  <2>2. CASE s = "EvictionTail"
    <3>1. a - loan.by \in FreeIn(s)
      BY <2>2, <1>3, Zenon DEF LoanOK
    <3>2. low <= a - loan.by
      BY <2>2, <3>1, Zenon DEF IInv, Placed
    <3> QED
      BY <3>2, <1>1 DEF Packing
  <2> QED
    BY <2>1, <2>2, Zenon DEF Regions
<1>4. a \notin AllFree'
  BY <1>3, Zenon DEF AllFree
<1>5. ASSUME NEW e \in Named, a \in BlocksOf(Up(e, loan.by)) PROVE FALSE
  <2>1. /\ InTail(e) => hwm' <= a
        /\ ~InTail(e) => a \in BlocksOf(e)
    BY <1>5, MovedPlaced, Zenon
  <2> QED
    BY <2>1, <1>1 DEF Packing
<1> QED
  BY <1>2, <1>4, <1>5, Zenon

\* One step of the client that takes a loan: either the lent extent becomes one that
\* the engine names (alloc_aligned), or none does (alloc_packed).
TakesLoan(n, r, new) ==
  LET loan == Lent(n, r)
  IN /\ TakeLoan(loan, n, r)
     /\ held' = Shifted(held, loan.by) \cup new
     /\ new \subseteq {[at |-> loan.at, len |-> n, region |-> r]}
     /\ UNCHANGED <<deferred, committed, floor>>

LEMMA LoanKeepsExtents ==
  ASSUME IInv, NEW r \in Regions, NEW n \in Nat \ {0}, NEW new, TakesLoan(n, r, new),
         new # {} => n \in Sizes
  PROVE  Numbers' /\ Lists' /\ Shape' /\ Placed' /\ Apart' /\ Tagged' /\ Floored'
<1> DEFINE loan == Lent(n, r)
           by == loan.by
           taken == Run(loan.at, n)
           fresh == [at |-> loan.at, len |-> n, region |-> r]
<1>1. LoanOK(loan, n, r)
  BY LoanSound, Zenon DEF TakesLoan
<1>2. /\ held' = {Up(e, by) : e \in held} \cup new
      /\ stale' \subseteq {Up(e, by) : e \in stale}
      /\ \A e \in stale' : BlocksOf(e) \cap taken = {}
      /\ tags' = {t \in {Up(t, by) : t \in tags} : t.at # loan.at} \cup {[at |-> loan.at, region |-> r]}
      /\ deferred' = deferred /\ committed' = committed /\ floor' = floor
      /\ new \subseteq {fresh}
  BY ShiftedIsUp, Zenon DEF TakesLoan, TakeLoan
<1> HIDE DEF loan
<1>3. /\ loan.at \in Nat /\ by \in Nat /\ hwm' \in Nat /\ low' \in Nat /\ len' \in Nat /\ wal' \in Nat
      /\ hwm <= hwm' /\ hwm' <= low' /\ low' <= low + by
      /\ Top' = Top + by /\ Top' <= len' /\ len' <= MaxLen /\ 0 < len'
      /\ hwm \in Nat /\ low \in Nat /\ Top \in Nat /\ hwm <= low /\ low <= Top
  BY <1>1, Zenon DEF LoanOK, IInv, Numbers
<1>4. new \subseteq Wide /\ BlocksOf(fresh) = taken
  BY <1>2, <1>3 DEF Wide, BlocksOf
<1>5. \A e \in deferred \cup committed.held : Up(e, by) = e
  BY Zenon DEF IInv, Placed, Up, InTail
<1>6. Named' \subseteq {Up(e, by) : e \in Named} \cup new
  BY <1>2, <1>5, Zenon DEF Named
<1>7. Numbers'
  BY <1>2, <1>3 DEF Numbers, IInv, NoFloor
<1>8. Lists'
  BY <1>1, Zenon DEF LoanOK
<1>9. Shape'
  <2>1. Named' \cup stale' \subseteq Wide
    BY <1>1, <1>2, <1>4, <1>6, MovedPlaced
  <2>2. \A t \in tags : Up(t, by) \in [at : Nat, region : Regions]
    BY <1>3 DEF Up, InTail, IInv, Shape
  <2>3. tags' \subseteq [at : Nat, region : Regions]
    BY <2>2, <1>2, <1>3
  <2> QED
    BY <2>1, <2>3, <1>2, Zenon DEF Shape, IInv
<1>10. Placed'
  <2>1. ASSUME NEW u \in Named', ~InTail(u), NEW b \in BlocksOf(u) PROVE b < hwm'
    <3>1. CASE u \in new
      BY <3>1, <2>1, <1>1, <1>2, <1>4 DEF LoanOK, InTail, Regions
    <3>2. ASSUME NEW e \in Named, u = Up(e, by) PROVE b < hwm'
      <4>1. u.region = e.region
        BY <1>1, <3>2, MovedPlaced
      <4>2. ~InTail(e)
        BY <4>1, <2>1, Zenon DEF InTail
      <4> QED
        BY <4>2, <2>1, <3>2, <1>1, MovedPlaced, Zenon
    <3> QED
      BY <3>1, <3>2, <1>6, Zenon
  <2>2. ASSUME NEW u \in held' \cup stale', InTail(u), NEW b \in BlocksOf(u)
        PROVE  low' <= b /\ b < Top'
    <3>1. CASE u \in new
      BY <3>1, <2>2, <1>1, <1>2, <1>4 DEF LoanOK, InTail, Forward
    <3>2. ASSUME NEW e \in held \cup stale, u = Up(e, by) PROVE low' <= b /\ b < Top'
      <4>0. e \in Named \cup stale
        BY Zenon DEF Named
      <4>1. u.region = e.region
        BY <1>1, <3>2, <4>0, MovedPlaced
      <4>2. InTail(e)
        BY <4>1, <2>2, Zenon DEF InTail
      <4> QED
        BY <4>0, <4>2, <2>2, <3>2, <1>1, MovedPlaced, Zenon
    <3> QED
      BY <3>1, <3>2, <1>2, Zenon
  <2>3. \A e \in stale' : InTail(e)
    <3>1. \A e \in stale : InTail(e) /\ Up(e, by).region = e.region
      BY <1>1, MovedPlaced DEF IInv, Placed
    <3> QED
      BY <3>1, <1>2, Zenon DEF InTail
  <2>4. (\A e \in deferred' : e.region = "LiveMid") /\ (\A e \in committed'.held : ~InTail(e))
    BY <1>2, Zenon DEF IInv, Placed
  <2>5. \A q \in Forward : \A b \in FreeIn(q)' : b < hwm'
    <3>1. \A q \in Forward : \A b \in FreeIn(q)' : b \in FreeIn(q) /\ b < hwm /\ b \in Nat
      BY <1>1, BlocksAreNat, Zenon DEF LoanOK, IInv, Placed, FreeIn, Lists, Regions
    <3> QED
      BY <3>1, <1>3
  <2>6. \A b \in FreeIn("EvictionTail")' : low' <= b /\ b < Top'
    <3>1. \A b \in FreeIn("EvictionTail")' : b \in Nat
      BY <1>8, BlocksAreNat, Zenon DEF FreeIn, Lists, Regions
    <3>2. \A b \in FreeIn("EvictionTail")' : low <= b - by /\ b - by < Top
      BY <1>1, Zenon DEF LoanOK, IInv, Placed
    <3> QED
      BY <3>1, <3>2, <1>3
  <2>7. ASSUME NEW t \in tags'
        PROVE  IF InTail(t) THEN low' <= t.at /\ t.at < Top' ELSE t.at < hwm'
    <3>1. CASE t = [at |-> loan.at, region |-> r]
      <4>1. loan.at \in taken
        BY <1>3 DEF Run
      <4> QED
        BY <3>1, <4>1, <1>1, Zenon DEF LoanOK, InTail, Regions, Forward
    <3>2. ASSUME NEW x \in tags, t = Up(x, by)
          PROVE  IF InTail(t) THEN low' <= t.at /\ t.at < Top' ELSE t.at < hwm'
      <4>1. /\ x \in [at : Nat, region : Regions]
            /\ IF InTail(x) THEN low <= x.at /\ x.at < Top ELSE x.at < hwm
        BY Zenon DEF IInv, Shape, Placed
      <4>2. t.region = x.region /\ t.at = IF InTail(x) THEN x.at + by ELSE x.at
        BY <3>2, <4>1, <1>3, Zenon DEF Up
      <4> QED
        BY <4>1, <4>2, <1>3 DEF InTail
    <3> QED
      BY <3>1, <3>2, <1>2, Zenon
  <2> QED
    BY <2>1, <2>2, <2>3, <2>4, <2>5, <2>6, <2>7, Zenon DEF Placed
<1>11. Apart'
  <2>1. ASSUME NEW u \in Named' \cup stale', NEW v \in Named' \cup stale', u # v
        PROVE  BlocksOf(u) \cap BlocksOf(v) = {}
    <3>1. ASSUME NEW e \in Named \cup stale, NEW x \in Named' \cup stale', x = Up(e, by),
                 x \in Named' => e \in Named
          PROVE  BlocksOf(x) \cap BlocksOf(fresh) = {}
      BY <3>1, <1>1, <1>2, <1>4, MovedNotLent, Zenon
    <3>2. \A x \in Named' \cup stale' :
            x = fresh \/ \E e \in Named \cup stale : x = Up(e, by) /\ (x \in Named' => e \in Named)
      <4>1. ASSUME NEW x \in Named', x # fresh PROVE \E e \in Named : x = Up(e, by)
        BY <4>1, <1>2, <1>6, Zenon
      <4>2. ASSUME NEW x \in stale' PROVE \E e \in stale : x = Up(e, by)
        BY <1>2, Zenon
      <4> QED
        BY <4>1, <4>2, Zenon
    <3>3. ASSUME NEW e \in Named \cup stale, u = Up(e, by), NEW f \in Named \cup stale, v = Up(f, by)
          PROVE  BlocksOf(u) \cap BlocksOf(v) = {}
      <4>1. e # f
        BY <2>1, <3>3, Zenon
      <4> QED
        BY <4>1, <3>3, <1>1, MovedApart, Zenon
    <3> QED
      BY <2>1, <3>1, <3>2, <3>3, Zenon
  <2>2. held' \cap deferred' = {}
    <3> SUFFICES ASSUME NEW u \in held', u \in deferred PROVE FALSE
      BY <1>2, Zenon
    <3>1. Up(u, by) = u /\ u \in Named
      BY <1>5, Zenon DEF Named
    <3>2. u \in Wide /\ u.at \in BlocksOf(u)
      BY <3>1, WideBlocks DEF IInv, Shape
    <3>3. CASE u \in new
      BY <3>1, <3>2, <3>3, <1>1, <1>2, <1>4, MovedNotLent
    <3>4. ASSUME NEW e \in held, u = Up(e, by) PROVE FALSE
      <4>1. e # u
        BY Zenon DEF IInv, Apart
      <4>2. BlocksOf(Up(e, by)) \cap BlocksOf(Up(u, by)) = {}
        BY <4>1, <3>1, <1>1, MovedApart, Zenon DEF Named
      <4> QED
        BY <4>2, <3>1, <3>2, <3>4, Zenon
    <3> QED
      BY <3>3, <3>4, <1>2, Zenon
  <2>3. ASSUME NEW u \in Named' PROVE BlocksOf(u) \cap AllFree' = {}
    <3>1. taken \cap AllFree' = {}
      BY <1>1, Zenon DEF LoanOK, AllFree
    <3> QED
      BY <3>1, <1>1, <1>2, <1>4, <1>6, MovedNotLent, Zenon
  <2>4. ASSUME NEW q \in Regions, NEW s \in Regions, q # s PROVE FreeIn(q)' \cap FreeIn(s)' = {}
    <3>1. ASSUME q \in Forward, s \in Forward PROVE FreeIn(q)' \cap FreeIn(s)' = {}
      BY <2>4, <3>1, <1>1, Zenon DEF LoanOK, IInv, Apart
    <3>2. ASSUME NEW x \in Forward, NEW b \in FreeIn(x)', b \in FreeIn("EvictionTail")' PROVE FALSE
      <4>1. b \in Nat
        BY <1>8, BlocksAreNat, Zenon DEF FreeIn, Lists, Regions
      <4> QED
        BY <3>2, <4>1, <1>3, <1>10 DEF Placed
    <3> QED
      BY <2>4, <3>1, <3>2, Zenon DEF Regions
  <2> QED
    BY <2>1, <2>2, <2>3, <2>4, Zenon DEF Apart
<1>12. Tagged'
  <2> SUFFICES ASSUME NEW t \in tags', NEW u \in held' \cup deferred', t.at = u.at
               PROVE  t.region = u.region
    BY Zenon DEF Tagged
  <2>1. t = [at |-> loan.at, region |-> r] \/ (t.at # loan.at /\ \E x \in tags : t = Up(x, by))
    BY <1>2, Zenon
  <2>2. u \in new \/ \E e \in held \cup deferred : u = Up(e, by)
    <3>1. CASE u \in held'
      BY <3>1, <1>2, Zenon
    <3>2. CASE u \in deferred'
      <4>1. u \in deferred /\ u = Up(u, by)
        BY <3>2, <1>2, <1>5, Zenon
      <4> QED
        BY <4>1, Zenon
    <3> QED
      BY <3>1, <3>2, Zenon
  <2>3. CASE u \in new
    <3>1. u = fresh
      BY <2>3, <1>2, Zenon
    <3>2. fresh.at = loan.at /\ fresh.region = r
      OBVIOUS
    <3>3. t = [at |-> loan.at, region |-> r]
      BY <2>1, <3>1, <3>2, Zenon
    <3> QED
      BY <3>1, <3>2, <3>3, Zenon
  <2>4. ASSUME NEW e \in held \cup deferred, u = Up(e, by) PROVE t.region = u.region
    <3>0. e \in Named
      BY Zenon DEF Named
    <3>1. /\ e \in Wide /\ u \in Wide /\ u.region = e.region
          /\ u.at = IF InTail(e) THEN e.at + by ELSE e.at
      BY <3>0, <2>4, <1>1, MovedPlaced
    <3>2. u.at \in BlocksOf(u) /\ e.at \in BlocksOf(e)
      BY <3>1, WideBlocks
    <3>3. loan.at \in taken
      BY <1>3 DEF Run
    <3>4. u.at # loan.at
      BY <3>0, <3>2, <3>3, <2>4, <1>1, MovedNotLent, Zenon
    <3>5. PICK x \in tags : t = Up(x, by)
      BY <2>1, <3>4
    <3>6. /\ x \in [at : Nat, region : Regions]
          /\ IF InTail(x) THEN low <= x.at /\ x.at < Top ELSE x.at < hwm
      BY Zenon DEF IInv, Shape, Placed
    <3>7. t.region = x.region /\ t.at = IF InTail(x) THEN x.at + by ELSE x.at
      BY <3>5, <3>6, <1>3, Zenon DEF Up
    <3>8. e.at \in Nat /\ IF InTail(e) THEN low <= e.at ELSE e.at < hwm
      <4>1. InTail(e) => e \in held
        BY Zenon DEF IInv, Placed, InTail
      <4> QED
        BY <4>1, <3>0, <3>1, <3>2, WideBlocks, Zenon DEF IInv, Placed
    <3>9. x.at = e.at
      BY <3>1, <3>6, <3>7, <3>8, <1>3
    <3> QED
      BY <3>1, <3>7, <3>9, Zenon DEF IInv, Tagged
  <2> QED
    BY <2>2, <2>3, <2>4, Zenon
<1>13. Floored'
  BY <1>2, Zenon DEF IInv, Floored
<1> QED
  BY <1>7, <1>8, <1>9, <1>10, <1>11, <1>12, <1>13, Zenon

\* An allocated extent: the engine names it, and nothing else changes hands.
LEMMA AllocAlignedInv ==
  ASSUME IInv, NEW r \in Regions, NEW n \in Sizes, AllocAligned(r, n)
  PROVE  IInv'
<1> DEFINE loan == Lent(n, r)
           new == {[at |-> loan.at, len |-> n, region |-> r]}
<1>1. TakesLoan(n, r, new)
  BY Zenon DEF AllocAligned, TakesLoan
<1>2. Numbers' /\ Lists' /\ Shape' /\ Placed' /\ Apart' /\ Tagged' /\ Floored'
  BY <1>1, SizesArePositive, LoanKeepsExtents, Zenon
<1>3. LoanOK(loan, n, r)
  BY SizesArePositive, LoanSound, Zenon DEF AllocAligned
<1>4. pack' = pack /\ Slots' = Slots
  BY Zenon DEF AllocAligned, Slots
<1>5. /\ Named' \subseteq {Up(e, loan.by) : e \in Named} \cup new
      /\ \A e \in new : BlocksOf(e) = Run(loan.at, n)
  <2>1. \A e \in deferred \cup committed.held : Up(e, loan.by) = e
    BY Zenon DEF IInv, Placed, Up, InTail
  <2> QED
    BY <1>1, <2>1, ShiftedIsUp DEF TakesLoan, Named, BlocksOf
<1> HIDE DEF loan
<1>6. ASSUME NEW a \in Nat, Packing(a) PROVE Packing(a)'
  BY <1>3, <1>5, <1>6, MovedSlot DEF Packing
<1>7. SlotsApart'
  BY <1>4, <1>6, Zenon DEF IInv, SlotsApart
<1>8. PackApart'
  BY <1>4, <1>6, Zenon DEF IInv, PackApart
<1> QED
  BY <1>2, <1>7, <1>8, Zenon DEF IInv

\* A packed payload: into the open block, or into a block lent for it.
LEMMA AllocPackedInv ==
  ASSUME IInv, NEW u \in 1 .. PackUnits - 1, AllocPacked(u)
  PROVE  IInv'
<1> DEFINE SlotSet == [at : Nat, from : 0 .. PackUnits - 1, n : 1 .. PackUnits - 1]
<1>0. PackUnits \in Nat /\ u \in Nat /\ u > 0
  BY AllocatorAssumption
<1>1. CASE pack # NoPack /\ pack.used + u <= PackUnits
           /\ packed' = packed \cup {[at |-> pack.at, from |-> pack.used, n |-> u]}
           /\ pack' = [pack EXCEPT !.used = @ + u]
           /\ UNCHANGED <<space, held, stale, floor, deferred, committed>>
  <2>1. /\ Numbers' /\ Lists' /\ Shape' /\ Placed' /\ Apart' /\ Tagged' /\ Floored'
        /\ Named' = Named /\ hwm' = hwm /\ AllFree' = AllFree
    BY <1>1 DEF IInv, Numbers, Lists, Shape, Placed, Apart, Tagged, Floored, space, Named, Top,
                AllFree, FreeIn
  <2>2. \A a : Packing(a)' <=> Packing(a)
    BY <2>1, Zenon DEF Packing
  <2>3. pack \in [at : Nat, used : 1 .. PackUnits] /\ Packing(pack.at)
    BY <1>1, Zenon DEF IInv, PackApart
  <2>4. pack' \in [at : Nat, used : 1 .. PackUnits] /\ pack'.at = pack.at /\ pack'.used = pack.used + u
    BY <1>1, <2>3
  <2>5. Slots' = Slots \cup {[at |-> pack.at, from |-> pack.used, n |-> u]}
    BY <1>1, Zenon DEF Slots
  <2>6. [at |-> pack.at, from |-> pack.used, n |-> u] \in SlotSet
    BY <1>0, <1>1, <2>3
  <2>7. SlotsApart'
    <3>1. PICK new : new = [at |-> pack.at, from |-> pack.used, n |-> u]
      BY Zenon
    <3>2. new \in SlotSet /\ new.at = pack.at /\ Slots' = Slots \cup {new}
      BY <3>1, <2>5, <2>6
    <3> QED
      BY <2>2, <2>3, <3>2, Zenon DEF IInv, SlotsApart
  <2>8. ASSUME NEW p \in Slots', p.at = pack'.at PROVE p.from + p.n <= pack'.used
    <3>1. CASE p \in Slots
      <4>1. p.from + p.n <= pack.used /\ p \in SlotSet
        BY <1>1, <2>4, <2>8, <3>1, Zenon DEF IInv, PackApart, SlotsApart
      <4>2. p.from \in Int /\ p.n \in Int /\ pack.used \in Int /\ u \in Nat
        BY <4>1, <1>0, <2>3
      <4> QED
        BY <4>1, <4>2, <2>4
    <3> QED
      BY <3>1, <2>4, <2>5
  <2>9. PackApart'
    BY <2>2, <2>3, <2>4, <2>8, Zenon DEF PackApart
  <2> QED
    BY <2>1, <2>7, <2>9, Zenon DEF IInv
<1>2. CASE LET loan == Lent(1, "LiveMid")
           IN /\ TakeLoan(loan, 1, "LiveMid")
              /\ packed' = packed \cup {[at |-> loan.at, from |-> 0, n |-> u]}
              /\ pack' = [at |-> loan.at, used |-> u]
              /\ held' = Shifted(held, loan.by)
              /\ UNCHANGED <<floor, deferred, committed>>
  <2> DEFINE r == "LiveMid"
             loan == Lent(1, r)
             slot == [at |-> loan.at, from |-> 0, n |-> u]
  <2>1. r \in Regions /\ r \in Forward /\ 1 \in Nat \ {0}
    BY DEF Regions, Forward
  <2>2. TakesLoan(1, r, {})
    BY <1>2, Zenon DEF TakesLoan
  <2>3. Numbers' /\ Lists' /\ Shape' /\ Placed' /\ Apart' /\ Tagged' /\ Floored'
    BY <2>1, <2>2, LoanKeepsExtents, Zenon
  <2>4. LoanOK(loan, 1, r)
    BY <1>2, <2>1, LoanSound, Zenon
  <2>5. Named' \subseteq {Up(e, loan.by) : e \in Named}
    <3>1. \A e \in deferred \cup committed.held : Up(e, loan.by) = e
      BY Zenon DEF IInv, Placed, Up, InTail
    <3> QED
      BY <1>2, <3>1, ShiftedIsUp, Zenon DEF Named
  <2>6. Slots' = Slots \cup {slot} /\ pack' = [at |-> loan.at, used |-> u]
    BY <1>2, Zenon DEF Slots
  <2> HIDE DEF loan
  <2>7. loan.at \in Nat /\ loan.at \in Run(loan.at, 1)
    BY <2>4 DEF LoanOK, Run
  <2>7a. PICK at \in Nat : at = loan.at
    BY <2>7, Zenon
  <2>8. ASSUME NEW a \in Nat, Packing(a) PROVE Packing(a)' /\ a \notin Run(loan.at, 1)
    BY <2>4, <2>5, <2>8, MovedSlot, Zenon DEF Packing
  <2>9. Packing(at)'
    <3>1. at < hwm' /\ at \notin AllFree'
      BY <2>1, <2>4, <2>7, <2>7a, Zenon DEF LoanOK, AllFree
    <3>2. \A e \in Named' : at \notin BlocksOf(e)
      BY <2>4, <2>5, <2>7, <2>7a, MovedNotLent, Zenon
    <3> QED
      BY <3>1, <3>2, Zenon DEF Packing
  <2>10. SlotsApart'
    <3>1. slot \in SlotSet
      BY <2>7, <1>0
    <3> QED
      BY <3>1, <2>6, <2>7a, <2>8, <2>9 DEF IInv, SlotsApart
  <2>11. PackApart'
    <3>1. pack' \in [at : Nat, used : 1 .. PackUnits]
      BY <2>6, <2>7, <1>0
    <3>2. \A p \in Slots : p.at # loan.at
      BY <2>7, <2>8, Zenon DEF IInv, SlotsApart
    <3>3. \A p \in Slots' : p.at = pack'.at => p.from + p.n <= pack'.used
      BY <3>2, <2>6
    <3> QED
      BY <3>1, <3>3, <2>6, <2>7a, <2>9, Zenon DEF PackApart
  <2> QED
    BY <2>3, <2>10, <2>11, Zenon DEF IInv
<1> QED
  BY <1>1, <1>2, Zenon DEF AllocPacked

-----------------------------------------------------------------------------
(* Freeing *)

\* What freeing the extents S does to the lists: a block that is free afterwards was
\* free or belongs to an extent of S of the same region; packing goes on only in a
\* block that has not become free.
Freed(S) ==
  /\ Lists'
  /\ tags' \subseteq tags
  /\ \A r \in Regions : \A b \in FreeIn(r)' :
       b \in FreeIn(r) \/ \E e \in S : e.region = r /\ b \in BlocksOf(e)
  /\ pack' = NoPack \/ (pack' = pack /\ (pack.at \in AllFree' => pack.at \in AllFree))

LEMMA FreeAllSound ==
  ASSUME IInv, NEW S, S \subseteq held \cup deferred, IsFiniteSet(S), FreeAll(S)
  PROVE  Freed(S)
<1> DEFINE tagged == {e \in S : TagOf(e) # {}}
           of(r) == {e \in tagged : r \in TagOf(e)}
<1>1. \A e \in S : e \in Wide
  BY Zenon DEF IInv, Shape, Named
<1>2. ASSUME NEW e \in S, NEW r \in TagOf(e) PROVE r = e.region
  BY Zenon DEF IInv, Tagged, TagOf
<1>3. ASSUME NEW r \in Regions
      PROVE  /\ InsertedAll(free[r], of(r)) \in SUBSET Extents
             /\ IsCoalesced(InsertedAll(free[r], of(r)))
             /\ Blocks(InsertedAll(free[r], of(r))) = FreeIn(r) \cup Blocks(of(r))
  <2>1. free[r] \in SUBSET Extents /\ IsCoalesced(free[r])
    BY Zenon DEF IInv, Lists
  <2>2. IsFiniteSet(of(r))
    BY FS_Subset, Zenon
  <2>3. \A e \in of(r) : e.at \in Nat /\ e.len \in Nat \ {0}
    BY <1>1, WideBlocks, Zenon
  <2> HIDE DEF of
  <2> QED
    BY <2>1, <2>2, <2>3, InsertAllExact, Zenon DEF FreeIn
<1>4. /\ free' = [r \in Regions |-> InsertedAll(free[r], of(r))]
      /\ tags' \subseteq tags
      /\ pack' = PackAfter(Blocks(tagged))
  BY Zenon DEF FreeAll
<1> HIDE DEF of
<1>5. Lists'
  BY <1>3, <1>4, Zenon DEF Lists
<1>6. \A r \in Regions : FreeIn(r)' = FreeIn(r) \cup Blocks(of(r))
  BY <1>3, <1>4, Zenon DEF FreeIn
<1>7. \A r \in Regions : \A b \in Blocks(of(r)) : \E e \in S : e.region = r /\ b \in BlocksOf(e)
  BY <1>2, Zenon DEF Blocks, of
<1>8. \A r \in Regions : Blocks(of(r)) \subseteq Blocks(tagged)
  BY Zenon DEF Blocks, of
<1> HIDE DEF tagged
<1>9. pack' = NoPack \/ (pack' = pack /\ (pack.at \in AllFree' => pack.at \in AllFree))
  <2>1. CASE pack.at \in Blocks(tagged)
    BY <2>1, <1>4, Zenon DEF PackAfter
  <2>2. CASE pack.at \notin Blocks(tagged)
    BY <1>4, <1>6, <1>8, Zenon DEF PackAfter, AllFree
  <2> QED
    BY <2>1, <2>2, Zenon
<1> QED
  BY <1>4, <1>5, <1>6, <1>7, <1>9, Zenon DEF Freed

LEMMA NothingFreed == ASSUME IInv, UNCHANGED <<free, tags, pack>> PROVE Freed({})
  BY Zenon DEF Freed, IInv, Lists, FreeIn, AllFree

\* A step that gives up the extents S, and names nothing it did not name.
Releases(S) ==
  /\ S \subseteq held \cup deferred
  /\ Freed(S)
  /\ UNCHANGED <<len, hwm, low, wal>>
  /\ held' \subseteq held /\ deferred' \subseteq deferred
  /\ committed'.held \subseteq committed.held \cup {e \in held : ~InTail(e)}
  /\ Named' \cap S = {}
  /\ stale' \subseteq stale \cup {e \in S : InTail(e)}
  /\ Slots' \subseteq Slots
  /\ floor' = NoFloor \/ (floor' = floor /\ committed' = committed)

LEMMA ReleaseInv == ASSUME IInv, NEW S, Releases(S) PROVE IInv'
<1>0. Freed(S) /\ S \subseteq Named
  BY Zenon DEF Releases, Named
<1>1. /\ len' = len /\ hwm' = hwm /\ low' = low /\ wal' = wal /\ Top' = Top
      /\ Named' \subseteq Named /\ Named' \cap S = {}
      /\ stale' \subseteq stale \cup {e \in S : InTail(e)}
      /\ held' \subseteq held /\ deferred' \subseteq deferred
      /\ Slots' \subseteq Slots
      /\ floor' = NoFloor \/ (floor' = floor /\ committed' = committed)
      /\ \A e \in committed'.held : ~InTail(e)
  <2>1. Top' = Top
    BY Zenon DEF Releases, Top
  <2> QED
    BY <2>1, Zenon DEF Releases, Named, IInv, Placed
<1>2. Numbers'
  BY <1>1 DEF IInv, Numbers, NoFloor
<1>3. Lists'
  BY <1>0, Zenon DEF Freed
<1>4. Shape'
  <2>1. IsFiniteSet(deferred')
    BY <1>1, FS_Subset, Zenon DEF IInv, Shape
  <2> QED
    BY <2>1, <1>0, <1>1, Zenon DEF IInv, Shape, Freed
<1>5. \A r \in Regions : \A b \in FreeIn(r)' :
        b \in FreeIn(r) \/ \E e \in S : e.region = r /\ b \in BlocksOf(e)
  BY <1>0, Zenon DEF Freed
<1>6. \A b \in AllFree' : b \in AllFree \/ \E e \in S : b \in BlocksOf(e)
  BY <1>5 DEF AllFree
<1>7. Placed'
  <2>1. \A e \in Named' : ~InTail(e) => \A b \in BlocksOf(e) : b < hwm'
    BY <1>1, Zenon DEF IInv, Placed
  <2>2. \A e \in S : InTail(e) => e \in held
    BY Zenon DEF Releases, IInv, Placed, InTail
  <2>3. \A e \in held' \cup stale' : InTail(e) => \A b \in BlocksOf(e) : low' <= b /\ b < Top'
    BY <1>1, <2>2, Zenon DEF IInv, Placed
  <2>4. (\A e \in stale' : InTail(e)) /\ (\A e \in deferred' : e.region = "LiveMid")
    BY <1>1, Zenon DEF IInv, Placed
  <2>5. ASSUME NEW r \in Forward, NEW b \in FreeIn(r)' PROVE b < hwm'
    <3>1. r \in Regions /\ r # "EvictionTail"
      BY Zenon DEF Regions, Forward
    <3> QED
      BY <3>1, <1>0, <1>1, <1>5, Zenon DEF IInv, Placed, InTail
  <2>6. ASSUME NEW b \in FreeIn("EvictionTail")' PROVE low' <= b /\ b < Top'
    <3>1. "EvictionTail" \in Regions
      BY Zenon DEF Regions
    <3> QED
      BY <3>1, <2>2, <1>1, <1>5, Zenon DEF IInv, Placed, InTail
  <2>7. \A t \in tags' : IF InTail(t) THEN low' <= t.at /\ t.at < Top' ELSE t.at < hwm'
    BY <1>0, <1>1, Zenon DEF IInv, Placed, Freed
  <2> QED
    BY <1>1, <2>1, <2>3, <2>4, <2>5, <2>6, <2>7, Zenon DEF Placed
<1>8. Apart'
  <2>1. \A e, f \in Named' \cup stale' : e # f => BlocksOf(e) \cap BlocksOf(f) = {}
    BY <1>0, <1>1, Zenon DEF IInv, Apart
  <2>2. held' \cap deferred' = {}
    BY <1>1, Zenon DEF IInv, Apart
  <2>3. \A e \in Named' : BlocksOf(e) \cap AllFree' = {}
    BY <1>0, <1>1, <1>6 DEF IInv, Apart
  <2>4. ASSUME NEW r \in Regions, NEW s \in Regions, r # s, NEW b \in FreeIn(r)', b \in FreeIn(s)'
        PROVE  FALSE
    <3>1. FreeIn(r) \cap FreeIn(s) = {} /\ FreeIn(r) \subseteq AllFree /\ FreeIn(s) \subseteq AllFree
      BY <2>4, Zenon DEF IInv, Apart, AllFree
    <3>2. \A e \in S : BlocksOf(e) \cap AllFree = {}
      BY <1>0, Zenon DEF IInv, Apart
    <3>3. \A e, f \in S : e # f => BlocksOf(e) \cap BlocksOf(f) = {}
      BY <1>0, Zenon DEF IInv, Apart
    <3> QED
      BY <2>4, <3>1, <3>2, <3>3, <1>5
  <2> QED
    BY <2>1, <2>2, <2>3, <2>4, Zenon DEF Apart
<1>9. ASSUME NEW a, Packing(a) PROVE Packing(a)'
  BY <1>0, <1>1, <1>6, <1>9, Zenon DEF Packing
<1>10. SlotsApart'
  BY <1>1, <1>9, Zenon DEF IInv, SlotsApart
<1>11. PackApart'
  BY <1>0, <1>1, <1>9, Zenon DEF IInv, PackApart, Freed
<1>12. Tagged'
  BY <1>0, <1>1, Zenon DEF IInv, Tagged, Freed
<1>13. Floored'
  BY <1>1, Zenon DEF IInv, Floored
<1> QED
  BY <1>2, <1>3, <1>4, <1>7, <1>8, <1>10, <1>11, <1>12, <1>13, Zenon DEF IInv

-----------------------------------------------------------------------------
(* The remaining actions *)

LEMMA FreeReclaimableInv == ASSUME IInv, NEW e, FreeReclaimable(e) PROVE IInv'
<1>1. e \in held /\ e.region = "CatalogHead" /\ held' = held \ {e}
      /\ UNCHANGED <<len, hwm, low, wal, floor, deferred, packed, committed, stale>>
  BY Zenon DEF FreeReclaimable
<1>2. CASE floor # NoFloor /\ e.at >= floor
  <2>1. FreeAll({e})
    BY <1>2, Zenon DEF FreeReclaimable
  <2>2. Freed({e})
    BY <1>1, <2>1, FreeAllSound, FS_Singleton, Zenon
  <2>3. e \notin deferred /\ e \notin committed.held
    <3>1. e.at \in Nat /\ floor \in Int
      BY <1>1, WideBlocks DEF IInv, Shape, Named, Numbers, NoFloor
    <3> QED
      BY <1>1, <1>2, <3>1 DEF IInv, Apart, Floored
  <2>4. Releases({e})
    BY <1>1, <2>2, <2>3, Zenon DEF Releases, Named, Slots
  <2> QED
    BY <2>4, ReleaseInv, Zenon
<1>3. CASE ~(floor # NoFloor /\ e.at >= floor)
  <2>1. Freed({})
    BY <1>3, NothingFreed, Zenon DEF FreeReclaimable
  <2>2. Releases({})
    BY <1>1, <2>1, Zenon DEF Releases, Named, Slots
  <2> QED
    BY <2>2, ReleaseInv, Zenon
<1> QED
  BY <1>2, <1>3, Zenon

LEMMA FreeTailInv == ASSUME IInv, NEW e, FreeTail(e) PROVE IInv'
<1>1. e \in held /\ InTail(e) /\ held' = held \ {e} /\ stale' = stale \cup {e} /\ FreeAll({e})
      /\ UNCHANGED <<len, hwm, low, wal, floor, deferred, packed, committed>>
  BY Zenon DEF FreeTail
<1>2. Freed({e})
  BY <1>1, FreeAllSound, FS_Singleton, Zenon
<1>3. e \notin deferred /\ e \notin committed.held
  BY <1>1, Zenon DEF IInv, Apart, Placed
<1>4. Releases({e})
  BY <1>1, <1>2, <1>3, Zenon DEF Releases, Named, Slots
<1> QED
  BY <1>4, ReleaseInv, Zenon

LEMMA PublishInv == ASSUME IInv, Publish PROVE IInv'
<1>1. /\ committed' = [held |-> {e \in held : ~InTail(e)}, packed |-> packed]
      /\ FreeAll(deferred) /\ deferred' = {} /\ floor' = NoFloor
      /\ UNCHANGED <<len, hwm, low, wal, held, packed, stale>>
  BY Zenon DEF Publish
<1>2. Freed(deferred)
  BY <1>1, FreeAllSound, Zenon DEF IInv, Shape
<1>3. /\ committed'.held = {e \in held : ~InTail(e)} /\ committed'.packed = packed
  BY <1>1, Zenon
<1>4. Named' \cap deferred = {}
  BY <1>1, <1>3, Zenon DEF Named, IInv, Apart
<1>5. Releases(deferred)
  BY <1>1, <1>2, <1>3, <1>4, Zenon DEF Releases, Slots
<1> QED
  BY <1>5, ReleaseInv, Zenon

LEMMA AbortDeferredInv == ASSUME IInv, AbortDeferred PROVE IInv'
<1>1. Freed({})
  BY NothingFreed, Zenon DEF AbortDeferred, space
<1>2. Releases({})
  BY <1>1, Zenon DEF AbortDeferred, space, Releases, Named, Slots
<1> QED
  BY <1>2, ReleaseInv, Zenon

LEMMA DropPackedInv == ASSUME IInv, NEW p, DropPacked(p) PROVE IInv'
<1>1. Freed({})
  BY NothingFreed, Zenon DEF DropPacked, space
<1>2. Releases({})
  BY <1>1, Zenon DEF DropPacked, space, Releases, Named, Slots
<1> QED
  BY <1>2, ReleaseInv, Zenon

LEMMA RetireBlockInv == ASSUME IInv, NEW e, RetireBlock(e) PROVE IInv'
<1>1. /\ e \in held /\ e.region = "LiveMid" /\ held' = held \ {e} /\ deferred' = deferred \cup {e}
      /\ UNCHANGED <<len, hwm, low, wal, free, tags, floor, pack, packed, committed, stale>>
  BY Zenon DEF RetireBlock, space
<1>2. Named' = Named /\ Slots' = Slots /\ held' \cup deferred' = held \cup deferred
      /\ Top' = Top /\ AllFree' = AllFree /\ \A r : FreeIn(r)' = FreeIn(r)
  BY <1>1, Zenon DEF Named, Slots, Top, AllFree, FreeIn
<1>3. Numbers' /\ Lists'
  BY <1>1, <1>2, Zenon DEF IInv, Numbers, Lists
<1>4. Shape'
  BY <1>1, <1>2, FS_AddElement, Zenon DEF IInv, Shape
<1>5. Placed'
  BY <1>1, <1>2, Zenon DEF IInv, Placed
<1>6. Apart'
  BY <1>1, <1>2, Zenon DEF IInv, Apart
<1>7. SlotsApart' /\ PackApart'
  BY <1>1, <1>2, Zenon DEF IInv, SlotsApart, PackApart, Packing
<1>8. Tagged' /\ Floored'
  BY <1>1, <1>2, Zenon DEF IInv, Tagged, Floored
<1> QED
  BY <1>3, <1>4, <1>5, <1>6, <1>7, <1>8, Zenon DEF IInv

\* A step that moves nothing keeps what is known of the extents.
LEMMA NothingMoves ==
  ASSUME IInv, low' = low, Top' = Top,
         UNCHANGED <<hwm, free, tags, deferred, pack, held, packed, committed, stale>>
  PROVE  Lists' /\ Shape' /\ Placed' /\ Apart' /\ SlotsApart' /\ PackApart' /\ Tagged'
<1>1. /\ hwm' = hwm /\ free' = free /\ tags' = tags /\ deferred' = deferred /\ pack' = pack /\ held' = held
      /\ packed' = packed /\ committed' = committed /\ stale' = stale
  BY Zenon
<1>2. Named' = Named /\ Slots' = Slots
  BY <1>1, Zenon DEF Named, Slots
<1>3. AllFree' = AllFree /\ \A r : FreeIn(r)' = FreeIn(r)
  BY <1>1, Zenon DEF AllFree, FreeIn
<1>4. Lists' /\ Shape'
  BY <1>1, <1>2, Zenon DEF IInv, Lists, Shape
<1>5. Placed'
  BY <1>1, <1>2, <1>3, Zenon DEF IInv, Placed
<1>6. Apart'
  BY <1>1, <1>2, <1>3, Zenon DEF IInv, Apart
<1>7. SlotsApart'
  BY <1>1, <1>2, <1>3, Zenon DEF IInv, SlotsApart, Packing
<1>8. PackApart'
  BY <1>1, <1>2, <1>3, Zenon DEF IInv, PackApart, Packing
<1>9. Tagged'
  BY <1>1, Zenon DEF IInv, Tagged
<1> QED
  BY <1>4, <1>5, <1>6, <1>7, <1>8, <1>9, Zenon

\* A scope opens at the frontier: all that is committed lies below.
LEMMA BeginReclaimScopeInv == ASSUME IInv, BeginReclaimScope PROVE IInv'
<1>1. floor' = hwm /\ UNCHANGED <<len, hwm, low, wal, free, tags, deferred, pack, held, packed, committed, stale>>
  BY Zenon DEF BeginReclaimScope, space
<1>2. Top' = Top
  BY <1>1, Zenon DEF Top
<1>3. Numbers' /\ Lists' /\ Shape' /\ Placed' /\ Apart' /\ SlotsApart' /\ PackApart' /\ Tagged'
  <2>1. len \in Nat /\ hwm \in Nat /\ low \in Nat /\ wal \in Nat /\ Top \in Nat
        /\ hwm <= low /\ low <= Top /\ Top <= len /\ len <= MaxLen /\ 0 < len
    BY Zenon DEF IInv, Numbers
  <2>2. Numbers'
    BY <2>1, <1>1, <1>2 DEF Numbers
  <2> QED
    BY <2>2, <1>1, <1>2, NothingMoves, Zenon
<1>4. \A e \in committed.held : e.at < hwm
  <2>1. \A e \in committed.held : e \in Wide /\ ~InTail(e) /\ e \in Named
    BY Zenon DEF IInv, Shape, Placed, Named
  <2>2. \A e \in committed.held : e.at \in BlocksOf(e)
    BY <2>1, WideBlocks
  <2> QED
    BY <2>1, <2>2, Zenon DEF IInv, Placed
<1>5. Floored'
  BY <1>1, <1>4, Zenon DEF Floored
<1> QED
  BY <1>3, <1>5, Zenon DEF IInv

LEMMA SetWalReservationInv == ASSUME IInv, SetWalReservation PROVE IInv'
<1>1. /\ wal = 0 /\ len + WalSize <= MaxLen /\ wal' = len /\ len' = len + WalSize
      /\ low' = Min({low, wal'})
      /\ UNCHANGED <<hwm, free, tags, floor, deferred, pack, held, packed, committed, stale>>
  BY Zenon DEF SetWalReservation
<1>2. WalSize \in Nat /\ WalSize > 0 /\ len \in Nat /\ low \in Nat /\ low <= Top /\ Top <= len
      /\ 0 < len
  BY AllocatorAssumption, Zenon DEF IInv, Numbers
<1>3. low' = low
  <2>1. low <= len /\ low' = Min({low, len})
    BY <1>1, <1>2, Zenon DEF Top
  <2>2. Min({low, len}) = low
    BY <1>2, <2>1, MinOfTwo
  <2> QED
    BY <2>1, <2>2, Zenon
<1>4. Top = len /\ Top' = len
  BY <1>1, <1>2 DEF Top
<1>5. hwm \in Nat /\ hwm <= low /\ floor \in {NoFloor} \cup Nat /\ floor <= hwm
  BY Zenon DEF IInv, Numbers
<1>6. Numbers'
  <2>1. len' \in Nat /\ len' <= MaxLen /\ 0 < len' /\ len <= len'
    BY <1>1, <1>2
  <2>2. wal' \in Nat /\ Top' \in Nat /\ low <= Top' /\ Top' <= len'
    BY <1>1, <1>2, <1>4, <2>1, Zenon
  <2> QED
    BY <1>1, <1>2, <1>3, <1>5, <2>1, <2>2, Zenon DEF Numbers
<1>7. Lists' /\ Shape' /\ Placed' /\ Apart' /\ SlotsApart' /\ PackApart' /\ Tagged' /\ Floored'
  <2>1. Floored'
    BY <1>1, Zenon DEF IInv, Floored
  <2> QED
    BY <2>1, <1>1, <1>3, <1>4, NothingMoves, Zenon
<1> QED
  BY <1>6, <1>7, Zenon DEF IInv

\* insert_free_extent, when the gap holds no block of free_head: the gap becomes free,
\* and packing does not go on in it.
LEMMA InsertFreeExtentInv ==
  ASSUME IInv, ~FreeHeadGaps, NEW at \in 0 .. hwm - 1, NEW n \in Sizes, InsertFreeExtent(at, n)
  PROVE  IInv'
<1> DEFINE gap == Run(at, n)
           mid == "LiveMid"
<1>1. /\ gap \subseteq (0 .. hwm - 1) \ Live
      /\ free' = [free EXCEPT ![mid] = Inserted(free[mid], at, n)]
      /\ gap \cap FreeIn("CatalogHead") = {}
      /\ pack' = PackAfter(gap)
      /\ UNCHANGED <<len, hwm, low, wal, tags, floor, deferred, held, packed, committed, stale>>
  BY Zenon DEF InsertFreeExtent
<1>2. at \in Nat /\ n \in Nat \ {0} /\ hwm \in Nat /\ low \in Nat /\ hwm <= low
  BY SizesArePositive DEF IInv, Numbers
<1>3. mid \in Regions /\ mid \in Forward
  BY Zenon DEF Regions, Forward
<1>4. free[mid] \in SUBSET Extents /\ IsCoalesced(free[mid])
  BY <1>3, Zenon DEF IInv, Lists
<1>5. /\ Inserted(free[mid], at, n) \in SUBSET Extents
      /\ IsCoalesced(Inserted(free[mid], at, n))
      /\ Blocks(Inserted(free[mid], at, n)) = FreeIn(mid) \cup gap
  BY <1>2, <1>4, InsertExact, Zenon DEF FreeIn
<1>6. Lists'
  BY <1>1, <1>5, Zenon DEF IInv, Lists
<1>7. FreeIn(mid)' = FreeIn(mid) \cup gap /\ \A r \in Regions : r # mid => FreeIn(r)' = FreeIn(r)
  BY <1>1, <1>3, <1>5, Zenon DEF FreeIn, IInv, Lists
<1>8. \A b \in gap : b \in Nat /\ b < hwm /\ b \notin Live
  BY <1>1, <1>2
<1> HIDE DEF gap
<1>9. \A b \in AllFree' : b \in AllFree \/ b \in gap
  BY <1>7, Zenon DEF AllFree
<1>10. Named' = Named /\ Slots' = Slots /\ Top' = Top
  BY <1>1, Zenon DEF Named, Slots, Top
<1>11. (\A e \in Named : BlocksOf(e) \cap gap = {}) /\ (\A p \in Slots : p.at \notin gap)
  BY <1>8, Zenon DEF Live, Named, Slots, Blocks
<1>12. Numbers' /\ Shape' /\ Tagged' /\ Floored'
  BY <1>1, <1>10, Zenon DEF IInv, Numbers, Shape, Tagged, Floored
<1>13. Placed'
  <2>1. \A r \in Forward : \A b \in FreeIn(r)' : b < hwm'
    BY <1>1, <1>7, <1>8, Zenon DEF IInv, Placed, Regions
  <2>2. \A b \in FreeIn("EvictionTail")' : low' <= b /\ b < Top'
    BY <1>1, <1>7, <1>10, Zenon DEF IInv, Placed, Regions
  <2> QED
    BY <1>1, <1>10, <2>1, <2>2, Zenon DEF IInv, Placed
<1>14. Apart'
  <2>1. \A e \in Named' : BlocksOf(e) \cap AllFree' = {}
    BY <1>9, <1>10, <1>11, Zenon DEF IInv, Apart
  <2>2. ASSUME NEW r \in Regions, r # mid PROVE FreeIn(r) \cap gap = {}
    <3>1. CASE r = "CatalogHead"
      BY <3>1, <1>1, Zenon
    <3>2. CASE r = "EvictionTail"
      BY <3>2, <1>2, <1>8 DEF IInv, Placed
    <3> QED
      BY <2>2, <3>1, <3>2, Zenon DEF Regions, Forward
  <2>3. \A r, s \in Regions : r # s => FreeIn(r)' \cap FreeIn(s)' = {}
    BY <2>2, <1>7 DEF IInv, Apart
  <2> QED
    BY <1>1, <1>10, <2>1, <2>3, Zenon DEF IInv, Apart
<1>15. ASSUME NEW a, a \notin gap, Packing(a) PROVE Packing(a)'
  BY <1>1, <1>9, <1>10, <1>15, Zenon DEF Packing
<1>16. SlotsApart'
  BY <1>10, <1>11, <1>15, Zenon DEF IInv, SlotsApart
<1>17. PackApart'
  BY <1>1, <1>10, <1>15, Zenon DEF IInv, PackApart, PackAfter
<1> QED
  BY <1>6, <1>12, <1>13, <1>14, <1>16, <1>17, Zenon DEF IInv

\* A new session finds the frontiers from what the header names and what a scan of
\* the tail finds.
LEMMA ReopenInv == ASSUME IInv, Reopen PROVE IInv'
<1> DEFINE tail == {e \in held : InTail(e)} \cup stale
           used == Blocks(committed.held) \cup {p.at : p \in committed.packed}
           ends == {0} \cup {b + 1 : b \in used}
           starts == {Top} \cup {e.at : e \in tail}
<1>1. /\ hwm' = Max(ends) /\ low' = Min(starts)
      /\ free' = [r \in Regions |-> {}]
      /\ tags' = {[at |-> e.at, region |-> e.region] : e \in tail}
      /\ floor' = NoFloor /\ deferred' = {} /\ pack' = NoPack
      /\ held' = committed.held \cup tail /\ packed' = committed.packed /\ stale' = {}
      /\ len' = len /\ wal' = wal /\ committed' = committed
  BY Zenon DEF Reopen
<1>2. /\ Named' = committed.held \cup tail /\ Slots' = committed.packed /\ Top' = Top
      /\ AllFree' = {} /\ \A r \in Regions : FreeIn(r)' = {}
  BY <1>1 DEF Named, Slots, Top, AllFree, FreeIn, Blocks
<1>3. /\ hwm \in Nat /\ low \in Nat /\ Top \in Nat /\ hwm <= low /\ low <= Top
  BY Zenon DEF IInv, Numbers
<1>4. \A e \in Named \cup stale : e \in Wide
  BY Zenon DEF IInv, Shape
<1>5. \A e \in committed.held : ~InTail(e) /\ e \in Named
  BY Zenon DEF IInv, Placed, Named
<1>6. \A e \in tail : InTail(e) /\ e \in Named \cup stale /\ e \in held \cup stale
  BY Zenon DEF IInv, Placed, Named
<1>7. \A b \in used : b \in Nat /\ b < hwm
  <2>1. ASSUME NEW e \in committed.held, NEW b \in BlocksOf(e) PROVE b \in Nat /\ b < hwm
    BY <1>4, <1>5, WideBlocks DEF IInv, Placed
  <2>2. \A p \in committed.packed : p.at \in Nat /\ p.at < hwm
    BY Zenon DEF IInv, SlotsApart, Slots, Packing
  <2> QED
    BY <2>1, <2>2, Zenon DEF Blocks
<1>8. /\ \A e \in committed.held : BlocksOf(e) \subseteq used
      /\ \A p \in committed.packed : p.at \in used
  BY Zenon DEF Blocks
<1> HIDE DEF used
<1>9. hwm' \in Nat /\ hwm' <= hwm /\ \A b \in used : b < hwm'
  <2>1. ends \in SUBSET Nat /\ ends # {} /\ (\A x \in ends : x <= hwm) /\ \A b \in used : b + 1 \in ends
    BY <1>3, <1>7
  <2> HIDE DEF ends
  <2>2. Max(ends) \in ends /\ \A x \in ends : x <= Max(ends)
    BY <2>1, <1>3, MaxExists, Zenon
  <2>3. hwm' \in Nat /\ hwm' <= hwm
    BY <2>1, <2>2, <1>1, Zenon
  <2>4. \A b \in used : b + 1 <= hwm'
    BY <2>1, <2>2, <1>1, Zenon
  <2> QED
    BY <2>3, <2>4, <1>7
<1>10. \A e \in tail : e.at \in Nat /\ e.at \in BlocksOf(e) /\ low <= e.at /\ e.at < Top
  <2>1. \A e \in tail : e.at \in Nat /\ e.at \in BlocksOf(e)
    BY <1>4, <1>6, WideBlocks
  <2> QED
    BY <2>1, <1>6, Zenon DEF IInv, Placed
<1> HIDE DEF tail
<1>11. low' \in Nat /\ low <= low' /\ low' <= Top /\ \A e \in tail : low' <= e.at
  <2>1. starts \in SUBSET Nat /\ starts # {} /\ Top \in starts /\ (\A e \in tail : e.at \in starts)
        /\ \A x \in starts : low <= x
    BY <1>3, <1>10, Zenon
  <2> HIDE DEF starts
  <2>2. Min(starts) \in starts /\ \A x \in starts : Min(starts) <= x
    BY <2>1, MinExists, Zenon
  <2> QED
    BY <2>1, <2>2, <1>1, Zenon
<1>12. Numbers'
  BY <1>1, <1>2, <1>9, <1>11 DEF IInv, Numbers, NoFloor
<1>13. Lists'
  BY <1>1, Zenon DEF Lists, IsCoalesced
<1>14. Shape'
  <2>1. \A e \in tail : e.at \in Nat /\ e.region \in Regions
    BY <1>4, <1>6, WideBlocks, Zenon
  <2> QED
    BY <2>1, <1>1, <1>2, <1>4, <1>5, <1>6, FS_EmptySet DEF Shape
<1>15. Placed'
  <2>1. \A e \in committed.held : \A b \in BlocksOf(e) : b < hwm'
    BY <1>8, <1>9, Zenon
  <2>2. ASSUME NEW e \in tail, NEW b \in BlocksOf(e) PROVE low' <= b /\ b < Top
    <3>1. b \in Int /\ e.at <= b
      BY <1>4, <1>6, WideBlocks, Zenon
    <3>2. b < Top
      BY <1>6, Zenon DEF IInv, Placed
    <3> QED
      BY <3>1, <3>2, <1>10, <1>11
  <2>3. \A e \in Named' : ~InTail(e) => \A b \in BlocksOf(e) : b < hwm'
    BY <2>1, <1>2, <1>6, Zenon
  <2>4. \A e \in held' \cup stale' : InTail(e) => \A b \in BlocksOf(e) : low' <= b /\ b < Top'
    <3>1. \A e \in held' \cup stale' : InTail(e) => e \in tail
      BY <1>1, <1>5, Zenon
    <3> QED
      BY <3>1, <2>2, <1>2, Zenon
  <2>5. \A t \in tags' : IF InTail(t) THEN low' <= t.at /\ t.at < Top' ELSE t.at < hwm'
    BY <1>1, <1>2, <1>6, <1>10, <1>11 DEF InTail
  <2> QED
    BY <2>3, <2>4, <2>5, <1>1, <1>2, <1>5, Zenon DEF Placed, Regions
<1>16. Apart'
  BY <1>1, <1>2, <1>5, <1>6, Zenon DEF IInv, Apart
<1>17. SlotsApart'
  <2>1. \A p \in committed.packed : p \in Slots
    BY Zenon DEF Slots
  <2>2. ASSUME NEW p \in committed.packed, NEW e \in tail PROVE p.at \notin BlocksOf(e)
    <3>1. p.at < hwm /\ p.at \in Nat
      BY <2>1, Zenon DEF IInv, SlotsApart, Packing
    <3>2. \A b \in BlocksOf(e) : low <= b
      BY <1>6, Zenon DEF IInv, Placed
    <3> QED
      BY <3>1, <3>2, <1>3
  <2>3. \A p \in committed.packed : Packing(p.at)'
    BY <2>1, <2>2, <1>2, <1>5, <1>8, <1>9, Zenon DEF IInv, SlotsApart, Packing
  <2> QED
    BY <2>1, <2>3, <1>2, Zenon DEF IInv, SlotsApart
<1>18. PackApart'
  BY <1>1, Zenon DEF PackApart
<1>19. Tagged'
  <2> SUFFICES ASSUME NEW f \in tail, NEW e \in committed.held \cup tail, f.at = e.at
               PROVE  f.region = e.region
    BY <1>1 DEF Tagged
  <2>1. CASE e \in tail
    BY <2>1, <1>6, Zenon DEF InTail
  <2>2. CASE e \in committed.held
    <3>1. e.at \in BlocksOf(e) /\ e.at \in Nat
      BY <2>2, <1>4, <1>5, WideBlocks
    <3>2. e.at < hwm
      BY <2>2, <3>1, <1>7, <1>8, Zenon
    <3>3. f.at \in Nat /\ low <= f.at
      BY <1>10, Zenon
    <3> QED
      BY <3>1, <3>2, <3>3, <1>3
  <2> QED
    BY <2>1, <2>2, Zenon
<1>20. Floored'
  BY <1>1, Zenon DEF Floored
<1> QED
  BY <1>12, <1>13, <1>14, <1>15, <1>16, <1>17, <1>18, <1>19, <1>20, Zenon DEF IInv

-----------------------------------------------------------------------------
(* The theorems *)

LEMMA InitInv == ASSUME Init PROVE IInv
<1>1. Named = {} /\ Slots = {} /\ Top = len /\ AllFree = {} /\ \A r \in Regions : FreeIn(r) = {}
  BY DEF Init, Named, Slots, Top, AllFree, FreeIn, Blocks
<1>2. Numbers
  BY <1>1, AllocatorAssumption DEF Init, Numbers, NoFloor
<1>3. Lists /\ Shape
  BY <1>1, FS_EmptySet, Zenon DEF Init, Lists, Shape, IsCoalesced
<1>4. Placed /\ Apart /\ SlotsApart /\ PackApart /\ Tagged /\ Floored
  BY <1>1, Zenon DEF Init, Placed, Apart, SlotsApart, PackApart, Tagged, Floored, Regions
<1> QED
  BY <1>2, <1>3, <1>4, Zenon DEF IInv

LEMMA NextInv == ASSUME IInv, ~FreeHeadGaps, [Next]_vars PROVE IInv'
<1>1. ASSUME NEW r \in Regions, NEW n \in Sizes, AllocAligned(r, n) PROVE IInv'
  BY <1>1, AllocAlignedInv, Zenon
<1>2. ASSUME NEW u \in 1 .. PackUnits - 1, AllocPacked(u) PROVE IInv'
  BY <1>2, AllocPackedInv, Zenon
<1>3. ASSUME NEW e \in held, FreeReclaimable(e) \/ RetireBlock(e) \/ FreeTail(e) PROVE IInv'
  BY <1>3, FreeReclaimableInv, RetireBlockInv, FreeTailInv, Zenon
<1>4. ASSUME NEW p \in packed, DropPacked(p) PROVE IInv'
  BY <1>4, DropPackedInv, Zenon
<1>5. ASSUME NEW at \in 0 .. hwm - 1, NEW n \in Sizes, InsertFreeExtent(at, n) PROVE IInv'
  BY <1>5, InsertFreeExtentInv, Zenon
<1>6. CASE UNCHANGED vars
  <2>1. Named' = Named /\ Slots' = Slots /\ Top' = Top /\ AllFree' = AllFree /\ \A r : FreeIn(r)' = FreeIn(r)
    BY <1>6, Zenon DEF vars, Named, Slots, Top, AllFree, FreeIn
  <2> QED
    BY <1>6, <2>1, Zenon DEF vars, IInv, Numbers, Lists, Shape, Placed, Apart, SlotsApart, PackApart,
       Packing, Tagged, Floored
<1> QED
  BY <1>1, <1>2, <1>3, <1>4, <1>5, <1>6, BeginReclaimScopeInv, PublishInv, AbortDeferredInv,
     SetWalReservationInv, ReopenInv, Zenon DEF Next

LEMMA IInvImpliesFreelistExact == ASSUME IInv PROVE FreelistExact
<1>1. ASSUME NEW r \in Regions PROVE free[r] \in SUBSET Extents /\ IsCoalesced(free[r])
  BY Zenon DEF IInv, Lists
<1>2. ASSUME NEW r \in Regions, NEW n \in Sizes PROVE FindsLowestRun(free[r], n)
  BY <1>1, SizesArePositive, FirstFitExact, Zenon
<1> QED
  BY <1>1, <1>2, Zenon DEF FreelistExact

LEMMA IInvImpliesTypeOK == ASSUME IInv PROVE TypeOK
<1>1. /\ len \in Nat /\ hwm \in Nat /\ low \in Nat /\ wal \in Nat /\ Top \in Nat /\ MaxLen \in Nat
      /\ hwm <= low /\ low <= Top /\ Top <= len /\ len <= MaxLen /\ (wal # 0 => wal = Top)
      /\ (floor = NoFloor \/ floor \in Nat) /\ floor <= hwm
  BY AllocatorAssumption, Zenon DEF IInv, Numbers, Top
<1>2. len \in 0 .. MaxLen /\ hwm \in 0 .. MaxLen /\ low \in 0 .. MaxLen /\ wal \in 0 .. MaxLen
      /\ floor \in {NoFloor} \cup 0 .. MaxLen
  BY <1>1
<1>3. ASSUME NEW r \in Regions, NEW e \in free[r]
      PROVE  e \in [at : 0 .. MaxLen - 1, len : 1 .. MaxLen]
  <2>1. free[r] \in SUBSET Extents /\ e \in Extents /\ e.at \in Nat /\ e.len \in Nat \ {0}
    BY DEF IInv, Lists, Extents
  <2>2. e.at \in FreeIn(r) /\ e.at + e.len - 1 \in FreeIn(r)
    BY <2>1 DEF FreeIn, Blocks, BlocksOf, Run
  <2>3. \A b \in FreeIn(r) : b < MaxLen
    <3>1. \A b \in FreeIn(r) : b \in Nat
      BY <2>1, BlocksAreNat, Zenon DEF FreeIn
    <3>2. \A b \in FreeIn(r) : b < hwm \/ b < Top
      BY Zenon DEF IInv, Placed, Regions
    <3> QED
      BY <3>1, <3>2, <1>1
  <2> QED
    BY <2>1, <2>2, <2>3, <1>1 DEF Extents
<1>4. \A t \in tags : t \in [at : 0 .. MaxLen - 1, region : Regions]
  <2>1. \A t \in tags : t \in [at : Nat, region : Regions] /\ (t.at < hwm \/ t.at < Top)
    BY Zenon DEF IInv, Shape, Placed
  <2> QED
    BY <2>1, <1>1
<1>5. ASSUME NEW e \in Named \cup stale PROVE e \in Extent
  <2>1. e \in Wide /\ e.at \in Nat /\ e.at \in BlocksOf(e)
    BY WideBlocks DEF IInv, Shape
  <2>2. e.at < hwm \/ e.at < Top
    BY <2>1, Zenon DEF IInv, Placed, Named, InTail
  <2> QED
    BY <2>1, <2>2, <1>1 DEF Wide, Extent
<1>6. \A p \in Slots : p \in Payload
  BY <1>1 DEF IInv, SlotsApart, Packing, Payload
<1>7. pack = NoPack \/ pack \in [at : 0 .. MaxLen - 1, used : 1 .. PackUnits]
  BY <1>1 DEF IInv, PackApart, Packing
<1>8. \A r \in Regions : free[r] \subseteq [at : 0 .. MaxLen - 1, len : 1 .. MaxLen]
  BY <1>3, Zenon
<1>9. held \cup deferred \cup committed.held \cup stale \subseteq Extent
  BY <1>5, Zenon DEF Named
<1>10. packed \cup committed.packed \subseteq Payload
  BY <1>6, Zenon DEF Slots
<1> QED
  BY <1>2, <1>4, <1>7, <1>8, <1>9, <1>10, Zenon DEF TypeOK

LEMMA IInvImpliesLentOnce == ASSUME IInv PROVE LentOnce
<1>1. TypeOK
  BY IInvImpliesTypeOK, Zenon
<1>2. RegionsApart
  <2>1. hwm \in Nat /\ low \in Nat /\ Top \in Nat /\ hwm <= low /\ low <= Top /\ Top <= len
    BY Zenon DEF IInv, Numbers
  <2>2. ASSUME NEW e \in held
        PROVE  IF InTail(e) THEN BlocksOf(e) \subseteq low .. Top - 1
                            ELSE BlocksOf(e) \subseteq 0 .. hwm - 1
    <3>1. \A b \in BlocksOf(e) : b \in Nat
      BY WideBlocks DEF IInv, Shape, Named
    <3> QED
      BY <2>1, <3>1 DEF IInv, Placed, Named
  <2>3. \A r \in Regions : \A b \in FreeIn(r) : b \in Nat
    BY BlocksAreNat, Zenon DEF FreeIn, IInv, Lists
  <2>4. FreeIn("EvictionTail") \subseteq low .. Top - 1
    BY <2>1, <2>3 DEF IInv, Placed, Regions
  <2>5. \A r \in Forward : FreeIn(r) \subseteq 0 .. hwm - 1
    BY <2>1, <2>3 DEF IInv, Placed, Regions
  <2> QED
    BY <2>1, <2>2, <2>4, <2>5, Zenon DEF RegionsApart
<1>3. OwnedOnce
  BY Zenon DEF IInv, Apart, SlotsApart, Packing, Named, Slots, OwnedOnce
<1>4. PackIsPrivate
  BY Zenon DEF IInv, PackApart, Packing, Named, Slots, PackIsPrivate
<1> QED
  BY <1>1, <1>2, <1>3, <1>4, Zenon DEF LentOnce

LEMMA IInvImpliesCommittedIntact == ASSUME IInv PROVE CommittedIntact
  BY Zenon DEF IInv, Apart, SlotsApart, Packing, Named, Slots, CommittedIntact

LEMMA AllocatorInv == ASSUME ~FreeHeadGaps PROVE Spec => []IInv
<1>1. Init => IInv
  BY InitInv, Zenon
<1>2. IInv /\ [Next]_vars => IInv'
  BY NextInv, Zenon
<1> QED
  BY <1>1, <1>2, PTL DEF Spec

\* Freelist::insert and first_fit, for files, extents and histories of any size: the
\* lists stay coalesced, and first fit returns the lowest free run that is long enough
\* whenever its region has one.
THEOREM FreelistsAreExact == ASSUME ~FreeHeadGaps PROVE Spec => []FreelistExact
  BY AllocatorInv, IInvImpliesFreelistExact, PTL

\* alloc_aligned, alloc_packed, free and rebuild_allocator never give a block two
\* owners: the regions stay apart although the file grows under the tail, extents and
\* packed blocks never overlap, and none is free.
THEOREM NothingIsLentTwice == ASSUME ~FreeHeadGaps PROVE Spec => []LentOnce
  BY AllocatorInv, IInvImpliesLentOnce, PTL

\* free_reclaimable and publish_deferred never release or lend out again a block that
\* the committed header names, so a crash before the next commit finds it intact.
THEOREM CommittedStaysIntact == ASSUME ~FreeHeadGaps PROVE Spec => []CommittedIntact
  BY AllocatorInv, IInvImpliesCommittedIntact, PTL
=============================================================================
