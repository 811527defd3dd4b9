----------------------- MODULE HeaderCommitProofs -----------------------
(***************************************************************************)
(* Proofs about HeaderCommit for every number of commits, root keys and    *)
(* power failures.  Everything follows from Inv, the invariant stated in   *)
(* HeaderCommit: the active slot is never dirty, the other one is behind   *)
(* it, and the engine's header is at most one commit behind the slots.     *)
(***************************************************************************)
EXTENDS HeaderCommit, TLAPS

\* Slot selection always names one of the two slots, and the other one is the
\* only other one.
LEMMA WinnerIsSlot ==
  ASSUME NEW s
  PROVE  /\ Winner(s) \in Slots
         /\ 1 - Winner(s) \in Slots
         /\ 1 - Winner(s) # Winner(s)
         /\ \A i \in Slots : i = Winner(s) \/ i = 1 - Winner(s)
BY DEF Winner, Slots

\* A slot that beats the other one under the CRC and commit_seq order is the
\* one ContainerHeader::load picks.
LEMMA WinnerOf ==
  ASSUME NEW s \in [Slots -> Header \cup {Torn}], NEW w \in Slots,
         Valid(s[w]), Valid(s[1 - w]) => s[1 - w].seq < s[w].seq
  PROVE  Winner(s) = w
<1>1. \A h \in Header \cup {Torn} : h.seq \in Int
  BY DEF Header, Torn
<1>2. CASE w = 0
  BY <1>1, <1>2 DEF Winner, Slots, Valid
<1>3. CASE w = 1
  BY <1>1, <1>3 DEF Winner, Slots, Valid
<1> QED
  BY <1>2, <1>3 DEF Slots

\* Facts about single headers used throughout.
LEMMA HeaderFacts ==
  ASSUME NEW h \in Header \cup {Torn}
  PROVE  /\ h.seq \in Int /\ h.roots \in Nat /\ h.key \in Nat
         /\ Valid(h) => h \in Header
         /\ h \in Header => Valid(h)
         /\ ~ Valid(Torn)
BY DEF Header, Torn, Valid

LEMMA InitInv == Init => Inv
<1> SUFFICES ASSUME Init PROVE Inv
  OBVIOUS
<1>1. TypeOK
  BY DEF Init, TypeOK, Header, Slots
<1>2. /\ disk[0] = [seq |-> 0, roots |-> 0, key |-> 0]
      /\ disk[1] = [seq |-> 1, roots |-> 1, key |-> 0]
  BY DEF Init, Slots
<1>3. Winner(disk) = 1
  BY <1>2 DEF Winner, Valid
<1>4. SlotOrder
  BY <1>2, <1>3 DEF Init, SlotOrder, Valid
<1>5. HeaderLag
  BY <1>2, <1>3 DEF Init, HeaderLag, Active, Slots, Valid
<1> QED
  BY <1>1, <1>4, <1>5 DEF Inv

\* Steps that leave both slots alone: what they do to the engine's own
\* variables is enough for the invariant.
LEMMA SlotsUnchanged ==
  ASSUME Inv, UNCHANGED <<cache, disk>>
  PROVE  /\ Winner(disk') = Winner(disk) /\ Winner(cache') = Winner(cache)
         /\ UNCHANGED header => SlotOrder'
BY DEF Inv, SlotOrder, Winner, Valid

\* With the invariant, everything that selection says about the page cache:
\* it agrees with the disk, or is exactly one commit ahead of it.
LEMMA CacheWinner ==
  ASSUME Inv
  PROVE  /\ cache = disk => Active(cache) = Active(disk)
         /\ cache # disk => /\ Winner(cache) = 1 - Winner(disk)
                            /\ Active(disk) = header
                            /\ Active(cache).seq = header.seq + 1
<1> DEFINE w == Winner(disk)
<1>1. w \in Slots /\ 1 - w \in Slots /\ \A i \in Slots : i = w \/ i = 1 - w
  BY WinnerIsSlot
<1>2. cache \in [Slots -> Header \cup {Torn}] /\ disk \in [Slots -> Header \cup {Torn}]
  BY DEF Inv, TypeOK
<1>3. ASSUME cache # disk
      PROVE  Winner(cache) = 1 - w /\ Active(disk) = header /\ Active(cache).seq = header.seq + 1
  <2>1. cache[1 - w] # disk[1 - w]
    BY <1>1, <1>2, <1>3 DEF Inv, SlotOrder
  <2>2. Valid(cache[1 - w]) /\ cache[1 - w].seq = disk[w].seq + 1 /\ disk[w] = header /\ cache[w] = disk[w]
    BY <2>1 DEF Inv, SlotOrder
  <2>3. 1 - (1 - w) = w
    BY <1>1 DEF Slots
  <2>4. disk[w].seq \in Int
    BY <1>1, <1>2, HeaderFacts
  <2>5. Winner(cache) = 1 - w
    BY <1>1, <1>2, <2>2, <2>3, <2>4, WinnerOf
  <2> QED
    BY <2>2, <2>5 DEF Active
<1>4. cache = disk => Active(cache) = Active(disk)
  BY DEF Active
<1> QED
  BY <1>3, <1>4

\* Whatever becomes of the dirty slot (kept, written, torn), the slots on disk
\* stay ordered, loadable and within one commit of the engine's header.
LEMMA SettledSlots ==
  ASSUME Inv, NEW nd \in [Slots -> Header \cup {Torn}],
         nd[Winner(disk)] = disk[Winner(disk)],
         nd[1 - Winner(disk)] \in {disk[1 - Winner(disk)], cache[1 - Winner(disk)], Torn}
  PROVE  LET v == Winner(nd) IN
         /\ Valid(nd[v])
         /\ Valid(nd[1 - v]) => nd[1 - v].seq < nd[v].seq /\ nd[1 - v].roots <= nd[v].roots
         /\ nd[v] = header \/ nd[v].seq = header.seq + 1
         /\ \A i \in Slots : Valid(nd[i]) =>
              /\ nd[i].roots <= synced
              /\ nd[i].seq > header.seq => nd[i].key >= header.key /\ nd[i].roots >= header.roots
<1> DEFINE w == Winner(disk)
           o == 1 - w
<1>1. w \in Slots /\ o \in Slots /\ 1 - o = w /\ \A i \in Slots : i = w \/ i = o
  BY WinnerIsSlot DEF Slots
<1>2. /\ cache \in [Slots -> Header \cup {Torn}] /\ disk \in [Slots -> Header \cup {Torn}]
      /\ header \in Header /\ synced \in Nat
  BY DEF Inv, TypeOK
<1>3. /\ Valid(disk[w]) /\ cache[w] = disk[w]
      /\ Valid(disk[o]) => disk[o].seq < disk[w].seq /\ disk[o].roots <= disk[w].roots
      /\ cache[o] # disk[o] => /\ Valid(cache[o])
                               /\ cache[o].seq = disk[w].seq + 1
                               /\ disk[w] = header
  BY DEF Inv, SlotOrder
<1>4. /\ disk[w] = header \/ disk[w].seq = header.seq + 1
      /\ \A i \in Slots : Valid(cache[i]) =>
           /\ cache[i].roots <= synced
           /\ cache[i].seq > header.seq => cache[i].key >= header.key /\ cache[i].roots >= header.roots
  BY DEF Inv, HeaderLag, Active
<1>5. \A h \in Header \cup {Torn} : h.seq \in Int /\ h.roots \in Nat /\ h.key \in Nat
  BY HeaderFacts
<1>6. ~ Valid(Torn) /\ header.seq \in Nat
  BY <1>2 DEF Torn, Valid, Header
<1>t. /\ disk[w].seq \in Int /\ disk[o].seq \in Int /\ cache[o].seq \in Int
      /\ disk[w].roots \in Nat /\ disk[o].roots \in Nat /\ cache[o].roots \in Nat
  BY <1>1, <1>2, <1>5
<1>7. CASE nd[o] = disk[o] \/ nd[o] = Torn
  <2>1. Valid(nd[o]) => nd[o].seq < nd[w].seq /\ nd[o].roots <= nd[w].roots
    BY <1>3, <1>6, <1>7
  <2>2. Winner(nd) = w
    BY <1>1, <1>3, <2>1, WinnerOf
  <2>3. Valid(nd[o]) => nd[o].roots <= synced /\ nd[o].seq <= header.seq
    BY <1>1, <1>2, <1>3, <1>4, <1>6, <1>7, <1>t
  <2>4. \A i \in Slots : Valid(nd[i]) =>
           /\ nd[i].roots <= synced
           /\ nd[i].seq > header.seq => nd[i].key >= header.key /\ nd[i].roots >= header.roots
    <3>1. CASE Valid(nd[o])
      BY <1>1, <1>3, <1>4, <1>6, <1>7, <1>t, <2>3, <3>1
    <3>2. CASE ~ Valid(nd[o])
      BY <1>1, <1>3, <1>4, <3>2
    <3> QED
      BY <3>1, <3>2
  <2> QED
    BY <1>3, <1>4, <2>1, <2>2, <2>4
<1>8. CASE nd[o] = cache[o] /\ cache[o] # disk[o]
  <2>1. Valid(nd[o]) /\ nd[o].seq = header.seq + 1 /\ nd[w] = header
    BY <1>3, <1>8
  <2>2. Winner(nd) = o
    BY <1>1, <1>6, <2>1, WinnerOf
  <2>3. nd[w].seq < nd[o].seq /\ nd[w].roots <= nd[o].roots
    BY <1>1, <1>4, <1>6, <1>8, <2>1
  <2>4. \A i \in Slots : nd[i] = cache[i]
    BY <1>1, <1>3, <1>8
  <2> QED
    BY <1>1, <1>4, <2>1, <2>2, <2>3, <2>4
<1> QED
  BY <1>7, <1>8

\* Every step of the engine, of the operating system and of a power failure
\* preserves the invariant.
LEMMA NextInv == Inv /\ [Next]_vars => Inv'
<1> SUFFICES ASSUME Inv, [Next]_vars PROVE Inv'
  OBVIOUS
<1> DEFINE w == Winner(disk)
           o == 1 - w
<1>a. w \in Slots /\ o \in Slots /\ 1 - o = w /\ o # w /\ \A i \in Slots : i = w \/ i = o
  BY WinnerIsSlot DEF Slots
<1>b. TypeOK /\ SlotOrder /\ HeaderLag
  BY DEF Inv
<1>c. /\ cache \in [Slots -> Header \cup {Torn}] /\ disk \in [Slots -> Header \cup {Torn}]
      /\ header \in Header /\ header.seq \in Nat /\ header.roots \in Nat /\ header.key \in Nat
      /\ roots \in Nat /\ key \in Nat /\ synced \in Nat /\ crashes \in Nat
  BY <1>b DEF TypeOK, Header
<1>d. \A h \in Header \cup {Torn} : h.seq \in Int /\ h.roots \in Nat /\ h.key \in Nat
  BY HeaderFacts
<1>1. CASE Stage
  <2>1. TypeOK'
    BY <1>1, <1>b DEF Stage, TypeOK
  <2>2. SlotOrder'
    BY <1>1, SlotsUnchanged DEF Stage
  <2>3. HeaderLag'
    BY <1>1, <1>b, <1>c, SlotsUnchanged DEF Stage, HeaderLag, Active
  <2> QED
    BY <2>1, <2>2, <2>3 DEF Inv
<1>2. CASE StageRekey
  <2>1. TypeOK'
    BY <1>2, <1>b DEF StageRekey, TypeOK
  <2>2. SlotOrder'
    BY <1>2, SlotsUnchanged DEF StageRekey
  <2>3. HeaderLag'
    BY <1>2, <1>b, <1>c, SlotsUnchanged DEF StageRekey, HeaderLag, Active
  <2> QED
    BY <2>1, <2>2, <2>3 DEF Inv
<1>3. CASE PublishFlush
  <2>1. TypeOK'
    BY <1>3, <1>b DEF PublishFlush, TypeOK
  <2>2. /\ Valid(cache[Winner(cache)])
        /\ LET v == Winner(cache) IN
           Valid(cache[1 - v]) => cache[1 - v].seq < cache[v].seq /\ cache[1 - v].roots <= cache[v].roots
        /\ Active(cache) = header \/ Active(cache).seq = header.seq + 1
    BY <1>a, <1>b, <1>c, SettledSlots DEF SlotOrder, Active
  <2>3. SlotOrder'
    BY <1>3, <2>2 DEF PublishFlush, SlotOrder, Winner, Valid
  <2>4. \A i \in Slots : Valid(cache[i]) => cache[i].roots \in Nat
    BY <1>c, <1>d
  <2>5. \A i \in Slots : Valid(cache'[i]) =>
          /\ cache'[i].roots <= synced'
          /\ cache'[i].seq > header'.seq => cache'[i].key >= header'.key /\ cache'[i].roots >= header'.roots
    BY <1>3, <1>b, <1>c, <2>4 DEF PublishFlush, HeaderLag
  <2>6. Active(disk)' = header' \/ Active(disk)'.seq = header'.seq + 1
    BY <1>3, <2>2 DEF PublishFlush, Active, Winner, Valid
  <2>7. HeaderLag'
    BY <1>3, <1>b, <1>c, <2>5, <2>6 DEF PublishFlush, HeaderLag
  <2> QED
    BY <2>1, <2>3, <2>7 DEF Inv
<1>4. CASE CommitWrite
  <2>1. NextHeader \in Header /\ NextHeader.seq = header.seq + 1
        /\ NextHeader.roots = roots /\ NextHeader.key = key /\ Valid(NextHeader)
    BY <1>c DEF NextHeader, Header, Valid
  <2>2. cache = disk
    <3>1. Active(cache).seq = header.seq
      BY <1>4, <1>c, <1>d, <2>1, WinnerIsSlot DEF CommitWrite, Active
    <3> QED
      BY <3>1, <1>c, CacheWinner
  <2>3. Active(disk) = header
    BY <1>4, <1>b, <1>c, <1>d, <2>1, <2>2 DEF CommitWrite, HeaderLag, Active
  <2>4. cache' = [cache EXCEPT ![o] = NextHeader] /\ UNCHANGED <<disk, header, roots, key, synced, crashes>>
    BY <1>4, <2>2 DEF CommitWrite, Inactive
  <2>5. cache'[o] = NextHeader /\ cache'[w] = header /\ disk[w] = header
    BY <1>a, <1>c, <2>2, <2>3, <2>4 DEF Active
  <2>6. TypeOK'
    BY <1>4, <1>a, <1>b, <2>1, <2>4 DEF TypeOK, CommitWrite
  <2>7. Winner(disk') = w /\ SlotOrder'
    BY <1>b, <2>1, <2>4, <2>5 DEF SlotOrder, Winner, Valid
  <2>8. Winner(cache') = o
    BY <1>a, <1>c, <2>1, <2>5, <2>6, WinnerOf DEF TypeOK
  <2>9. synced = roots /\ header.key <= key /\ header.roots <= roots
    BY <1>4, <1>b DEF CommitWrite, HeaderLag
  <2>10. Valid(header) => header.roots <= synced
    BY <2>9
  <2>11. \A i \in Slots : Valid(cache'[i]) =>
          /\ cache'[i].roots <= synced'
          /\ cache'[i].seq > header'.seq => cache'[i].key >= header'.key /\ cache'[i].roots >= header'.roots
    BY <1>a, <1>c, <2>1, <2>4, <2>5, <2>9
  <2>12. Active(cache)' = [seq |-> header'.seq + 1, roots |-> roots', key |-> key']
    BY <2>4, <2>5, <2>8 DEF Active, NextHeader
  <2>13. HeaderLag'
    <3>1. pc' = "written"
      BY <1>4 DEF CommitWrite
    <3>2. Active(disk)' = header'
      BY <2>3, <2>4, <2>7 DEF Active
    <3> QED
      BY <1>c, <2>4, <2>9, <2>11, <2>12, <3>1, <3>2 DEF HeaderLag
  <2> QED
    BY <2>6, <2>7, <2>13 DEF Inv
<1>5. CASE CommitRefused
  <2>1. TypeOK'
    BY <1>5, <1>b DEF CommitRefused, TypeOK
  <2>2. SlotOrder'
    BY <1>5, SlotsUnchanged DEF CommitRefused
  <2>3. HeaderLag'
    BY <1>5, <1>b, <1>c, SlotsUnchanged DEF CommitRefused, HeaderLag, Active
  <2> QED
    BY <2>1, <2>2, <2>3 DEF Inv
<1>6. CASE CommitFlush
  <2> DEFINE v == Winner(cache)
  <2>1. header' = NextHeader /\ disk' = cache /\ cache' = cache /\ pc' = "idle"
        /\ UNCHANGED <<roots, key, synced, crashes>>
    BY <1>6 DEF CommitFlush
  <2>2. cache[v] = NextHeader /\ synced = roots
    BY <1>6, <1>b DEF CommitFlush, HeaderLag, Active, NextHeader
  <2>3. NextHeader \in Header /\ NextHeader.seq = header.seq + 1
        /\ NextHeader.roots = roots /\ NextHeader.key = key
    BY <1>c DEF NextHeader, Header
  <2>4. TypeOK'
    BY <1>b, <2>1, <2>3 DEF TypeOK
  <2>5. /\ Valid(cache[v])
        /\ Valid(cache[1 - v]) => cache[1 - v].seq < cache[v].seq /\ cache[1 - v].roots <= cache[v].roots
    BY <1>a, <1>b, <1>c, SettledSlots DEF SlotOrder
  <2>6. SlotOrder'
    BY <2>1, <2>5 DEF SlotOrder, Winner, Valid
  <2>7. \A i \in Slots : Valid(cache[i]) => cache[i].roots <= synced /\ ~ (cache[i].seq > NextHeader.seq)
    <3>1. \A i \in Slots : i = v \/ i = 1 - v
      BY WinnerIsSlot
    <3>2. \A i \in Slots : cache[i].seq \in Int
      BY <1>c, <1>d
    <3>3. v \in Slots /\ 1 - v \in Slots
      BY WinnerIsSlot
    <3>4. \A i \in Slots : Valid(cache[i]) => ~ (cache[i].seq > NextHeader.seq)
      BY <1>c, <2>2, <2>3, <2>5, <3>1, <3>2, <3>3
    <3> QED
      BY <1>b, <3>4 DEF HeaderLag
  <2>8. Active(disk)' = header'
    BY <2>1, <2>2 DEF Active, Winner, Valid
  <2>9. HeaderLag'
    BY <1>c, <2>1, <2>2, <2>3, <2>7, <2>8 DEF HeaderLag
  <2> QED
    BY <2>4, <2>6, <2>9 DEF Inv
<1>7. CASE FlushFails
  <2>1. TypeOK'
    BY <1>7, <1>b DEF FlushFails, TypeOK
  <2>2. SlotOrder'
    BY <1>7, SlotsUnchanged DEF FlushFails
  <2>3. HeaderLag'
    BY <1>7, <1>b, <1>c, SlotsUnchanged DEF FlushFails, HeaderLag, Active
  <2> QED
    BY <2>1, <2>2, <2>3 DEF Inv
<1>8. ASSUME NEW i \in Slots, WriteBack(i) PROVE Inv'
  <2>1. cache[i] # disk[i] /\ disk' = [disk EXCEPT ![i] = cache[i]]
        /\ UNCHANGED <<cache, header, roots, key, synced, pc, crashes>>
    BY <1>8 DEF WriteBack
  <2>2. i = o
    BY <1>a, <1>b, <2>1 DEF SlotOrder
  <2>3. disk' = cache
    BY <1>a, <1>b, <1>c, <2>1, <2>2 DEF SlotOrder
  <2>4. TypeOK'
    BY <1>b, <2>1, <2>3 DEF TypeOK
  <2>5. LET v == Winner(cache) IN
        /\ Valid(cache[v])
        /\ Valid(cache[1 - v]) => cache[1 - v].seq < cache[v].seq /\ cache[1 - v].roots <= cache[v].roots
        /\ cache[v] = header \/ cache[v].seq = header.seq + 1
    BY <1>a, <1>b, <1>c, SettledSlots, ZenonT(30) DEF SlotOrder
  <2>6. SlotOrder'
    BY <2>1, <2>3, <2>5 DEF SlotOrder, Winner, Valid
  <2>7. Winner(disk') = Winner(cache) /\ Winner(cache') = Winner(cache)
    BY <2>1, <2>3 DEF Winner, Valid
  <2>8. HeaderLag'
    BY <1>b, <2>1, <2>3, <2>5, <2>7 DEF HeaderLag, Active
  <2> QED
    BY <2>4, <2>6, <2>8 DEF Inv
<1>9. CASE Crash
  <2>1. PICK d \in [Slots -> {"old", "new", "torn"}] :
          disk' = [i \in Slots |-> IF cache[i] = disk[i] \/ d[i] = "old" THEN disk[i]
                                   ELSE IF d[i] = "new" THEN cache[i] ELSE Torn]
    BY <1>9 DEF Crash
  <2>2. cache' = disk' /\ pc' = "closed" /\ crashes' = crashes + 1 /\ UNCHANGED <<header, roots, key, synced>>
    BY <1>9 DEF Crash
  <2>3. disk' \in [Slots -> Header \cup {Torn}]
    BY <1>c, <2>1
  <2>4. disk'[w] = disk[w] /\ disk'[o] \in {disk[o], cache[o], Torn}
    BY <1>a, <1>b, <2>1 DEF SlotOrder
  <2>5. LET v == Winner(disk') IN
        /\ Valid(disk'[v])
        /\ Valid(disk'[1 - v]) => disk'[1 - v].seq < disk'[v].seq /\ disk'[1 - v].roots <= disk'[v].roots
        /\ disk'[v] = header \/ disk'[v].seq = header.seq + 1
        /\ \A i \in Slots : Valid(disk'[i]) =>
             /\ disk'[i].roots <= synced
             /\ disk'[i].seq > header.seq => disk'[i].key >= header.key /\ disk'[i].roots >= header.roots
    BY <2>3, <2>4, SettledSlots
  <2>6. TypeOK'
    BY <1>b, <1>c, <2>2, <2>3 DEF TypeOK
  <2>7. SlotOrder'
    BY <2>2, <2>5 DEF SlotOrder, Winner, Valid
  <2>8. HeaderLag'
    BY <2>2, <2>5 DEF HeaderLag, Active, Winner, Valid
  <2> QED
    BY <2>6, <2>7, <2>8 DEF Inv
<1>10. ASSUME NEW k \in 0 .. MaxKey, Open(k) PROVE Inv'
  <2>1. /\ pc = "closed" /\ pc' = "idle" /\ UNCHANGED <<cache, disk, crashes>>
        /\ header' = Active(cache) /\ header'.key = key'
        /\ roots' = header'.roots /\ synced' = header'.roots
    BY <1>10 DEF Open, Active
  <2>2. cache = disk /\ header' = disk[w] /\ Winner(cache) = w
    BY <1>b, <2>1 DEF HeaderLag, Active
  <2>3. disk[w] \in Header /\ key' \in Nat
    BY <1>a, <1>b, <1>c, <2>1, <2>2, HeaderFacts DEF SlotOrder
  <2>4. disk[w].roots \in Nat /\ disk[w].seq \in Nat /\ disk[w].key \in Nat
    BY <2>3 DEF Header
  <2>5. TypeOK'
    BY <1>b, <2>1, <2>2, <2>3, <2>4 DEF TypeOK
  <2>6. SlotOrder'
    BY <1>b, <2>1, <2>2 DEF SlotOrder, Winner, Valid
  <2>7. Winner(disk') = w /\ Winner(cache') = w
    BY <2>1, <2>2, SlotsUnchanged
  <2>8. \A i \in Slots : Valid(cache'[i]) =>
          cache'[i].roots <= synced' /\ ~ (cache'[i].seq > header'.seq)
    <3>1. disk[o].seq \in Int
      BY <1>a, <1>c, <1>d
    <3> QED
      BY <1>a, <1>b, <2>1, <2>2, <2>4, <3>1 DEF SlotOrder
  <2>9. HeaderLag'
    BY <2>1, <2>2, <2>4, <2>7, <2>8 DEF HeaderLag, Active
  <2> QED
    BY <2>5, <2>6, <2>9 DEF Inv
<1>11. CASE UNCHANGED vars
  <2>1. TypeOK'
    BY <1>11, <1>b DEF vars, TypeOK
  <2>2. SlotOrder'
    BY <1>11, SlotsUnchanged DEF vars
  <2>3. HeaderLag'
    BY <1>11, <1>b, SlotsUnchanged DEF vars, HeaderLag, Active
  <2> QED
    BY <2>1, <2>2, <2>3 DEF Inv
<1> QED
  BY <1>1, <1>2, <1>3, <1>4, <1>5, <1>6, <1>7, <1>8, <1>9, <1>10, <1>11 DEF Next

\* The invariant holds in every reachable state of the header protocol.
THEOREM Invariance == Spec => []Inv
<1>1. Init => Inv
  BY InitInv
<1>2. Inv /\ [Next]_vars => Inv'
  BY NextInv
<1> QED
  BY <1>1, <1>2, PTL DEF Spec

\* A power failure anywhere in publish leaves a container that opens on the
\* promised header or on the one in flight (ContainerHeader::load / commit).
THEOREM Durability == Spec => []CommittedSurvives
<1>1. Inv => CommittedSurvives
  <2> SUFFICES ASSUME Inv, pc = "closed"
               PROVE  Loadable(cache) /\ (Active(cache) = header \/ Active(cache).seq = header.seq + 1)
    BY DEF CommittedSurvives, Active
  <2>1. cache = disk /\ Valid(disk[Winner(disk)])
    BY DEF Inv, HeaderLag, SlotOrder
  <2>2. Winner(disk) \in {0, 1}
    BY WinnerIsSlot DEF Slots
  <2>3. Loadable(cache)
    BY <2>1, <2>2 DEF Loadable
  <2> QED
    BY <2>1, <2>3 DEF Inv, HeaderLag, Active
<1> QED
  BY <1>1, Invariance, PTL

\* The barrier of Engine::publish: no header on stable storage names roots
\* whose blocks might not be there.
THEOREM Barrier == Spec => []NamesDurableRoots
<1>1. Inv => NamesDurableRoots
  <2> SUFFICES ASSUME Inv, NEW i \in Slots, Valid(disk[i]) PROVE disk[i].roots <= synced
    BY DEF NamesDurableRoots
  <2> DEFINE w == Winner(disk)
             o == 1 - w
  <2>1. w \in Slots /\ o \in Slots /\ (i = w \/ i = o)
    BY WinnerIsSlot
  <2>2. disk[w].roots \in Nat /\ disk[o].roots \in Nat /\ synced \in Nat
    BY <2>1, HeaderFacts DEF Inv, TypeOK
  <2>3. disk[w].roots <= synced
    BY <2>1 DEF Inv, SlotOrder, HeaderLag
  <2>4. Valid(disk[o]) => disk[o].roots <= disk[w].roots
    BY DEF Inv, SlotOrder
  <2> QED
    BY <2>1, <2>2, <2>3, <2>4
<1> QED
  BY <1>1, Invariance, PTL

\* The header in memory only moves forward in commit_seq and never to an older
\* root key: commits, failed flushes, crashes and reopens never roll it back.
THEOREM Monotone == Spec => NoRollback
<1>1. ASSUME Inv, [Next]_vars
      PROVE  [header' # header => header'.seq > header.seq /\ header'.key >= header.key]_vars
  <2>0. header \in Header /\ header.seq \in Nat /\ header.key \in Nat /\ key \in Nat
    BY <1>1 DEF Inv, TypeOK, Header
  <2> SUFFICES ASSUME Next, header' # header
               PROVE  header'.seq > header.seq /\ header'.key >= header.key
    BY <1>1
  <2>1. CASE CommitFlush
    <3>1. header'.seq = header.seq + 1 /\ header'.key = key
      BY <2>1 DEF CommitFlush, NextHeader
    <3>2. header.key <= key
      BY <1>1, <2>1 DEF CommitFlush, Inv, HeaderLag
    <3> QED
      BY <2>0, <3>1, <3>2
  <2>2. ASSUME NEW k \in 0 .. MaxKey, Open(k) PROVE header'.seq > header.seq /\ header'.key >= header.key
    <3>1. cache = disk /\ header' = Active(disk)
      BY <1>1, <2>2 DEF Open, Inv, HeaderLag, Active
    <3>2. header'.seq = header.seq + 1
      BY <1>1, <3>1 DEF Inv, HeaderLag
    <3>3. Winner(cache) \in Slots /\ Valid(cache[Winner(cache)]) /\ header' = cache[Winner(cache)]
      BY <1>1, <3>1, WinnerIsSlot DEF Inv, SlotOrder, Active
    <3>4. header'.seq > header.seq
      BY <2>0, <3>2
    <3> QED
      BY <1>1, <3>3, <3>4 DEF Inv, HeaderLag
  <2>3. CASE UNCHANGED header
    BY <2>3
  <2> QED
    BY <2>1, <2>2, <2>3 DEF Next, Stage, StageRekey, PublishFlush, CommitWrite,
         CommitRefused, FlushFails, WriteBack, Crash
<1> QED
  BY <1>1, Invariance, PTL DEF Spec, NoRollback

\* The double-buffered slots implement one header that is replaced atomically:
\* every step is a proposal, its taking effect, its loss, or a stutter.
THEOREM Refinement == Spec => RefinesAtomicHeader
<1>1. Init => Atomic!Init
  <2> SUFFICES ASSUME Init PROVE Atomic!Init
    OBVIOUS
  <2>1. disk[0].seq = 0 /\ disk[1] = [seq |-> 1, roots |-> 1, key |-> 0] /\ cache = disk
    BY DEF Init, Slots
  <2>2. Winner(disk) = 1
    BY <2>1 DEF Winner, Valid
  <2> QED
    BY <2>1, <2>2 DEF Atomic!Init, Current, Proposed, Active
<1>2. ASSUME Inv, [Next]_vars
      PROVE  [Atomic!Next]_<<Current, Proposed>>
  <2> DEFINE w == Winner(disk)
             o == 1 - w
  <2>a. w \in Slots /\ o \in Slots /\ 1 - o = w /\ o # w /\ \A i \in Slots : i = w \/ i = o
    BY WinnerIsSlot DEF Slots
  <2>b. /\ cache \in [Slots -> Header \cup {Torn}] /\ disk \in [Slots -> Header \cup {Torn}]
        /\ header \in Header /\ header.seq \in Nat
        /\ roots \in Nat /\ key \in Nat
    BY <1>2 DEF Inv, TypeOK, Header
  <2>c. cache # disk => Active(cache) # Torn
    BY <1>2, <2>b, CacheWinner DEF Torn
  <2>1. ASSUME disk' = cache, cache' = cache PROVE [Atomic!Next]_<<Current, Proposed>>
    <3>1. Current' = Active(cache) /\ Proposed' = Torn
      BY <2>1 DEF Current, Proposed, Active, Winner, Valid
    <3>2. CASE cache = disk
      BY <3>1, <3>2 DEF Current, Proposed
    <3>3. CASE cache # disk
      BY <2>c, <3>1, <3>3 DEF Current, Proposed, Atomic!Next, Atomic!TakeEffect
    <3> QED
      BY <3>2, <3>3
  <2>2. ASSUME UNCHANGED <<cache, disk>> PROVE [Atomic!Next]_<<Current, Proposed>>
    BY <2>2 DEF Current, Proposed, Active, Winner, Valid
  <2>3. CASE CommitWrite
    <3>1. NextHeader \in Header /\ NextHeader.seq = header.seq + 1 /\ Valid(NextHeader)
      BY <2>b DEF NextHeader, Header, Valid
    <3>2. cache = disk
      <4>1. Active(cache).seq \in Int
        BY <2>b, HeaderFacts, WinnerIsSlot DEF Active
      <4>2. Active(cache).seq = header.seq
        BY <2>3, <2>b, <3>1, <4>1 DEF CommitWrite, Active
      <4> QED
        BY <1>2, <2>b, <4>2, CacheWinner
    <3>3. cache' = [cache EXCEPT ![o] = NextHeader] /\ disk' = disk
      BY <2>3, <3>2 DEF CommitWrite, Inactive
    <3>4. disk[w].seq = header.seq
      <4>1. disk[w].seq \in Int
        BY <2>a, <2>b, HeaderFacts
      <4> QED
        BY <2>3, <2>b, <3>1, <3>2, <4>1 DEF CommitWrite
    <3>5. cache'[o] = NextHeader /\ cache'[w] = disk[w] /\ cache' \in [Slots -> Header \cup {Torn}]
      BY <2>a, <2>b, <3>1, <3>2, <3>3
    <3>6. Winner(cache') = o
      BY <2>a, <2>b, <3>1, <3>4, <3>5, WinnerOf
    <3>7. Current' = Current /\ Current.seq = header.seq
      BY <3>3, <3>4 DEF Current, Active, Winner, Valid
    <3>8. cache' # disk'
      <4>1. NextHeader.seq # disk[w].seq
        BY <2>b, <3>1, <3>4
      <4>2. Winner(disk') = w
        BY <3>3 DEF Winner, Valid
      <4> QED
        BY <2>a, <3>6, <4>2
    <3>9. Proposed = Torn /\ Proposed' = NextHeader
      BY <3>2, <3>5, <3>6, <3>8 DEF Proposed, Active
    <3> QED
      BY <3>1, <3>7, <3>9 DEF Atomic!Next, Atomic!Propose
  <2>4. ASSUME NEW i \in Slots, WriteBack(i) PROVE [Atomic!Next]_<<Current, Proposed>>
    <3>1. disk' = cache /\ cache' = cache
      BY <1>2, <2>a, <2>b, <2>4 DEF WriteBack, Inv, SlotOrder
    <3> QED
      BY <2>1, <3>1
  <2>5. CASE Crash
    <3>1. PICK d \in [Slots -> {"old", "new", "torn"}] :
            disk' = [i \in Slots |-> IF cache[i] = disk[i] \/ d[i] = "old" THEN disk[i]
                                     ELSE IF d[i] = "new" THEN cache[i] ELSE Torn]
      BY <2>5 DEF Crash
    <3>2. cache' = disk' /\ Proposed' = Torn
      BY <2>5 DEF Crash, Proposed
    <3>3. disk'[w] = disk[w] /\ disk' \in [Slots -> Header \cup {Torn}]
      BY <1>2, <2>a, <2>b, <3>1 DEF Inv, SlotOrder
    <3>4. CASE cache = disk
      <4>1. disk' = disk
        BY <2>b, <3>1, <3>4
      <4> QED
        BY <3>2, <3>4, <4>1 DEF Proposed, Current, Active, Winner, Valid
    <3>5. CASE cache # disk /\ disk'[o] = cache[o]
      <4>1. disk' = cache
        BY <1>2, <2>a, <2>b, <3>3, <3>5 DEF Inv, SlotOrder
      <4>2. Current' = Active(cache)
        BY <4>1 DEF Current, Active, Winner, Valid
      <4> QED
        BY <2>c, <3>2, <3>5, <4>2 DEF Proposed, Atomic!Next, Atomic!TakeEffect
    <3>6. CASE cache # disk /\ disk'[o] # cache[o]
      <4>1. disk'[o] \in {disk[o], Torn} /\ Valid(disk[w])
            /\ (Valid(disk[o]) => disk[o].seq < disk[w].seq)
        BY <1>2, <2>a, <3>1, <3>6 DEF Inv, SlotOrder
      <4>2. Winner(disk') = w
        BY <2>a, <3>3, <4>1, HeaderFacts, WinnerOf
      <4>3. Current' = Current
        BY <3>3, <4>2 DEF Current, Active
      <4> QED
        BY <2>c, <3>2, <3>6, <4>3 DEF Proposed, Atomic!Next, Atomic!Drop
    <3> QED
      BY <3>4, <3>5, <3>6
  <2> QED
    BY <1>2, <2>1, <2>2, <2>3, <2>4, <2>5 DEF Next, vars, Stage, StageRekey, PublishFlush,
         CommitRefused, CommitFlush, FlushFails, Open
<1> QED
  BY <1>1, <1>2, Invariance, PTL DEF Spec, RefinesAtomicHeader, Atomic!Spec

=============================================================================
