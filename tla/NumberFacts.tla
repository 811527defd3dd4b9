---------------------------- MODULE NumberFacts ----------------------------
(***************************************************************************)
(* Facts about numbers the proofs share: every set of naturals has a least *)
(* element, induction in the form of a set of naturals, and what Max and   *)
(* Min of the community modules are.                                       *)
(***************************************************************************)
EXTENDS Integers, FiniteSetsExt, WellFoundedInduction, TLAPS

\* Every set of naturals with an element has a least one.
LEMMA NatMin == ASSUME NEW T \in SUBSET Nat, T # {} PROVE \E m \in T : \A n \in T : m <= n
<1>1. IsWellFoundedOn({ss \in Nat \X Nat : ss[1] < ss[2]}, Nat)
  BY NatLessThanWellFounded DEF OpToRel
<1>2. PICK m \in T : \A y \in T : ~ (<<y, m>> \in {ss \in Nat \X Nat : ss[1] < ss[2]})
  BY <1>1, WFMin
<1>3. \A y \in T : ~ (y < m)
  BY <1>2
<1> QED
  BY <1>3

\* Induction: a set of naturals closed under successor from 0 is all of them.
LEMMA NatInd == ASSUME NEW T \in SUBSET Nat, 0 \in T, \A n \in T : n + 1 \in T PROVE T = Nat
<1> SUFFICES ASSUME Nat \ T # {} PROVE FALSE
  OBVIOUS
<1>1. PICK m \in Nat \ T : \A n \in Nat \ T : m <= n
  BY NatMin
<1>2. m # 0 /\ m - 1 \in Nat
  BY <1>1
<1>3. m - 1 \in T
  BY <1>1, <1>2
<1> QED
  BY <1>1, <1>2, <1>3

\* The greatest element of a set of numbers, when there is one.
LEMMA MaxIs ==
  ASSUME NEW S \in SUBSET Int, NEW m \in S, \A x \in S : x <= m
  PROVE  Max(S) = m
<1>1. \E x \in S : \A y \in S : x >= y
  OBVIOUS
<1>2. Max(S) \in S /\ \A y \in S : Max(S) >= y
  BY <1>1 DEF Max
<1>3. Max(S) \in Int
  BY <1>2
<1>4. Max(S) >= m /\ m >= Max(S)
  BY <1>2
<1> QED
  BY <1>3, <1>4

\* The least element of a set of numbers, when there is one.
LEMMA MinIs ==
  ASSUME NEW S \in SUBSET Int, NEW m \in S, \A x \in S : m <= x
  PROVE  Min(S) = m
<1>1. \E x \in S : \A y \in S : x =< y
  OBVIOUS
<1>2. Min(S) \in S /\ \A y \in S : Min(S) =< y
  BY <1>1 DEF Min
<1>3. Min(S) \in Int
  BY <1>2
<1>4. Min(S) =< m /\ m =< Min(S)
  BY <1>2
<1> QED
  BY <1>3, <1>4

\* Max of two numbers.
LEMMA MaxOfTwo ==
  ASSUME NEW a \in Int, NEW b \in Int
  PROVE  Max({a, b}) = IF a <= b THEN b ELSE a
<1> DEFINE S == {a, b}
           m == IF a <= b THEN b ELSE a
<1>1. S \in SUBSET Int /\ m \in S /\ \A x \in S : x <= m
  OBVIOUS
<1> HIDE DEF S, m
<1>2. Max(S) = m
  BY <1>1, MaxIs
<1> QED
  BY <1>2 DEF S, m

\* Min of two numbers.
LEMMA MinOfTwo ==
  ASSUME NEW a \in Int, NEW b \in Int
  PROVE  Min({a, b}) = IF a <= b THEN a ELSE b
<1> DEFINE S == {a, b}
           m == IF a <= b THEN a ELSE b
<1>1. S \in SUBSET Int /\ m \in S /\ \A x \in S : m <= x
  OBVIOUS
<1> HIDE DEF S, m
<1>2. Min(S) = m
  BY <1>1, MinIs
<1> QED
  BY <1>2 DEF S, m

\* Max of three numbers is above each.
LEMMA MaxOfThree ==
  ASSUME NEW a \in Int, NEW b \in Int, NEW c \in Int
  PROVE  /\ Max({a, b, c}) \in Int
         /\ Max({a, b, c}) >= a /\ Max({a, b, c}) >= b /\ Max({a, b, c}) >= c
<1> DEFINE S == {a, b, c}
           m == IF a <= b THEN IF b <= c THEN c ELSE b ELSE IF a <= c THEN c ELSE a
<1>1. S \in SUBSET Int /\ m \in S /\ (\A x \in S : x <= m) /\ a \in S /\ b \in S /\ c \in S
  OBVIOUS
<1> HIDE DEF S, m
<1>2. Max(S) = m
  BY <1>1, MaxIs
<1> QED
  BY <1>1, <1>2 DEF S

\* A set of naturals with a bound has a greatest element.
LEMMA MaxExists ==
  ASSUME NEW S \in SUBSET Nat, S # {}, NEW m \in Nat, \A x \in S : x <= m
  PROVE  Max(S) \in S /\ \A x \in S : x <= Max(S)
<1> DEFINE D == {m - x : x \in S}
<1>0. \A x \in S : x \in Nat /\ m - x \in Nat
  OBVIOUS
<1>1. D \in SUBSET Nat /\ D # {}
  BY <1>0
<1>2. PICK d \in D : \A y \in D : d <= y
  BY <1>1, NatMin
<1>3. PICK x \in S : d = m - x
  OBVIOUS
<1>4. \A y \in S : m - y \in D
  OBVIOUS
<1>5. ASSUME NEW y \in S PROVE y <= x
  <2>1. m - x <= m - y
    BY <1>2, <1>3, <1>4
  <2> QED
    BY <2>1, <1>0
<1>6. Max(S) = x
  BY <1>5, MaxIs
<1> QED
  BY <1>5, <1>6

\* A set of naturals has a least element.
LEMMA MinExists ==
  ASSUME NEW S \in SUBSET Nat, S # {}
  PROVE  Min(S) \in S /\ \A x \in S : Min(S) <= x
<1>1. PICK m \in S : \A y \in S : m <= y
  BY NatMin
<1>2. Min(S) = m
  BY <1>1, MinIs
<1> QED
  BY <1>1, <1>2
============================================================================
