--------------------------- MODULE AtomicHeader ---------------------------
(***************************************************************************)
(* What the header slots promise the engine: one current header that is    *)
(* replaced in a single step, by a successor that was proposed before.     *)
(* A proposal that has not taken effect may be dropped (a power failure),  *)
(* and one whose caller was told of an error may still take effect.        *)
(***************************************************************************)
EXTENDS Integers

CONSTANTS Header, None, First

VARIABLES current, proposed

Init == current = First /\ proposed = None

Propose ==
  /\ proposed = None
  /\ proposed' \in Header
  /\ proposed'.seq = current.seq + 1
  /\ UNCHANGED current

TakeEffect ==
  /\ proposed # None
  /\ current' = proposed
  /\ proposed' = None

Drop ==
  /\ proposed # None
  /\ proposed' = None
  /\ UNCHANGED current

Next == Propose \/ TakeEffect \/ Drop

Spec == Init /\ [][Next]_<<current, proposed>>
=============================================================================
