----------------------------- MODULE MCC2Engine -----------------------------
(* Small instances of C2Engine for TLC. *)
EXTENDS C2Engine, TLC

CONSTANTS s1, s2, vehicle, other

\* Every spot is the same place: vehicles that stand still.
Pinned == [p \in Spot \X Spot |-> [bearing |-> 0, length |-> 0]]

\* A spot "a" in the middle, and spots some way to the north-north-west, the
\* north-north-east and the south of it, as seen from "a"; every other pair is
\* too close to be a movement.
Compass ==
  [p \in Spot \X Spot |->
     CASE p = <<"a", "nnw">> -> [bearing |-> 340, length |-> 40]
       [] p = <<"a", "nne">> -> [bearing |-> 20, length |-> 40]
       [] p = <<"a", "s">> -> [bearing |-> 180, length |-> 40]
       [] OTHER -> [bearing |-> 0, length |-> 0]]

SourceSymmetry == Permutations(Source)

\* Two cells north of the equator.
North == {0, 1}
=============================================================================
