------------------------- MODULE MCEnsembleDetector -------------------------
(* A small instance of EnsembleDetector for TLC. *)
EXTENDS EnsembleDetector

CONSTANTS MuaythaiMax, GdinoMax

Strip(x1, x2) == [x1 |-> x1, x2 |-> x2, y1 |-> 0, y2 |-> 1]

\* The first overlaps each of the others, one of them by a half exactly; those
\* overlap by less.
Boxes == {Strip(0, 4), Strip(1, 4), Strip(0, 2)}

SeqsUpTo(S, n) == UNION {[1 .. k -> S] : k \in 0 .. n}

MuaythaiOutputs ==
  SeqsUpTo([raw : {"tank", "car"}, box : Boxes, conf : {1, 2}], MuaythaiMax)
\* Of two rules the first decides; the other text is listed, and no rule has it.
GdinoRaws ==
  {[text |-> "tank smoke", needles |-> {"tank", "smoke"}], [text |-> "truck", needles |-> {}]}
GdinoOutputs ==
  SeqsUpTo([raw : GdinoRaws, box : Boxes, conf : {1, 2}], GdinoMax)
Half == <<1, 2>>
=============================================================================
