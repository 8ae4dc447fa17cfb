---------------------------- MODULE MCFrameLoop ----------------------------
(* A small instance of FrameLoop for TLC. *)
EXTENDS FrameLoop

\* The bridge has classes for the first three.
LabelNeedles ==
  [tank |-> {"tank"}, truck |-> {"truck"}, soldier |-> {"soldier"}, ifv |-> {"ifv"}, smoke |-> {}]
Labels == DOMAIN LabelNeedles

Seen(label, cell) == [label |-> label, cell |-> cell]

\* A column, a vehicle beside one that cannot be sent, a person in smoke, and an
\* empty frame.
Scenes ==
  {<<Seen("tank", 1), Seen("truck", 2)>>, <<Seen("ifv", 1), Seen("tank", 2)>>,
   <<Seen("soldier", 1), Seen("smoke", 1)>>, <<>>}
=============================================================================
