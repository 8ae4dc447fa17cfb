------------------------- MODULE MCOntologyFactory -------------------------
(* Small instances of OntologyFactory for TLC. *)
EXTENDS OntologyFactory, TLC

CONSTANTS e1, e2

\* Events that can be delivered are interchangeable.
EventSymmetry == Permutations(Event \ Poison)
=============================================================================
