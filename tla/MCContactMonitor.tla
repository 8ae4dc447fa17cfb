-------------------------- MODULE MCContactMonitor --------------------------
(* A small instance of ContactMonitor for TLC. *)
EXTENDS ContactMonitor, TLC

CONSTANTS s1, s2

SourceSymmetry == Permutations(Source)
=============================================================================
