---------------------------- MODULE MCEdgeEmitter ----------------------------
(* Small instances of EdgeEmitter for TLC. *)
EXTENDS EdgeEmitter

CONSTANTS a, b, smoke
=============================================================================
