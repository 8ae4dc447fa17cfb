----------------------------- MODULE MCStreLink -----------------------------
(* Small deployments of StreLink for TLC. *)
EXTENDS StreLink, TLC

CONSTANTS p1, p2, s1, s2, f1, f2

OwnSource == (p1 :> s1) @@ (p2 :> s2)
OwnFile == (p1 :> f1) @@ (p2 :> f2)

\* Two processes started on one host with the same configuration.
SharedSource == [p \in {p1, p2} |-> s1]
SharedFile == [p \in {p1, p2} |-> f1]

OneSource == p1 :> s1
OneFile == p1 :> f1
=============================================================================
