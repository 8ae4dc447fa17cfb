--------------------------- MODULE ObservationFeed ---------------------------
(***************************************************************************)
(* What the tactical wire promises, without counters, files or datagrams:  *)
(* edge processes log messages in the order they produce them, and in each *)
(* run C2 shows some of them, every one at most once and those of one      *)
(* process in that order.  Nothing is promised about which are shown, nor, *)
(* across runs of C2, about what is shown again.                           *)
(***************************************************************************)
EXTENDS Integers, Sequences

CONSTANTS
  Process,      \* edge processes
  Kind,         \* types of message
  MaxMessages   \* bound: messages one process produces

VARIABLES
  log,    \* messages the edge processes have logged
  run,    \* run of C2
  feed    \* by kind, what C2 has shown, each entry with the run that showed it

vars == <<log, run, feed>>

Message == [from : Process, kind : Kind, n : 1 .. MaxMessages]

Init ==
  /\ log = {}
  /\ run = 1
  /\ feed = [k \in Kind |-> <<>>]

Log(m) ==
  /\ \A l \in log : l.from = m.from => l.n < m.n
  /\ log' = log \cup {m}
  /\ UNCHANGED <<run, feed>>

Show(m) ==
  /\ m \in log
  /\ \A k \in Kind : \A i \in 1 .. Len(feed[k]) :
       LET e == feed[k][i]
       IN  e.run = run /\ e.msg.from = m.from => e.msg.n < m.n
  /\ feed' = [feed EXCEPT ![m.kind] = Append(@, [run |-> run, msg |-> m])]
  /\ UNCHANGED <<log, run>>

NewRun ==
  /\ run' = run + 1
  /\ UNCHANGED <<log, feed>>

Next ==
  \/ \E m \in Message : Log(m)
  \/ \E m \in log : Show(m)
  \/ NewRun

Spec == Init /\ [][Next]_vars
=============================================================================
