----------------------------- MODULE C2Listener -----------------------------
(***************************************************************************)
(* The receiving half of the tactical wire: StreUdpListener.serve and the  *)
(* handlers C2Process gives it.  One iteration of the serve loop is two    *)
(* steps: the counter check, which updates the tables under the lock, and  *)
(* then, the lock released, decryption and the handler's append to a JSONL *)
(* file.  The tables live in memory and the files outlive the C2 process.  *)
(***************************************************************************)
EXTENDS StreWire, Sequences

CONSTANTS
  Provisioned,  \* processes that seal with the PSK C2 holds
  Accepted,     \* sources that pass C2's --source-id filter
  MaxRuns       \* bound: runs of the C2 process

ASSUME C2Assumption ==
  /\ Provisioned \subseteq Process
  /\ Accepted \subseteq Source
  /\ MaxRuns \in Nat \ {0}

VARIABLES
  handling,     \* the datagram between counter check and handler, {} when none
  lastCounter,  \* _last_counter, 0 for a source not seen yet
  gaps,         \* _counter_gaps
  admitted,     \* history: counters that passed the check in this run
  run,          \* which run of the C2 process this is
  recorded      \* by kind, the lines of c2_observations.jsonl ("type1") and
                \* the edge_inference lines of c2_inferences.jsonl ("type2")

c2Vars == <<handling, lastCounter, gaps, admitted, run, recorded>>

\* A line of a JSONL file, with the C2 run that wrote it.
Line == [run : 1 .. MaxRuns, msg : Datagram]

C2Init ==
  /\ handling = {}
  /\ lastCounter = [s \in Source |-> 0]
  /\ gaps = [s \in Source |-> 0]
  /\ admitted = [s \in Source |-> {}]
  /\ run = 1
  /\ recorded = [k \in Kind |-> <<>>]

\* A faulty NewGaps, which counts the datagram itself as missing.
NewGapsInclusive(last, ctr) == IF last > 0 THEN ctr - last ELSE 0

\* Gap is the number of counters skipped; the first datagram of a source is
\* compared with nothing.
NewGaps(last, ctr) == IF last > 0 THEN ctr - last - 1 ELSE 0

\* Two faulty forms of Fresh: no check, and one that admits nothing after a gap.
FreshAlways(d) == TRUE
FreshInSequence(d) == d.ctr = lastCounter[SourceId(d)] + 1

\* The anti-replay check.
Fresh(d) == d.ctr > lastCounter[SourceId(d)]

\* The counter is not above the last one seen: counted as a replay, ignored.
RejectReplay(d) ==
  /\ handling = {}
  /\ Deliver(d)
  /\ ~Fresh(d)
  /\ UNCHANGED c2Vars

Admit(d) ==
  LET s == SourceId(d)
  IN  /\ handling = {}
      /\ Deliver(d)
      /\ Fresh(d)
      /\ gaps' = [gaps EXCEPT ![s] = @ + NewGaps(lastCounter[s], d.ctr)]
      /\ lastCounter' = [lastCounter EXCEPT ![s] = d.ctr]
      /\ admitted' = [admitted EXCEPT ![s] = @ \cup {d.ctr}]
      /\ handling' = {d}
      /\ UNCHANGED <<run, recorded>>

\* The AEAD tag does not verify under C2's key, or the handler filters the
\* source out: the datagram is forgotten, after the tables were updated.
Discard(d) ==
  /\ handling = {d}
  /\ d.from \notin Provisioned \/ SourceId(d) \notin Accepted
  /\ handling' = {}
  /\ UNCHANGED <<lastCounter, gaps, admitted, run, recorded, net>>

\* on_observation, or on_inference_from_wire, appends a line and flushes.
Record(d) ==
  /\ handling = {d}
  /\ d.from \in Provisioned /\ SourceId(d) \in Accepted
  /\ recorded' = [recorded EXCEPT ![d.kind] = Append(@, [run |-> run, msg |-> d])]
  /\ handling' = {}
  /\ UNCHANGED <<lastCounter, gaps, admitted, run, net>>

\* The write raises; serve prints the exception and goes on.
RecordFails(d) ==
  /\ StorageFaults
  /\ handling = {d}
  /\ d.from \in Provisioned /\ SourceId(d) \in Accepted
  /\ handling' = {}
  /\ UNCHANGED <<lastCounter, gaps, admitted, run, recorded, net>>

\* The C2 process ends, at any point, and is started again with the same
\* output directory: its tables start empty, its files are appended to.
RestartC2 ==
  /\ run < MaxRuns
  /\ run' = run + 1
  /\ handling' = {}
  /\ lastCounter' = [s \in Source |-> 0]
  /\ gaps' = [s \in Source |-> 0]
  /\ admitted' = [s \in Source |-> {}]
  /\ UNCHANGED <<recorded, net>>

Receive(d) == RejectReplay(d) \/ Admit(d)
Handle(d) == Discard(d) \/ Record(d) \/ RecordFails(d)

C2Next ==
  \/ \E d \in net : Receive(d)
  \/ \E d \in handling : Handle(d)
  \/ RestartC2
=============================================================================
