------------------------------ MODULE WireLog ------------------------------
(***************************************************************************)
(* wire_log.bin as bytes: StreSink appends a length and then the sealed    *)
(* message, several runs append to one file, and inspect_wire.py reads it  *)
(* back.  The bytes of a record are kept as cells: cell 0 is the length,   *)
(* cells 1 .. BodyCells are the sealed message.  An append may be cut off  *)
(* after any cell.  Sealed messages all have one length here; what matters *)
(* is where the reader stands after a record that is too short.            *)
(***************************************************************************)
EXTENDS Integers, Sequences

CONSTANT BodyCells   \* cells of a sealed message

ASSUME WireLogAssumption == BodyCells \in Nat \ {0}

VARIABLE wireFile    \* the cells of the file

Record(m) == [i \in 1 .. BodyCells + 1 |-> [msg |-> m, at |-> i - 1]]

\* A faulty AppendRecord, which opens the file with "wb".
OverwriteRecord(m) == wireFile' = Record(m)

\* The file is opened with "ab", and closed after the two writes.
AppendRecord(m) == wireFile' = wireFile \o Record(m)

\* Only the first k cells reach the file.
AppendCells(m, k) == wireFile' = wireFile \o SubSeq(Record(m), 1, k)

\* A faulty HasRecord, which wants to see the next length too.
HasRecordBefore(f, p) == p + BodyCells < Len(f) /\ f[p].at = 0

\* At p the reader finds a length, and as much after it as the length says.  A
\* length read from the middle of a sealed message is as good as random: the
\* reader takes it to reach past the end, where it stops.
HasRecord(f, p) == p + BodyCells <= Len(f) /\ f[p].at = 0

\* What is read at p opens: it is one sealed message, from its first byte on.
Intact(f, p) == SubSeq(f, p, p + BodyCells) = Record(f[p].msg)

\* inspect_wire.py: the messages it shows of a file, in order.  A message that
\* does not open is counted, but has nothing to show.  (Behind a torn record the
\* reader may also end with an exception, as CoseEnvelope.from_bytes takes no
\* less than header, nonce and tag: it then shows no more than is shown here.)
Shown(f) ==
  LET from[p \in 1 .. Len(f) + 1] ==
        IF ~HasRecord(f, p) THEN <<>>
        ELSE (IF Intact(f, p) THEN <<f[p].msg>> ELSE <<>>) \o from[p + BodyCells + 1]
  IN  from[1]
=============================================================================
