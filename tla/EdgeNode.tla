------------------------------ MODULE EdgeNode ------------------------------
(***************************************************************************)
(* The sending half of the tactical wire: AntiReplayState, CoseSealer,     *)
(* StreSink, NetworkAwareStreSink and StreUdpTransmitter, as the main loop *)
(* drives them.  One write_type1 or write_type2 call is four steps between *)
(* which the process can die:                                              *)
(*                                                                         *)
(*   idle --BeginSeal--> replace --ReplaceCounterFile--> seal              *)
(*        --SealAndLog--> send --SendDatagram--> idle                      *)
(*                                                                         *)
(* The counter file is durable; counter[p] is the copy in memory.          *)
(***************************************************************************)
EXTENDS StreWire, Sequences

CONSTANTS
  File,         \* counter files
  FileOf,       \* the counter file each process opens
  MaxStarts     \* bound: starts of one process

ASSUME EdgeAssumption ==
  /\ FileOf \in [Process -> File]
  /\ MaxStarts \in Nat

VARIABLES
  pc,           \* where each process is in a write
  counter,      \* AntiReplayState._counter
  counterFile,  \* what the file at state_path holds
  tmpFile,      \* what its .tmp sibling holds
  sealed,       \* the sealed bytes a write has in hand, {} when none
  wireLog,      \* wire_log.bin
  produced,     \* how many messages each process has handed to its sink
  starts        \* how often each process was started

edgeVars == <<pc, counter, counterFile, tmpFile, sealed, wireLog, produced, starts>>

Unreadable == -1    \* text that int() refuses, or a file that cannot be read
Absent == -1        \* no .tmp file

Logged(p) == {wireLog[p][i] : i \in 1 .. Len(wireLog[p])}
AllLogged == UNION {Logged(p) : p \in Process}

\* A counter file that does not exist yet reads as 0.
EdgeInit ==
  /\ pc = [p \in Process |-> "down"]
  /\ counter = [p \in Process |-> 0]
  /\ counterFile = [f \in File |-> 0]
  /\ tmpFile = [f \in File |-> Absent]
  /\ sealed = [p \in Process |-> {}]
  /\ wireLog = [p \in Process |-> <<>>]
  /\ produced = [p \in Process |-> 0]
  /\ starts = [p \in Process |-> 0]

\* A faulty ReadCounterFile, which never reads the file back.
ForgetCounterFile(f) == 0

\* AntiReplayState.__init__: a file that does not parse counts as 0.
ReadCounterFile(f) == IF counterFile[f] = Unreadable THEN 0 ELSE counterFile[f]

Start(p) ==
  /\ pc[p] = "down"
  /\ starts[p] < MaxStarts
  /\ starts' = [starts EXCEPT ![p] = @ + 1]
  /\ counter' = [counter EXCEPT ![p] = ReadCounterFile(FileOf[p])]
  /\ pc' = [pc EXCEPT ![p] = "idle"]
  /\ UNCHANGED <<counterFile, tmpFile, sealed, wireLog, produced, net>>

\* The text next() writes to the .tmp file.
TmpText(p) == counter[p] + 1

\* The main loop hands its next message to the sink, and AntiReplayState.next
\* counts up and writes the .tmp file.
BeginSeal(p) ==
  /\ pc[p] = "idle"
  /\ produced[p] < MaxMessages
  /\ produced' = [produced EXCEPT ![p] = @ + 1]
  /\ counter' = [counter EXCEPT ![p] = @ + 1]
  /\ tmpFile' = [tmpFile EXCEPT ![FileOf[p]] = TmpText(p)]
  /\ pc' = [pc EXCEPT ![p] = "replace"]
  /\ UNCHANGED <<counterFile, sealed, wireLog, starts, net>>

\* os.replace(tmp, state_path).
ReplaceCounterFile(p) ==
  LET f == FileOf[p]
  IN  /\ pc[p] = "replace"
      /\ tmpFile[f] # Absent
      /\ counterFile' = [counterFile EXCEPT ![f] = tmpFile[f]]
      /\ tmpFile' = [tmpFile EXCEPT ![f] = Absent]
      /\ pc' = [pc EXCEPT ![p] = "seal"]
      /\ UNCHANGED <<counter, sealed, wireLog, produced, starts, net>>

\* Everything in memory is gone; files stay.
Terminate(p) ==
  /\ pc' = [pc EXCEPT ![p] = "down"]
  /\ counter' = [counter EXCEPT ![p] = 0]
  /\ sealed' = [sealed EXCEPT ![p] = {}]
  /\ UNCHANGED <<counterFile, tmpFile, wireLog, produced, starts, net>>

\* os.replace raises FileNotFoundError when another process that shares the
\* file has already renamed the .tmp away; nothing catches it.
ReplaceFails(p) ==
  /\ pc[p] = "replace"
  /\ tmpFile[FileOf[p]] = Absent
  /\ Terminate(p)

\* A faulty AppendToLog, which carries on when the log cannot be written.
AppendToLogIfWritable(p, d) ==
  wireLog' \in {wireLog, [wireLog EXCEPT ![p] = Append(@, d)]}

\* The write to wire_log.bin; when it fails the process dies (see Crash).
AppendToLog(p, d) == wireLog' = [wireLog EXCEPT ![p] = Append(@, d)]

\* CoseSealer.seal builds the envelope and StreSink._emit_sealed appends it
\* to the wire log, before anything is sent.
SealAndLog(p) ==
  /\ pc[p] = "seal"
  /\ counter[p] <= CounterMax
  /\ \E k \in Kind :
       LET d == [from |-> p, ctr |-> counter[p], kind |-> k, n |-> produced[p]]
       IN  /\ AppendToLog(p, d)
           /\ sealed' = [sealed EXCEPT ![p] = {d}]
  /\ pc' = [pc EXCEPT ![p] = "send"]
  /\ UNCHANGED <<counter, counterFile, tmpFile, produced, starts, net>>

\* struct.pack("!HII", ...) raises beyond uint32; nothing catches it.
CounterExhausted(p) ==
  /\ pc[p] = "seal"
  /\ counter[p] > CounterMax
  /\ Terminate(p)

\* StreUdpTransmitter.send_sealed: best effort, an OSError is swallowed.
SendDatagram(p) ==
  /\ pc[p] = "send"
  /\ \/ \E d \in sealed[p] : Transmit(d)
     \/ UNCHANGED net
  /\ sealed' = [sealed EXCEPT ![p] = {}]
  /\ pc' = [pc EXCEPT ![p] = "idle"]
  /\ UNCHANGED <<counter, counterFile, tmpFile, wireLog, produced, starts>>

\* The process ends at any point of a write: it is killed, an exception such as
\* a wire log that cannot be written leaves it, or the video is over.  What it
\* has written is in the files; that the host loses power, and with it what was
\* never fsynced, is left out.
Crash(p) ==
  /\ pc[p] # "down"
  /\ Terminate(p)

\* The counter file becomes unreadable or is emptied.
DamageCounterFile(f) ==
  /\ StorageFaults
  /\ counterFile' = [counterFile EXCEPT ![f] = Unreadable]
  /\ UNCHANGED <<pc, counter, tmpFile, sealed, wireLog, produced, starts, net>>

Write(p) ==
  \/ BeginSeal(p)
  \/ ReplaceCounterFile(p)
  \/ ReplaceFails(p)
  \/ SealAndLog(p)
  \/ CounterExhausted(p)
  \/ SendDatagram(p)

EdgeNext ==
  \/ \E p \in Process : Start(p) \/ Write(p) \/ Crash(p)
  \/ \E f \in File : DamageCounterFile(f)
=============================================================================
