------------------------------ MODULE StreWire ------------------------------
(***************************************************************************)
(* The sealed STRE envelope (CoseEnvelope) and the UDP path that carries   *)
(* it from the edge processes to C2.  Payload bytes are abstracted to what *)
(* the receiver can tell apart: the kind of message and its position in    *)
(* the order in which its edge process produced it.  That position, n, is  *)
(* not on the wire: it is there so that properties can speak of the order  *)
(* of perception, which no crash resets, beside the counter, which one may.*)
(***************************************************************************)
EXTENDS Integers, FiniteSets

CONSTANTS
  Process,      \* edge processes, each a run of main_loop under one configuration
  Source,       \* source ids (uint16 in the envelope's header)
  SourceOf,     \* the source id each process is configured with
  Kind,         \* message types: "type1" (observation), "type2" (inference)
  CounterMax,   \* largest counter the header can carry (2^32 - 1 in the code)
  MaxMessages,  \* bound: messages one process produces
  Lossy,        \* whether the network may lose datagrams
  StorageFaults \* whether files may be damaged or refuse a write

ASSUME WireAssumption ==
  /\ SourceOf \in [Process -> Source]
  /\ Kind \subseteq {"type1", "type2"}
  /\ CounterMax \in Nat \ {0}
  /\ MaxMessages \in Nat
  /\ Lossy \in BOOLEAN
  /\ StorageFaults \in BOOLEAN

VARIABLE net    \* datagrams in flight

Datagram == [from : Process, ctr : 1 .. CounterMax, kind : Kind,
             n : 1 .. MaxMessages]

\* The source_id of the cleartext header.
SourceId(d) == SourceOf[d.from]

NetInit == net = {}

Transmit(d) == net' = net \cup {d}

\* The receiver reads d from its socket.  The network may have duplicated it,
\* so that a copy stays in flight; as net is a set, any copy may be read next,
\* so datagrams are also reordered.
Deliver(d) ==
  /\ d \in net
  /\ \/ net' = net \ {d}
     \/ net' = net

\* A datagram is dropped on the way, by a full receive buffer, or because no
\* C2 process is bound to the port.
Lose(d) ==
  /\ Lossy
  /\ d \in net
  /\ net' = net \ {d}
=============================================================================
