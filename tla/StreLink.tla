------------------------------ MODULE StreLink ------------------------------
(***************************************************************************)
(* The tactical wire end to end: edge processes (EdgeNode), the UDP path   *)
(* (StreWire) and C2 (C2Listener), with what must hold of them together.   *)
(***************************************************************************)
EXTENDS EdgeNode, C2Listener

vars == <<edgeVars, net, c2Vars>>

Init == EdgeInit /\ NetInit /\ C2Init

EdgeStep == EdgeNext /\ UNCHANGED c2Vars
C2Step == C2Next /\ UNCHANGED edgeVars
LoseStep == (\E d \in net : Lose(d)) /\ UNCHANGED <<edgeVars, c2Vars>>

Next == EdgeStep \/ C2Step \/ LoseStep

Spec == Init /\ [][Next]_vars

\* serve's loop reads every datagram the kernel queues and handles what it has
\* read: no datagram waits for ever at a running listener.
ReadLast(d) == Receive(d) /\ net' = net \ {d} /\ UNCHANGED edgeVars

Fairness ==
  /\ \A d \in Datagram : WF_vars(ReadLast(d))
  /\ WF_vars((\E d \in handling : Handle(d)) /\ UNCHANGED edgeVars)

FairSpec == Spec /\ Fairness

-----------------------------------------------------------------------------
\* Every process has a source id and a counter file of its own, and no file
\* is damaged: the deployment the code is written for.
SoleWriter ==
  /\ \A p, q \in Process : SourceOf[p] = SourceOf[q] => p = q
  /\ \A p, q \in Process : FileOf[p] = FileOf[q] => p = q
  /\ ~StorageFaults

\* Each variable has its type.
TypeOK ==
  /\ pc \in [Process -> {"down", "idle", "replace", "seal", "send"}]
  /\ counter \in [Process -> Nat]
  /\ counterFile \in [File -> Nat \cup {Unreadable}]
  /\ tmpFile \in [File -> Nat \cup {Absent}]
  /\ sealed \in [Process -> SUBSET Datagram]
  /\ wireLog \in [Process -> Seq(Datagram)]
  /\ produced \in [Process -> 0 .. MaxMessages]
  /\ starts \in [Process -> 0 .. MaxStarts]
  /\ net \subseteq Datagram
  /\ handling \subseteq Datagram
  /\ lastCounter \in [Source -> 0 .. CounterMax]
  /\ gaps \in [Source -> Nat]
  /\ admitted \in [Source -> SUBSET (1 .. CounterMax)]
  /\ run \in 1 .. MaxRuns
  /\ recorded \in [Kind -> Seq(Line)]

\* CoseSealer: "Each (source, counter) tuple is unique", whatever crashes and
\* restarts lie between two messages.
CounterUnique ==
  \A p, q \in Process :
    \A i \in 1 .. Len(wireLog[p]), j \in 1 .. Len(wireLog[q]) :
      /\ SourceOf[p] = SourceOf[q]
      /\ wireLog[p][i].ctr = wireLog[q][j].ctr
      => p = q /\ i = j

\* AntiReplayState: a counter is in the file before a message carries it, so
\* that no restart can hand it out again.
CounterDurable ==
  \A p \in Process : \A d \in Logged(p) : d.ctr <= counterFile[FileOf[p]]

\* AntiReplayState: "Survives restarts".  A process that is up counts on from
\* above everything it ever logged.
ResumesAboveLog ==
  \A p \in Process : pc[p] = "idle" => \A d \in Logged(p) : d.ctr <= counter[p]

\* NetworkAwareStreSink: wire_log.bin "must always reflect what edge perceived,
\* regardless of net state".  Whatever is in flight or known at C2 was logged.
LoggedBeforeSent ==
  /\ net \cup handling \subseteq AllLogged
  /\ \A k \in Kind : \A i \in 1 .. Len(recorded[k]) :
       recorded[k][i].msg \in AllLogged

\* C2Process: in one run, and in each of its two files, the messages of one
\* edge process stand in the order it perceived them, and none stands twice,
\* although datagrams are duplicated and reordered and edge processes restart.
PerceptionOrder ==
  \A k \in Kind : \A i, j \in 1 .. Len(recorded[k]) :
    LET a == recorded[k][i]
        b == recorded[k][j]
    IN  i < j /\ a.run = b.run /\ a.msg.from = b.msg.from => a.msg.n < b.msg.n

\* StreUdpListener: in one run, the counters a file shows for one source only
\* grow.  This needs nothing of the edge: sources may be shared, counter files
\* damaged.
CounterOrder ==
  \A k \in Kind : \A i, j \in 1 .. Len(recorded[k]) :
    LET a == recorded[k][i]
        b == recorded[k][j]
    IN  i < j /\ a.run = b.run /\ SourceId(a.msg) = SourceId(b.msg)
        => a.msg.ctr < b.msg.ctr

\* Counters of s below the newest one that C2 has not admitted, from the first
\* one it has.
Missing(s) ==
  {c \in 1 .. lastCounter[s] :
     c \notin admitted[s] /\ \E a \in admitted[s] : a < c}

\* StreUdpListener: the gap total of a source, added up one datagram at a
\* time, is the number of counters it never admitted.
GapAccounting == \A s \in Source : gaps[s] = Cardinality(Missing(s))

\* AntiReplayState: while the edge runs, stops and restarts, the durable
\* counter never goes back.
CounterNeverFalls == [][\A f \in File : counterFile'[f] >= counterFile[f]]_vars

\* A file shows the n-th message of p, or a later one.
CaughtUp(p, n) ==
  \E k \in Kind : \E i \in 1 .. Len(recorded[k]) :
    recorded[k][i].msg.from = p /\ recorded[k][i].msg.n >= n

InFlight(p, n) == \E d \in net : d.from = p /\ d.n = n

\* StreUdpListener and C2Process: without loss and without a restart of C2,
\* once a message of a provisioned, accepted process is in flight, C2 comes to
\* show it or a later one, whatever is duplicated or overtakes it.
FeedCatchesUp ==
  \A p \in Process, n \in 1 .. MaxMessages :
    p \in Provisioned /\ SourceOf[p] \in Accepted
      => (InFlight(p, n) ~> CaughtUp(p, n))

-----------------------------------------------------------------------------
\* The feed C2 shows, as the abstract specification sees it.
MessageOf(d) == [from |-> d.from, kind |-> d.kind, n |-> d.n]

Feed ==
  INSTANCE ObservationFeed WITH
    log <- {MessageOf(d) : d \in AllLogged},
    feed <- [k \in Kind |->
               [i \in 1 .. Len(recorded[k]) |->
                  [run |-> recorded[k][i].run,
                   msg |-> MessageOf(recorded[k][i].msg)]]]

\* The wire implements the feed.
ImplementsFeed == Feed!Spec
=============================================================================
