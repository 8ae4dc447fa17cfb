----------------------------- MODULE EdgeEmitter -----------------------------
(***************************************************************************)
(* From detections to Type 1 messages: SpatialDeduper.update gives every   *)
(* detection the track id of its place, and EdgeStreEmitter.update sends   *)
(* each track at most once per interval.  A place is a label together with *)
(* a grid cell.  One frame is                                              *)
(*                                                                         *)
(*   dedup --Detect*, Collect--> ready --Report*, EndFrame--> dedup        *)
(*                                                                         *)
(* Track ids are 16 bits wide and are used again, and neither the ids'     *)
(* owners nor the times of their last messages are known to both halves.   *)
(***************************************************************************)
EXTENDS Integers, Sequences

CONSTANTS
  Place,        \* (label, cell) pairs
  Reportable,   \* places whose label has a STRE class
  IdMax,        \* largest track id (65535)
  Interval,     \* emit_interval_s
  StaleAfter,   \* stale_after_s (30)
  MaxLag,       \* bound: seconds between the two halves of a frame
  MaxTracks,    \* bound: detections in a frame
  MaxTime       \* bound: seconds on the monotonic clock

ASSUME EmitterAssumption ==
  /\ Reportable \subseteq Place
  /\ {IdMax, Interval, MaxTracks} \subseteq Nat \ {0}
  /\ {StaleAfter, MaxLag, MaxTime} \subseteq Nat

\* The settings the code is written for: a place is forgotten only well after
\* its next message is due.
ASSUME TimingAssumption == StaleAfter + 1 >= Interval + MaxLag

VARIABLES
  now,        \* time.monotonic()
  phase,      \* "dedup", "ready" once the ids are given, "emit"
  idOf,       \* _id_for_cell, NoId for a place without an entry
  lastSeen,   \* _last_seen, Never for an id without an entry
  nextId,     \* _next_id
  tracks,     \* the tracks of this frame that were not yet reported
  lastEmit,   \* _last_emit_at, 0 for an id without an entry
  sent        \* history: when each place was sent

vars == <<now, phase, idOf, lastSeen, nextId, tracks, lastEmit, sent>>

NoId == 0
Never == -1
Id == 1 .. IdMax
Time == 0 .. MaxTime
Track == [id : Id, place : Place]

\* The monotonic clock counts from boot, which may have been just now.
Init ==
  /\ now \in {t \in 0 .. Interval : t <= MaxTime}
  /\ phase = "dedup"
  /\ idOf = [p \in Place |-> NoId]
  /\ lastSeen = [i \in Id |-> Never]
  /\ nextId = 1
  /\ tracks = <<>>
  /\ lastEmit = [i \in Id |-> 0]
  /\ sent = [p \in Place |-> <<>>]

-----------------------------------------------------------------------------
(* SpatialDeduper.update *)

\* A faulty Successor, which lets the id leave its 16 bits.
SuccessorUnwrapped(i) == i + 1

Successor(i) == IF i = IdMax THEN 1 ELSE i + 1

\* A detection at p takes the place's id, or a new one.
Detect(p) ==
  LET id == IF idOf[p] = NoId THEN nextId ELSE idOf[p]
  IN  /\ phase = "dedup"
      /\ Len(tracks) < MaxTracks
      /\ idOf' = [idOf EXCEPT ![p] = id]
      /\ nextId' = IF idOf[p] = NoId THEN Successor(nextId) ELSE nextId
      /\ lastSeen' = [lastSeen EXCEPT ![id] = now]
      /\ tracks' = Append(tracks, [id |-> id, place |-> p])
      /\ UNCHANGED <<now, phase, lastEmit, sent>>

\* A faulty Expired, which forgets what this very frame does not show.
ExpiredAtOnce(i) == lastSeen[i] < now

\* Seen too long ago, or not at all.
Expired(i) == lastSeen[i] < now - StaleAfter

\* Ids not seen for a while are dropped, and with them the places they stand
\* for.
Collect ==
  /\ phase = "dedup"
  /\ lastSeen' = [i \in Id |-> IF Expired(i) THEN Never ELSE lastSeen[i]]
  /\ idOf' = [p \in Place |-> IF idOf[p] # NoId /\ lastSeen'[idOf[p]] = Never
                              THEN NoId ELSE idOf[p]]
  /\ phase' = "ready"
  /\ UNCHANGED <<now, nextId, tracks, lastEmit, sent>>

-----------------------------------------------------------------------------
(* EdgeStreEmitter.update *)

\* A faulty Due, off by one.
DueLate(i) == now - lastEmit[i] > Interval

\* The interval has passed since the id was last sent.
Due(i) == now - lastEmit[i] >= Interval

Report ==
  /\ phase \in {"ready", "emit"}
  /\ tracks # <<>>
  /\ LET t == Head(tracks)
     IN  IF Due(t.id) /\ t.place \in Reportable
         THEN /\ sent' = [sent EXCEPT ![t.place] = Append(@, now)]
              /\ lastEmit' = [lastEmit EXCEPT ![t.id] = now]
         ELSE UNCHANGED <<sent, lastEmit>>
  /\ tracks' = Tail(tracks)
  /\ phase' = "emit"
  /\ UNCHANGED <<now, idOf, lastSeen, nextId>>

EndFrame ==
  /\ phase \in {"ready", "emit"}
  /\ tracks = <<>>
  /\ phase' = "dedup"
  /\ UNCHANGED <<now, idOf, lastSeen, nextId, tracks, lastEmit, sent>>

\* Time passes between frames, and between the two halves of one; each half
\* reads the clock once.
Tick ==
  /\ now < MaxTime
  /\ \/ phase = "dedup" /\ tracks = <<>>
     \/ phase = "ready" /\ \A i \in 1 .. Len(tracks) :
                              now - lastSeen[tracks[i].id] < MaxLag
  /\ now' = now + 1
  /\ UNCHANGED <<phase, idOf, lastSeen, nextId, tracks, lastEmit, sent>>

Next ==
  \/ \E p \in Place : Detect(p)
  \/ Collect
  \/ Report
  \/ EndFrame
  \/ Tick

Spec == Init /\ [][Next]_vars

-----------------------------------------------------------------------------
\* Each variable has its type.
TypeOK ==
  /\ now \in Time
  /\ phase \in {"dedup", "ready", "emit"}
  /\ idOf \in [Place -> Id \cup {NoId}]
  /\ lastSeen \in [Id -> Time \cup {Never}]
  /\ nextId \in Id
  /\ tracks \in Seq(Track)
  /\ lastEmit \in [Id -> Time]
  /\ sent \in [Place -> Seq(Time)]

\* EdgeStreEmitter: "One observation per active track per emit_interval_s": a
\* place is sent at most once in an interval, though it loses its id when it
\* goes unseen, gets another one and shares it with other places.
OnePerInterval ==
  \A p \in Place : \A i, j \in 1 .. Len(sent[p]) :
    i < j => sent[p][j] - sent[p][i] >= Interval

SentLately(p) == sent[p] # <<>> /\ now - sent[p][Len(sent[p])] < Interval

\* EdgeStreEmitter: a detection is held back only because its place, or a place
\* that shares its id now, was sent within the interval.
HeldBackForCause ==
  [][\A p \in Place :
       /\ tracks # <<>> /\ phase # "dedup" /\ tracks' = Tail(tracks)
       /\ p = Head(tracks).place /\ p \in Reportable /\ now >= Interval
       => \E q \in Place : idOf[q] = idOf[p] /\ SentLately(q)']_vars
=============================================================================
