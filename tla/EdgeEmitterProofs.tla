-------------------------- MODULE EdgeEmitterProofs --------------------------
(***************************************************************************)
(* Theorems about EdgeEmitter: every variable keeps its type; a place is   *)
(* sent at most once in an interval, for every number of places and ids    *)
(* and every timing that satisfies TimingAssumption; and none is held back *)
(* without a message sent within the interval.                             *)
(***************************************************************************)
EXTENDS EdgeEmitter, TLAPS

LEMMA SuccessorType == \A i \in Id : Successor(i) \in Id
  BY EmitterAssumption DEF Id, Successor

LEMMA TypeInit == Init => TypeOK
<1> SUFFICES ASSUME Init PROVE TypeOK
  OBVIOUS
<1>1. now \in Time /\ nextId \in Id
  BY EmitterAssumption DEF Init, Time, Id
<1>2. lastSeen \in [Id -> Time \cup {Never}] /\ lastEmit \in [Id -> Time]
  <2>1. 0 \in Time
    BY EmitterAssumption DEF Time
  <2>2. QED
    BY <2>1 DEF Init
<1>3. idOf \in [Place -> Id \cup {NoId}] /\ sent \in [Place -> Seq(Time)]
  BY DEF Init
<1>4. QED
  BY <1>1, <1>2, <1>3 DEF Init, TypeOK

LEMMA TypeStep == TypeOK /\ [Next]_vars => TypeOK'
<1> SUFFICES ASSUME TypeOK, [Next]_vars PROVE TypeOK'
  OBVIOUS
<1> USE DEF TypeOK
<1>1. ASSUME NEW p \in Place, Detect(p) PROVE TypeOK'
  <2> DEFINE id == IF idOf[p] = NoId THEN nextId ELSE idOf[p]
  <2>1. id \in Id
    OBVIOUS
  <2>2. idOf' \in [Place -> Id \cup {NoId}] /\ lastSeen' \in [Id -> Time \cup {Never}]
    BY <1>1, <2>1 DEF Detect
  <2>3. nextId' \in Id
    BY <1>1, SuccessorType DEF Detect
  <2>4. tracks' \in Seq(Track)
    <3>1. [id |-> id, place |-> p] \in Track
      BY <2>1 DEF Track
    <3>2. QED
      BY <1>1, <3>1 DEF Detect
  <2>5. QED
    BY <1>1, <2>2, <2>3, <2>4 DEF Detect
<1>2. CASE Collect
  <2>1. lastSeen' \in [Id -> Time \cup {Never}]
    BY <1>2 DEF Collect
  <2>2. idOf' \in [Place -> Id \cup {NoId}]
    BY <1>2 DEF Collect
  <2>3. QED
    BY <1>2, <2>1, <2>2 DEF Collect
<1>3. CASE Report
  <2>1. Head(tracks) \in Track /\ tracks' \in Seq(Track)
    BY <1>3 DEF Report
  <2>2. Head(tracks).id \in Id /\ Head(tracks).place \in Place
    BY <2>1 DEF Track
  <2>3. sent' \in [Place -> Seq(Time)] /\ lastEmit' \in [Id -> Time]
    <3>1. CASE UNCHANGED <<sent, lastEmit>>
      BY <3>1
    <3>2. CASE /\ sent' = [sent EXCEPT ![Head(tracks).place] = Append(@, now)]
               /\ lastEmit' = [lastEmit EXCEPT ![Head(tracks).id] = now]
      <4>1. Append(sent[Head(tracks).place], now) \in Seq(Time)
        BY <2>2
      <4>2. QED
        BY <2>2, <3>2, <4>1
    <3>3. QED
      BY <1>3, <3>1, <3>2 DEF Report
  <2>4. QED
    BY <1>3, <2>1, <2>3 DEF Report
<1>4. CASE EndFrame
  BY <1>4 DEF EndFrame
<1>5. CASE Tick
  <2>1. now' \in Time
    BY <1>5, EmitterAssumption DEF Tick, Time
  <2>2. QED
    BY <1>5, <2>1 DEF Tick
<1>6. CASE UNCHANGED vars
  BY <1>6 DEF vars
<1>7. QED
  BY <1>1, <1>2, <1>3, <1>4, <1>5, <1>6 DEF Next

\* Every variable keeps its type.
THEOREM TypeCorrect == Spec => []TypeOK
  BY TypeInit, TypeStep, PTL DEF Spec

-----------------------------------------------------------------------------
(* The rate limit.  An id that is still known was seen at most MaxLag       *)
(* before the last message of any place that owns it, so that a place which *)
(* has lost its id has waited long enough already.                          *)

\* Nothing is seen in the future, and owned ids are known.
SeenInv ==
  /\ \A i \in Id : lastSeen[i] <= now
  /\ \A p \in Place : idOf[p] # NoId => lastSeen[idOf[p]] # Never

\* The tracks of a frame are of ids that their places own and that were seen in
\* this frame.
FrameInv ==
  \A i \in 1 .. Len(tracks) :
    /\ idOf[tracks[i].place] = tracks[i].id
    /\ phase = "dedup" => lastSeen[tracks[i].id] = now
    /\ now - lastSeen[tracks[i].id] <= MaxLag

\* The last message of a place is an interval old, or its id knows of it.
KnownTo(p, last) ==
  /\ idOf[p] # NoId
  /\ lastEmit[idOf[p]] >= last
  /\ last <= lastSeen[idOf[p]] + MaxLag

LastInv ==
  \A p \in Place : sent[p] # <<>> =>
    LET last == sent[p][Len(sent[p])]
    IN  last <= now /\ (now - last >= Interval \/ KnownTo(p, last))

RateInv == SeenInv /\ FrameInv /\ LastInv /\ OnePerInterval

LEMMA RateInit == Init => RateInv
  BY EmitterAssumption
     DEF Init, RateInv, SeenInv, FrameInv, LastInv, OnePerInterval, Never, NoId, Id

LEMMA DetectRate ==
  ASSUME TypeOK, RateInv, NEW p \in Place, Detect(p)
  PROVE  RateInv'
<1> DEFINE id == IF idOf[p] = NoId THEN nextId ELSE idOf[p]
<1> USE DEF RateInv, TypeOK
<1>1. /\ id \in Id
      /\ idOf' = [idOf EXCEPT ![p] = id]
      /\ lastSeen' = [lastSeen EXCEPT ![id] = now]
      /\ tracks' = Append(tracks, [id |-> id, place |-> p])
      /\ phase = "dedup"
      /\ UNCHANGED <<now, phase, lastEmit, sent>>
  BY DEF Detect
<1>2. now \in Int /\ \A i \in Id : lastSeen[i] \in Int /\ lastSeen'[i] \in Int
  BY <1>1 DEF Time, Never
<1>3. \A i \in Id : lastSeen[i] <= lastSeen'[i] /\ lastSeen'[i] <= now
  BY <1>1, <1>2 DEF SeenInv
<1>4. \A q \in Place : idOf[q] # NoId => idOf'[q] = idOf[q]
  BY <1>1
<1>5. NoId \notin Id
  BY DEF NoId, Id
<1>6. SeenInv'
  <2>1. now # Never
    BY DEF Time, Never
  <2>2. ASSUME NEW q \in Place, idOf'[q] # NoId PROVE lastSeen'[idOf'[q]] # Never
    <3>1. CASE idOf'[q] = id
      BY <1>1, <2>1, <3>1
    <3>2. CASE idOf'[q] # id
      BY <1>1, <2>2, <3>2 DEF SeenInv
    <3>3. QED
      BY <3>1, <3>2
  <2>3. QED
    BY <1>1, <1>3, <2>2 DEF SeenInv
<1>7. FrameInv'
  <2> SUFFICES ASSUME NEW i \in 1 .. Len(tracks')
               PROVE  /\ idOf'[tracks'[i].place] = tracks'[i].id
                      /\ lastSeen'[tracks'[i].id] = now
    BY <1>1, <1>2, EmitterAssumption DEF FrameInv
  <2>1. CASE i = Len(tracks) + 1
    <3>1. tracks'[i] = [id |-> id, place |-> p]
      BY <1>1, <2>1
    <3>2. QED
      BY <1>1, <3>1
  <2>2. CASE i \in 1 .. Len(tracks)
    <3>1. tracks'[i] = tracks[i] /\ tracks[i] \in Track
      BY <1>1, <2>2
    <3>2. tracks[i].id \in Id /\ tracks[i].place \in Place
      BY <3>1 DEF Track
    <3>3. idOf[tracks[i].place] = tracks[i].id /\ lastSeen[tracks[i].id] = now
      BY <1>1, <2>2 DEF FrameInv
    <3>4. QED
      BY <1>1, <1>4, <1>5, <3>1, <3>2, <3>3
  <2>3. QED
    BY <1>1, <2>1, <2>2
<1>8. LastInv'
  <2> SUFFICES ASSUME NEW q \in Place, sent[q] # <<>>,
                      NEW last, last = sent[q][Len(sent[q])]
               PROVE  last <= now /\ (now - last >= Interval \/ KnownTo(q, last)')
    BY <1>1 DEF LastInv
  <2>1. last \in Time
    OBVIOUS
  <2>2. last <= now /\ (now - last >= Interval \/ KnownTo(q, last))
    BY DEF LastInv
  <2>3. ASSUME KnownTo(q, last) PROVE KnownTo(q, last)'
    <3>1. idOf[q] \in Id /\ idOf'[q] = idOf[q] /\ MaxLag \in Nat
      BY <1>4, <2>3, EmitterAssumption DEF KnownTo
    <3>2. lastSeen[idOf[q]] <= lastSeen'[idOf[q]]
      BY <1>3, <3>1
    <3>3. last <= lastSeen'[idOf[q]] + MaxLag
      BY <1>2, <2>1, <2>3, <3>1, <3>2 DEF KnownTo, Time
    <3>4. QED
      BY <1>1, <2>3, <3>1, <3>3 DEF KnownTo
  <2>4. QED
    BY <2>2, <2>3
<1>9. OnePerInterval'
  BY <1>1 DEF OnePerInterval
<1>10. QED
  BY <1>6, <1>7, <1>8, <1>9

LEMMA CollectRate ==
  ASSUME TypeOK, RateInv, Collect
  PROVE  RateInv'
<1> USE DEF RateInv, TypeOK
<1>1. /\ \A i \in Id : lastSeen'[i] = IF Expired(i) THEN Never ELSE lastSeen[i]
      /\ \A q \in Place : idOf'[q] = IF idOf[q] # NoId /\ lastSeen'[idOf[q]] = Never
                                     THEN NoId ELSE idOf[q]
      /\ phase = "dedup" /\ phase' = "ready"
      /\ UNCHANGED <<now, tracks, lastEmit, sent>>
  BY DEF Collect
<1>2. /\ now \in Int /\ now >= 0 /\ StaleAfter \in Nat /\ MaxLag \in Nat
      /\ \A i \in Id : lastSeen[i] \in Int
  BY EmitterAssumption DEF Time, Never
<1>3. SeenInv'
  <2>1. \A i \in Id : lastSeen'[i] <= now
    BY <1>1, <1>2 DEF SeenInv, Never
  <2>2. QED
    BY <1>1, <2>1 DEF SeenInv
<1>4. FrameInv'
  <2> SUFFICES ASSUME NEW i \in 1 .. Len(tracks)
               PROVE  /\ idOf'[tracks[i].place] = tracks[i].id
                      /\ now - lastSeen'[tracks[i].id] <= MaxLag
    BY <1>1 DEF FrameInv
  <2>1. tracks[i].id \in Id /\ tracks[i].place \in Place
    <3>1. tracks[i] \in Track
      OBVIOUS
    <3>2. QED
      BY <3>1 DEF Track
  <2>2. idOf[tracks[i].place] = tracks[i].id /\ lastSeen[tracks[i].id] = now
    BY <1>1 DEF FrameInv
  <2>3. lastSeen'[tracks[i].id] = now
    BY <1>1, <1>2, <2>1, <2>2 DEF Expired
  <2>4. QED
    BY <1>1, <1>2, <2>1, <2>2, <2>3 DEF Never
<1>5. LastInv'
  <2> SUFFICES ASSUME NEW q \in Place, sent[q] # <<>>,
                      NEW last, last = sent[q][Len(sent[q])]
               PROVE  last <= now /\ (now - last >= Interval \/ KnownTo(q, last)')
    BY <1>1 DEF LastInv
  <2>1. last \in Int
    <3>1. last \in Time
      OBVIOUS
    <3>2. QED
      BY <3>1 DEF Time
  <2>2. last <= now /\ (now - last >= Interval \/ KnownTo(q, last))
    BY DEF LastInv
  <2>3. ASSUME KnownTo(q, last) PROVE now - last >= Interval \/ KnownTo(q, last)'
    <3>1. idOf[q] \in Id /\ lastSeen[idOf[q]] # Never
      BY <2>3 DEF KnownTo, SeenInv
    <3>2. CASE Expired(idOf[q])
      BY <1>2, <2>1, <2>3, <3>1, <3>2, EmitterAssumption, TimingAssumption
         DEF KnownTo, Expired
    <3>3. CASE ~Expired(idOf[q])
      BY <1>1, <2>3, <3>1, <3>3 DEF KnownTo
    <3>4. QED
      BY <3>2, <3>3
  <2>4. QED
    BY <2>2, <2>3
<1>6. OnePerInterval'
  BY <1>1 DEF OnePerInterval
<1>7. QED
  BY <1>3, <1>4, <1>5, <1>6

LEMMA ReportRate ==
  ASSUME TypeOK, RateInv, Report
  PROVE  RateInv'
<1> DEFINE t == Head(tracks)
<1> USE DEF RateInv, TypeOK
<1>1. /\ t = tracks[1] /\ t \in Track
      /\ Len(tracks) \in Nat /\ Len(tracks) >= 1
      /\ Len(tracks') = Len(tracks) - 1
      /\ \A i \in 1 .. Len(tracks') : tracks'[i] = tracks[i + 1]
      /\ phase' = "emit"
      /\ UNCHANGED <<now, idOf, lastSeen, nextId>>
  BY DEF Report
<1>2. t.id \in Id /\ t.place \in Place
  BY <1>1 DEF Track
<1>3. idOf[t.place] = t.id /\ now - lastSeen[t.id] <= MaxLag
  BY <1>1 DEF FrameInv
<1>4. SeenInv' /\ FrameInv'
  <2>1. FrameInv'
    <3> SUFFICES ASSUME NEW i \in 1 .. Len(tracks')
                 PROVE  /\ idOf[tracks'[i].place] = tracks'[i].id
                        /\ now - lastSeen[tracks'[i].id] <= MaxLag
      BY <1>1 DEF FrameInv
    <3>1. i + 1 \in 1 .. Len(tracks) /\ tracks'[i] = tracks[i + 1]
      BY <1>1
    <3>2. QED
      BY <3>1 DEF FrameInv
  <2>2. QED
    BY <1>1, <2>1 DEF SeenInv
<1>5. CASE UNCHANGED <<sent, lastEmit>>
  <2>1. LastInv' /\ OnePerInterval'
    BY <1>1, <1>5 DEF LastInv, KnownTo, OnePerInterval
  <2>2. QED
    BY <1>4, <2>1
<1>6. CASE /\ Due(t.id)
           /\ sent' = [sent EXCEPT ![t.place] = Append(@, now)]
           /\ lastEmit' = [lastEmit EXCEPT ![t.id] = now]
  <2> DEFINE old == sent[t.place]
             n == Len(old)
  <2>0. /\ now \in Int /\ MaxLag \in Nat /\ Interval \in Nat \ {0}
        /\ \A i \in Id : lastSeen[i] \in Int /\ lastEmit[i] \in Int /\ lastEmit'[i] \in Int
    BY <1>6, EmitterAssumption DEF Time, Never
  <2>1. /\ old \in Seq(Time) /\ n \in Nat
        /\ sent'[t.place] = Append(old, now)
        /\ Len(sent'[t.place]) = n + 1
        /\ sent'[t.place][n + 1] = now
        /\ \A i \in 1 .. n : sent'[t.place][i] = old[i]
        /\ \A q \in Place \ {t.place} : sent'[q] = sent[q]
    BY <1>2, <1>6
  <2>2. \A i \in Id : lastEmit[i] <= now => lastEmit[i] <= lastEmit'[i]
    BY <1>6, <2>0
  <2>3. ASSUME n > 0 PROVE now - old[n] >= Interval
    <3>1. old # <<>> /\ old[n] \in Int
      <4>1. old # <<>> /\ old[n] \in Time
        BY <2>1, <2>3
      <4>2. QED
        BY <4>1 DEF Time
    <3>2. now - old[n] >= Interval \/ KnownTo(t.place, old[n])
      BY <1>2, <3>1 DEF LastInv
    <3>3. CASE KnownTo(t.place, old[n])
      BY <1>2, <1>3, <1>6, <2>0, <3>1, <3>3, SMTT(30) DEF KnownTo, Due
    <3>4. QED
      BY <3>2, <3>3
  <2>4. OnePerInterval'
    <3> SUFFICES ASSUME NEW q \in Place, NEW i \in 1 .. Len(sent'[q]),
                        NEW j \in 1 .. Len(sent'[q]), i < j
                 PROVE  sent'[q][j] - sent'[q][i] >= Interval
      BY DEF OnePerInterval
    <3>1. CASE q # t.place
      BY <2>1, <3>1 DEF OnePerInterval
    <3>2. CASE q = t.place /\ j <= n
      <4>1. i \in 1 .. n /\ j \in 1 .. n
        BY <2>1, <3>2
      <4>2. old[j] - old[i] >= Interval
        BY <1>2, <4>1 DEF OnePerInterval
      <4>3. QED
        BY <2>1, <3>2, <4>1, <4>2
    <3>3. CASE q = t.place /\ j = n + 1
      <4>1. i \in 1 .. n /\ n > 0 /\ n \in 1 .. n
        BY <2>1, <3>3
      <4>2. old[i] \in Int /\ old[n] \in Int
        <5>1. old[i] \in Time /\ old[n] \in Time
          BY <2>1, <4>1
        <5>2. QED
          BY <5>1 DEF Time
      <4>3. i = n \/ old[n] - old[i] >= Interval
        BY <1>2, <4>1 DEF OnePerInterval
      <4>4. now - old[i] >= Interval
        BY <2>0, <2>3, <4>1, <4>2, <4>3, SMTT(30)
      <4>5. QED
        BY <2>1, <3>3, <4>1, <4>4
    <3>4. QED
      BY <2>1, <3>1, <3>2, <3>3
  <2>5. LastInv'
    <3> SUFFICES ASSUME NEW q \in Place, sent'[q] # <<>>,
                        NEW last, last = sent'[q][Len(sent'[q])]
                 PROVE  last <= now /\ (now - last >= Interval \/ KnownTo(q, last)')
      BY <1>1 DEF LastInv
    <3>1. CASE q = t.place
      <4>1. last = now
        BY <2>1, <3>1
      <4>2. KnownTo(q, last)'
        BY <1>1, <1>2, <1>3, <1>6, <2>0, <3>1, <4>1, SMTT(30) DEF KnownTo, NoId, Id
      <4>3. QED
        BY <2>0, <4>1, <4>2
    <3>2. CASE q # t.place
      <4>1. sent[q] # <<>> /\ last = sent[q][Len(sent[q])]
        BY <2>1, <3>2
      <4>2. last \in Int
        <5>1. last \in Time
          BY <4>1
        <5>2. QED
          BY <5>1 DEF Time
      <4>3. last <= now /\ (now - last >= Interval \/ KnownTo(q, last))
        BY <4>1 DEF LastInv
      <4>4. ASSUME KnownTo(q, last) PROVE KnownTo(q, last)'
        <5>1. idOf[q] \in Id
          BY <4>4 DEF KnownTo
        <5>2. lastEmit'[idOf[q]] >= last
          BY <1>2, <1>6, <2>0, <4>2, <4>3, <4>4, <5>1 DEF KnownTo
        <5>3. QED
          BY <1>1, <4>4, <5>2 DEF KnownTo
      <4>5. QED
        BY <4>3, <4>4
    <3>3. QED
      BY <3>1, <3>2
  <2>6. QED
    BY <1>4, <2>4, <2>5
<1>7. QED
  BY <1>5, <1>6 DEF Report

LEMMA TickRate ==
  ASSUME TypeOK, RateInv, Tick
  PROVE  RateInv'
<1> USE DEF RateInv, TypeOK
<1>1. /\ now \in Int /\ now' = now + 1 /\ MaxLag \in Nat /\ Interval \in Nat
      /\ \A i \in Id : lastSeen[i] \in Int
      /\ UNCHANGED <<phase, idOf, lastSeen, nextId, tracks, lastEmit, sent>>
  BY EmitterAssumption DEF Tick, Time, Never
<1>2. SeenInv'
  BY <1>1 DEF SeenInv
<1>3. FrameInv'
  <2> SUFFICES ASSUME NEW i \in 1 .. Len(tracks)
               PROVE  /\ idOf[tracks[i].place] = tracks[i].id
                      /\ phase # "dedup"
                      /\ now' - lastSeen[tracks[i].id] <= MaxLag
    BY <1>1 DEF FrameInv
  <2>1. phase = "ready" /\ now - lastSeen[tracks[i].id] < MaxLag
    BY DEF Tick
  <2>2. tracks[i].id \in Id
    <3>1. tracks[i] \in Track
      OBVIOUS
    <3>2. QED
      BY <3>1 DEF Track
  <2>3. QED
    BY <1>1, <2>1, <2>2 DEF FrameInv
<1>4. LastInv'
  <2> SUFFICES ASSUME NEW q \in Place, sent[q] # <<>>,
                      NEW last, last = sent[q][Len(sent[q])]
               PROVE  last <= now' /\ (now' - last >= Interval \/ KnownTo(q, last)')
    BY <1>1 DEF LastInv
  <2>1. last \in Int
    <3>1. last \in Time
      OBVIOUS
    <3>2. QED
      BY <3>1 DEF Time
  <2>2. last <= now /\ (now - last >= Interval \/ KnownTo(q, last))
    BY DEF LastInv
  <2>3. KnownTo(q, last) => KnownTo(q, last)'
    BY <1>1 DEF KnownTo
  <2>4. QED
    BY <1>1, <2>1, <2>2, <2>3
<1>5. OnePerInterval'
  BY <1>1 DEF OnePerInterval
<1>6. QED
  BY <1>2, <1>3, <1>4, <1>5

LEMMA RateStep == TypeOK /\ RateInv /\ [Next]_vars => RateInv'
<1> SUFFICES ASSUME TypeOK, RateInv, [Next]_vars PROVE RateInv'
  OBVIOUS
<1>1. CASE EndFrame
  BY <1>1 DEF EndFrame, RateInv, SeenInv, FrameInv, LastInv, KnownTo, OnePerInterval, TypeOK
<1>2. CASE UNCHANGED vars
  BY <1>2 DEF vars, RateInv, SeenInv, FrameInv, LastInv, KnownTo, OnePerInterval
<1>3. QED
  BY <1>1, <1>2, DetectRate, CollectRate, ReportRate, TickRate DEF Next

\* At most one message of a place in an interval, though ids are dropped, used
\* again and shared: what the 9.6 kbps budget of the wire rests on.
THEOREM RateLimited == Spec => []OnePerInterval
<1>1. RateInv => OnePerInterval
  BY DEF RateInv
<1>2. QED
  BY <1>1, TypeInit, TypeStep, RateInit, RateStep, PTL DEF Spec

-----------------------------------------------------------------------------
(* Nothing is held back without a cause.  When an id was sent within the    *)
(* interval, a place that owned it then owns it still: places are dropped   *)
(* only when this message is an interval old.                               *)

\* The place q owns the id i and was sent no earlier than e.
SentAs(q, i, e) ==
  idOf[q] = i /\ sent[q] # <<>> /\ sent[q][Len(sent[q])] >= e

EmitInv ==
  \A i \in Id :
    \/ lastEmit[i] = 0
    \/ now - lastEmit[i] >= Interval
    \/ \E q \in Place : SentAs(q, i, lastEmit[i])

LEMMA EmitInit == Init => EmitInv
  BY DEF Init, EmitInv

LEMMA LastIsTime ==
  ASSUME TypeOK, NEW q \in Place, sent[q] # <<>>
  PROVE  sent[q][Len(sent[q])] \in Nat
<1>1. sent[q] \in Seq(Time)
  BY DEF TypeOK
<1>2. sent[q][Len(sent[q])] \in Time
  BY <1>1
<1>. QED BY <1>2 DEF Time

LEMMA AppendLast ==
  ASSUME NEW S, NEW q \in Seq(S), NEW x \in S
  PROVE  Append(q, x) # <<>> /\ Append(q, x)[Len(Append(q, x))] = x
  OBVIOUS

\* What a report leaves: p, the place of a track, and i, its id.
LEMMA Reported ==
  ASSUME TypeOK, RateInv, Report, NEW p, p = Head(tracks).place, NEW i, i = Head(tracks).id
  PROVE  /\ p \in Place /\ i \in Id /\ idOf[p] = i /\ UNCHANGED <<now, idOf>>
         /\ \/ /\ Due(i) /\ p \in Reportable
               /\ sent'[p] # <<>> /\ sent'[p][Len(sent'[p])] = now
               /\ \A q \in Place \ {p} : sent'[q] = sent[q]
               /\ lastEmit'[i] = now
               /\ \A j \in Id \ {i} : lastEmit'[j] = lastEmit[j]
            \/ ~(Due(i) /\ p \in Reportable) /\ UNCHANGED <<sent, lastEmit>>
<1>1. Head(tracks) = tracks[1] /\ Head(tracks) \in Track /\ 1 \in 1 .. Len(tracks)
      /\ UNCHANGED <<now, idOf>>
  BY DEF Report, TypeOK
<1>2. i \in Id /\ p \in Place /\ idOf[p] = i
  BY <1>1 DEF Track, RateInv, FrameInv
<1>3. CASE Due(i) /\ p \in Reportable
  <2>1. sent' = [sent EXCEPT ![p] = Append(@, now)] /\ lastEmit' = [lastEmit EXCEPT ![i] = now]
    BY <1>3 DEF Report
  <2>2. sent[p] \in Seq(Time) /\ now \in Time
    BY <1>2 DEF TypeOK
  <2>3. sent'[p] = Append(sent[p], now) /\ \A q \in Place \ {p} : sent'[q] = sent[q]
    BY <1>2, <2>1 DEF TypeOK
  <2>4. sent'[p] # <<>> /\ sent'[p][Len(sent'[p])] = now
    BY <2>2, <2>3, AppendLast
  <2>5. lastEmit'[i] = now /\ \A j \in Id \ {i} : lastEmit'[j] = lastEmit[j]
    BY <1>2, <2>1 DEF TypeOK
  <2>. QED BY <1>1, <1>2, <1>3, <2>3, <2>4, <2>5
<1>4. CASE ~(Due(i) /\ p \in Reportable)
  BY <1>1, <1>2, <1>4 DEF Report
<1>. QED BY <1>3, <1>4

LEMMA EmitStep == TypeOK /\ RateInv /\ EmitInv /\ [Next]_vars => EmitInv'
<1> SUFFICES ASSUME TypeOK, RateInv, EmitInv, [Next]_vars PROVE EmitInv'
  OBVIOUS
<1>1. /\ now \in Nat /\ Interval \in Nat \ {0} /\ StaleAfter \in Nat /\ MaxLag \in Nat
      /\ \A i \in Id : lastEmit[i] \in Nat /\ i # NoId /\ lastSeen[i] \in Int
  BY EmitterAssumption DEF TypeOK, Time, Id, NoId, Never
<1>2. ASSUME NEW p \in Place, Detect(p) PROVE EmitInv'
  <2>1. \A q \in Place : idOf[q] # NoId => idOf'[q] = idOf[q]
    BY <1>2 DEF Detect, TypeOK
  <2>2. UNCHANGED <<now, lastEmit, sent>>
    BY <1>2 DEF Detect
  <2>. QED BY <1>1, <2>1, <2>2 DEF EmitInv, SentAs
<1>3. CASE Collect
  <2>1. UNCHANGED <<now, lastEmit, sent>>
    BY <1>3 DEF Collect
  <2>2. ASSUME NEW i \in Id, NEW q \in Place, SentAs(q, i, lastEmit[i])
        PROVE  now - lastEmit[i] >= Interval \/ idOf'[q] = i
    <3> DEFINE last == sent[q][Len(sent[q])]
               e == lastEmit[i]
    <3>1. last \in Nat /\ e \in Nat /\ last >= e
      BY <1>1, <2>2, LastIsTime DEF SentAs
    <3>2. now - last >= Interval \/ last <= lastSeen[i] + MaxLag
      BY <2>2 DEF SentAs, RateInv, LastInv, KnownTo
    <3>3. CASE Expired(i)
      <4>1. lastSeen[i] < now - StaleAfter
        BY <3>3 DEF Expired
      <4> DEFINE s == lastSeen[i]
      <4>2. s \in Int
        BY <1>1
      <4>. HIDE DEF last, e, s
      <4>3. now - e >= Interval
        BY <1>1, <3>1, <3>2, <4>1, <4>2, TimingAssumption DEF s
      <4>. QED BY <4>3 DEF e
    <3>4. CASE ~Expired(i)
      <4>1. lastSeen[i] # Never
        BY <1>1, <2>2 DEF SentAs, RateInv, SeenInv
      <4>2. lastSeen'[i] # Never
        BY <1>3, <3>4, <4>1 DEF Collect
      <4>. QED BY <1>3, <2>2, <4>2 DEF Collect, SentAs
    <3>. QED BY <3>3, <3>4
  <2>. QED BY <2>1, <2>2 DEF EmitInv, SentAs
<1>4. CASE Report
  <2>1. PICK p, i : p = Head(tracks).place /\ i = Head(tracks).id
    OBVIOUS
  <2>2. /\ p \in Place /\ i \in Id /\ idOf[p] = i /\ UNCHANGED <<now, idOf>>
        /\ \/ /\ sent'[p] # <<>> /\ sent'[p][Len(sent'[p])] = now
              /\ \A q \in Place \ {p} : sent'[q] = sent[q]
              /\ lastEmit'[i] = now
              /\ \A j \in Id \ {i} : lastEmit'[j] = lastEmit[j]
           \/ UNCHANGED <<sent, lastEmit>>
    BY <1>4, <2>1, Reported
  <2>3. CASE UNCHANGED <<sent, lastEmit>>
    BY <2>2, <2>3 DEF EmitInv, SentAs
  <2>4. CASE /\ sent'[p] # <<>> /\ sent'[p][Len(sent'[p])] = now
             /\ \A q \in Place \ {p} : sent'[q] = sent[q]
             /\ lastEmit'[i] = now
             /\ \A j \in Id \ {i} : lastEmit'[j] = lastEmit[j]
    <3>1. /\ idOf'[p] = i /\ sent'[p] # <<>> /\ sent'[p][Len(sent'[p])] >= lastEmit'[i]
      BY <1>1, <2>2, <2>4
    <3>2. ASSUME NEW j \in Id \ {i}, NEW q \in Place, SentAs(q, j, lastEmit[j])
          PROVE  /\ idOf'[q] = j /\ sent'[q] # <<>>
                 /\ sent'[q][Len(sent'[q])] >= lastEmit'[j]
      <4>1. q # p
        BY <2>2, <3>2 DEF SentAs
      <4>. QED BY <2>2, <2>4, <3>2, <4>1 DEF SentAs
    <3>3. ASSUME NEW j \in Id
          PROVE  \/ lastEmit'[j] = 0
                 \/ now - lastEmit'[j] >= Interval
                 \/ \E q \in Place : /\ idOf'[q] = j /\ sent'[q] # <<>>
                                     /\ sent'[q][Len(sent'[q])] >= lastEmit'[j]
      BY <2>2, <2>4, <3>1, <3>2 DEF EmitInv
    <3>. QED BY <2>2, <3>3 DEF EmitInv, SentAs
  <2>. QED BY <2>2, <2>3, <2>4
<1>5. CASE Tick
  <2>1. now' = now + 1 /\ UNCHANGED <<idOf, lastEmit, sent>>
    BY <1>5 DEF Tick
  <2>. QED BY <1>1, <2>1 DEF EmitInv, SentAs
<1>6. CASE UNCHANGED <<now, idOf, lastEmit, sent>>
  BY <1>6 DEF EmitInv, SentAs
<1>. QED BY <1>2, <1>3, <1>4, <1>5, <1>6 DEF Next, EndFrame, vars

\* A report that is due is sent, and one that is not has a cause.
LEMMA ReportCause ==
  ASSUME TypeOK, TypeOK', RateInv, RateInv', EmitInv, Report, now >= Interval,
         Head(tracks).place \in Reportable
  PROVE  \E q \in Place : idOf[q] = idOf[Head(tracks).place] /\ SentLately(q)'
<1>1. PICK p, i : p = Head(tracks).place /\ i = Head(tracks).id
  OBVIOUS
<1>2. /\ p \in Place /\ i \in Id /\ idOf[p] = i /\ UNCHANGED <<now, idOf>>
      /\ \/ sent'[p] # <<>> /\ sent'[p][Len(sent'[p])] = now
         \/ ~Due(i) /\ UNCHANGED sent
  BY <1>1, Reported
<1>3. now \in Nat /\ Interval \in Nat \ {0} /\ lastEmit[i] \in Nat
  BY <1>2, EmitterAssumption DEF TypeOK, Time
<1>4. CASE sent'[p] # <<>> /\ sent'[p][Len(sent'[p])] = now
  <2>1. now - now < Interval
    BY <1>3
  <2>2. SentLately(p)'
    BY <1>2, <1>4, <2>1 DEF SentLately
  <2>. QED BY <1>1, <1>2, <2>2
<1>5. CASE ~Due(i) /\ UNCHANGED sent
  <2>1. ~(now - lastEmit[i] >= Interval)
    BY <1>5 DEF Due
  <2>2. lastEmit[i] # 0
    BY <1>3, <2>1
  <2>3. PICK q \in Place : SentAs(q, i, lastEmit[i])
    BY <1>2, <2>1, <2>2 DEF EmitInv
  <2> DEFINE last == sent[q][Len(sent[q])]
  <2>4. last \in Nat /\ last >= lastEmit[i]
    BY <2>3, LastIsTime DEF SentAs
  <2>5. now - last < Interval
    <3>. HIDE DEF last
    <3>. QED BY <1>3, <2>1, <2>4
  <2>6. SentLately(q)'
    BY <1>2, <1>5, <2>3, <2>5 DEF SentLately, SentAs
  <2>. QED BY <1>1, <1>2, <2>3, <2>6 DEF SentAs
<1>. QED BY <1>2, <1>4, <1>5

\* Whatever a detection is held back for was sent: a place that shares its id
\* now had a message within the interval, so no place falls silent because of
\* a message of an earlier owner of its id that nobody remembers.
THEOREM HeldBackOnlyForCause == Spec => HeldBackForCause
<1>1. TypeOK /\ RateInv /\ EmitInv /\ TypeOK' /\ RateInv' /\ [Next]_vars =>
        [\A p \in Place :
           /\ tracks # <<>> /\ phase # "dedup" /\ tracks' = Tail(tracks)
           /\ p = Head(tracks).place /\ p \in Reportable /\ now >= Interval
           => \E q \in Place : idOf[q] = idOf[p] /\ SentLately(q)']_vars
  <2> SUFFICES ASSUME TypeOK, RateInv, EmitInv, TypeOK', RateInv', [Next]_vars, NEW p \in Place,
                      tracks # <<>>, phase # "dedup", tracks' = Tail(tracks),
                      p = Head(tracks).place, p \in Reportable, now >= Interval
               PROVE  \E q \in Place : idOf[q] = idOf[p] /\ SentLately(q)'
    OBVIOUS
  <2>1. tracks' # tracks
    <3> DEFINE n == Len(tracks)
    <3>1. Len(Tail(tracks)) = n - 1 /\ n \in Nat
      BY DEF TypeOK
    <3>. HIDE DEF n
    <3>2. Len(Tail(tracks)) # n
      BY <3>1
    <3>. QED BY <3>2 DEF n
  <2>2. Report
    BY <2>1 DEF Next, Detect, Collect, EndFrame, Tick, vars
  <2>. QED BY <2>2, ReportCause
<1>. QED BY <1>1, TypeInit, TypeStep, RateInit, RateStep, EmitInit, EmitStep, PTL
     DEF Spec, HeldBackForCause
=============================================================================
