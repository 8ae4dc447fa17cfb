--------------------------- MODULE StreLinkProofs ---------------------------
(***************************************************************************)
(* Theorems about StreLink, for every number of processes, sources and     *)
(* files and every value of the bounds.                                    *)
(***************************************************************************)
EXTENDS StreLink, FiniteSetTheorems, TLAPS

\* What Append does to the type, the length and the elements of a sequence.
LEMMA AppendFacts ==
  ASSUME NEW S, NEW s \in Seq(S), NEW e \in S
  PROVE  /\ Append(s, e) \in Seq(S)
         /\ Len(s) \in Nat
         /\ Len(Append(s, e)) = Len(s) + 1
         /\ \A i \in 1 .. Len(s) : Append(s, e)[i] = s[i]
         /\ Append(s, e)[Len(s) + 1] = e
  OBVIOUS

-----------------------------------------------------------------------------
(* Type correctness.  TypeOK is not inductive alone: SealAndLog builds a    *)
(* datagram from counter[p] and produced[p], which are at least 1 in the    *)
(* middle of a write.                                                       *)

Busy == \A p \in Process :
          pc[p] \in {"replace", "seal", "send"} => counter[p] > 0 /\ produced[p] > 0

TypeInv == TypeOK /\ Busy

\* Each kind of step of the specification, by the action that takes it.
LEMMA StepCases ==
  ASSUME [Next]_vars
  PROVE  \/ \E p \in Process : Start(p) /\ UNCHANGED c2Vars
         \/ \E p \in Process : BeginSeal(p) /\ UNCHANGED c2Vars
         \/ \E p \in Process : ReplaceCounterFile(p) /\ UNCHANGED c2Vars
         \/ \E p \in Process : SealAndLog(p) /\ UNCHANGED c2Vars
         \/ \E p \in Process : SendDatagram(p) /\ UNCHANGED c2Vars
         \/ \E p \in Process : Terminate(p) /\ UNCHANGED c2Vars
         \/ \E f \in File : DamageCounterFile(f) /\ UNCHANGED c2Vars
         \/ \E d \in net : RejectReplay(d) /\ UNCHANGED edgeVars
         \/ \E d \in net : Admit(d) /\ UNCHANGED edgeVars
         \/ \E d \in handling : Discard(d) /\ UNCHANGED edgeVars
         \/ \E d \in handling : Record(d) /\ UNCHANGED edgeVars
         \/ \E d \in handling : RecordFails(d) /\ UNCHANGED edgeVars
         \/ RestartC2 /\ UNCHANGED edgeVars
         \/ \E d \in net : Lose(d) /\ UNCHANGED <<edgeVars, c2Vars>>
         \/ UNCHANGED vars
<1>1. CASE EdgeStep
  BY <1>1 DEF EdgeStep, EdgeNext, Write, ReplaceFails, CounterExhausted, Crash
<1>2. CASE C2Step
  BY <1>2 DEF C2Step, C2Next, Receive, Handle
<1>3. CASE LoseStep
  BY <1>3 DEF LoseStep
<1>4. CASE UNCHANGED vars
  BY <1>4
<1>5. QED
  BY <1>1, <1>2, <1>3, <1>4 DEF Next

LEMMA TypeInit == Init => TypeInv
  BY WireAssumption, EdgeAssumption, C2Assumption
     DEF Init, EdgeInit, NetInit, C2Init, TypeInv, TypeOK, Busy, Absent, Unreadable

LEMMA TypeStep == TypeInv /\ [Next]_vars => TypeInv'
<1> SUFFICES ASSUME TypeInv, [Next]_vars PROVE TypeInv'
  OBVIOUS
<1> USE WireAssumption, EdgeAssumption, C2Assumption DEF TypeInv, TypeOK, Busy, edgeVars, c2Vars
<1>1. ASSUME NEW p \in Process, Start(p), UNCHANGED c2Vars PROVE TypeInv'
  <2>1. FileOf[p] \in File
    OBVIOUS
  <2>2. ReadCounterFile(FileOf[p]) \in Nat
    BY <2>1 DEF ReadCounterFile
  <2>3. counter' \in [Process -> Nat] /\ starts' \in [Process -> 0 .. MaxStarts]
    BY <1>1, <2>2 DEF Start
  <2>4. QED
    BY <1>1, <2>3 DEF Start
<1>2. ASSUME NEW p \in Process, BeginSeal(p), UNCHANGED c2Vars PROVE TypeInv'
  <2>1. FileOf[p] \in File /\ counter[p] + 1 \in Nat
    OBVIOUS
  <2>2. /\ tmpFile' \in [File -> Nat \cup {Absent}]
        /\ counter' \in [Process -> Nat]
        /\ produced' \in [Process -> 0 .. MaxMessages]
    BY <1>2, <2>1 DEF BeginSeal, TmpText
  <2>3. QED
    BY <1>2, <2>2, SMTT(30) DEF BeginSeal
<1>3. ASSUME NEW p \in Process, ReplaceCounterFile(p), UNCHANGED c2Vars PROVE TypeInv'
  BY <1>3 DEF ReplaceCounterFile, Absent
<1>4. ASSUME NEW p \in Process, SealAndLog(p), UNCHANGED c2Vars PROVE TypeInv'
  <2> DEFINE D(k) == [from |-> p, ctr |-> counter[p], kind |-> k, n |-> produced[p]]
  <2>1. PICK k \in Kind : AppendToLog(p, D(k)) /\ sealed' = [sealed EXCEPT ![p] = {D(k)}]
    BY <1>4 DEF SealAndLog
  <2>2. D(k) \in Datagram
    BY <1>4 DEF SealAndLog, Datagram
  <2> HIDE DEF D
  <2>3. wireLog' \in [Process -> Seq(Datagram)] /\ sealed' \in [Process -> SUBSET Datagram]
    BY <2>1, <2>2 DEF AppendToLog
  <2>4. QED
    BY <1>4, <2>3 DEF SealAndLog
<1>5. ASSUME NEW p \in Process, SendDatagram(p), UNCHANGED c2Vars PROVE TypeInv'
  BY <1>5 DEF SendDatagram, Transmit
<1>6. ASSUME NEW p \in Process, Terminate(p), UNCHANGED c2Vars PROVE TypeInv'
  BY <1>6 DEF Terminate
<1>7. ASSUME NEW f \in File, DamageCounterFile(f), UNCHANGED c2Vars PROVE TypeInv'
  BY <1>7 DEF DamageCounterFile
<1>8. ASSUME NEW d \in net, RejectReplay(d), UNCHANGED edgeVars PROVE TypeInv'
  BY <1>8 DEF RejectReplay, Deliver
<1>9. ASSUME NEW d \in net, Admit(d), UNCHANGED edgeVars PROVE TypeInv'
  <2>1. /\ d \in Datagram
        /\ SourceId(d) \in Source
        /\ d.ctr \in 1 .. CounterMax
    BY DEF Datagram, SourceId
  <2>2. NewGaps(lastCounter[SourceId(d)], d.ctr) \in Nat
    BY <1>9, <2>1 DEF Admit, Fresh, NewGaps
  <2>3. QED
    BY <1>9, <2>1, <2>2 DEF Admit, Deliver
<1>10. ASSUME NEW d \in handling, Discard(d), UNCHANGED edgeVars PROVE TypeInv'
  BY <1>10 DEF Discard
<1>11. ASSUME NEW d \in handling, Record(d), UNCHANGED edgeVars PROVE TypeInv'
  <2>1. d.kind \in Kind
    BY DEF Datagram
  <2>2. [run |-> run, msg |-> d] \in Line
    BY DEF Line
  <2>3. Append(recorded[d.kind], [run |-> run, msg |-> d]) \in Seq(Line)
    <3>1. recorded[d.kind] \in Seq(Line)
      BY <2>1
    <3>2. QED
      BY <2>2, <3>1, AppendFacts
  <2>4. recorded' \in [Kind -> Seq(Line)]
    BY <1>11, <2>3 DEF Record
  <2>5. UNCHANGED <<lastCounter, gaps, admitted, run, net>> /\ handling' = {}
    BY <1>11 DEF Record
  <2>6. UNCHANGED <<pc, counter, counterFile, tmpFile, sealed, wireLog, produced, starts>>
    BY <1>11
  <2> HIDE DEF edgeVars, c2Vars
  <2>7. QED
    BY <2>4, <2>5, <2>6
<1>12. ASSUME NEW d \in handling, RecordFails(d), UNCHANGED edgeVars PROVE TypeInv'
  BY <1>12 DEF RecordFails
<1>13. ASSUME RestartC2, UNCHANGED edgeVars PROVE TypeInv'
  BY <1>13 DEF RestartC2
<1>14. ASSUME NEW d \in net, Lose(d), UNCHANGED <<edgeVars, c2Vars>> PROVE TypeInv'
  BY <1>14 DEF Lose
<1>15. ASSUME UNCHANGED vars PROVE TypeInv'
  BY <1>15 DEF vars
<1>16. QED
  BY <1>1, <1>2, <1>3, <1>4, <1>5, <1>6, <1>7, <1>8, <1>9, <1>10, <1>11, <1>12, <1>13,
     <1>14, <1>15, StepCases

LEMMA TypeInvariant == Spec => []TypeInv
  BY TypeInit, TypeStep, PTL DEF Spec

\* Every variable keeps its type, in every deployment, with files damaged,
\* datagrams lost, duplicated and reordered, and processes crashing.
THEOREM TypeCorrect == Spec => []TypeOK
  BY TypeInvariant, PTL DEF TypeInv
-----------------------------------------------------------------------------
(* The gap counters of the listener, whatever the edge does.               *)

\* What C2's three tables hold for one source.
Tables(s) ==
  /\ admitted[s] \subseteq 1 .. lastCounter[s]
  /\ lastCounter[s] > 0 => lastCounter[s] \in admitted[s]
  /\ gaps[s] = Cardinality(Missing(s))

GapInv == \A s \in Source : Tables(s)

\* The counters from a first one to a last one are finitely many.
LEMMA IntervalSize ==
  ASSUME NEW a \in Int, NEW b \in Int, a <= b + 1
  PROVE  IsFiniteSet(a .. b) /\ Cardinality(a .. b) = b - a + 1
  BY FS_Interval

\* Missing(s) is finite, as it lies below lastCounter[s].
LEMMA MissingFinite ==
  ASSUME TypeOK, NEW s \in Source
  PROVE  IsFiniteSet(Missing(s))
<1>1. lastCounter[s] \in Nat
  BY C2Assumption, WireAssumption DEF TypeOK
<1>2. IsFiniteSet(1 .. lastCounter[s])
  BY <1>1, IntervalSize
<1>3. Missing(s) \subseteq 1 .. lastCounter[s]
  BY DEF Missing
<1>4. QED
  BY <1>2, <1>3, FS_Subset

LEMMA GapInit == Init => GapInv
<1> SUFFICES ASSUME Init, NEW s \in Source PROVE Tables(s)
  BY DEF GapInv
<1>1. admitted[s] = {} /\ lastCounter[s] = 0 /\ gaps[s] = 0
  BY DEF Init, C2Init
<1>2. Missing(s) = {}
  BY <1>1 DEF Missing
<1>3. QED
  BY <1>1, <1>2, FS_EmptySet DEF Tables

\* A datagram that passes the check adds to the missing counters exactly the
\* ones it skipped, and none if it is the first of its source.
LEMMA AdmitKeepsTables ==
  ASSUME TypeInv, TypeInv', GapInv, NEW d \in net, Admit(d)
  PROVE  GapInv'
<1> SUFFICES ASSUME NEW s \in Source PROVE Tables(s)'
  BY DEF GapInv
<1> DEFINE t == SourceId(d)
<1> DEFINE last == lastCounter[s]
<1>1. /\ d.ctr \in 1 .. CounterMax
      /\ t \in Source
      /\ last \in Nat
      /\ CounterMax \in Nat
  BY WireAssumption, SMTT(30) DEF TypeInv, TypeOK, Datagram, SourceId
<1>2. Tables(s)
  BY DEF GapInv
<1>3. CASE s # t
  <2>1. /\ lastCounter'[s] = lastCounter[s]
        /\ admitted'[s] = admitted[s]
        /\ gaps'[s] = gaps[s]
    BY <1>1, <1>3 DEF Admit, TypeInv, TypeOK
  <2>2. Missing(s)' = Missing(s)
    BY <2>1 DEF Missing
  <2>3. QED
    BY <1>2, <2>1, <2>2 DEF Tables
<1>4. CASE s = t
  <2>1. /\ lastCounter'[s] = d.ctr
        /\ admitted'[s] = admitted[s] \cup {d.ctr}
        /\ gaps'[s] = gaps[s] + NewGaps(last, d.ctr)
        /\ d.ctr > last
    BY <1>1, <1>4 DEF Admit, Fresh, TypeInv, TypeOK
  <2>2. /\ admitted[s] \subseteq 1 .. last
        /\ last > 0 => last \in admitted[s]
        /\ gaps[s] = Cardinality(Missing(s))
    BY <1>2 DEF Tables
  <2>3. CASE last = 0
    <3>1. admitted[s] = {}
      BY <2>2, <2>3, <1>1
    <3>2. Missing(s) = {} /\ Missing(s)' = {}
      BY <1>1, <2>1, <2>3, <3>1 DEF Missing
    <3>3. NewGaps(last, d.ctr) = 0
      BY <2>3 DEF NewGaps
    <3>4. Cardinality(Missing(s)) = 0 /\ Cardinality(Missing(s)') = 0
      BY <3>2, FS_EmptySet
    <3>5. gaps'[s] = Cardinality(Missing(s)')
      BY <2>1, <2>2, <3>3, <3>4
    <3>6. QED
      BY <1>1, <2>1, <3>1, <3>5 DEF Tables
  <2>4. CASE last > 0
    <3> DEFINE skipped == last + 1 .. d.ctr - 1
    <3>1. Missing(s)' = Missing(s) \cup skipped
      BY <1>1, <2>1, <2>2, <2>4 DEF Missing
    <3>2. Missing(s) \cap skipped = {}
      BY <1>1 DEF Missing
    <3>3. IsFiniteSet(skipped) /\ Cardinality(skipped) = d.ctr - last - 1
      <4>1. last + 1 \in Int /\ d.ctr - 1 \in Int /\ last + 1 <= (d.ctr - 1) + 1
        BY <1>1, <2>1
      <4>2. IsFiniteSet(skipped) /\ Cardinality(skipped) = (d.ctr - 1) - (last + 1) + 1
        BY <4>1, IntervalSize
      <4>3. (d.ctr - 1) - (last + 1) + 1 = d.ctr - last - 1
        BY <1>1
      <4> HIDE DEF skipped
      <4>4. QED
        BY <4>2, <4>3
    <3>4. IsFiniteSet(Missing(s))
      BY MissingFinite DEF TypeInv
    <3>5. Cardinality(Missing(s)') = Cardinality(Missing(s)) + (d.ctr - last - 1)
      <4>1. Cardinality(Missing(s) \cap skipped) = 0
        BY <3>2, FS_EmptySet
      <4>2. Cardinality(Missing(s)) \in Nat
        BY <3>4, FS_CardinalityType
      <4>3. Cardinality(Missing(s)') = Cardinality(Missing(s)) + Cardinality(skipped)
                                       - Cardinality(Missing(s) \cap skipped)
        BY <3>1, <3>3, <3>4, FS_Union
      <4> HIDE DEF skipped, last
      <4>4. QED
        BY <3>3, <4>1, <4>2, <4>3, <1>1
    <3>6. NewGaps(last, d.ctr) = d.ctr - last - 1
      BY <2>4 DEF NewGaps
    <3>7. gaps'[s] = Cardinality(Missing(s)')
      BY <2>1, <2>2, <3>5, <3>6
    <3>8. QED
      BY <1>1, <2>1, <2>2, <3>7 DEF Tables
  <2>5. QED
    BY <1>1, <2>3, <2>4
<1>5. QED
  BY <1>3, <1>4

LEMMA GapStep == TypeInv /\ TypeInv' /\ GapInv /\ [Next]_vars => GapInv'
<1> SUFFICES ASSUME TypeInv, TypeInv', GapInv, [Next]_vars PROVE GapInv'
  OBVIOUS
<1>1. ASSUME NEW d \in net, Admit(d) PROVE GapInv'
  BY <1>1, AdmitKeepsTables
<1>2. ASSUME RestartC2 PROVE GapInv'
  <2> SUFFICES ASSUME NEW s \in Source PROVE Tables(s)'
    BY DEF GapInv
  <2>1. admitted'[s] = {} /\ lastCounter'[s] = 0 /\ gaps'[s] = 0
    BY <1>2 DEF RestartC2
  <2>2. Missing(s)' = {}
    BY <2>1 DEF Missing
  <2>3. Cardinality(Missing(s)') = 0
    BY <2>2, FS_EmptySet
  <2>4. QED
    BY <2>1, <2>3 DEF Tables
<1>3. ASSUME UNCHANGED <<lastCounter, gaps, admitted>> PROVE GapInv'
  BY <1>3 DEF GapInv, Tables, Missing
<1>4. QED
  BY <1>1, <1>2, <1>3, StepCases DEF c2Vars, vars, RejectReplay, Discard, Record, RecordFails

\* The total of gaps C2 reports for a source is the number of counters it has
\* not admitted between the first and the newest one, in every deployment.
THEOREM GapsAreCounted == Spec => []GapAccounting
<1>1. GapInv => GapAccounting
  BY DEF GapInv, Tables, GapAccounting
<1>2. Init => GapInv
  BY GapInit
<1>3. QED
  BY <1>1, <1>2, TypeInvariant, GapStep, PTL DEF Spec
-----------------------------------------------------------------------------
(* What is in flight or known at C2 is in a wire log, whatever fails.      *)

PathInv ==
  /\ \A p \in Process : sealed[p] \subseteq Logged(p)
  /\ LoggedBeforeSent

\* A step that appends d to one log adds d to what is logged there.
LEMMA LoggedAppend ==
  ASSUME TypeOK, NEW p \in Process, NEW d \in Datagram, AppendToLog(p, d)
  PROVE  /\ Logged(p)' = Logged(p) \cup {d}
         /\ \A q \in Process : q # p => Logged(q)' = Logged(q)
<1>1. wireLog[p] \in Seq(Datagram) /\ wireLog'[p] = Append(wireLog[p], d)
  BY DEF AppendToLog, TypeOK
<1>2. /\ Len(wireLog[p]) \in Nat
      /\ Len(wireLog'[p]) = Len(wireLog[p]) + 1
      /\ \A i \in 1 .. Len(wireLog[p]) : wireLog'[p][i] = wireLog[p][i]
      /\ wireLog'[p][Len(wireLog[p]) + 1] = d
  BY <1>1, AppendFacts
<1>3. Logged(p)' = Logged(p) \cup {d}
  BY <1>2 DEF Logged
<1>4. \A q \in Process : q # p => Logged(q)' = Logged(q)
  BY DEF AppendToLog, TypeOK, Logged
<1>5. QED
  BY <1>3, <1>4

LEMMA PathInit == Init => PathInv
  BY DEF Init, EdgeInit, NetInit, C2Init, PathInv, LoggedBeforeSent

\* When logs only grow, what was logged stays logged.
LEMMA PathGrows ==
  ASSUME PathInv, \A p \in Process : Logged(p) \subseteq Logged(p)',
         \A p \in Process : sealed'[p] \subseteq Logged(p)',
         net' \cup handling' \subseteq AllLogged',
         UNCHANGED recorded
  PROVE  PathInv'
<1>1. AllLogged \subseteq AllLogged'
  BY DEF AllLogged
<1>2. QED
  BY <1>1 DEF PathInv, LoggedBeforeSent

LEMMA PathStep == TypeInv /\ PathInv /\ [Next]_vars => PathInv'
<1> SUFFICES ASSUME TypeInv, PathInv, [Next]_vars PROVE PathInv'
  OBVIOUS
<1> USE DEF edgeVars, c2Vars
<1>0. TypeOK
  BY DEF TypeInv
<1>1. ASSUME NEW p \in Process, SealAndLog(p), UNCHANGED c2Vars PROVE PathInv'
  <2> DEFINE D(k) == [from |-> p, ctr |-> counter[p], kind |-> k, n |-> produced[p]]
  <2>1. PICK k \in Kind : AppendToLog(p, D(k)) /\ sealed' = [sealed EXCEPT ![p] = {D(k)}]
    BY <1>1 DEF SealAndLog
  <2>2. D(k) \in Datagram
    BY <1>0, <1>1, WireAssumption DEF SealAndLog, Datagram, TypeInv, TypeOK, Busy
  <2> HIDE DEF D
  <2>3. /\ Logged(p)' = Logged(p) \cup {D(k)}
        /\ \A q \in Process : q # p => Logged(q)' = Logged(q)
    BY <1>0, <2>1, <2>2, LoggedAppend
  <2>4. \A q \in Process : sealed'[q] \subseteq Logged(q)'
    BY <1>0, <2>1, <2>3 DEF PathInv, TypeOK
  <2>5. \A q \in Process : Logged(q) \subseteq Logged(q)'
    BY <2>3
  <2>6. AllLogged \subseteq AllLogged'
    BY <2>5 DEF AllLogged
  <2>7. UNCHANGED <<net, handling, recorded>>
    BY <1>1 DEF SealAndLog
  <2>8. net' \cup handling' \subseteq AllLogged'
    BY <2>6, <2>7 DEF PathInv, LoggedBeforeSent
  <2>9. QED
    BY <2>4, <2>5, <2>7, <2>8, PathGrows
<1>2. ASSUME NEW p \in Process, SendDatagram(p), UNCHANGED c2Vars PROVE PathInv'
  <2>1. UNCHANGED <<wireLog, handling, recorded>>
    BY <1>2 DEF SendDatagram
  <2>2. \A q \in Process : Logged(q)' = Logged(q)
    BY <2>1 DEF Logged
  <2>3. AllLogged' = AllLogged
    BY <2>2 DEF AllLogged
  <2>4. \A q \in Process : sealed'[q] \subseteq Logged(q)'
    BY <1>0, <1>2, <2>2 DEF SendDatagram, PathInv, TypeOK
  <2>5. net' \subseteq net \cup sealed[p]
    BY <1>2 DEF SendDatagram, Transmit
  <2>6. net' \cup handling' \subseteq AllLogged'
    BY <2>1, <2>3, <2>5 DEF PathInv, LoggedBeforeSent, AllLogged
  <2>7. QED
    BY <2>1, <2>2, <2>4, <2>6, PathGrows
<1>3. ASSUME UNCHANGED wireLog, UNCHANGED recorded,
             \A q \in Process : sealed'[q] \subseteq sealed[q],
             net' \cup handling' \subseteq net \cup handling
      PROVE  PathInv'
  <2>1. \A q \in Process : Logged(q)' = Logged(q)
    BY <1>3 DEF Logged
  <2>2. AllLogged' = AllLogged
    BY <2>1 DEF AllLogged
  <2>3. QED
    BY <1>3, <2>1, <2>2, PathGrows DEF PathInv, LoggedBeforeSent
<1>4. ASSUME NEW p \in Process, Terminate(p), UNCHANGED c2Vars PROVE PathInv'
  <2>1. \A q \in Process : sealed'[q] \subseteq sealed[q]
    BY <1>0, <1>4 DEF Terminate, TypeOK
  <2>2. QED
    BY <1>3, <1>4, <2>1 DEF Terminate
<1>5. ASSUME NEW d \in handling, Record(d), UNCHANGED edgeVars PROVE PathInv'
  <2>1. \A q \in Process : Logged(q)' = Logged(q)
    BY <1>5 DEF Logged
  <2>2. AllLogged' = AllLogged
    BY <2>1 DEF AllLogged
  <2>3. d \in AllLogged
    BY DEF PathInv, LoggedBeforeSent
  <2>4. ASSUME NEW k \in Kind, NEW i \in 1 .. Len(recorded'[k])
        PROVE  recorded'[k][i].msg \in AllLogged
    <3>1. /\ recorded[k] \in Seq(Line)
          /\ [run |-> run, msg |-> d] \in Line
      BY <1>0 DEF TypeOK, Line
    <3> DEFINE line == [run |-> run, msg |-> d]
    <3>2. line.msg = d
      OBVIOUS
    <3> HIDE DEF line
    <3>3. recorded' = [recorded EXCEPT ![d.kind] = Append(@, line)]
      BY <1>5 DEF Record, line
    <3>4. CASE k # d.kind
      BY <1>0, <3>3, <3>4 DEF PathInv, LoggedBeforeSent, TypeOK
    <3>5. CASE k = d.kind
      <4>1. recorded'[k] = Append(recorded[k], line)
        BY <1>0, <3>3, <3>5 DEF TypeOK
      <4>2. line \in Line
        BY <3>1 DEF line
      <4>3. /\ Len(recorded[k]) \in Nat
            /\ Len(recorded'[k]) = Len(recorded[k]) + 1
            /\ \A j \in 1 .. Len(recorded[k]) : recorded'[k][j] = recorded[k][j]
            /\ recorded'[k][Len(recorded[k]) + 1] = line
        BY <3>1, <4>1, <4>2, AppendFacts
      <4>4. CASE i \in 1 .. Len(recorded[k])
        BY <4>3, <4>4 DEF PathInv, LoggedBeforeSent
      <4>5. CASE i = Len(recorded[k]) + 1
        BY <2>3, <3>2, <4>3, <4>5
      <4>6. QED
        BY <4>3, <4>4, <4>5
    <3>6. QED
      BY <3>4, <3>5
  <2>5. net' \cup handling' \subseteq AllLogged'
    BY <1>5, <2>2 DEF Record, PathInv, LoggedBeforeSent
  <2>6. \A q \in Process : sealed'[q] \subseteq Logged(q)'
    BY <1>5, <2>1 DEF PathInv
  <2>7. QED
    BY <2>2, <2>4, <2>5, <2>6 DEF PathInv, LoggedBeforeSent
<1>6. ASSUME NEW d \in net, Admit(d), UNCHANGED edgeVars PROVE PathInv'
  BY <1>3, <1>6 DEF Admit, Deliver
<1>7. ASSUME NEW d \in net, RejectReplay(d), UNCHANGED edgeVars PROVE PathInv'
  BY <1>3, <1>7 DEF RejectReplay, Deliver
<1>8. ASSUME NEW p \in Process, Start(p) \/ BeginSeal(p) \/ ReplaceCounterFile(p),
             UNCHANGED c2Vars
      PROVE  PathInv'
  BY <1>3, <1>8 DEF Start, BeginSeal, ReplaceCounterFile
<1>9. ASSUME NEW f \in File, DamageCounterFile(f), UNCHANGED c2Vars PROVE PathInv'
  BY <1>3, <1>9 DEF DamageCounterFile
<1>10. ASSUME NEW d \in handling, Discard(d) \/ RecordFails(d), UNCHANGED edgeVars
       PROVE  PathInv'
  BY <1>3, <1>10 DEF Discard, RecordFails
<1>11. ASSUME RestartC2, UNCHANGED edgeVars PROVE PathInv'
  BY <1>3, <1>11 DEF RestartC2
<1>12. ASSUME NEW d \in net, Lose(d), UNCHANGED <<edgeVars, c2Vars>> PROVE PathInv'
  BY <1>3, <1>12 DEF Lose
<1>13. ASSUME UNCHANGED vars PROVE PathInv'
  BY <1>3, <1>13 DEF vars
<1>14. QED
  BY <1>1, <1>2, <1>4, <1>5, <1>6, <1>7, <1>8, <1>9, <1>10, <1>11, <1>12, <1>13, StepCases

LEMMA PathInvariant == Spec => []PathInv
  BY PathInit, PathStep, TypeInvariant, PTL DEF Spec

\* Whatever crashes, is lost or damaged, a datagram in flight, in C2's hands or
\* in C2's files stands in the wire log of the process that sealed it.
THEOREM SentIsLogged == Spec => []LoggedBeforeSent
<1>1. PathInv => LoggedBeforeSent
  BY DEF PathInv
<1>2. QED
  BY <1>1, PathInvariant, PTL
-----------------------------------------------------------------------------
(* The order of counters in C2's files, whatever the edge does.  CounterOrder *)
(* is inductive once it is known that the lines of this run lie below the   *)
(* table of last counters, and strictly below the datagram in hand.         *)

Below ==
  \A k \in Kind : \A i \in 1 .. Len(recorded[k]) :
    LET l == recorded[k][i]
    IN  /\ l.run <= run
        /\ l.run = run => /\ l.msg.ctr <= lastCounter[SourceId(l.msg)]
                          /\ \A d \in handling :
                               SourceId(d) = SourceId(l.msg) => l.msg.ctr < d.ctr

InHand == \A d \in handling : d.ctr <= lastCounter[SourceId(d)]

OrderInv == Below /\ InHand /\ CounterOrder

LEMMA OrderInit == Init => OrderInv
  BY DEF Init, C2Init, OrderInv, Below, InHand, CounterOrder

\* The parts of a line, for use where Datagram and Line stay folded.
LEMMA LineParts ==
  ASSUME TypeOK, NEW k \in Kind, NEW i \in 1 .. Len(recorded[k])
  PROVE  /\ recorded[k][i] \in Line
         /\ recorded[k][i].run \in Nat
         /\ recorded[k][i].msg \in Datagram
         /\ recorded[k][i].msg.ctr \in Nat
         /\ SourceId(recorded[k][i].msg) \in Source
<1>1. recorded[k] \in Seq(Line)
  BY DEF TypeOK
<1>2. recorded[k][i] \in Line
  BY <1>1
<1>3. QED
  BY <1>2, WireAssumption DEF Line, Datagram, SourceId

LEMMA OrderStep == TypeInv /\ OrderInv /\ [Next]_vars => OrderInv'
<1> SUFFICES ASSUME TypeInv, OrderInv, [Next]_vars PROVE OrderInv'
  OBVIOUS
<1>0. TypeOK
  BY DEF TypeInv
<1>1. ASSUME NEW d \in net, Admit(d) PROVE OrderInv'
  <2> DEFINE s == SourceId(d)
  <2>1. /\ handling' = {d}
        /\ UNCHANGED <<run, recorded>>
        /\ lastCounter' = [lastCounter EXCEPT ![s] = d.ctr]
        /\ d.ctr > lastCounter[s]
    BY <1>1 DEF Admit, Fresh
  <2>2. s \in Source /\ d.ctr \in Nat /\ lastCounter \in [Source -> Nat]
    BY <1>0, WireAssumption DEF TypeOK, Datagram, SourceId
  <2>3. InHand'
    BY <2>1, <2>2 DEF InHand, SourceId
  <2>4. CounterOrder'
    BY <2>1 DEF OrderInv, CounterOrder
  <2>5. ASSUME NEW k \in Kind, NEW i \in 1 .. Len(recorded[k])
        PROVE  LET l == recorded[k][i]
               IN  /\ l.run <= run
                   /\ l.run = run => /\ l.msg.ctr <= lastCounter'[SourceId(l.msg)]
                                     /\ s = SourceId(l.msg) => l.msg.ctr < d.ctr
    <3> DEFINE l == recorded[k][i]
    <3>1. l.run \in Nat /\ l.msg.ctr \in Nat /\ SourceId(l.msg) \in Source
      BY <1>0, LineParts
    <3>2. l.run <= run /\ (l.run = run => l.msg.ctr <= lastCounter[SourceId(l.msg)])
      BY DEF OrderInv, Below
    <3> HIDE DEF l, s
    <3>3. l.run = run => /\ l.msg.ctr <= lastCounter'[SourceId(l.msg)]
                         /\ s = SourceId(l.msg) => l.msg.ctr < d.ctr
      BY <2>1, <2>2, <3>1, <3>2
    <3>4. QED
      BY <3>2, <3>3 DEF l
  <2>6. Below'
    BY <2>1, <2>5 DEF Below, SourceId
  <2>7. QED
    BY <2>3, <2>4, <2>6 DEF OrderInv
<1>2. ASSUME NEW d \in handling, Record(d) PROVE OrderInv'
  <2> DEFINE line == [run |-> run, msg |-> d]
  <2>1. /\ line.run = run /\ line.msg = d
        /\ line \in Line
        /\ d.kind \in Kind
        /\ d.ctr \in Nat
    BY <1>0 DEF TypeOK, Line, Datagram
  <2>2. /\ recorded' = [recorded EXCEPT ![d.kind] = Append(@, line)]
        /\ handling = {d}
        /\ handling' = {}
        /\ UNCHANGED <<lastCounter, run>>
    BY <1>2 DEF Record
  <2> HIDE DEF line
  <2>3. recorded[d.kind] \in Seq(Line) /\ recorded'[d.kind] = Append(recorded[d.kind], line)
    BY <1>0, <2>1, <2>2 DEF TypeOK
  <2>4. /\ Len(recorded[d.kind]) \in Nat
        /\ Len(recorded'[d.kind]) = Len(recorded[d.kind]) + 1
        /\ \A j \in 1 .. Len(recorded[d.kind]) :
             recorded'[d.kind][j] = recorded[d.kind][j]
        /\ recorded'[d.kind][Len(recorded[d.kind]) + 1] = line
    BY <2>1, <2>3, AppendFacts
  <2>5. \A k \in Kind : k # d.kind => recorded'[k] = recorded[k]
    BY <1>0, <2>2 DEF TypeOK
  <2>6. ASSUME NEW k \in Kind, NEW i \in 1 .. Len(recorded'[k])
        PROVE  \/ i \in 1 .. Len(recorded[k]) /\ recorded'[k][i] = recorded[k][i]
               \/ k = d.kind /\ i = Len(recorded[k]) + 1 /\ recorded'[k][i] = line
    BY <2>4, <2>5
  <2>7. InHand'
    BY <2>2 DEF InHand
  <2>8. Below'
    <3> SUFFICES ASSUME NEW k \in Kind, NEW i \in 1 .. Len(recorded'[k])
                 PROVE  /\ recorded'[k][i].run <= run
                        /\ recorded'[k][i].run = run
                           => recorded'[k][i].msg.ctr
                                <= lastCounter[SourceId(recorded'[k][i].msg)]
      BY <2>2 DEF Below, SourceId
    <3>1. CASE i \in 1 .. Len(recorded[k]) /\ recorded'[k][i] = recorded[k][i]
      BY <3>1 DEF OrderInv, Below
    <3>2. CASE recorded'[k][i] = line
      <4>1. d.ctr <= lastCounter[SourceId(d)]
        BY DEF OrderInv, InHand
      <4>2. run <= run
        BY <1>0, C2Assumption DEF TypeOK
      <4>3. QED
        BY <2>1, <3>2, <4>1, <4>2
    <3>3. QED
      BY <2>6, <3>1, <3>2
  <2>9. CounterOrder'
    <3> SUFFICES ASSUME NEW k \in Kind,
                        NEW i \in 1 .. Len(recorded'[k]), NEW j \in 1 .. Len(recorded'[k]),
                        i < j,
                        recorded'[k][i].run = recorded'[k][j].run,
                        SourceId(recorded'[k][i].msg) = SourceId(recorded'[k][j].msg)
                 PROVE  recorded'[k][i].msg.ctr < recorded'[k][j].msg.ctr
      BY DEF CounterOrder, SourceId
    <3>0. Len(recorded[k]) \in Nat /\ Len(recorded'[k]) \in Nat
      BY <1>0, <2>4, <2>5 DEF TypeOK
    <3>1. CASE j \in 1 .. Len(recorded[k]) /\ recorded'[k][j] = recorded[k][j]
      <4>1. i \in 1 .. Len(recorded[k])
        BY <3>0, <3>1
      <4>2. recorded'[k][i] = recorded[k][i]
        BY <2>6, <3>0, <4>1
      <4>3. QED
        BY <3>1, <4>1, <4>2 DEF OrderInv, CounterOrder
    <3>2. CASE j = Len(recorded[k]) + 1 /\ recorded'[k][j] = line
      <4>1. i \in 1 .. Len(recorded[k])
        BY <3>0, <3>2
      <4>2. recorded'[k][i] = recorded[k][i]
        BY <2>6, <3>0, <4>1
      <4>3. QED
        BY <2>1, <2>2, <3>2, <4>1, <4>2 DEF OrderInv, Below
    <3>3. QED
      BY <2>6, <3>1, <3>2
  <2>10. QED
    BY <2>7, <2>8, <2>9 DEF OrderInv
<1>3. ASSUME RestartC2 PROVE OrderInv'
  <2>1. run' = run + 1 /\ handling' = {} /\ recorded' = recorded /\ run \in Nat
    BY <1>0, <1>3, C2Assumption DEF RestartC2, TypeOK
  <2>2. ASSUME NEW k \in Kind, NEW i \in 1 .. Len(recorded[k])
        PROVE  recorded[k][i].run <= run + 1 /\ recorded[k][i].run # run + 1
    BY <1>0, <2>1, LineParts DEF OrderInv, Below
  <2>3. Below'
    BY <2>1, <2>2 DEF Below
  <2>4. QED
    BY <2>1, <2>3 DEF OrderInv, InHand, CounterOrder, SourceId
<1>4. ASSUME UNCHANGED <<lastCounter, run, recorded>>, handling' \subseteq handling
      PROVE  OrderInv'
  BY <1>4 DEF OrderInv, Below, InHand, CounterOrder, SourceId
<1>5. QED
  BY <1>1, <1>2, <1>3, <1>4, StepCases DEF c2Vars, vars, RejectReplay, Discard, RecordFails

LEMMA OrderInvariant == Spec => []OrderInv
  BY OrderInit, OrderStep, TypeInvariant, PTL DEF Spec

\* In one run of C2, and in each of its files, the counters of a source only
\* grow, even when sources are shared and counter files are damaged.
THEOREM CountersGrowInFiles == Spec => []CounterOrder
<1>1. OrderInv => CounterOrder
  BY DEF OrderInv
<1>2. QED
  BY <1>1, OrderInvariant, PTL
-----------------------------------------------------------------------------
(* Counters, in the deployment the code is written for.  The file is ahead  *)
(* of everything logged, and the copy in memory is the file's, or one more  *)
(* while the .tmp file waits to be renamed.  Without SoleWriter another     *)
(* process can move the file under both.                                    *)

\* The file, the .tmp file and the memory of p agree.
Agree(p) ==
  /\ counterFile[FileOf[p]] \in Nat
  /\ pc[p] \in {"idle", "seal", "send"} => counter[p] = counterFile[FileOf[p]]
  /\ pc[p] = "replace" => /\ counter[p] = counterFile[FileOf[p]] + 1
                          /\ tmpFile[FileOf[p]] = counter[p]

\* What p logged lies below its file and its perception, strictly so before the
\* message in hand is logged.
Bounded(p) ==
  \A d \in Logged(p) :
    /\ d.from = p
    /\ d.ctr <= counterFile[FileOf[p]]
    /\ d.n <= produced[p]
    /\ pc[p] = "seal" => d.ctr < counterFile[FileOf[p]]
    /\ pc[p] \in {"replace", "seal"} => d.n < produced[p]

\* Counter and perception grow along the log of p.
Growing(p) ==
  \A i, j \in 1 .. Len(wireLog[p]) :
    i < j => /\ wireLog[p][i].ctr < wireLog[p][j].ctr
             /\ wireLog[p][i].n < wireLog[p][j].n

Edge(p) == Agree(p) /\ Bounded(p) /\ Growing(p)

EdgeInv == \A p \in Process : Edge(p)

LEMMA LogInit == Init => EdgeInv
  BY EdgeAssumption DEF Init, EdgeInit, EdgeInv, Edge, Agree, Bounded, Growing, Logged

\* A process is untouched by a step that leaves its own state and file alone.
LEMMA EdgeFrame ==
  ASSUME NEW p \in Process, Edge(p),
         pc'[p] = pc[p], counter'[p] = counter[p], wireLog'[p] = wireLog[p],
         produced'[p] = produced[p],
         counterFile'[FileOf[p]] = counterFile[FileOf[p]],
         tmpFile'[FileOf[p]] = tmpFile[FileOf[p]]
  PROVE  Edge(p)'
  BY DEF Edge, Agree, Bounded, Growing, Logged

\* The parts of what a process logged.
LEMMA LoggedParts ==
  ASSUME TypeOK, NEW p \in Process, NEW d \in Logged(p)
  PROVE  d \in Datagram /\ d.ctr \in Nat /\ d.n \in Nat
<1>1. d \in Datagram
  BY DEF Logged, TypeOK
<1>2. QED
  BY <1>1 DEF Datagram

LEMMA EdgeStepKeeps == SoleWriter /\ TypeInv /\ EdgeInv /\ [Next]_vars => EdgeInv'
<1> SUFFICES ASSUME SoleWriter, TypeInv, EdgeInv, [Next]_vars, NEW p \in Process
             PROVE  Edge(p)'
  BY DEF EdgeInv
<1> USE DEF edgeVars, c2Vars
<1>0. /\ TypeOK /\ Busy /\ Edge(p)
      /\ FileOf[p] \in File
      /\ \A q \in Process : q # p => FileOf[q] # FileOf[p]
  BY EdgeAssumption DEF TypeInv, EdgeInv, SoleWriter
<1>1. ASSUME NEW q \in Process, Start(q) PROVE Edge(p)'
  <2>1. CASE q # p
    BY <1>0, <1>1, <2>1, EdgeFrame DEF Start, TypeOK
  <2>2. CASE q = p
    <3>1. /\ pc'[p] = "idle" /\ counter'[p] = counterFile[FileOf[p]]
          /\ UNCHANGED <<counterFile, wireLog, produced>>
      BY <1>0, <1>1, <2>2 DEF Start, TypeOK, ReadCounterFile, Unreadable, Edge, Agree
    <3>2. QED
      BY <1>0, <3>1 DEF Edge, Agree, Bounded, Growing, Logged
  <2>3. QED
    BY <2>1, <2>2
<1>2. ASSUME NEW q \in Process, BeginSeal(q) PROVE Edge(p)'
  <2>1. CASE q # p
    <3>1. FileOf[q] # FileOf[p]
      BY <1>0, <2>1
    <3>2. QED
      BY <1>0, <1>2, <2>1, <3>1, EdgeFrame DEF BeginSeal, TypeOK
  <2>2. CASE q = p
    <3>1. /\ pc[p] = "idle" /\ pc'[p] = "replace"
          /\ counter'[p] = counter[p] + 1
          /\ tmpFile'[FileOf[p]] = counter[p] + 1
          /\ produced'[p] = produced[p] + 1
          /\ UNCHANGED <<counterFile, wireLog>>
      BY <1>0, <1>2, <2>2 DEF BeginSeal, TmpText, TypeOK
    <3>2. Agree(p)'
      BY <1>0, <3>1 DEF Edge, Agree
    <3>3. ASSUME NEW d \in Logged(p)
          PROVE  d.from = p /\ d.ctr <= counterFile[FileOf[p]] /\ d.n < produced[p] + 1
      <4>1. d.n \in Nat /\ produced[p] \in Nat /\ d.n <= produced[p]
        BY <1>0, LoggedParts, SMTT(30) DEF Edge, Bounded, TypeOK
      <4>2. QED
        BY <1>0, <4>1 DEF Edge, Bounded
    <3>4. produced[p] + 1 \in Nat /\ \A d \in Logged(p) : d.n \in Nat
      BY <1>0, LoggedParts DEF TypeOK
    <3>5. Bounded(p)'
      BY <3>1, <3>3, <3>4 DEF Bounded, Logged
    <3>6. QED
      BY <1>0, <3>1, <3>2, <3>5 DEF Edge, Growing
  <2>3. QED
    BY <2>1, <2>2
<1>3. ASSUME NEW q \in Process, ReplaceCounterFile(q) PROVE Edge(p)'
  <2>1. CASE q # p
    <3>1. FileOf[q] # FileOf[p]
      BY <1>0, <2>1
    <3>2. QED
      BY <1>0, <1>3, <2>1, <3>1, EdgeFrame DEF ReplaceCounterFile, TypeOK
  <2>2. CASE q = p
    <3>1. /\ pc[p] = "replace" /\ pc'[p] = "seal"
          /\ counterFile'[FileOf[p]] = tmpFile[FileOf[p]]
          /\ UNCHANGED <<counter, wireLog, produced>>
      BY <1>0, <1>3, <2>2 DEF ReplaceCounterFile, TypeOK
    <3>2. /\ counterFile[FileOf[p]] \in Nat
          /\ counter[p] = counterFile[FileOf[p]] + 1
          /\ counterFile'[FileOf[p]] = counter[p]
      BY <1>0, <3>1 DEF Edge, Agree
    <3>3. Agree(p)'
      BY <3>1, <3>2 DEF Agree
    <3>4. ASSUME NEW d \in Logged(p)
          PROVE  d.from = p /\ d.ctr < counter[p] /\ d.ctr <= counter[p]
                 /\ d.n < produced[p] /\ d.n <= produced[p]
      <4>1. d.ctr <= counterFile[FileOf[p]] /\ d.n < produced[p] /\ d.from = p
        BY <1>0, <3>1 DEF Edge, Bounded
      <4>2. d.ctr \in Nat /\ d.n \in Nat /\ produced[p] \in Nat
        BY <1>0, LoggedParts, SMTT(30) DEF TypeOK
      <4>3. QED
        BY <3>2, <4>1, <4>2
    <3>5. Bounded(p)'
      BY <3>1, <3>2, <3>4 DEF Bounded, Logged
    <3>6. QED
      BY <1>0, <3>1, <3>3, <3>5 DEF Edge, Growing
  <2>3. QED
    BY <2>1, <2>2
<1>4. ASSUME NEW q \in Process, SealAndLog(q) PROVE Edge(p)'
  <2>1. CASE q # p
    BY <1>0, <1>4, <2>1, EdgeFrame DEF SealAndLog, AppendToLog, TypeOK
  <2>2. CASE q = p
    <3> DEFINE D(k) == [from |-> p, ctr |-> counter[p], kind |-> k, n |-> produced[p]]
    <3>1. PICK k \in Kind : AppendToLog(p, D(k))
      BY <1>4, <2>2 DEF SealAndLog
    <3>2. /\ D(k) \in Datagram
          /\ D(k).from = p /\ D(k).ctr = counter[p] /\ D(k).n = produced[p]
      BY <1>0, <1>4, <2>2, WireAssumption DEF SealAndLog, Datagram, TypeOK, Busy
    <3>3. /\ pc[p] = "seal" /\ pc'[p] = "send"
          /\ UNCHANGED <<counterFile, counter, produced>>
          /\ counter[p] = counterFile[FileOf[p]]
          /\ counter[p] \in Nat /\ produced[p] \in Nat
      BY <1>0, <1>4, <2>2 DEF SealAndLog, Edge, Agree, TypeOK
    <3> HIDE DEF D
    <3>4. Logged(p)' = Logged(p) \cup {D(k)}
      BY <1>0, <3>1, <3>2, LoggedAppend
    <3>5. Agree(p)'
      BY <1>0, <3>3 DEF Edge, Agree
    <3>6. Bounded(p)'
      BY <1>0, <3>2, <3>3, <3>4 DEF Edge, Bounded
    <3>7. Growing(p)'
      <4>1. wireLog[p] \in Seq(Datagram) /\ wireLog'[p] = Append(wireLog[p], D(k))
        BY <1>0, <3>1 DEF TypeOK, AppendToLog
      <4>2. /\ Len(wireLog[p]) \in Nat
            /\ Len(wireLog'[p]) = Len(wireLog[p]) + 1
            /\ \A i \in 1 .. Len(wireLog[p]) : wireLog'[p][i] = wireLog[p][i]
            /\ wireLog'[p][Len(wireLog[p]) + 1] = D(k)
        BY <3>2, <4>1, AppendFacts
      <4>3. \A i \in 1 .. Len(wireLog[p]) :
              wireLog[p][i].ctr < counter[p] /\ wireLog[p][i].n < produced[p]
        BY <1>0, <3>3 DEF Edge, Bounded, Logged
      <4>4. SUFFICES ASSUME NEW i \in 1 .. Len(wireLog'[p]),
                            NEW j \in 1 .. Len(wireLog'[p]), i < j
                     PROVE  /\ wireLog'[p][i].ctr < wireLog'[p][j].ctr
                            /\ wireLog'[p][i].n < wireLog'[p][j].n
        BY DEF Growing
      <4>5. i \in 1 .. Len(wireLog[p]) /\ wireLog'[p][i] = wireLog[p][i]
        BY <4>2, <4>4
      <4>6. CASE j \in 1 .. Len(wireLog[p])
        BY <1>0, <4>2, <4>4, <4>5, <4>6 DEF Edge, Growing
      <4>7. CASE j = Len(wireLog[p]) + 1
        BY <3>2, <4>2, <4>3, <4>5, <4>7
      <4>8. QED
        BY <4>2, <4>6, <4>7
    <3>8. QED
      BY <3>5, <3>6, <3>7 DEF Edge
  <2>3. QED
    BY <2>1, <2>2
<1>5. ASSUME NEW q \in Process, SendDatagram(q) PROVE Edge(p)'
  <2>1. CASE q # p
    BY <1>0, <1>5, <2>1, EdgeFrame DEF SendDatagram, TypeOK
  <2>2. CASE q = p
    <3>1. /\ pc[p] = "send" /\ pc'[p] = "idle"
          /\ UNCHANGED <<counter, counterFile, wireLog, produced>>
      BY <1>0, <1>5, <2>2 DEF SendDatagram, TypeOK
    <3>2. QED
      BY <1>0, <3>1 DEF Edge, Agree, Bounded, Growing, Logged
  <2>3. QED
    BY <2>1, <2>2
<1>6. ASSUME NEW q \in Process, Terminate(q) PROVE Edge(p)'
  <2>1. CASE q # p
    BY <1>0, <1>6, <2>1, EdgeFrame DEF Terminate, TypeOK
  <2>2. CASE q = p
    <3>1. pc'[p] = "down" /\ UNCHANGED <<counterFile, wireLog, produced>>
      BY <1>0, <1>6, <2>2 DEF Terminate, TypeOK
    <3>2. QED
      BY <1>0, <3>1 DEF Edge, Agree, Bounded, Growing, Logged
  <2>3. QED
    BY <2>1, <2>2
<1>7. ASSUME NEW f \in File, DamageCounterFile(f) PROVE Edge(p)'
  BY <1>7 DEF DamageCounterFile, SoleWriter
<1>8. ASSUME UNCHANGED edgeVars PROVE Edge(p)'
  BY <1>0, <1>8, EdgeFrame
<1>9. QED
  BY <1>1, <1>2, <1>3, <1>4, <1>5, <1>6, <1>7, <1>8, StepCases DEF vars

LEMMA EdgeInvariant == ASSUME SoleWriter PROVE Spec => []EdgeInv
  BY LogInit, EdgeStepKeeps, TypeInvariant, PTL DEF Spec

\* A pair of a source and a counter is carried by at most one message.
LEMMA EdgeCounterUnique ==
  ASSUME SoleWriter, TypeOK, EdgeInv
  PROVE  CounterUnique
<1> SUFFICES ASSUME NEW p \in Process, NEW q \in Process,
                    NEW i \in 1 .. Len(wireLog[p]), NEW j \in 1 .. Len(wireLog[q]),
                    SourceOf[p] = SourceOf[q],
                    wireLog[p][i].ctr = wireLog[q][j].ctr
             PROVE  p = q /\ i = j
  BY DEF CounterUnique
<1>1. p = q
  BY DEF SoleWriter
<1>2. wireLog[p][i].ctr \in Nat /\ i \in Nat /\ j \in Nat
  <2>1. wireLog[p][i] \in Logged(p)
    BY DEF Logged
  <2>2. QED
    BY <2>1, LoggedParts
<1>3. ~(i < j) /\ ~(j < i)
  BY <1>1, <1>2 DEF EdgeInv, Edge, Growing
<1>4. QED
  BY <1>1, <1>2, <1>3

\* With a source and an undamaged counter file to each process, no crash or
\* restart makes a (source, counter) pair appear twice in the wire logs.
THEOREM CountersAreUnique ==
  ASSUME SoleWriter
  PROVE  Spec => []CounterUnique
<1>1. TypeInv /\ EdgeInv => CounterUnique
  BY EdgeCounterUnique DEF TypeInv
<1>2. QED
  BY <1>1, TypeInvariant, EdgeInvariant, PTL

\* In the same deployment the counter file is never behind the wire log.
THEOREM CountersAreDurable ==
  ASSUME SoleWriter
  PROVE  Spec => []CounterDurable
<1>1. EdgeInv => CounterDurable
  BY DEF EdgeInv, Edge, Bounded, CounterDurable
<1>2. QED
  BY <1>1, EdgeInvariant, PTL

\* In the same deployment a process that has started counts on from above what
\* it ever logged.
THEOREM StartsResume ==
  ASSUME SoleWriter
  PROVE  Spec => []ResumesAboveLog
<1>1. EdgeInv => ResumesAboveLog
  BY DEF EdgeInv, Edge, Agree, Bounded, ResumesAboveLog
<1>2. QED
  BY <1>1, EdgeInvariant, PTL

\* The same invariant bounds what a step may do to a counter file.
LEMMA FilesOnlyGrow ==
  ASSUME SoleWriter, TypeInv, EdgeInv, [Next]_vars
  PROVE  \A f \in File : counterFile'[f] >= counterFile[f]
<1> SUFFICES ASSUME NEW f \in File PROVE counterFile'[f] >= counterFile[f]
  OBVIOUS
<1>1. counterFile[f] \in Int /\ counterFile \in [File -> Nat \cup {Unreadable}]
  BY DEF TypeInv, TypeOK, Unreadable
<1>2. ASSUME NEW p \in Process, ReplaceCounterFile(p) PROVE counterFile'[f] >= counterFile[f]
  <2>1. /\ counterFile[FileOf[p]] \in Nat
        /\ tmpFile[FileOf[p]] = counterFile[FileOf[p]] + 1
    BY <1>2 DEF ReplaceCounterFile, EdgeInv, Edge, Agree
  <2>2. QED
    BY <1>1, <1>2, <2>1 DEF ReplaceCounterFile
<1>3. ASSUME UNCHANGED counterFile PROVE counterFile'[f] >= counterFile[f]
  BY <1>1, <1>3
<1>4. QED
  BY <1>2, <1>3, StepCases DEF SoleWriter, DamageCounterFile, Start, BeginSeal, SealAndLog,
     SendDatagram, Terminate, edgeVars, vars

\* In the same deployment no step of the system takes a counter file back.
THEOREM CounterFilesOnlyGrow ==
  ASSUME SoleWriter
  PROVE  Spec => CounterNeverFalls
<1>1. TypeInv /\ EdgeInv /\ [Next]_vars
        => [\A f \in File : counterFile'[f] >= counterFile[f]]_vars
  BY FilesOnlyGrow
<1>2. QED
  BY <1>1, TypeInvariant, EdgeInvariant, PTL DEF Spec, CounterNeverFalls

-----------------------------------------------------------------------------
(* The order of perception, which joins the two halves: C2's check orders   *)
(* counters, and the edge makes the order of counters that of perception.   *)

\* Of two messages of one process, the one with the smaller counter was
\* perceived first.
LEMMA CountersOrderPerception ==
  ASSUME SoleWriter, TypeOK, EdgeInv, NEW a \in AllLogged, NEW b \in AllLogged,
         a.from = b.from, a.ctr < b.ctr
  PROVE  a.n < b.n
<1>1. PICK p \in Process : a \in Logged(p)
  BY DEF AllLogged
<1>2. PICK q \in Process : b \in Logged(q)
  BY DEF AllLogged
<1>3. p = q
  BY <1>1, <1>2 DEF EdgeInv, Edge, Bounded
<1>4. PICK x \in 1 .. Len(wireLog[p]) : wireLog[p][x] = a
  BY <1>1 DEF Logged
<1>5. PICK y \in 1 .. Len(wireLog[p]) : wireLog[p][y] = b
  BY <1>2, <1>3 DEF Logged
<1>6. a.ctr \in Nat /\ b.ctr \in Nat
  BY <1>1, <1>2, LoggedParts
<1>7. Growing(p)
  BY DEF EdgeInv, Edge
<1>8. ~(y < x) /\ x # y
  BY <1>4, <1>5, <1>6, <1>7 DEF Growing
<1>9. x < y
  BY <1>4, <1>5, <1>8
<1>10. QED
  BY <1>4, <1>5, <1>7, <1>9 DEF Growing

LEMMA OrderedByPerception ==
  ASSUME SoleWriter, TypeOK, EdgeInv, LoggedBeforeSent, CounterOrder
  PROVE  PerceptionOrder
<1> SUFFICES ASSUME NEW k \in Kind,
                    NEW i \in 1 .. Len(recorded[k]), NEW j \in 1 .. Len(recorded[k]),
                    i < j,
                    recorded[k][i].run = recorded[k][j].run,
                    recorded[k][i].msg.from = recorded[k][j].msg.from
             PROVE  recorded[k][i].msg.n < recorded[k][j].msg.n
  BY DEF PerceptionOrder
<1>1. recorded[k][i].msg.ctr < recorded[k][j].msg.ctr
  BY DEF CounterOrder, SourceId
<1>2. recorded[k][i].msg \in AllLogged /\ recorded[k][j].msg \in AllLogged
  BY DEF LoggedBeforeSent
<1>3. QED
  BY <1>1, <1>2, CountersOrderPerception

\* In that deployment every run of C2 shows the messages of an edge process in
\* the order of perception and none twice, whatever the network does.
THEOREM FeedKeepsPerceptionOrder ==
  ASSUME SoleWriter
  PROVE  Spec => []PerceptionOrder
<1>1. TypeInv /\ EdgeInv /\ LoggedBeforeSent /\ CounterOrder => PerceptionOrder
  BY OrderedByPerception DEF TypeInv
<1>2. QED
  BY <1>1, TypeInvariant, EdgeInvariant, SentIsLogged, CountersGrowInFiles, PTL
-----------------------------------------------------------------------------
(* The wire implements the abstract feed.  Of all steps, only three change  *)
(* what Feed sees: SealAndLog is Log, Record is Show, RestartC2 is NewRun.  *)

\* The abstract state over the detailed one, as the INSTANCE in StreLink has it.
FeedLog == {MessageOf(d) : d \in AllLogged}
Entry(l) == [run |-> l.run, msg |-> MessageOf(l.msg)]
Shown(s) == [i \in 1 .. Len(s) |-> Entry(s[i])]
FeedFiles == [k \in Kind |-> Shown(recorded[k])]

\* A sequence is the function of its elements.
LEMMA SequenceIsFunction ==
  ASSUME NEW S, NEW s \in Seq(S)
  PROVE  s = [i \in 1 .. Len(s) |-> s[i]]
  OBVIOUS

\* Showing a file commutes with appending a line to it.
LEMMA ShownAppend ==
  ASSUME NEW s \in Seq(Line), NEW l \in Line
  PROVE  Shown(Append(s, l)) = Append(Shown(s), Entry(l))
<1> DEFINE E == {Entry(x) : x \in Line}
<1>1. /\ Len(s) \in Nat
      /\ Len(Append(s, l)) = Len(s) + 1
      /\ \A i \in 1 .. Len(s) : Append(s, l)[i] = s[i] /\ s[i] \in Line
      /\ Append(s, l)[Len(s) + 1] = l
  BY AppendFacts
<1>2. Entry(l) \in E /\ \A i \in 1 .. Len(s) : Entry(s[i]) \in E
  BY <1>1
<1> HIDE DEF E
<1>3. Shown(s) \in Seq(E) /\ Len(Shown(s)) = Len(s)
  BY <1>1, <1>2 DEF Shown
<1>4. /\ Append(Shown(s), Entry(l)) \in Seq(E)
      /\ Len(Append(Shown(s), Entry(l))) = Len(s) + 1
      /\ \A i \in 1 .. Len(s) : Append(Shown(s), Entry(l))[i] = Shown(s)[i]
      /\ Append(Shown(s), Entry(l))[Len(s) + 1] = Entry(l)
  BY <1>2, <1>3, AppendFacts
<1>5. Shown(Append(s, l)) = [i \in 1 .. Len(s) + 1 |-> Entry(Append(s, l)[i])]
  BY <1>1 DEF Shown
<1>6. Append(Shown(s), Entry(l))
        = [i \in 1 .. Len(s) + 1 |-> Append(Shown(s), Entry(l))[i]]
  <2> DEFINE t == Append(Shown(s), Entry(l))
  <2>1. t \in Seq(E) /\ Len(t) = Len(s) + 1
    BY <1>4
  <2> HIDE DEF t
  <2>2. t = [i \in 1 .. Len(s) + 1 |-> t[i]]
    BY <2>1, SequenceIsFunction
  <2>3. QED
    BY <2>2 DEF t
<1>7. \A i \in 1 .. Len(s) + 1 : Entry(Append(s, l)[i]) = Append(Shown(s), Entry(l))[i]
  BY <1>1, <1>4 DEF Shown
<1> HIDE DEF Entry
<1>8. QED
  BY <1>5, <1>6, <1>7

LEMMA FeedInit == Init => Feed!Init
  BY DEF Init, EdgeInit, C2Init, Feed!Init, AllLogged, Logged

\* A message that is sealed and logged comes after all its process logged.
LEMMA SealIsLog ==
  ASSUME SoleWriter, TypeInv, EdgeInv,
         NEW p \in Process, SealAndLog(p), UNCHANGED c2Vars
  PROVE  \E m \in Feed!Message : Feed!Log(m)
<1> DEFINE D(k) == [from |-> p, ctr |-> counter[p], kind |-> k, n |-> produced[p]]
<1>0. TypeOK
  BY DEF TypeInv
<1>1. PICK k \in Kind : AppendToLog(p, D(k))
  BY DEF SealAndLog
<1>2. /\ D(k) \in Datagram
      /\ D(k).from = p /\ D(k).n = produced[p] /\ D(k).kind = k
  BY <1>0, WireAssumption DEF SealAndLog, Datagram, TypeInv, TypeOK, Busy
<1> HIDE DEF D
<1>3. /\ Logged(p)' = Logged(p) \cup {D(k)}
      /\ \A q \in Process : q # p => Logged(q)' = Logged(q)
  BY <1>0, <1>1, <1>2, LoggedAppend
<1>4. AllLogged' = AllLogged \cup {D(k)}
  BY <1>3 DEF AllLogged
<1>5. FeedLog' = FeedLog \cup {MessageOf(D(k))}
  BY <1>4 DEF FeedLog, MessageOf
<1>6. MessageOf(D(k)) \in Feed!Message
  BY <1>2 DEF MessageOf, Feed!Message, Datagram
<1>7. ASSUME NEW d \in AllLogged, d.from = p
      PROVE  d.n < produced[p]
  <2>1. PICK q \in Process : d \in Logged(q)
    BY DEF AllLogged
  <2>2. q = p
    BY <1>7, <2>1 DEF EdgeInv, Edge, Bounded
  <2>3. QED
    BY <2>1, <2>2 DEF EdgeInv, Edge, Bounded, SealAndLog
<1>8. \A l \in FeedLog : l.from = MessageOf(D(k)).from => l.n < MessageOf(D(k)).n
  BY <1>2, <1>7 DEF FeedLog, MessageOf
<1>9. UNCHANGED <<run, FeedFiles>>
  BY DEF c2Vars, FeedFiles, Shown, Entry, MessageOf
<1>10. Feed!Log(MessageOf(D(k)))
  BY <1>5, <1>8, <1>9 DEF Feed!Log, FeedLog, FeedFiles, Shown, Entry
<1>11. QED
  BY <1>6, <1>10

\* A message that C2 appends comes after all of its process this run shows.
LEMMA RecordIsShow ==
  ASSUME SoleWriter, TypeInv, EdgeInv, PathInv, OrderInv,
         NEW d \in handling, Record(d), UNCHANGED edgeVars
  PROVE  \E m \in FeedLog : Feed!Show(m)
<1> DEFINE m == MessageOf(d)
           line == [run |-> run, msg |-> d]
<1>0. TypeOK
  BY DEF TypeInv
<1>1. /\ d \in AllLogged
      /\ d \in Datagram
      /\ line \in Line
      /\ Entry(line) = [run |-> run, msg |-> m]
      /\ m.kind = d.kind /\ m.from = d.from /\ m.n = d.n
  BY <1>0 DEF PathInv, LoggedBeforeSent, TypeOK, Line, Entry, MessageOf
<1>2. m \in FeedLog
  BY <1>1 DEF FeedLog
<1>3. ASSUME NEW k \in Kind, NEW i \in 1 .. Len(recorded[k]),
             recorded[k][i].run = run, recorded[k][i].msg.from = d.from
      PROVE  recorded[k][i].msg.n < d.n
  <2>1. recorded[k][i].msg.ctr < d.ctr
    BY <1>3 DEF OrderInv, Below, SourceId
  <2>2. recorded[k][i].msg \in AllLogged
    BY DEF PathInv, LoggedBeforeSent
  <2>3. QED
    BY <1>0, <1>1, <1>3, <2>1, <2>2, CountersOrderPerception
<1>4. \A k \in Kind : \A i \in 1 .. Len(FeedFiles[k]) :
        FeedFiles[k][i].run = run /\ FeedFiles[k][i].msg.from = m.from
          => FeedFiles[k][i].msg.n < m.n
  <2> SUFFICES ASSUME NEW k \in Kind, NEW i \in 1 .. Len(FeedFiles[k])
               PROVE  FeedFiles[k][i].run = run /\ FeedFiles[k][i].msg.from = m.from
                        => FeedFiles[k][i].msg.n < m.n
    OBVIOUS
  <2>1. Len(recorded[k]) \in Nat
    BY <1>0 DEF TypeOK
  <2>2. Len(FeedFiles[k]) = Len(recorded[k])
    BY <2>1 DEF FeedFiles, Shown
  <2>3. FeedFiles[k][i] = Entry(recorded[k][i])
    BY <2>2 DEF FeedFiles, Shown
  <2>4. QED
    BY <1>1, <1>3, <2>2, <2>3 DEF Entry, MessageOf
<1>5. FeedFiles' = [FeedFiles EXCEPT ![m.kind] = Append(@, [run |-> run, msg |-> m])]
  <2>1. recorded' = [recorded EXCEPT ![d.kind] = Append(@, line)]
    BY DEF Record
  <2>2. recorded \in [Kind -> Seq(Line)] /\ d.kind \in Kind
    BY <1>0, <1>1 DEF TypeOK, Datagram
  <2>3. FeedFiles' = [k \in Kind |-> Shown(recorded'[k])]
    BY DEF FeedFiles, Shown, Entry, MessageOf
  <2> HIDE DEF m, line
  <2>4. recorded'[d.kind] = Append(recorded[d.kind], line)
    BY <2>1, <2>2
  <2>5. Shown(recorded'[d.kind]) = Append(Shown(recorded[d.kind]), Entry(line))
    BY <1>1, <2>2, <2>4, ShownAppend
  <2>6. \A k \in Kind : k # d.kind => recorded'[k] = recorded[k]
    BY <2>1, <2>2
  <2>7. QED
    BY <1>1, <2>2, <2>3, <2>5, <2>6 DEF FeedFiles
<1>6. UNCHANGED <<run, FeedLog>>
  BY DEF Record, edgeVars, FeedLog, AllLogged, Logged, MessageOf
<1> HIDE DEF m
<1>7. Feed!Show(m)
  BY <1>2, <1>4, <1>5, <1>6 DEF Feed!Show, FeedLog, FeedFiles, Shown, Entry
<1>8. QED
  BY <1>2, <1>7

\* Every other step leaves the abstract state as it is.
LEMMA StepIsFeedStep ==
  ASSUME SoleWriter, TypeInv, EdgeInv, PathInv, OrderInv, [Next]_vars
  PROVE  [Feed!Next]_(Feed!vars)
<1>1. ASSUME NEW p \in Process, SealAndLog(p), UNCHANGED c2Vars PROVE Feed!Next
  BY <1>1, SealIsLog DEF Feed!Next
<1>2. ASSUME NEW d \in handling, Record(d), UNCHANGED edgeVars PROVE Feed!Next
  BY <1>2, RecordIsShow DEF Feed!Next, FeedLog
<1>3. ASSUME UNCHANGED <<wireLog, run, recorded>> PROVE UNCHANGED Feed!vars
  BY <1>3 DEF Feed!vars, AllLogged, Logged, MessageOf
<1>4. ASSUME RestartC2, UNCHANGED edgeVars PROVE Feed!Next
  BY <1>4 DEF RestartC2, edgeVars, Feed!Next, Feed!NewRun, AllLogged, Logged, MessageOf
<1>5. QED
  BY <1>1, <1>2, <1>3, <1>4, StepCases DEF edgeVars, c2Vars, vars, Start, BeginSeal,
     ReplaceCounterFile, SendDatagram, Terminate, DamageCounterFile, RejectReplay, Admit,
     Discard, RecordFails, Lose

\* In the deployment the code is written for, the wire with its counters,
\* files, crashes and unreliable datagrams is an ordered feed without
\* repetition: everything that may be seen at C2 the abstract feed allows.
THEOREM WireImplementsFeed ==
  ASSUME SoleWriter
  PROVE  Spec => ImplementsFeed
<1>1. TypeInv /\ EdgeInv /\ PathInv /\ OrderInv /\ [Next]_vars => [Feed!Next]_(Feed!vars)
  BY StepIsFeedStep
<1>2. QED
  BY <1>1, FeedInit, TypeInvariant, EdgeInvariant, PathInvariant, OrderInvariant, PTL
     DEF Spec, ImplementsFeed, Feed!Spec
=============================================================================
