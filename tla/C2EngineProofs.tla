--------------------------- MODULE C2EngineProofs ---------------------------
(***************************************************************************)
(* Theorems about C2Engine, for any number of sources, classes, cells and  *)
(* any limits: an inference rests on vehicles that its source reported     *)
(* from enough distinct places in its window; none is fired twice within a *)
(* window, none is missed unless the bearings disagree, and the bearings   *)
(* of those fired do agree.                                                *)
(***************************************************************************)
EXTENDS C2Engine, FiniteSetTheorems, SetInduction, TLAPS

\* A deque with a maxlen keeps its type and its limit, and what it holds was
\* there before or is the new element.
LEMMA PushFacts ==
  ASSUME NEW S, NEW q \in Seq(S), NEW x \in S, NEW maxlen \in Nat \ {0},
         Len(q) <= maxlen
  PROVE  /\ Push(q, x, maxlen) \in Seq(S)
         /\ Len(Push(q, x, maxlen)) <= maxlen
         /\ \A i \in 1 .. Len(Push(q, x, maxlen)) :
              \/ Push(q, x, maxlen)[i] = x
              \/ \E j \in 1 .. Len(q) : Push(q, x, maxlen)[i] = q[j]
<1> DEFINE r == Append(q, x)
<1>1. /\ r \in Seq(S) /\ Len(q) \in Nat /\ Len(r) = Len(q) + 1
      /\ \A i \in 1 .. Len(r) : r[i] = IF i <= Len(q) THEN q[i] ELSE x
  OBVIOUS
<1>2. CASE Len(r) > maxlen
  <2>1. Push(q, x, maxlen) = Tail(r)
    BY <1>2 DEF Push
  <2>2. /\ Tail(r) \in Seq(S) /\ Len(Tail(r)) = Len(q)
        /\ \A i \in 1 .. Len(q) : Tail(r)[i] = r[i + 1] /\ i + 1 \in 1 .. Len(r)
    BY <1>1
  <2>3. ASSUME NEW i \in 1 .. Len(q)
        PROVE  Tail(r)[i] = x \/ \E j \in 1 .. Len(q) : Tail(r)[i] = q[j]
    <3>1. Tail(r)[i] = IF i + 1 <= Len(q) THEN q[i + 1] ELSE x
      BY <1>1, <2>2
    <3>2. i + 1 <= Len(q) => i + 1 \in 1 .. Len(q)
      BY <1>1
    <3>3. QED
      BY <3>1, <3>2
  <2>4. QED
    BY <2>1, <2>2, <2>3
<1>3. CASE ~(Len(r) > maxlen)
  <2>1. Push(q, x, maxlen) = r
    BY <1>3 DEF Push
  <2>2. Len(r) <= maxlen
    BY <1>1, <1>3
  <2>3. ASSUME NEW i \in 1 .. Len(r)
        PROVE  r[i] = x \/ \E j \in 1 .. Len(q) : r[i] = q[j]
    <3>1. i <= Len(q) => i \in 1 .. Len(q)
      BY <1>1
    <3>2. QED
      BY <1>1, <3>1
  <2>4. QED
    BY <1>1, <2>1, <2>2, <2>3
<1>4. QED
  BY <1>2, <1>3

\* What an entity holds after an observation was there before, or is it.
LEMMA FiledFacts ==
  ASSUME TypeOK, NEW o \in Observation, NEW k \in Key
  PROVE  /\ KeyOf(o) \in Key
         /\ Filed(o)[k] \in Seq(Observation)
         /\ Len(Filed(o)[k]) <= ObsMax
         /\ \A i \in 1 .. Len(Filed(o)[k]) :
              \/ Filed(o)[k][i] = o /\ k = KeyOf(o)
              \/ \E j \in 1 .. Len(deque[k]) : Filed(o)[k][i] = deque[k][j]
<1> DEFINE added == [deque EXCEPT ![KeyOf(o)] = Push(@, o, ObsMax)]
<1>1. KeyOf(o) \in Key
  BY DEF Observation, Key, KeyOf
<1>2. /\ deque[k] \in Seq(Observation) /\ Len(deque[k]) <= ObsMax
      /\ ObsMax \in Nat \ {0}
      /\ added \in [Key -> {added[j] : j \in Key}]
  BY EngineAssumption DEF TypeOK
<1>3. /\ added[k] \in Seq(Observation) /\ Len(added[k]) <= ObsMax
      /\ \A i \in 1 .. Len(added[k]) :
           \/ added[k][i] = o /\ k = KeyOf(o)
           \/ \E j \in 1 .. Len(deque[k]) : added[k][i] = deque[k][j]
  <2>1. CASE k = KeyOf(o)
    <3>1. added[k] = Push(deque[k], o, ObsMax)
      BY <2>1 DEF TypeOK
    <3>2. QED
      BY <1>2, <2>1, <3>1, PushFacts
  <2>2. CASE k # KeyOf(o)
    <3>1. added[k] = deque[k]
      BY <2>2 DEF TypeOK
    <3>2. QED
      BY <1>2, <3>1
  <2>3. QED
    BY <2>1, <2>2
<1>4. Filed(o)[k] = IF Stale(added[k], o.ts) THEN <<>> ELSE added[k]
  BY DEF Filed
<1>5. /\ <<>> \in Seq(Observation) /\ Len(<<>>) = 0 /\ 0 <= ObsMax
  BY <1>2
<1>6. QED
  BY <1>1, <1>3, <1>4, <1>5

-----------------------------------------------------------------------------
LEMMA TypeInit == Init => TypeOK
<1> SUFFICES ASSUME Init PROVE TypeOK
  OBVIOUS
<1>1. 0 \in Stamp /\ 1 \in 1 .. MaxRuns /\ 0 \in 0 .. MaxHeard
  BY EngineAssumption DEF Stamp
<1>2. \A k \in Key : Len(deque[k]) <= ObsMax
  BY EngineAssumption DEF Init
<1>3. Len(recent) <= RecentMax
  BY EngineAssumption DEF Init
<1>4. QED
  BY <1>1, <1>2, <1>3 DEF Init, TypeOK

LEMMA TypeStep == TypeOK /\ [Next]_vars => TypeOK'
<1> SUFFICES ASSUME TypeOK, [Next]_vars PROVE TypeOK'
  OBVIOUS
<1> USE DEF TypeOK
<1>1. ASSUME NEW o \in Observation, Ingest(o) PROVE TypeOK'
  <2>1. /\ o.source \in Source /\ o.class \in Class /\ o.cell \in Cell /\ o.ts \in Stamp
        /\ run \in 1 .. run
    BY DEF Observation
  <2>2. deque' = Filed(o) /\ Filed(o) = [k \in Key |-> Filed(o)[k]]
    BY <1>1 DEF Ingest, Filed
  <2>3. deque' \in [Key -> Seq(Observation)] /\ \A k \in Key : Len(deque'[k]) <= ObsMax
    BY <2>2, FiledFacts
  <2>4. heard' \subseteq [run : 1 .. run', source : Source, class : Class, cell : Cell, ts : Stamp]
    BY <1>1, <2>1 DEF Ingest
  <2>5. count' \in 0 .. MaxHeard
    BY <1>1, EngineAssumption DEF Ingest
  <2>6. /\ recent' \in Seq([source : Source, ts : Stamp]) /\ Len(recent') <= RecentMax
        /\ fired' \in Seq(Inference)
    <3> DEFINE r == [source |-> o.source, ts |-> o.ts]
               f == [run |-> run, source |-> o.source, ts |-> o.ts]
    <3>1. r \in [source : Source, ts : Stamp] /\ f \in Inference
      BY <2>1 DEF Inference
    <3>2. RecentMax \in Nat \ {0}
      BY EngineAssumption
    <3>3. /\ Push(recent, r, RecentMax) \in Seq([source : Source, ts : Stamp])
          /\ Len(Push(recent, r, RecentMax)) <= RecentMax
      BY <3>1, <3>2, PushFacts
    <3>4. Append(fired, f) \in Seq(Inference)
      BY <3>1
    <3>5. \/ recent' = Push(recent, r, RecentMax) /\ fired' = Append(fired, f)
          \/ UNCHANGED <<recent, fired>>
      BY <1>1 DEF Ingest
    <3>6. QED
      BY <3>3, <3>4, <3>5
  <2>7. QED
    BY <1>1, <2>3, <2>4, <2>5, <2>6 DEF Ingest
<1>2. ASSUME NEW s \in Source, Tick(s) PROVE TypeOK'
  <2>1. clock[s] + 1 \in Stamp
    BY <1>2, EngineAssumption DEF Tick, Stamp
  <2>2. clock' \in [Source -> Stamp]
    BY <1>2, <2>1 DEF Tick
  <2>3. QED
    BY <1>2, <2>2 DEF Tick
<1>3. CASE RestartC2
  <2>1. run' \in 1 .. MaxRuns
    BY <1>3, EngineAssumption DEF RestartC2
  <2>2. heard' \subseteq [run : 1 .. run', source : Source, class : Class, cell : Cell, ts : Stamp]
    <3>1. 1 .. run \subseteq 1 .. run'
      BY <1>3 DEF RestartC2
    <3>2. QED
      BY <1>3, <3>1 DEF RestartC2
  <2>3. /\ deque' \in [Key -> Seq(Observation)] /\ \A k \in Key : Len(deque'[k]) <= ObsMax
        /\ recent' \in Seq([source : Source, ts : Stamp]) /\ Len(recent') <= RecentMax
    BY <1>3, EngineAssumption DEF RestartC2
  <2>4. QED
    BY <1>3, <2>1, <2>2, <2>3 DEF RestartC2
<1>4. CASE UNCHANGED vars
  BY <1>4 DEF vars
<1>5. QED
  BY <1>1, <1>2, <1>3, <1>4 DEF Next

\* Every variable keeps its type, and the deques their limits.
THEOREM TypeCorrect == Spec => []TypeOK
  BY TypeInit, TypeStep, PTL DEF Spec

-----------------------------------------------------------------------------
(* An inference rests on evidence.  What an entity holds was heard in this  *)
(* run and is not from the future; so each active entity is the key of a    *)
(* class and a cell of the evidence, and there are no more of them than of  *)
(* these.  What was heard stays heard, and with it the evidence.            *)

\* The entry of history for o, heard in run r.
HeardAs(o, r) ==
  [run |-> r, source |-> o.source, class |-> o.class, cell |-> o.cell, ts |-> o.ts]

\* The entities dq hold what is in the history H of run r, and nothing later
\* than the clocks.
HeldWasHeard(dq, H, r) ==
  \A k \in Key : \A i \in 1 .. Len(dq[k]) :
    /\ KeyOf(dq[k][i]) = k
    /\ HeardAs(dq[k][i], r) \in H
    /\ dq[k][i].ts <= clock[k.source]

EvidenceInv ==
  /\ IsFiniteSet(heard)
  /\ HeldWasHeard(deque, heard, run)
  /\ FiredOnEvidence

\* Evidence, as a function of the history.
EvidenceIn(H, r, s, ts) ==
  {<<h.class, h.cell>> : h \in {x \in H : /\ x.run = r /\ x.source = s
                                         /\ x.class \in VehicleClass
                                         /\ ts - Window <= x.ts
                                         /\ x.ts <= ts}}

\* The image of a finite set under a function is finite and not larger.
LEMMA ImageSize ==
  ASSUME NEW S, IsFiniteSet(S), NEW f, f = [x \in S |-> f[x]]
  PROVE  IsFiniteSet({f[x] : x \in S}) /\ Cardinality({f[x] : x \in S}) <= Cardinality(S)
<1> DEFINE T == {f[x] : x \in S}
<1>1. f \in Surjection(S, T)
  BY DEF Surjection
<1>2. IsFiniteSet(T) /\ Cardinality(T) <= Cardinality(S)
  BY <1>1, FS_Surjection
<1>3. QED
  BY <1>2

\* The evidence in a finite history is finite.
LEMMA EvidenceFinite ==
  ASSUME NEW H, IsFiniteSet(H), NEW r, NEW s, NEW ts
  PROVE  IsFiniteSet(EvidenceIn(H, r, s, ts))
<1> DEFINE I == {x \in H : /\ x.run = r /\ x.source = s
                           /\ x.class \in VehicleClass
                           /\ ts - Window <= x.ts
                           /\ x.ts <= ts}
           f == [h \in I |-> <<h.class, h.cell>>]
<1>1. IsFiniteSet(I)
  BY FS_Subset
<1>2. f = [h \in I |-> f[h]]
  OBVIOUS
<1>3. EvidenceIn(H, r, s, ts) = {f[h] : h \in I}
  BY DEF EvidenceIn
<1> HIDE DEF I, f
<1>4. QED
  BY <1>1, <1>2, <1>3, ImageSize

\* A longer history has no less evidence.
LEMMA EvidenceGrows ==
  ASSUME NEW H, NEW G, H \subseteq G, IsFiniteSet(G), NEW r, NEW s, NEW ts
  PROVE  Cardinality(EvidenceIn(H, r, s, ts)) <= Cardinality(EvidenceIn(G, r, s, ts))
<1>1. EvidenceIn(H, r, s, ts) \subseteq EvidenceIn(G, r, s, ts)
  BY DEF EvidenceIn
<1>2. QED
  BY <1>1, EvidenceFinite, FS_Subset

\* There are no more active entities than classes and cells in the evidence.
LEMMA ActiveHasEvidence ==
  ASSUME NEW dq \in [Key -> Seq(Observation)], NEW H, IsFiniteSet(H), NEW r,
         HeldWasHeard(dq, H, r), NEW s \in Source
  PROVE  /\ Cardinality(Active(dq, s, clock[s]))
              <= Cardinality(EvidenceIn(H, r, s, clock[s]))
         /\ IsFiniteSet(Active(dq, s, clock[s]))
         /\ Cardinality(Active(dq, s, clock[s])) \in Nat
         /\ Cardinality(EvidenceIn(H, r, s, clock[s])) \in Nat
<1> DEFINE A == Active(dq, s, clock[s])
           E == EvidenceIn(H, r, s, clock[s])
           g == [e \in E |-> [source |-> s, class |-> e[1], hash |-> Hash(e[2])]]
           K == {g[e] : e \in E}
<1>1. IsFiniteSet(E)
  BY EvidenceFinite
<1>2. IsFiniteSet(K) /\ Cardinality(K) <= Cardinality(E)
  <2>1. g = [e \in E |-> g[e]]
    OBVIOUS
  <2> HIDE DEF g, E
  <2>2. QED
    BY <1>1, <2>1, ImageSize
<1>3. A \subseteq K
  <2> SUFFICES ASSUME NEW k \in A PROVE k \in K
    OBVIOUS
  <2>1. /\ k \in Key /\ k.source = s /\ k.class \in VehicleClass
        /\ \E i \in 1 .. Len(dq[k]) : Recent(dq[k][i], clock[s])
    BY DEF Active
  <2>2. PICK i \in 1 .. Len(dq[k]) : dq[k][i].ts >= clock[s] - Window
    BY <2>1 DEF Recent
  <2> DEFINE o == dq[k][i]
             h == HeardAs(o, r)
  <2>3. KeyOf(o) = k /\ h \in H /\ o.ts <= clock[s]
    BY <2>1 DEF HeldWasHeard
  <2>4. o.source = s /\ o.class = k.class /\ Hash(o.cell) = k.hash
    BY <2>1, <2>3 DEF KeyOf
  <2>5. /\ h.run = r /\ h.source = s /\ h.class = o.class /\ h.cell = o.cell /\ h.ts = o.ts
    BY <2>4 DEF HeardAs
  <2>6. clock[s] - Window <= o.ts
    BY <2>2
  <2>7. <<o.class, o.cell>> \in E
    BY <2>1, <2>3, <2>4, <2>5, <2>6 DEF EvidenceIn
  <2>8. g[<<o.class, o.cell>>] = KeyOf(o)
    BY <2>4, <2>7 DEF KeyOf
  <2>9. QED
    BY <2>3, <2>7, <2>8
<1>4. IsFiniteSet(A) /\ Cardinality(A) <= Cardinality(K)
  BY <1>2, <1>3, FS_Subset
<1>5. /\ Cardinality(A) \in Nat /\ Cardinality(K) \in Nat /\ Cardinality(E) \in Nat
  BY <1>1, <1>2, <1>4, FS_CardinalityType
<1> HIDE DEF A, E, K
<1>6. Cardinality(A) <= Cardinality(E) /\ Cardinality(A) \in Nat /\ Cardinality(E) \in Nat
  BY <1>2, <1>4, <1>5
<1>7. QED
  BY <1>4, <1>6 DEF A, E

LEMMA EvidenceInit == Init => EvidenceInv
  BY FS_EmptySet DEF Init, EvidenceInv, HeldWasHeard, FiredOnEvidence

LEMMA IngestEvidence ==
  ASSUME TypeOK, EvidenceInv, NEW o \in Observation, Ingest(o)
  PROVE  EvidenceInv'
<1> DEFINE f == [run |-> run, source |-> o.source, ts |-> o.ts]
<1>1. /\ deque' = Filed(o)
      /\ heard' = heard \cup {HeardAs(o, run)}
      /\ o.ts = clock[o.source]
      /\ UNCHANGED <<clock, run>>
      /\ \/ fired' = Append(fired, f) /\ Fires(Filed(o), o.source, o.ts)
         \/ fired' = fired
  BY DEF Ingest, HeardAs
<1>2. o.source \in Source /\ o.ts \in Int
  BY DEF Observation, Stamp
<1>3. IsFiniteSet(heard')
  BY <1>1, FS_AddElement DEF EvidenceInv
<1>4. HeldWasHeard(Filed(o), heard', run)
  <2> SUFFICES ASSUME NEW k \in Key, NEW i \in 1 .. Len(Filed(o)[k])
               PROVE  /\ KeyOf(Filed(o)[k][i]) = k
                      /\ HeardAs(Filed(o)[k][i], run) \in heard'
                      /\ Filed(o)[k][i].ts <= clock[k.source]
    BY DEF HeldWasHeard
  <2>1. CASE Filed(o)[k][i] = o /\ k = KeyOf(o)
    <3>1. k.source = o.source
      BY <2>1 DEF KeyOf
    <3>2. QED
      BY <1>1, <1>2, <2>1, <3>1
  <2>2. CASE \E j \in 1 .. Len(deque[k]) : Filed(o)[k][i] = deque[k][j]
    BY <1>1, <2>2 DEF EvidenceInv, HeldWasHeard
  <2>3. QED
    BY <2>1, <2>2, FiledFacts
<1>5. ASSUME NEW i \in 1 .. Len(fired)
      PROVE  Cardinality(EvidenceIn(heard', fired[i].run, fired[i].source, fired[i].ts))
               >= MinVehicles
  <2> DEFINE E(H) == EvidenceIn(H, fired[i].run, fired[i].source, fired[i].ts)
  <2>1. Cardinality(E(heard)) >= MinVehicles
    BY DEF EvidenceInv, FiredOnEvidence, Evidence, EvidenceIn
  <2>2. Cardinality(E(heard)) <= Cardinality(E(heard'))
    BY <1>1, <1>3, EvidenceGrows
  <2>3. Cardinality(E(heard)) \in Nat /\ Cardinality(E(heard')) \in Nat
    BY <1>3, EvidenceFinite, FS_CardinalityType DEF EvidenceInv
  <2> HIDE DEF E
  <2>4. Cardinality(E(heard')) >= MinVehicles
    BY <2>1, <2>2, <2>3, EngineAssumption
  <2>5. QED
    BY <2>4 DEF E
<1>6. ASSUME Fires(Filed(o), o.source, o.ts)
      PROVE  Cardinality(EvidenceIn(heard', f.run, f.source, f.ts)) >= MinVehicles
  <2>1. Filed(o) \in [Key -> Seq(Observation)]
    BY FiledFacts DEF Filed
  <2> DEFINE a == Cardinality(Active(Filed(o), o.source, clock[o.source]))
             e == Cardinality(EvidenceIn(heard', run, o.source, clock[o.source]))
  <2>2. a <= e /\ a \in Nat /\ e \in Nat
    BY <1>2, <1>3, <1>4, <2>1, ActiveHasEvidence
  <2>3. a >= MinVehicles
    BY <1>1, <1>6 DEF Fires
  <2> HIDE DEF a, e
  <2>4. e >= MinVehicles
    BY <2>2, <2>3, EngineAssumption
  <2>5. QED
    BY <1>1, <2>4 DEF e
<1>7. FiredOnEvidence'
  <2> SUFFICES ASSUME NEW i \in 1 .. Len(fired')
               PROVE  Cardinality(EvidenceIn(heard', fired'[i].run, fired'[i].source,
                                             fired'[i].ts)) >= MinVehicles
    BY DEF FiredOnEvidence, Evidence, EvidenceIn
  <2>1. fired \in Seq(Inference)
    BY DEF TypeOK
  <2>2. CASE fired' = fired
    BY <1>5, <2>2
  <2>3. CASE fired' = Append(fired, f) /\ Fires(Filed(o), o.source, o.ts)
    <3>1. CASE i \in 1 .. Len(fired)
      <4>1. fired'[i] = fired[i]
        BY <2>1, <2>3, <3>1
      <4>2. QED
        BY <1>5, <3>1, <4>1
    <3>2. CASE i = Len(fired) + 1
      <4>1. fired'[i] = f
        BY <2>1, <2>3, <3>2
      <4>2. QED
        BY <1>6, <2>3, <4>1
    <3>3. QED
      BY <2>1, <2>3, <3>1, <3>2
  <2>4. QED
    BY <1>1, <2>2, <2>3
<1>8. QED
  BY <1>1, <1>3, <1>4, <1>7 DEF EvidenceInv, HeldWasHeard

LEMMA EvidenceStep == TypeOK /\ EvidenceInv /\ [Next]_vars => EvidenceInv'
<1> SUFFICES ASSUME TypeOK, EvidenceInv, [Next]_vars PROVE EvidenceInv'
  OBVIOUS
<1>1. ASSUME NEW s \in Source, Tick(s) PROVE EvidenceInv'
  <2>1. \A r \in Source : clock[r] \in Int /\ clock'[r] \in Int /\ clock[r] <= clock'[r]
    BY <1>1 DEF Tick, TypeOK, Stamp
  <2>2. /\ UNCHANGED <<deque, run, heard, fired>>
    BY <1>1 DEF Tick
  <2>3. HeldWasHeard(deque, heard, run)'
    <3> SUFFICES ASSUME NEW k \in Key, NEW i \in 1 .. Len(deque[k])
                 PROVE  /\ KeyOf(deque[k][i]) = k
                        /\ HeardAs(deque[k][i], run) \in heard
                        /\ deque[k][i].ts <= clock'[k.source]
      BY <2>2 DEF HeldWasHeard
    <3>1. /\ KeyOf(deque[k][i]) = k
          /\ HeardAs(deque[k][i], run) \in heard
          /\ deque[k][i].ts <= clock[k.source]
      BY DEF EvidenceInv, HeldWasHeard
    <3>2. k.source \in Source
      BY DEF Key
    <3>3. deque[k][i].ts \in Int
      <4>1. deque[k][i] \in Observation
        BY DEF TypeOK
      <4>2. QED
        BY <4>1 DEF Observation, Stamp
    <3>4. QED
      BY <2>1, <3>1, <3>2, <3>3
  <2>4. QED
    BY <2>2, <2>3 DEF EvidenceInv, FiredOnEvidence, Evidence
<1>2. CASE RestartC2
  <2>1. HeldWasHeard(deque, heard, run)'
    BY <1>2 DEF RestartC2, HeldWasHeard
  <2>2. QED
    BY <1>2, <2>1 DEF RestartC2, EvidenceInv, FiredOnEvidence, Evidence
<1>3. CASE UNCHANGED vars
  BY <1>3 DEF vars, EvidenceInv, HeldWasHeard, FiredOnEvidence, Evidence
<1>4. QED
  BY <1>1, <1>2, <1>3, IngestEvidence DEF Next

\* No inference without vehicles reported by its source, to the run that fired
\* it, from MinVehicles places within the window: neither a stale entity, nor
\* one that another source or an earlier run filed, can stand in for one.
THEOREM NoFalseConvoy == Spec => []FiredOnEvidence
<1>1. EvidenceInv => FiredOnEvidence
  BY DEF EvidenceInv
<1>2. QED
  BY <1>1, TypeInit, TypeStep, EvidenceInit, EvidenceStep, PTL DEF Spec

-----------------------------------------------------------------------------
(* The refractory period.  recent holds the newest inferences of the run,   *)
(* whatever their source.  It is long enough if no more than RecentMax can  *)
(* fire before the period of one of them is over: the clocks of the other   *)
(* sources pass over no more than Window + 2 * MaxSkew seconds meanwhile,   *)
(* and each source fires at most once in a window.                          *)

\* How many inferences one source fires while a window passes at another.
PerWindow == (2 * Window + 2 * MaxSkew - 1) \div Window

\* Those of all other sources fit into recent, beside the one.
SourcesFit ==
  /\ IsFiniteSet(Source)
  /\ (Cardinality(Source) - 1) * PerWindow < RecentMax

\* The inferences q are the end of those fired, f, the last of run r.
EndsWith(f, q, r) ==
  /\ Len(q) <= Len(f)
  /\ \A i \in 1 .. Len(q) :
       f[Len(f) - Len(q) + i] = [run |-> r, source |-> q[i].source, ts |-> q[i].ts]
  /\ Len(q) < RecentMax => \A i \in 1 .. Len(f) : i <= Len(f) - Len(q) => f[i].run < r
  /\ \A i \in 1 .. Len(f) : f[i].run <= r

\* The clocks keep together, and recent is the end of what was fired.
RecentInv ==
  /\ \A r, s \in Source : clock[r] - clock[s] <= MaxSkew
  /\ EndsWith(fired, recent, run)

\* What is fired is stamped in the order of the clocks, within their skew.
InOrder(f, c) ==
  /\ \A i \in 1 .. Len(f) : f[i].ts <= c[f[i].source]
  /\ \A i, j \in 1 .. Len(f) : i < j => f[j].ts >= f[i].ts - MaxSkew

FiredInOrder == InOrder(fired, clock)

\* A deque with a maxlen, place by place from its end.
LEMMA PushEnd ==
  ASSUME NEW S, NEW q \in Seq(S), NEW x \in S, NEW maxlen \in Nat \ {0}, Len(q) <= maxlen,
         NEW r, r = Push(q, x, maxlen)
  PROVE  /\ Len(q) \in Nat
         /\ Len(r) = IF Len(q) < maxlen THEN Len(q) + 1 ELSE maxlen
         /\ r[Len(r)] = x
         /\ \A i \in 1 .. Len(r) - 1 : r[i] = q[Len(q) - Len(r) + 1 + i]
<1> DEFINE u == Append(q, x)
           n == Len(q)
<1>1. /\ u \in Seq(S) /\ n \in Nat /\ Len(u) = n + 1 /\ u[n + 1] = x
      /\ \A i \in 1 .. n : u[i] = q[i]
  OBVIOUS
<1>2. CASE n < maxlen
  <2>1. r = u
    BY <1>1, <1>2 DEF Push
  <2>. HIDE DEF u, n
  <2>2. Len(r) = n + 1 /\ r[Len(r)] = x
    BY <1>1, <2>1
  <2>3. ASSUME NEW i \in 1 .. Len(r) - 1 PROVE r[i] = q[n - Len(r) + 1 + i]
    <3>1. i \in 1 .. n /\ n - Len(r) + 1 + i = i
      BY <1>1, <2>2
    <3>. QED BY <1>1, <2>1, <3>1
  <2>. QED BY <1>1, <1>2, <2>2, <2>3 DEF n
<1>3. CASE ~(n < maxlen)
  <2>1. n = maxlen /\ r = Tail(u)
    BY <1>1, <1>3 DEF Push
  <2>2. Len(Tail(u)) = n /\ \A i \in 1 .. n : Tail(u)[i] = u[i + 1]
    BY <1>1
  <2>. HIDE DEF u, n
  <2>3. Len(r) = n /\ r[Len(r)] = x
    <3>1. n \in 1 .. n
      BY <1>1, <2>1
    <3>. QED BY <1>1, <2>1, <2>2, <3>1
  <2>4. ASSUME NEW i \in 1 .. Len(r) - 1 PROVE r[i] = q[n - Len(r) + 1 + i]
    <3>1. i \in 1 .. n /\ i + 1 \in 1 .. n /\ n - Len(r) + 1 + i = i + 1
      BY <1>1, <2>3
    <3>. QED BY <1>1, <2>1, <2>2, <3>1
  <2>. QED BY <1>1, <1>3, <2>1, <2>3, <2>4 DEF n
<1>. QED BY <1>2, <1>3

\* With one more fired, recent is still its end.
LEMMA EndGrows ==
  ASSUME NEW R, NEW q \in Seq(R), NEW x \in R, Len(q) <= RecentMax,
         NEW F, NEW f \in Seq(F), NEW y \in F, NEW r \in Nat,
         y = [run |-> r, source |-> x.source, ts |-> x.ts],
         EndsWith(f, q, r)
  PROVE  EndsWith(Append(f, y), Push(q, x, RecentMax), r)
<1> DEFINE p == Push(q, x, RecentMax)
           g == Append(f, y)
           n == Len(f)
           l == Len(q)
           m == Len(p)
<1>1. RecentMax \in Nat \ {0} /\ n \in Nat /\ l \in Nat /\ l <= n /\ l <= RecentMax
  BY EngineAssumption DEF EndsWith
<1>2. /\ m = IF l < RecentMax THEN l + 1 ELSE RecentMax
      /\ p[m] = x
      /\ \A i \in 1 .. m - 1 : p[i] = q[l - m + 1 + i]
  BY <1>1, PushEnd
<1>3. Len(g) = n + 1 /\ g[n + 1] = y /\ \A i \in 1 .. n : g[i] = f[i]
  OBVIOUS
<1>4. \A i \in 1 .. l : f[n - l + i] = [run |-> r, source |-> q[i].source, ts |-> q[i].ts]
  BY DEF EndsWith
<1>5. l < RecentMax => \A i \in 1 .. n : i <= n - l => f[i].run < r
  BY DEF EndsWith
<1>6. \A i \in 1 .. n : f[i].run <= r
  BY DEF EndsWith
<1>. HIDE DEF n, l, m, p, g
<1>7. m \in Nat \ {0} /\ m <= n + 1
  BY <1>1, <1>2
<1>8. ASSUME NEW i \in 1 .. m
      PROVE  g[Len(g) - m + i] = [run |-> r, source |-> p[i].source, ts |-> p[i].ts]
  <2>1. CASE i = m
    <3>1. Len(g) - m + i = n + 1
      BY <1>1, <1>3, <1>7, <2>1
    <3>. QED BY <1>2, <1>3, <2>1, <3>1
  <2>2. CASE i # m
    <3> DEFINE a == Len(g) - m + i
               b == l - m + 1 + i
    <3>1. i \in 1 .. m - 1 /\ b \in 1 .. l
      BY <1>1, <1>2, <1>7, <2>2
    <3>2. n + 1 - m + i \in 1 .. n /\ n + 1 - m + i = n - l + b
      BY <1>1, <1>2, <1>7, <2>2
    <3>3. a = n + 1 - m + i
      BY <1>1, <1>3, <1>7
    <3>4. p[i] = q[b]
      BY <1>2, <3>1
    <3>. HIDE DEF a, b
    <3>5. g[a] = f[n - l + b]
      BY <1>3, <3>2, <3>3
    <3>6. g[a] = [run |-> r, source |-> p[i].source, ts |-> p[i].ts]
      BY <1>4, <3>1, <3>4, <3>5
    <3>. QED BY <3>6 DEF a
  <2>. QED BY <2>1, <2>2
<1>9. ASSUME m < RecentMax, NEW i \in 1 .. Len(g), i <= Len(g) - m PROVE g[i].run < r
  <2>1. l < RecentMax /\ i \in 1 .. n /\ i <= n - l
    BY <1>1, <1>2, <1>3, <1>9
  <2>. QED BY <1>3, <1>5, <2>1
<1>10. ASSUME NEW i \in 1 .. Len(g) PROVE g[i].run <= r
  <2>1. i \in 1 .. n \/ i = n + 1
    BY <1>1, <1>3
  <2>. QED BY <1>3, <1>6, <2>1
<1>11. m <= Len(g)
  BY <1>3, <1>7
<1>12. EndsWith(g, p, r)
  BY <1>8, <1>9, <1>10, <1>11 DEF EndsWith, m
<1>. QED BY <1>12 DEF g, p

\* What a step adds to the inferences.
LEMMA FiredMoves ==
  ASSUME TypeOK, NEW o \in Observation, Ingest(o)
  PROVE  /\ UNCHANGED <<clock, run>> /\ o.source \in Source /\ clock[o.source] \in Nat
         /\ \/ /\ Fires(Filed(o), o.source, clock[o.source])
               /\ recent' = Push(recent, [source |-> o.source, ts |-> clock[o.source]], RecentMax)
               /\ fired' = Append(fired, [run |-> run, source |-> o.source,
                                          ts |-> clock[o.source]])
            \/ UNCHANGED <<recent, fired>>
  BY DEF Ingest, Observation, TypeOK, Stamp

\* The places of what was fired, with one more at the end.
LEMMA FiredMore ==
  ASSUME TypeOK, NEW f \in Inference, fired' = Append(fired, f)
  PROVE  /\ Len(fired) \in Nat /\ Len(fired') = Len(fired) + 1
         /\ fired'[Len(fired) + 1] = f
         /\ \A i \in 1 .. Len(fired) : fired'[i] = fired[i]
  BY DEF TypeOK

LEMMA RecentInit == Init => RecentInv /\ FiredInOrder
<1> SUFFICES ASSUME Init PROVE RecentInv /\ FiredInOrder
  OBVIOUS
<1>1. Len(recent) = 0 /\ Len(fired) = 0 /\ \A s \in Source : clock[s] = 0
  BY DEF Init
<1>. QED BY <1>1, EngineAssumption DEF RecentInv, EndsWith, FiredInOrder, InOrder

LEMMA RecentStep == TypeOK /\ RecentInv /\ [Next]_vars => RecentInv'
<1> SUFFICES ASSUME TypeOK, RecentInv, [Next]_vars PROVE RecentInv'
  OBVIOUS
<1>1. /\ run \in Nat \ {0} /\ Len(recent) <= RecentMax
      /\ recent \in Seq([source : Source, ts : Stamp]) /\ fired \in Seq(Inference)
      /\ \A s \in Source : clock[s] \in Nat
  BY EngineAssumption DEF TypeOK, Stamp
<1>2. ASSUME NEW o \in Observation, Ingest(o),
             recent' = Push(recent, [source |-> o.source, ts |-> clock[o.source]], RecentMax),
             fired' = Append(fired, [run |-> run, source |-> o.source, ts |-> clock[o.source]])
      PROVE  RecentInv'
  <2> DEFINE x == [source |-> o.source, ts |-> clock[o.source]]
             y == [run |-> run, source |-> o.source, ts |-> clock[o.source]]
  <2>1. UNCHANGED <<clock, run>>
    BY <1>2, FiredMoves
  <2>2. x \in [source : Source, ts : Stamp] /\ y \in Inference
    BY <1>2, FiredMoves DEF TypeOK, Inference
  <2>3. y = [run |-> run, source |-> x.source, ts |-> x.ts]
    OBVIOUS
  <2>. HIDE DEF x, y
  <2>4. EndsWith(Append(fired, y), Push(recent, x, RecentMax), run)
    BY <1>1, <2>2, <2>3, EndGrows DEF RecentInv
  <2>5. EndsWith(fired', recent', run')
    BY <1>2, <2>1, <2>4 DEF x, y
  <2>. QED BY <2>1, <2>5 DEF RecentInv
<1>3. ASSUME NEW s \in Source, Tick(s) PROVE RecentInv'
  <2>1. /\ clock' = [clock EXCEPT ![s] = clock[s] + 1]
        /\ \A r \in Source \ {s} : clock[s] - clock[r] < MaxSkew
        /\ UNCHANGED <<recent, run, fired>>
    BY <1>3 DEF Tick
  <2>2. ASSUME NEW r \in Source, NEW t \in Source PROVE clock'[r] - clock'[t] <= MaxSkew
    <3>1. clock[r] - clock[t] <= MaxSkew /\ MaxSkew \in Nat
      BY EngineAssumption DEF RecentInv
    <3>2. /\ clock'[r] = IF r = s THEN clock[r] + 1 ELSE clock[r]
          /\ clock'[t] = IF t = s THEN clock[t] + 1 ELSE clock[t]
      BY <2>1 DEF TypeOK
    <3>. QED BY <1>1, <2>1, <3>1, <3>2
  <2>. QED BY <2>1, <2>2 DEF RecentInv
<1>4. CASE RestartC2
  <2>1. /\ run' = run + 1 /\ recent' = <<>> /\ UNCHANGED <<clock, fired>>
    BY <1>4 DEF RestartC2
  <2>2. \A i \in 1 .. Len(fired) : fired[i].run \in Nat /\ fired[i].run <= run
    <3>1. \A i \in 1 .. Len(fired) : fired[i] \in Inference
      BY <1>1
    <3>. QED BY <3>1 DEF RecentInv, EndsWith, Inference
  <2>3. \A i \in 1 .. Len(fired) : fired[i].run < run + 1 /\ fired[i].run <= run + 1
    BY <1>1, <2>2
  <2>4. Len(fired) \in Nat
    BY <1>1
  <2>5. EndsWith(fired, <<>>, run + 1)
    BY <2>3, <2>4 DEF EndsWith
  <2>. QED BY <2>1, <2>5 DEF RecentInv
<1>5. CASE UNCHANGED <<clock, run, recent, fired>>
  BY <1>5 DEF RecentInv
<1>. QED BY <1>2, <1>3, <1>4, <1>5, FiredMoves DEF Next, vars

LEMMA OrderStep == TypeOK /\ RecentInv /\ FiredInOrder /\ [Next]_vars => FiredInOrder'
<1> SUFFICES ASSUME TypeOK, RecentInv, FiredInOrder, [Next]_vars PROVE FiredInOrder'
  OBVIOUS
<1>1. /\ Len(fired) \in Nat /\ MaxSkew \in Nat
      /\ \A i \in 1 .. Len(fired) : fired[i] \in Inference
  BY EngineAssumption DEF TypeOK
<1>2. \A i \in 1 .. Len(fired) : fired[i].source \in Source /\ fired[i].ts \in Nat
  BY <1>1 DEF Inference, Stamp
<1>3. \A s \in Source : clock[s] \in Nat
  BY DEF TypeOK, Stamp
<1>4. /\ \A i \in 1 .. Len(fired) : fired[i].ts <= clock[fired[i].source]
      /\ \A i, j \in 1 .. Len(fired) : i < j => fired[j].ts >= fired[i].ts - MaxSkew
  BY DEF FiredInOrder, InOrder
<1>5. ASSUME NEW o \in Observation, Ingest(o),
             fired' = Append(fired, [run |-> run, source |-> o.source, ts |-> clock[o.source]])
      PROVE  FiredInOrder'
  <2> DEFINE y == [run |-> run, source |-> o.source, ts |-> clock[o.source]]
             g == Append(fired, y)
  <2>1. clock' = clock /\ o.source \in Source /\ y \in Inference
    BY <1>5, FiredMoves DEF TypeOK, Inference
  <2>2. y.source = o.source /\ y.ts = clock[o.source]
    OBVIOUS
  <2>3. Len(g) = Len(fired) + 1 /\ g[Len(fired) + 1] = y /\ \A i \in 1 .. Len(fired) : g[i] = fired[i]
    BY <1>5, <2>1 DEF TypeOK
  <2>. HIDE DEF y, g
  <2>4. ASSUME NEW i \in 1 .. Len(fired) PROVE y.ts >= fired[i].ts - MaxSkew
    <3>1. clock[fired[i].source] - clock[o.source] <= MaxSkew
      BY <1>2, <2>1 DEF RecentInv
    <3>2. fired[i].ts <= clock[fired[i].source] /\ clock[fired[i].source] \in Nat
      BY <1>2, <1>3, <1>4
    <3>. QED BY <1>1, <1>2, <1>3, <2>1, <2>2, <3>1, <3>2
  <2>5. \A i \in 1 .. Len(g) : i \in 1 .. Len(fired) \/ i = Len(fired) + 1
    BY <1>1, <2>3
  <2>6. ASSUME NEW i \in 1 .. Len(g) PROVE g[i].ts <= clock[g[i].source]
    <3>1. y.ts <= clock[y.source]
      BY <1>3, <2>1, <2>2
    <3>. QED BY <1>4, <2>3, <2>5, <3>1
  <2>7. ASSUME NEW i \in 1 .. Len(g), NEW j \in 1 .. Len(g), i < j
        PROVE  g[j].ts >= g[i].ts - MaxSkew
    <3>1. i \in 1 .. Len(fired)
      BY <1>1, <2>3, <2>7
    <3>2. CASE j \in 1 .. Len(fired)
      BY <1>4, <2>3, <2>7, <3>1, <3>2
    <3>3. CASE j = Len(fired) + 1
      BY <2>3, <2>4, <3>1, <3>3
    <3>. QED BY <2>5, <3>2, <3>3
  <2>8. InOrder(g, clock)
    BY <2>6, <2>7 DEF InOrder
  <2>. QED BY <1>5, <2>1, <2>8 DEF FiredInOrder, g, y
<1>6. ASSUME NEW s \in Source, Tick(s) PROVE FiredInOrder'
  <2>1. UNCHANGED fired /\ \A r \in Source : clock[r] <= clock'[r] /\ clock'[r] \in Nat
    BY <1>3, <1>6 DEF Tick, TypeOK
  <2>2. ASSUME NEW i \in 1 .. Len(fired) PROVE fired[i].ts <= clock'[fired[i].source]
    <3> DEFINE r == fired[i].source
               t == fired[i].ts
               c == clock[r]
               d == clock'[r]
    <3>1. r \in Source /\ t \in Nat /\ t <= c
      BY <1>2, <1>4
    <3>2. c \in Nat /\ d \in Nat /\ c <= d
      BY <1>3, <2>1, <3>1
    <3>3. t <= d
      <4>. HIDE DEF t, c, d
      <4>. QED BY <3>1, <3>2
    <3>. QED BY <3>3
  <2>3. InOrder(fired, clock')
    BY <1>4, <2>2 DEF InOrder
  <2>. QED BY <2>1, <2>3 DEF FiredInOrder
<1>7. CASE UNCHANGED <<clock, fired>>
  BY <1>7 DEF FiredInOrder
<1>. QED BY <1>5, <1>6, <1>7, FiredMoves DEF Next, RestartC2, vars

\* Numbers with the same quotient are less than the divisor apart.
LEMMA SameQuotient ==
  ASSUME NEW a \in Nat, NEW b \in Nat, NEW w \in Nat \ {0}, a \div w = b \div w
  PROVE  a - b < w /\ b - a < w
<1>1. PICK q \in Nat : q = a \div w
  OBVIOUS
<1> DEFINE m == w * q
<1>2. m \in Nat /\ m <= a /\ a < m + w
  BY <1>1
<1>3. m <= b /\ b < m + w
  BY <1>1
<1>. HIDE DEF m
<1>. QED BY <1>2, <1>3

\* A source that fired is in recent while its window lasts.
LEMMA RefractoryLasts ==
  ASSUME SourcesFit, TypeOK, RecentInv, FiredInOrder, WindowApart,
         NEW i \in 1 .. Len(fired), fired[i].run = run,
         NEW s \in Source, fired[i].source = s, clock[s] - fired[i].ts < Window
  PROVE  Refractory(s, clock[s])
<1> DEFINE n == Len(fired)
           l == Len(recent)
           T == fired[i].ts
           c == clock[s]
<1>1. /\ n \in Nat /\ l \in Nat /\ l <= n /\ l <= RecentMax /\ RecentMax \in Nat \ {0}
      /\ Window \in Nat \ {0} /\ MaxSkew \in Nat
      /\ \A r \in Source : clock[r] \in Nat
  BY EngineAssumption DEF TypeOK, RecentInv, EndsWith, Stamp
<1>2. \A j \in 1 .. n : fired[j].source \in Source /\ fired[j].ts \in Nat /\ fired[j].run \in Nat
  <2>1. \A j \in 1 .. n : fired[j] \in Inference
    BY DEF TypeOK
  <2>. QED BY <2>1 DEF Inference, Stamp
<1>3. T \in Nat /\ c \in Nat /\ c - T < Window
  BY <1>1, <1>2
\* If it were not, there would be too many inferences after it.
<1>4. ASSUME i <= n - l PROVE FALSE
  <2> DEFINE J == n - RecentMax + 1 .. n
             Others == Source \ {s}
             Slots == 0 .. PerWindow - 1
             g == [j \in J |-> <<fired[j].source, (fired[j].ts - T + MaxSkew) \div Window>>]
  <2>1. l = RecentMax
    <3>1. ~(l < RecentMax)
      BY <1>2, <1>4 DEF RecentInv, EndsWith
    <3>. QED BY <1>1, <3>1
  <2>2. \A j \in J : /\ j \in 1 .. n /\ i < j /\ j - (n - l) \in 1 .. l
                     /\ n - l + (j - (n - l)) = j
    <3>. HIDE DEF n, l
    <3>. QED BY <1>1, <1>4, <2>1
  <2>3. \A j \in J : fired[j].run = run
    <3>1. ASSUME NEW j \in J PROVE fired[j].run = run
      <4> DEFINE k == j - (n - l)
      <4>1. k \in 1 .. l /\ n - l + k = j
        BY <2>2
      <4>. HIDE DEF k
      <4>2. fired[n - l + k] = [run |-> run, source |-> recent[k].source, ts |-> recent[k].ts]
        BY <4>1 DEF RecentInv, EndsWith
      <4>. QED BY <4>1, <4>2
    <3>. QED BY <3>1
  <2>4. ASSUME NEW j \in J
        PROVE  /\ fired[j].source \in Others
               /\ fired[j].ts - T + MaxSkew \in Nat
               /\ fired[j].ts - T + MaxSkew < Window + 2 * MaxSkew
    <3>1. j \in 1 .. n /\ i < j /\ fired[j].run = run
      BY <2>2, <2>3
    <3>2. /\ fired[j].ts <= clock[fired[j].source]
          /\ fired[j].ts >= T - MaxSkew
          /\ clock[fired[j].source] - c <= MaxSkew
      BY <1>2, <3>1 DEF FiredInOrder, InOrder, RecentInv
    <3> DEFINE t == fired[j].ts
               r == fired[j].source
               d == clock[r]
    <3>3. d \in Nat /\ t \in Nat /\ r \in Source
      BY <1>1, <1>2, <3>1
    <3>4. r = s => d = c /\ t - T >= Window
      BY <3>1 DEF WindowApart
    <3>5. t <= d /\ t >= T - MaxSkew /\ d - c <= MaxSkew
      BY <3>2
    <3>. HIDE DEF T, c, t, d, r
    <3>6. r # s
      BY <1>1, <1>3, <3>3, <3>4, <3>5
    <3>7. t - T + MaxSkew \in Nat /\ t - T + MaxSkew < Window + 2 * MaxSkew
      BY <1>1, <1>3, <3>3, <3>5
    <3>. QED BY <3>3, <3>6, <3>7 DEF t, r, T
  <2>5. /\ PerWindow \in Nat
        /\ \A x \in Nat : x < Window + 2 * MaxSkew => x \div Window \in Slots
    <3> DEFINE w == Window + 2 * MaxSkew
    <3>1. w \in Nat /\ PerWindow = (w + Window - 1) \div Window
      BY <1>1 DEF PerWindow
    <3>. HIDE DEF w
    <3>2. PerWindow \in Nat /\ w <= PerWindow * Window
      BY <1>1, <3>1
    <3>3. ASSUME NEW x \in Nat, x < w PROVE x \div Window \in 0 .. PerWindow - 1
      BY <1>1, <3>1, <3>2, <3>3
    <3>. QED BY <3>2, <3>3 DEF w
  <2>6. g \in [J -> Others \X Slots]
    <3>1. \A j \in J : g[j] \in Others \X Slots
      BY <2>4, <2>5
    <3>. QED BY <3>1
  <2>7. IsFiniteSet(J) /\ Cardinality(J) = RecentMax
    <3>1. n - RecentMax + 1 \in Int /\ n \in Int /\ ~(n - RecentMax + 1 > n)
          /\ n - (n - RecentMax + 1) + 1 = RecentMax
      BY <1>1
    <3>. HIDE DEF n
    <3>. QED BY <3>1, FS_Interval
  <2>8. /\ IsFiniteSet(Others \X Slots)
        /\ Cardinality(Others \X Slots) = (Cardinality(Source) - 1) * PerWindow
    <3>1. IsFiniteSet(Others) /\ Cardinality(Others) = Cardinality(Source) - 1
      BY FS_RemoveElement DEF SourcesFit
    <3>2. IsFiniteSet(Slots) /\ Cardinality(Slots) = PerWindow
      <4>1. 0 \in Int /\ PerWindow - 1 \in Int /\ (PerWindow = 0 => 0 > PerWindow - 1)
            /\ PerWindow - 1 - 0 + 1 = PerWindow /\ (0 > PerWindow - 1 => PerWindow = 0)
        BY <2>5
      <4>. QED BY <4>1, FS_Interval
    <3>. HIDE DEF Others, Slots
    <3>. QED BY <3>1, <3>2, FS_Product
  <2>9. PICK x \in J, y \in J : x # y /\ g[x] = g[y]
    <3>1. Cardinality(Others \X Slots) < Cardinality(J)
      BY <2>7, <2>8 DEF SourcesFit
    <3>. HIDE DEF g, J, Others, Slots
    <3>. QED BY <2>6, <2>7, <2>8, <3>1, FS_PigeonHole
  <2>10. /\ fired[x].source = fired[y].source
         /\ (fired[x].ts - T + MaxSkew) \div Window = (fired[y].ts - T + MaxSkew) \div Window
    BY <2>9
  <2>11. fired[x].ts - fired[y].ts < Window /\ fired[y].ts - fired[x].ts < Window
    <3> DEFINE a == fired[x].ts - T + MaxSkew
               b == fired[y].ts - T + MaxSkew
    <3>1. a \in Nat /\ b \in Nat /\ a \div Window = b \div Window
      BY <2>4, <2>10
    <3>. HIDE DEF a, b
    <3>2. a - b < Window /\ b - a < Window
      BY <3>1, EngineAssumption, SameQuotient
    <3> DEFINE p == fired[x].ts
               q == fired[y].ts
    <3>3. p \in Nat /\ q \in Nat
      BY <1>2, <2>2
    <3>4. a = p - T + MaxSkew /\ b = q - T + MaxSkew
      BY DEF a, b
    <3>. HIDE DEF T, p, q
    <3>5. p - q < Window /\ q - p < Window
      BY <1>1, <1>3, <3>1, <3>2, <3>3, <3>4
    <3>. QED BY <3>5 DEF p, q
  <2>12. x \in 1 .. n /\ y \in 1 .. n /\ fired[x].run = fired[y].run /\ (x < y \/ y < x)
    <3>1. x \in 1 .. n /\ y \in 1 .. n
      BY <2>2
    <3>. HIDE DEF J
    <3>. QED BY <1>1, <2>3, <2>9, <3>1
  <2>13. fired[x].ts \in Nat /\ fired[y].ts \in Nat
    BY <1>2, <2>12
  <2>14. CASE x < y
    <3>1. fired[y].ts - fired[x].ts >= Window
      BY <2>10, <2>12, <2>14 DEF WindowApart
    <3>. QED BY <1>1, <2>11, <2>13, <3>1
  <2>15. CASE y < x
    <3>1. fired[x].ts - fired[y].ts >= Window
      BY <2>10, <2>12, <2>15 DEF WindowApart
    <3>. QED BY <1>1, <2>11, <2>13, <3>1
  <2>. QED BY <2>12, <2>14, <2>15
<1>5. CASE i > n - l
  <2> DEFINE k == i - (n - l)
  <2>1. k \in 1 .. l /\ n - l + k = i
    <3>. HIDE DEF n, l
    <3>1. i \in 1 .. n
      BY DEF n
    <3>. QED BY <1>1, <1>5, <3>1
  <2>. HIDE DEF k
  <2>2. fired[i] = [run |-> run, source |-> recent[k].source, ts |-> recent[k].ts]
    BY <2>1 DEF RecentInv, EndsWith
  <2>. QED BY <2>1, <2>2 DEF Refractory
<1>. QED BY <1>1, <1>4, <1>5

LEMMA WindowStep ==
  ASSUME SourcesFit
  PROVE  TypeOK /\ RecentInv /\ FiredInOrder /\ WindowApart /\ [Next]_vars => WindowApart'
<1> SUFFICES ASSUME TypeOK, RecentInv, FiredInOrder, WindowApart, [Next]_vars PROVE WindowApart'
  OBVIOUS
<1>1. Len(fired) \in Nat /\ Window \in Nat
      /\ \A i \in 1 .. Len(fired) : fired[i] \in Inference
  BY EngineAssumption DEF TypeOK
<1>2. ASSUME NEW o \in Observation, Ingest(o), Fires(Filed(o), o.source, clock[o.source]),
             fired' = Append(fired, [run |-> run, source |-> o.source, ts |-> clock[o.source]])
      PROVE  WindowApart'
  <2> DEFINE f == [run |-> run, source |-> o.source, ts |-> clock[o.source]]
  <2>1. o.source \in Source /\ clock[o.source] \in Nat /\ f \in Inference
    BY <1>2, FiredMoves DEF TypeOK, Inference
  <2>2. /\ Len(fired') = Len(fired) + 1 /\ fired'[Len(fired) + 1] = f
        /\ \A i \in 1 .. Len(fired) : fired'[i] = fired[i]
    BY <1>2, <2>1, FiredMore
  <2>3. ASSUME NEW i \in 1 .. Len(fired), fired[i].run = run, fired[i].source = o.source
        PROVE  f.ts - fired[i].ts >= Window
    <3>1. ~Refractory(o.source, clock[o.source])
      BY <1>2 DEF Fires
    <3>2. ~(clock[o.source] - fired[i].ts < Window)
      BY <2>1, <2>3, <3>1, RefractoryLasts
    <3>3. fired[i].ts \in Nat
      BY <1>1 DEF Inference, Stamp
    <3>. QED BY <1>1, <2>1, <3>2, <3>3
  <2>4. ASSUME NEW i \in 1 .. Len(fired'), NEW j \in 1 .. Len(fired'), i < j,
               fired'[i].run = fired'[j].run, fired'[i].source = fired'[j].source
        PROVE  fired'[j].ts - fired'[i].ts >= Window
    <3>1. i \in 1 .. Len(fired) /\ (j \in 1 .. Len(fired) \/ j = Len(fired) + 1)
      BY <1>1, <2>2, <2>4
    <3>2. CASE j \in 1 .. Len(fired)
      BY <2>2, <2>4, <3>1, <3>2 DEF WindowApart
    <3>3. CASE j = Len(fired) + 1
      BY <2>2, <2>3, <2>4, <3>1, <3>3
    <3>. QED BY <3>1, <3>2, <3>3
  <2>. QED BY <2>4 DEF WindowApart
<1>3. CASE UNCHANGED fired
  BY <1>3 DEF WindowApart
<1>. QED BY <1>2, <1>3, FiredMoves DEF Next, Tick, RestartC2, vars

\* "don't re-fire same source within the window": for every number of sources
\* whose inferences of one window recent has room for, two inferences of one
\* run about one source are a window apart.  With 64 places, a window of 60
\* seconds and clocks that are 30 seconds apart, these are 32 sources.
THEOREM RefractoryHolds ==
  ASSUME SourcesFit
  PROVE  Spec => []WindowApart
<1>1. Init => WindowApart
  <2>1. Init => Len(fired) = 0
    BY DEF Init
  <2>. QED BY <2>1 DEF WindowApart
<1>. QED BY <1>1, TypeInit, TypeStep, RecentInit, RecentStep, OrderStep, WindowStep, PTL DEF Spec

-----------------------------------------------------------------------------
(* No convoy is missed.  What the run heard is the entity's last            *)
(* observation, or an older one, until no source can be in a window that    *)
(* it belongs to: an entity is dropped by the newest clock, and this is no  *)
(* more than MaxSkew ahead of the entity's own.  So there are as many       *)
(* active entities as pieces of evidence, and what holds the matcher back   *)
(* is the bearings, or was fired in the window.                             *)

\* The clocks are no further apart than a window, and no two of the cells share
\* a hash.
EntitiesApart ==
  /\ MaxSkew <= Window
  /\ ~({-1, -2} \subseteq Cell)

\* Besides, no vehicle moves within its cell as fast as the matcher asks for.
PlainReports ==
  /\ EntitiesApart
  /\ \A p \in Spot \X Spot : Leg[p].length = 0 \/ Leg[p].length < MinSpeed

\* What run r heard, in H, is in the entities dq, or was dropped from them.
HeardIsHeld(H, dq, r, c) ==
  \A h \in H : h.run = r =>
    LET q == dq[KeyOf(h)]
    IN  \/ q # <<>> /\ h.ts <= q[Len(q)].ts
        \/ h.ts < c[h.source] + MaxSkew - 2 * Window

\* Nothing was heard from the future.
HeardPast(H, c) == \A h \in H : h.ts <= c[h.source]

HeardInv == HeardPast(heard, clock) /\ HeardIsHeld(heard, deque, run, clock)

\* ConvoyReported, as an operator of what it depends on.
Reported(H, f) ==
  \A h \in H :
    h.class \in VehicleClass /\ Cardinality(EvidenceIn(H, h.run, h.source, h.ts)) >= MinVehicles
      => \E i \in 1 .. Len(f) :
             /\ f[i].run = h.run /\ f[i].source = h.source
             /\ h.ts - Window < f[i].ts /\ f[i].ts <= h.ts

LEMMA HeardTyped ==
  ASSUME TypeOK
  PROVE  /\ \A h \in heard : /\ h.run \in Nat /\ h.run <= run /\ h.source \in Source
                             /\ h.class \in Class /\ h.cell \in Cell /\ h.ts \in Nat
                             /\ KeyOf(h) \in Key
         /\ \A s \in Source : clock[s] \in Nat
         /\ run \in Nat /\ MaxSkew \in Nat /\ Window \in Nat \ {0}
<1>1. ASSUME NEW h \in heard
      PROVE  /\ h.run \in 1 .. run /\ h.source \in Source
             /\ h.class \in Class /\ h.cell \in Cell /\ h.ts \in Stamp
  BY DEF TypeOK
<1>2. run \in Nat /\ \A s \in Source : clock[s] \in Nat
  BY EngineAssumption DEF TypeOK, Stamp
<1>3. \A h \in heard : KeyOf(h) \in Key
  BY <1>1 DEF KeyOf, Key
<1>. QED BY <1>1, <1>2, <1>3, EngineAssumption DEF Stamp

\* An observation is the last one of its entity; another entity stays as it
\* is, or goes because it is stale.
LEMMA FiledLast ==
  ASSUME TypeOK, NEW o \in Observation, NEW k \in Key
  PROVE  /\ KeyOf(o) \in Key
         /\ k = KeyOf(o) => /\ Filed(o)[k] # <<>> /\ Filed(o)[k][Len(Filed(o)[k])] = o
         /\ k # KeyOf(o) => \/ Filed(o)[k] = deque[k]
                            \/ Stale(deque[k], o.ts)
<1> DEFINE added == [deque EXCEPT ![KeyOf(o)] = Push(@, o, ObsMax)]
           p == Push(deque[k], o, ObsMax)
<1>1. KeyOf(o) \in Key
  BY DEF Observation, Key, KeyOf
<1>2. deque[k] \in Seq(Observation) /\ Len(deque[k]) <= ObsMax /\ ObsMax \in Nat \ {0}
  BY EngineAssumption DEF TypeOK
<1>3. Filed(o)[k] = IF Stale(added[k], o.ts) THEN <<>> ELSE added[k]
  BY DEF Filed
<1>4. ASSUME k = KeyOf(o) PROVE Filed(o)[k] # <<>> /\ Filed(o)[k][Len(Filed(o)[k])] = o
  <2>1. added[k] = p
    BY <1>1, <1>4 DEF TypeOK
  <2>2. p[Len(p)] = o /\ Len(p) # 0
    <3>1. /\ Len(deque[k]) \in Nat /\ p[Len(p)] = o
          /\ Len(p) = IF Len(deque[k]) < ObsMax THEN Len(deque[k]) + 1 ELSE ObsMax
      <4>. HIDE DEF p
      <4>. QED BY <1>2, PushEnd DEF p
    <3>. QED BY <1>2, <3>1
  <2>3. o.ts \in Nat /\ Window \in Nat
    BY EngineAssumption DEF Observation, Stamp
  <2>. HIDE DEF p
  <2>4. p # <<>> /\ ~Stale(p, o.ts)
    BY <2>2, <2>3 DEF Stale
  <2>. QED BY <1>3, <2>1, <2>2, <2>4
<1>5. ASSUME k # KeyOf(o) PROVE Filed(o)[k] = deque[k] \/ Stale(deque[k], o.ts)
  <2>1. added[k] = deque[k]
    BY <1>5 DEF TypeOK
  <2>. QED BY <1>3, <2>1
<1>. QED BY <1>1, <1>4, <1>5

LEMMA HeardInit == Init => HeardInv
  BY DEF Init, HeardInv, HeardPast, HeardIsHeld

\* An observation is held, and with it all that was.
LEMMA IngestHeld ==
  ASSUME TypeOK, RecentInv, HeardInv, NEW o \in Observation, o.ts = clock[o.source],
         NEW H, H = heard \cup {HeardAs(o, run)}
  PROVE  HeardPast(H, clock) /\ HeardIsHeld(H, Filed(o), run, clock)
<1> DEFINE new == HeardAs(o, run)
<1>1. /\ new.run = run /\ new.source = o.source /\ new.class = o.class /\ new.cell = o.cell
      /\ new.ts = o.ts /\ KeyOf(new) = KeyOf(o)
  BY DEF HeardAs, KeyOf
<1>2. o.source \in Source /\ o.ts \in Nat
  BY DEF Observation, Stamp
<1>3. HeardPast(H, clock)
  BY <1>1, <1>2 DEF HeardInv, HeardPast
<1>4. ASSUME NEW h \in H, h.run = run
      PROVE  LET q == Filed(o)[KeyOf(h)]
             IN  \/ q # <<>> /\ h.ts <= q[Len(q)].ts
                 \/ h.ts < clock[h.source] + MaxSkew - 2 * Window
  <2> DEFINE k == KeyOf(h)
             q == Filed(o)[k]
  <2>1. k \in Key /\ h.ts \in Nat /\ h.source \in Source
    <3>1. KeyOf(o) \in Key
      BY DEF Observation, Key, KeyOf
    <3>2. CASE h = new
      BY <1>1, <1>2, <3>1, <3>2
    <3>3. CASE h \in heard
      BY <3>3, HeardTyped
    <3>. QED BY <3>2, <3>3
  <2>2. CASE k = KeyOf(o)
    <3>1. h.source = o.source
      BY <2>2 DEF KeyOf
    <3>2. h.ts <= o.ts
      BY <1>3, <3>1 DEF HeardPast
    <3>3. q # <<>> /\ q[Len(q)] = o
      BY <2>1, <2>2, FiledLast
    <3>. QED BY <3>2, <3>3
  <2>3. CASE k # KeyOf(o)
    <3>1. h \in heard
      BY <1>1, <2>3
    <3> DEFINE d == deque[k]
    <3>2. \/ d # <<>> /\ h.ts <= d[Len(d)].ts
          \/ h.ts < clock[h.source] + MaxSkew - 2 * Window
      BY <1>4, <3>1 DEF HeardInv, HeardIsHeld
    <3>3. Filed(o)[k] = d \/ Stale(d, o.ts)
      BY <2>1, <2>3, FiledLast
    <3>4. ASSUME d # <<>>, h.ts <= d[Len(d)].ts, Stale(d, o.ts)
          PROVE  h.ts < clock[h.source] + MaxSkew - 2 * Window
      <4> DEFINE t == h.ts
                 u == d[Len(d)].ts
                 v == clock[h.source]
                 w == o.ts
      <4>1. u < w - 2 * Window /\ t <= u
        BY <3>4 DEF Stale
      <4>2. w - v <= MaxSkew
        BY <1>2, <2>1 DEF RecentInv
      <4>3. t \in Nat /\ v \in Nat /\ w \in Nat /\ MaxSkew \in Nat /\ Window \in Nat
        BY <1>2, <2>1, HeardTyped
      <4>4. u \in Nat
        <5>1. d \in Seq(Observation)
          BY <2>1 DEF TypeOK
        <5>2. d[Len(d)] \in Observation
          <6>. HIDE DEF d
          <6>. QED BY <3>4, <5>1
        <5>. QED BY <5>2 DEF Observation, Stamp
      <4>5. t < v + MaxSkew - 2 * Window
        <5>. HIDE DEF t, u, v, w
        <5>. QED BY <4>1, <4>2, <4>3, <4>4
      <4>. QED BY <4>5
    <3>. QED BY <3>2, <3>3, <3>4
  <2>. QED BY <2>2, <2>3
<1>. QED BY <1>3, <1>4 DEF HeardIsHeld

LEMMA HeardStep == TypeOK /\ RecentInv /\ HeardInv /\ [Next]_vars => HeardInv'
<1> SUFFICES ASSUME TypeOK, RecentInv, HeardInv, [Next]_vars PROVE HeardInv'
  OBVIOUS
<1>1. ASSUME NEW o \in Observation, Ingest(o) PROVE HeardInv'
  <2>1. /\ o.ts = clock[o.source] /\ deque' = Filed(o) /\ heard' = heard \cup {HeardAs(o, run)}
        /\ UNCHANGED <<clock, run>>
    BY <1>1 DEF Ingest, HeardAs
  <2>2. HeardPast(heard', clock) /\ HeardIsHeld(heard', Filed(o), run, clock)
    BY <2>1, IngestHeld
  <2>. QED BY <2>1, <2>2 DEF HeardInv
<1>2. ASSUME NEW s \in Source, Tick(s) PROVE HeardInv'
  <2>1. UNCHANGED <<deque, heard, run>>
    BY <1>2 DEF Tick
  <2>2. \A r \in Source : clock[r] <= clock'[r] /\ clock'[r] \in Nat /\ clock[r] \in Nat
    BY <1>2, HeardTyped DEF Tick, TypeOK
  <2>3. ASSUME NEW h \in heard
        PROVE  /\ h.ts <= clock'[h.source]
               /\ h.ts < clock[h.source] + MaxSkew - 2 * Window
                    => h.ts < clock'[h.source] + MaxSkew - 2 * Window
    <3> DEFINE c == clock[h.source]
               d == clock'[h.source]
               t == h.ts
    <3>1. t <= c
      BY DEF HeardInv, HeardPast
    <3>2. c \in Nat /\ d \in Nat /\ c <= d /\ t \in Nat /\ MaxSkew \in Nat /\ Window \in Nat
      BY <2>2, HeardTyped
    <3>. HIDE DEF c, d, t
    <3>3. t <= d /\ (t < c + MaxSkew - 2 * Window => t < d + MaxSkew - 2 * Window)
      BY <3>1, <3>2
    <3>. QED BY <3>3 DEF c, d, t
  <2>4. HeardPast(heard, clock') /\ HeardIsHeld(heard, deque, run, clock')
    BY <2>3 DEF HeardInv, HeardPast, HeardIsHeld
  <2>. QED BY <2>1, <2>4 DEF HeardInv
<1>3. CASE RestartC2
  <2>1. run' = run + 1 /\ UNCHANGED <<clock, heard>>
    BY <1>3 DEF RestartC2
  <2>2. \A h \in heard : h.run # run + 1
    BY HeardTyped
  <2>3. HeardIsHeld(heard, deque', run + 1, clock)
    BY <2>2 DEF HeardIsHeld
  <2>. QED BY <2>1, <2>3 DEF HeardInv
<1>4. CASE UNCHANGED vars
  BY <1>4 DEF HeardInv, vars
<1>. QED BY <1>1, <1>2, <1>3, <1>4 DEF Next

\* There are as many active entities as pieces of evidence.
LEMMA EvidenceIsActive ==
  ASSUME EntitiesApart, TypeOK, NEW dq \in [Key -> Seq(Observation)], NEW H, IsFiniteSet(H),
         H \subseteq [run : Int, source : Source, class : Class, cell : Cell, ts : Stamp],
         HeldWasHeard(dq, H, run), HeardIsHeld(H, dq, run, clock), NEW s \in Source
  PROVE  Cardinality(EvidenceIn(H, run, s, clock[s])) <= Cardinality(Active(dq, s, clock[s]))
<1> DEFINE A == Active(dq, s, clock[s])
           E == EvidenceIn(H, run, s, clock[s])
           g == [e \in E |-> [source |-> s, class |-> e[1], hash |-> Hash(e[2])]]
<1>1. IsFiniteSet(A)
  BY ActiveHasEvidence
<1>2. ASSUME NEW e \in E
      PROVE  /\ e[1] \in Class /\ e[2] \in Cell /\ e = <<e[1], e[2]>>
             /\ g[e] \in A
  <2>1. PICK h \in H : /\ h.run = run /\ h.source = s /\ h.class \in VehicleClass
                       /\ clock[s] - Window <= h.ts /\ e = <<h.class, h.cell>>
    BY DEF EvidenceIn
  <2>2. h.class \in Class /\ h.cell \in Cell /\ h.ts \in Nat
    BY DEF Stamp
  <2>3. g[e] = KeyOf(h)
    BY <2>1 DEF KeyOf
  <2>4. KeyOf(h) \in Key
    BY <2>1, <2>2 DEF KeyOf, Key
  <2> DEFINE q == dq[KeyOf(h)]
             c == clock[s]
             t == h.ts
             u == q[Len(q)].ts
  <2>5. \/ q # <<>> /\ t <= u
        \/ t < c + MaxSkew - 2 * Window
    BY <2>1 DEF HeardIsHeld
  <2>6. c \in Nat /\ MaxSkew \in Nat /\ Window \in Nat /\ MaxSkew <= Window
    BY HeardTyped DEF EntitiesApart
  <2>7. q # <<>> /\ t <= u
    <3> DEFINE some == q # <<>>
    <3>1. c - Window <= t /\ ((some /\ t <= u) \/ t < c + MaxSkew - 2 * Window)
      BY <2>1, <2>5
    <3>. HIDE DEF c, t, u, some
    <3>2. t \in Nat
      BY <2>2 DEF t
    <3>3. ~(t < c + MaxSkew - 2 * Window)
      BY <2>6, <3>1, <3>2
    <3>4. some /\ t <= u
      BY <3>1, <3>3
    <3>. QED BY <3>4 DEF some
  <2>8. Len(q) \in 1 .. Len(q) /\ u \in Nat
    <3>1. q \in Seq(Observation)
      BY <2>4
    <3>. HIDE DEF q
    <3>2. Len(q) \in 1 .. Len(q)
      BY <2>7, <3>1
    <3>3. q[Len(q)] \in Observation
      BY <3>1, <3>2
    <3>. QED BY <3>2, <3>3 DEF Observation, Stamp
  <2>9. u >= c - Window
    <3>1. c - Window <= t
      BY <2>1
    <3>. HIDE DEF c, t, u
    <3>2. t \in Nat
      BY <2>2 DEF t
    <3>. QED BY <2>6, <2>7, <2>8, <3>1, <3>2
  <2>10. KeyOf(h) \in A
    <3>1. Recent(q[Len(q)], clock[s])
      BY <2>9 DEF Recent
    <3>2. KeyOf(h).source = s /\ KeyOf(h).class \in VehicleClass
      BY <2>1 DEF KeyOf
    <3>. QED BY <2>4, <2>8, <3>1, <3>2 DEF Active
  <2>. QED BY <2>1, <2>2, <2>3, <2>10
<1>3. g \in Injection(E, A)
  <2>1. ASSUME NEW d \in E, NEW e \in E, g[d] = g[e] PROVE d = e
    <3>1. d[1] = e[1] /\ Hash(d[2]) = Hash(e[2])
      <4>1. g[d] = [source |-> s, class |-> d[1], hash |-> Hash(d[2])]
        OBVIOUS
      <4>2. g[e] = [source |-> s, class |-> e[1], hash |-> Hash(e[2])]
        OBVIOUS
      <4>3. ASSUME NEW a, NEW b, NEW x, NEW y,
                   [source |-> s, class |-> a, hash |-> x] = [source |-> s, class |-> b, hash |-> y]
            PROVE  a = b /\ x = y
        BY <4>3
      <4>4. [source |-> s, class |-> d[1], hash |-> Hash(d[2])]
              = [source |-> s, class |-> e[1], hash |-> Hash(e[2])]
        BY <2>1, <4>1, <4>2
      <4>. HIDE DEF g
      <4>. QED BY <4>3, <4>4
    <3>2. d[2] \in Cell /\ e[2] \in Cell /\ d = <<d[1], d[2]>> /\ e = <<e[1], e[2]>>
      BY <1>2
    <3>3. d[2] = e[2]
      BY <3>1, <3>2 DEF Hash, EntitiesApart
    <3>. QED BY <3>1, <3>2, <3>3
  <2>2. g \in [E -> A]
    BY <1>2
  <2>. HIDE DEF g, E, A
  <2>. QED BY <2>1, <2>2 DEF Injection, IsInjective
<1>. HIDE DEF g, E, A
<1>4. Cardinality(E) <= Cardinality(A)
  BY <1>1, <1>3, FS_Injection
<1>. QED BY <1>4 DEF E, A

\* The inferences f have one of run r about s in the window up to ts.
InWindow(f, r, s, ts) ==
  \E i \in 1 .. Len(f) :
    /\ f[i].run = r /\ f[i].source = s
    /\ ts - Window < f[i].ts /\ f[i].ts <= ts

\* An observation that completes the evidence is answered by an inference, or
\* finds one in its window, unless the bearings are dispersed.
LEMMA CompletedIsReported ==
  ASSUME EntitiesApart, TypeOK, EvidenceInv, RecentInv, FiredInOrder, HeardInv,
         TypeOK', EvidenceInv', HeardInv',
         NEW o \in Observation, Ingest(o), o.class \in VehicleClass,
         Cardinality(EvidenceIn(heard', run, o.source, o.ts)) >= MinVehicles,
         ~Dispersed(Bearings(deque', o.source, o.ts))
  PROVE  InWindow(fired', run, o.source, o.ts)
<1> DEFINE s == o.source
           H == heard \cup {HeardAs(o, run)}
           f == [run |-> run, source |-> s, ts |-> o.ts]
<1>1. /\ o.ts = clock[s] /\ deque' = Filed(o) /\ heard' = H /\ UNCHANGED <<clock, run>>
      /\ \/ fired' = Append(fired, f)
         \/ fired' = fired /\ ~(o.class \in VehicleClass /\ Fires(Filed(o), s, o.ts))
  BY DEF Ingest, HeardAs
<1>2. s \in Source /\ o.ts \in Nat /\ o.ts \in Stamp /\ f \in Inference
  BY DEF Observation, Stamp, TypeOK, Inference
<1>3. /\ Len(fired) \in Nat
      /\ \/ Len(fired') = Len(fired) + 1 /\ fired'[Len(fired) + 1] = f
         \/ fired' = fired /\ ~(o.class \in VehicleClass /\ Fires(Filed(o), s, o.ts))
      /\ \A i \in 1 .. Len(fired) : i \in 1 .. Len(fired') /\ fired'[i] = fired[i]
  <2>1. Len(fired) \in Nat
    BY DEF TypeOK
  <2>2. CASE fired' = Append(fired, f)
    <3>1. /\ Len(fired') = Len(fired) + 1 /\ fired'[Len(fired) + 1] = f
          /\ \A i \in 1 .. Len(fired) : fired'[i] = fired[i]
      BY <1>2, <2>2, FiredMore
    <3>. QED BY <2>1, <3>1
  <2>. QED BY <1>1, <2>1, <2>2
<1>. HIDE DEF f
<1> DEFINE dq == Filed(o)
<1>4. /\ dq \in [Key -> Seq(Observation)] /\ IsFiniteSet(H)
      /\ H \subseteq [run : Int, source : Source, class : Class, cell : Cell, ts : Stamp]
      /\ HeldWasHeard(dq, H, run) /\ HeardIsHeld(H, dq, run, clock)
  <2>1. /\ deque' \in [Key -> Seq(Observation)] /\ IsFiniteSet(heard')
        /\ heard' \subseteq [run : 1 .. run', source : Source, class : Class, cell : Cell,
                             ts : Stamp]
    BY DEF TypeOK, EvidenceInv
  <2>2. HeldWasHeard(dq, H, run) /\ HeardIsHeld(H, dq, run, clock)
    BY <1>1 DEF EvidenceInv, HeldWasHeard, HeardInv, HeardIsHeld
  <2>3. heard' \subseteq [run : Int, source : Source, class : Class, cell : Cell, ts : Stamp]
    BY <2>1
  <2>. QED BY <1>1, <2>1, <2>2, <2>3
<1> DEFINE a == Cardinality(Active(dq, s, clock[s]))
           e == Cardinality(EvidenceIn(H, run, s, clock[s]))
<1>5. e <= a /\ a \in Nat /\ e \in Nat
  <2>. HIDE DEF dq, H
  <2>. QED BY <1>2, <1>4, EvidenceIsActive, ActiveHasEvidence
<1>6. a >= MinVehicles
  <2>1. e >= MinVehicles
    BY <1>1
  <2>. HIDE DEF a, e
  <2>. QED BY <1>5, <2>1, EngineAssumption
<1>7. ASSUME Refractory(s, o.ts)
      PROVE  \E i \in 1 .. Len(fired') :
               /\ fired'[i].run = run /\ fired'[i].source = s
               /\ clock[s] - Window < fired'[i].ts /\ fired'[i].ts <= clock[s]
  <2>1. PICK i \in 1 .. Len(recent) : recent[i].source = s /\ o.ts - recent[i].ts < Window
    BY <1>7 DEF Refractory
  <2> DEFINE j == Len(fired) - Len(recent) + i
  <2>2. j \in 1 .. Len(fired)
    BY <1>3 DEF TypeOK, RecentInv, EndsWith
  <2>3. fired[j].run = run /\ fired[j].source = s /\ fired[j].ts = recent[i].ts
    <3>1. fired[j] = [run |-> run, source |-> recent[i].source, ts |-> recent[i].ts]
      BY DEF RecentInv, EndsWith
    <3>. HIDE DEF j
    <3>. QED BY <2>1, <3>1
  <2>4. fired[j].ts <= clock[s]
    BY <2>2, <2>3 DEF FiredInOrder, InOrder
  <2>5. fired[j] \in Inference
    BY <2>2 DEF TypeOK
  <2>6. fired[j].ts \in Nat
    BY <2>5 DEF Inference, Stamp
  <2>. HIDE DEF j
  <2>7. clock[s] - Window < fired[j].ts
    <3> DEFINE t == fired[j].ts
               c == clock[s]
    <3>1. c - t < Window /\ t \in Nat /\ c \in Nat /\ Window \in Nat
      BY <1>1, <1>2, <2>1, <2>3, <2>6, HeardTyped
    <3>. HIDE DEF t, c
    <3>2. c - Window < t
      BY <3>1
    <3>. QED BY <3>2 DEF t, c
  <2>. QED BY <1>3, <2>2, <2>3, <2>4, <2>7
<1>8. ASSUME ~Refractory(s, o.ts)
      PROVE  \E i \in 1 .. Len(fired') :
               /\ fired'[i].run = run /\ fired'[i].source = s
               /\ clock[s] - Window < fired'[i].ts /\ fired'[i].ts <= clock[s]
  <2>1. Fires(dq, s, o.ts)
    BY <1>1, <1>6, <1>8 DEF Fires
  <2> DEFINE n == Len(fired) + 1
  <2>2. n \in 1 .. Len(fired') /\ fired'[n] = f
    BY <1>3, <2>1
  <2>3. f.run = run /\ f.source = s /\ f.ts = clock[s]
    BY <1>1 DEF f
  <2>4. clock[s] - Window < clock[s] /\ clock[s] <= clock[s]
    BY <1>2, HeardTyped
  <2>. HIDE DEF n
  <2>. QED BY <2>2, <2>3, <2>4
<1>. QED BY <1>1, <1>7, <1>8 DEF InWindow

\* Nothing but dispersed bearings, or an inference in the same window, keeps
\* back what enough vehicles call for, wherever they move.
WithheldIfDispersed ==
  [][\A o \in Observation :
       /\ Ingest(o) /\ o.class \in VehicleClass
       /\ Cardinality(EvidenceIn(heard', run, o.source, o.ts)) >= MinVehicles
       => \/ Dispersed(Bearings(deque', o.source, o.ts))
          \/ InWindow(fired', run, o.source, o.ts)]_vars

\* The matcher answers every observation that completes a convoy with an
\* inference in its window, or has found the bearings dispersed: no hashing, no
\* garbage collection and no other source keeps the entities from it.
THEOREM WithheldOnlyIfDispersed ==
  ASSUME EntitiesApart
  PROVE  Spec => WithheldIfDispersed
<1>1. TypeOK /\ EvidenceInv /\ RecentInv /\ FiredInOrder /\ HeardInv
        /\ TypeOK' /\ EvidenceInv' /\ HeardInv' /\ [Next]_vars
      => [\A o \in Observation :
            /\ Ingest(o) /\ o.class \in VehicleClass
            /\ Cardinality(EvidenceIn(heard', run, o.source, o.ts)) >= MinVehicles
            => \/ Dispersed(Bearings(deque', o.source, o.ts))
               \/ InWindow(fired', run, o.source, o.ts)]_vars
  BY CompletedIsReported
<1>. QED BY <1>1, TypeInit, TypeStep, EvidenceInit, EvidenceStep, RecentInit, RecentStep, OrderStep,
            HeardInit, HeardStep, PTL DEF Spec, WithheldIfDispersed

\* Vehicles too slow to move have no bearings.
LEMMA NotDispersed ==
  ASSUME PlainReports, NEW dq \in [Key -> Seq(Observation)], NEW s, NEW ts
  PROVE  ~Dispersed(Bearings(dq, s, ts))
<1>1. ASSUME NEW k \in Key, Moving(dq[k]) PROVE FALSE
  <2> DEFINE q == dq[k]
             e == Elapsed(q)
             l == Displacement(q).length
  <2>1. q \in Seq(Observation) /\ Len(q) >= MinObs /\ e > 0 /\ l > 0 /\ l >= MinSpeed * e
    BY <1>1 DEF Moving
  <2>2. q[1] \in Observation /\ q[Len(q)] \in Observation
    <3>. HIDE DEF q
    <3>1. Len(q) \in Nat /\ Len(q) > 0
      BY <2>1, EngineAssumption
    <3>. QED BY <2>1, <3>1
  <2>3. e \in Nat \ {0}
    BY <2>1, <2>2 DEF Elapsed, Observation, Stamp
  <2>4. l \in Nat /\ (l = 0 \/ l < MinSpeed)
    <3>1. <<q[1].spot, q[Len(q)].spot>> \in Spot \X Spot
      BY <2>2 DEF Observation
    <3>. QED BY <3>1, EngineAssumption DEF PlainReports, Displacement
  <2>. HIDE DEF q, e, l
  <2>5. MinSpeed \in Nat
    BY EngineAssumption
  <2>6. MinSpeed * e >= MinSpeed
    <3>1. MinSpeed * e = MinSpeed + MinSpeed * (e - 1) /\ MinSpeed * (e - 1) \in Nat
      BY <2>3, <2>5
    <3>. QED BY <2>5, <3>1
  <2> DEFINE m == MinSpeed * e
  <2>7. m \in Nat /\ m >= MinSpeed /\ l >= m
    BY <2>1, <2>3, <2>5, <2>6
  <2>. HIDE DEF m
  <2>. QED BY <2>1, <2>4, <2>5, <2>7
<1>2. DOMAIN Bearings(dq, s, ts) = {}
  BY <1>1 DEF Bearings, Active
<1>. QED BY <1>2 DEF Dispersed

LEMMA ReportedStep ==
  ASSUME PlainReports
  PROVE  /\ TypeOK /\ EvidenceInv /\ RecentInv /\ FiredInOrder /\ HeardInv /\ ConvoyReported
         /\ [Next]_vars
         /\ TypeOK' /\ EvidenceInv' /\ HeardInv'
         => ConvoyReported'
<1> SUFFICES ASSUME TypeOK, EvidenceInv, RecentInv, FiredInOrder, HeardInv, ConvoyReported,
                    [Next]_vars, TypeOK', EvidenceInv', HeardInv'
             PROVE  ConvoyReported'
  OBVIOUS
<1>1. Reported(heard, fired)
  BY DEF ConvoyReported, Reported, Evidence, EvidenceIn
<1>2. ASSUME NEW o \in Observation, Ingest(o) PROVE Reported(heard', fired')
  <2> DEFINE s == o.source
             H == heard \cup {HeardAs(o, run)}
             new == HeardAs(o, run)
             f == [run |-> run, source |-> s, ts |-> o.ts]
  <2>1. /\ o.ts = clock[s] /\ deque' = Filed(o) /\ heard' = H /\ UNCHANGED <<clock, run>>
        /\ \/ fired' = Append(fired, f)
           \/ fired' = fired /\ ~(o.class \in VehicleClass /\ Fires(Filed(o), s, o.ts))
    BY <1>2 DEF Ingest, HeardAs
  <2>2. s \in Source /\ o.ts \in Nat /\ o.ts \in Stamp /\ f \in Inference
    BY DEF Observation, Stamp, TypeOK, Inference
  <2>3. /\ Len(fired) \in Nat
        /\ \/ Len(fired') = Len(fired) + 1 /\ fired'[Len(fired) + 1] = f
           \/ fired' = fired /\ ~(o.class \in VehicleClass /\ Fires(Filed(o), s, o.ts))
        /\ \A i \in 1 .. Len(fired) : i \in 1 .. Len(fired') /\ fired'[i] = fired[i]
    <3>1. Len(fired) \in Nat
      BY DEF TypeOK
    <3>2. CASE fired' = Append(fired, f)
      <4>1. /\ Len(fired') = Len(fired) + 1 /\ fired'[Len(fired) + 1] = f
            /\ \A i \in 1 .. Len(fired) : fired'[i] = fired[i]
        BY <2>2, <3>2, FiredMore
      <4>. QED BY <3>1, <4>1
    <3>. QED BY <2>1, <3>1, <3>2
  <2>4. /\ new.run = run /\ new.source = s /\ new.class = o.class /\ new.cell = o.cell
        /\ new.ts = o.ts
    BY DEF HeardAs
  <2>. HIDE DEF f
  \* The case of an observation that completes the evidence.
  <2>5. ASSUME o.class \in VehicleClass,
               Cardinality(EvidenceIn(H, run, s, clock[s])) >= MinVehicles
        PROVE  \E i \in 1 .. Len(fired') :
                 /\ fired'[i].run = run /\ fired'[i].source = s
                 /\ clock[s] - Window < fired'[i].ts /\ fired'[i].ts <= clock[s]
    <3>1. Cardinality(EvidenceIn(heard', run, o.source, o.ts)) >= MinVehicles
      BY <2>1, <2>5
    <3>2. ~Dispersed(Bearings(deque', o.source, o.ts))
      <4>1. deque' \in [Key -> Seq(Observation)]
        BY DEF TypeOK
      <4>. QED BY <4>1, NotDispersed
    <3>3. InWindow(fired', run, o.source, o.ts)
      BY <1>2, <2>5, <3>1, <3>2, CompletedIsReported DEF PlainReports
    <3>. QED BY <2>1, <3>3 DEF InWindow
  <2>6. ASSUME NEW h \in H, h.class \in VehicleClass,
               Cardinality(EvidenceIn(H, h.run, h.source, h.ts)) >= MinVehicles
        PROVE  \E i \in 1 .. Len(fired') :
                 /\ fired'[i].run = h.run /\ fired'[i].source = h.source
                 /\ h.ts - Window < fired'[i].ts /\ fired'[i].ts <= h.ts
    <3>1. CASE o.class \in VehicleClass /\ h.run = run /\ h.source = s /\ h.ts = o.ts
      BY <2>1, <2>5, <2>6, <3>1
    <3>2. CASE ~(o.class \in VehicleClass /\ h.run = run /\ h.source = s /\ h.ts = o.ts)
      <4>1. h \in heard
        BY <2>4, <2>6, <3>2
      <4>2. h.source = s => h.ts <= o.ts
        BY <2>1, <4>1 DEF HeardInv, HeardPast
      <4>3. ~(/\ new.run = h.run /\ new.source = h.source /\ new.class \in VehicleClass
              /\ h.ts - Window <= new.ts /\ new.ts <= h.ts)
        <5>1. h.ts \in Nat
          BY <4>1, HeardTyped
        <5>. HIDE DEF new
        <5>. QED BY <2>2, <2>4, <3>2, <4>2, <5>1
      <4>. HIDE DEF new
      <4>4. EvidenceIn(H, h.run, h.source, h.ts) = EvidenceIn(heard, h.run, h.source, h.ts)
        <5> DEFINE P(x) == /\ x.run = h.run /\ x.source = h.source
                           /\ x.class \in VehicleClass
                           /\ h.ts - Window <= x.ts
                           /\ x.ts <= h.ts
        <5>1. ~P(new)
          BY <4>3
        <5>2. {x \in H : P(x)} = {x \in heard : P(x)}
          <6>. HIDE DEF P
          <6>. QED BY <5>1 DEF new
        <5>. QED BY <5>2 DEF EvidenceIn
      <4>5. PICK i \in 1 .. Len(fired) :
              /\ fired[i].run = h.run /\ fired[i].source = h.source
              /\ h.ts - Window < fired[i].ts /\ fired[i].ts <= h.ts
        BY <1>1, <2>6, <4>1, <4>4 DEF Reported
      <4>. QED BY <2>3, <4>5
    <3>. QED BY <3>1, <3>2
  <2>7. Reported(H, fired')
    BY <2>6 DEF Reported
  <2>. QED BY <2>1, <2>7
<1>3. CASE UNCHANGED <<heard, fired>>
  BY <1>3 DEF ConvoyReported, Evidence
<1>4. (\E o \in Observation : Ingest(o)) \/ UNCHANGED <<heard, fired>>
  BY DEF Next, Tick, RestartC2, vars
<1>5. CASE \E o \in Observation : Ingest(o)
  <2>1. Reported(heard', fired')
    BY <1>2, <1>5
  <2>. QED BY <2>1 DEF ConvoyReported, Reported, Evidence, EvidenceIn
<1>. QED BY <1>3, <1>4, <1>5

\* Whatever vehicles are reported, of any number of sources and in any order:
\* when they stand in enough places within a window, and the clocks are no
\* further apart than that, an inference is written in that window.
THEOREM ConvoyNotMissed ==
  ASSUME PlainReports
  PROVE  Spec => []ConvoyReported
<1>1. Init => ConvoyReported
  BY DEF Init, ConvoyReported
<1>. QED BY <1>1, TypeInit, TypeStep, EvidenceInit, EvidenceStep, RecentInit, RecentStep, OrderStep,
            HeardInit, HeardStep, ReportedStep, PTL DEF Spec

-----------------------------------------------------------------------------
(* Bearings.  The sum of bearings is a fold over a finite set, and lies     *)
(* between none and 359 for each; so their mean is a bearing, and two that  *)
(* are within the tolerance of it are within twice the tolerance of each    *)
(* other, whichever way around.                                             *)

\* The sum of b over M, and over its subsets element by element.
SumOf(b, M) == MapThenSumSet(LAMBDA k : b[k], M)
SumStep(b, M, g) ==
  [s \in SUBSET M |->
     IF s = {} THEN 0 ELSE b[CHOOSE x \in s : TRUE] + g[s \ {CHOOSE x \in s : TRUE}]]

LEMMA SumUnfolds ==
  ASSUME NEW b, NEW M
  PROVE  SumOf(b, M) = (CHOOSE g : g = SumStep(b, M, g))[M]
  BY Zenon DEF SumOf, MapThenSumSet, MapThenFoldSet, SumStep

\* Taking the chosen element of a set away.
LEMMA ChosenLess ==
  ASSUME NEW M, IsFiniteSet(M), NEW s \in SUBSET M, s # {},
         NEW x, x = CHOOSE y \in s : TRUE
  PROVE  /\ x \in s /\ s \ {x} \in SUBSET M
         /\ Cardinality(s) \in Nat \ {0} /\ Cardinality(s \ {x}) = Cardinality(s) - 1
<1>1. x \in s
  OBVIOUS
<1>2. IsFiniteSet(s)
  BY FS_Subset
<1>3. Cardinality(s \ {x}) = Cardinality(s) - 1
  BY <1>1, <1>2, FS_RemoveElement
<1>4. Cardinality(s) \in Nat /\ Cardinality(s) # 0
  BY <1>2, FS_CardinalityType, FS_EmptySet
<1>. QED BY <1>1, <1>3, <1>4

\* The recursion has a solution: on sets of up to n elements, for every n.
LEMMA SumExists ==
  ASSUME NEW b, NEW M, IsFiniteSet(M)
  PROVE  \E g : g = SumStep(b, M, g)
<1> DEFINE Solves(g, n) == \A s \in SUBSET M : Cardinality(s) <= n => g[s] = SumStep(b, M, g)[s]
           S == {n \in Nat : \E g : Solves(g, n)}
<1>1. \A s \in SUBSET M : Cardinality(s) \in Nat
  BY FS_Subset, FS_CardinalityType
<1>2. 0 \in S
  <2> DEFINE g == [s \in SUBSET M |-> 0]
  <2>1. ASSUME NEW s \in SUBSET M, Cardinality(s) <= 0 PROVE g[s] = SumStep(b, M, g)[s]
    <3>1. s = {}
      <4>1. IsFiniteSet(s) /\ Cardinality(s) = 0
        BY <1>1, <2>1, FS_Subset
      <4>. QED BY <4>1, FS_EmptySet
    <3>. QED BY <3>1 DEF SumStep
  <2>2. Solves(g, 0)
    BY <2>1
  <2>. HIDE DEF Solves, g
  <2>. QED BY <2>2
<1>3. ASSUME NEW n \in Nat, n \in S PROVE n + 1 \in S
  <2>1. PICK g : Solves(g, n)
    BY <1>3
  <2> DEFINE h == [s \in SUBSET M |-> IF Cardinality(s) <= n THEN g[s] ELSE SumStep(b, M, g)[s]]
  <2>2. ASSUME NEW s \in SUBSET M, Cardinality(s) <= n + 1 PROVE h[s] = SumStep(b, M, h)[s]
    <3>1. h[s] = SumStep(b, M, g)[s]
      BY <2>1
    <3>2. CASE s = {}
      BY <3>1, <3>2 DEF SumStep
    <3>3. CASE s # {}
      <4>1. PICK x : x = CHOOSE y \in s : TRUE
        OBVIOUS
      <4>2. s \ {x} \in SUBSET M /\ Cardinality(s \ {x}) = Cardinality(s) - 1
        BY <3>3, <4>1, ChosenLess
      <4>3. Cardinality(s \ {x}) <= n
        BY <1>1, <2>2, <4>2
      <4>4. h[s \ {x}] = g[s \ {x}]
        BY <4>2, <4>3
      <4>5. \A f : SumStep(b, M, f)[s] = b[x] + f[s \ {x}]
        BY <3>3, <4>1 DEF SumStep
      <4>. HIDE DEF h
      <4>. QED BY <3>1, <4>4, <4>5
    <3>. QED BY <3>2, <3>3
  <2>3. Solves(h, n + 1)
    BY <2>2
  <2>. HIDE DEF Solves, h
  <2>. QED BY <2>3
<1>. HIDE DEF S
<1>4. Cardinality(M) \in S
  <2>1. Cardinality(M) \in Nat
    BY FS_CardinalityType
  <2>. QED BY <1>2, <1>3, <2>1, Induction
<1>5. PICK g : Solves(g, Cardinality(M))
  BY <1>4 DEF S
<1>6. \A s \in SUBSET M : g[s] = SumStep(b, M, g)[s]
  BY <1>5, FS_Subset
<1> DEFINE h == [s \in SUBSET M |-> g[s]]
<1>7. SumStep(b, M, h) = SumStep(b, M, g)
  <2>1. ASSUME NEW s \in SUBSET M PROVE SumStep(b, M, h)[s] = SumStep(b, M, g)[s]
    <3>1. PICK x : x = CHOOSE y \in s : TRUE
      OBVIOUS
    <3>2. h[s \ {x}] = g[s \ {x}]
      OBVIOUS
    <3>3. \A f : SumStep(b, M, f)[s] = IF s = {} THEN 0 ELSE b[x] + f[s \ {x}]
      BY <3>1 DEF SumStep
    <3>. HIDE DEF h
    <3>. QED BY <3>2, <3>3
  <2>. HIDE DEF h
  <2>. QED BY <2>1 DEF SumStep
<1>8. h = SumStep(b, M, h)
  <2>1. SumStep(b, M, g) = [s \in SUBSET M |-> SumStep(b, M, g)[s]]
    BY DEF SumStep
  <2>. QED BY <1>6, <1>7, <2>1
<1>. QED BY <1>8

\* The sum of n bearings is no more than 359 * n.
LEMMA SumBounds ==
  ASSUME NEW M, IsFiniteSet(M), NEW b, \A k \in M : b[k] \in 0 .. 359,
         NEW sum, sum = SumOf(b, M)
  PROVE  sum \in Nat /\ sum <= 359 * Cardinality(M)
<1> DEFINE g == CHOOSE f : f = SumStep(b, M, f)
<1>1. g = SumStep(b, M, g)
  BY SumExists
<1>2. sum = g[M]
  BY SumUnfolds
<1>. HIDE DEF g
<1> DEFINE S == {n \in Nat : \A s \in SUBSET M : Cardinality(s) = n =>
                                g[s] \in Nat /\ g[s] <= 359 * n}
<1>3. 0 \in S
  <2>1. ASSUME NEW s \in SUBSET M, Cardinality(s) = 0 PROVE g[s] = 0
    <3>1. s = {}
      BY <2>1, FS_Subset, FS_EmptySet
    <3>. QED BY <1>1, <3>1 DEF SumStep
  <2>. QED BY <2>1
<1>4. ASSUME NEW n \in Nat, n \in S PROVE n + 1 \in S
  <2>1. ASSUME NEW s \in SUBSET M, Cardinality(s) = n + 1
        PROVE  g[s] \in Nat /\ g[s] <= 359 * (n + 1)
    <3>1. s # {}
      BY <2>1, FS_EmptySet
    <3>2. PICK x : x = CHOOSE y \in s : TRUE
      OBVIOUS
    <3> DEFINE r == s \ {x}
    <3>3. x \in M /\ r \in SUBSET M /\ Cardinality(r) = n
      <4>1. x \in s /\ r \in SUBSET M /\ Cardinality(r) = Cardinality(s) - 1
        BY <3>1, <3>2, ChosenLess
      <4>2. Cardinality(r) = n
        BY <2>1, <4>1
      <4>. QED BY <4>1, <4>2
    <3>4. g[s] = b[x] + g[r]
      BY <1>1, <3>1, <3>2 DEF SumStep
    <3>. HIDE DEF r
    <3>5. b[x] \in 0 .. 359 /\ g[r] \in Nat /\ g[r] <= 359 * n
      BY <1>4, <3>3
    <3>. QED BY <3>4, <3>5
  <2>. QED BY <2>1
<1>. HIDE DEF S
<1>5. Cardinality(M) \in S
  <2>1. Cardinality(M) \in Nat
    BY FS_CardinalityType
  <2>. QED BY <1>3, <1>4, <2>1, Induction
<1>. QED BY <1>2, <1>5 DEF S

\* Two whole circles of n parts each: what is within P of S in one of them is
\* within 2 * P of what else is.
LEMMA WithinTwice ==
  ASSUME NEW n \in Nat \ {0}, NEW T \in Nat, NEW a \in 0 .. 359, NEW b \in 0 .. 359,
         NEW sum \in Nat, sum <= 359 * n,
         Abs(n * a - sum) <= n * T \/ 360 * n - Abs(n * a - sum) <= n * T,
         Abs(n * b - sum) <= n * T \/ 360 * n - Abs(n * b - sum) <= n * T
  PROVE  Apart(a, b) <= 2 * T
<1> DEFINE x == n * a
           y == n * b
           p == n * T
           d == Abs(a - b)
<1>1. x \in Nat /\ y \in Nat /\ p \in Nat
  OBVIOUS
<1>2. x <= 359 * n /\ y <= 359 * n
  <2>1. ASSUME NEW c \in 0 .. 359 PROVE n * c <= 359 * n
    <3>1. n * (359 - c) \in Nat /\ n * (359 - c) = 359 * n - n * c
      OBVIOUS
    <3>2. n * c \in Nat
      OBVIOUS
    <3>. QED BY <3>1, <3>2
  <2>. QED BY <2>1
<1>3. d \in Nat /\ d <= 359 /\ (n * d = x - y \/ n * d = y - x)
  BY DEF Abs
<1>4. Apart(a, b) = d \/ Apart(a, b) = 360 - d
  BY DEF Apart
<1>5. Apart(a, b) <= d /\ Apart(a, b) <= 360 - d
  BY <1>3 DEF Apart
<1> DEFINE e == n * d
<1>6. e <= 2 * p \/ 360 * n - e <= 2 * p
  <2>1. /\ Abs(x - sum) <= p \/ 360 * n - Abs(x - sum) <= p
        /\ Abs(y - sum) <= p \/ 360 * n - Abs(y - sum) <= p
    OBVIOUS
  <2>2. e = x - y \/ e = y - x
    BY <1>3
  <2>. HIDE DEF x, y, p, e, d
  <2>. QED BY <1>1, <1>2, <2>1, <2>2 DEF Abs
<1>7. ASSUME NEW c \in Nat, n * c <= 2 * p PROVE c <= 2 * T
  <2>1. SUFFICES ASSUME c >= 2 * T + 1 PROVE FALSE
    BY <1>7
  <2>2. n * (c - 2 * T - 1) \in Nat /\ n * (c - 2 * T - 1) = n * c - 2 * (n * T) - n
    BY <2>1
  <2>3. n * c \in Nat
    OBVIOUS
  <2>4. n * c - 2 * p - n >= 0
    BY <2>2
  <2>. HIDE DEF p
  <2>. QED BY <1>1, <1>7, <2>3, <2>4
<1>8. CASE e <= 2 * p
  <2>1. d <= 2 * T
    <3>. HIDE DEF d, p
    <3>. QED BY <1>3, <1>7, <1>8
  <2>2. Apart(a, b) \in Int
    BY <1>3, <1>4
  <2>. HIDE DEF d
  <2>. QED BY <1>3, <1>5, <2>1, <2>2
<1>9. CASE 360 * n - e <= 2 * p
  <2> DEFINE c == 360 - d
  <2>1. c \in Nat /\ n * c = 360 * n - e
    <3>. HIDE DEF d
    <3>. QED BY <1>3
  <2>2. c <= 2 * T
    <3>. HIDE DEF c, p, e
    <3>. QED BY <1>7, <1>9, <2>1
  <2>3. Apart(a, b) \in Int
    BY <1>3, <1>4
  <2>. HIDE DEF d
  <2>. QED BY <1>3, <1>5, <2>2, <2>3
<1>. QED BY <1>6, <1>8, <1>9

\* The coherent bearings are within twice the tolerance of each other.
LEMMA CoherentTogether ==
  ASSUME NEW b, IsFiniteSet(DOMAIN b), \A k \in DOMAIN b : b[k] \in 0 .. 359,
         NEW j \in Coherent(b), NEW k \in Coherent(b)
  PROVE  Apart(b[j], b[k]) <= 2 * Tolerance
<1> DEFINE M == DOMAIN b
           n == Cardinality(M)
<1>1. PICK sum : sum = SumOf(b, M)
  OBVIOUS
<1>2. Coherent(b) = {l \in M : \/ Abs(n * b[l] - sum) <= n * Tolerance
                               \/ 360 * n - Abs(n * b[l] - sum) <= n * Tolerance}
  BY <1>1 DEF Coherent, SumOf
<1>3. sum \in Nat /\ sum <= 359 * n
  BY <1>1, SumBounds
<1>4. n \in Nat \ {0}
  <2>1. M # {}
    BY <1>2
  <2>2. n \in Nat
    BY FS_CardinalityType
  <2>3. n # 0
    BY <2>1, FS_EmptySet
  <2>. QED BY <2>2, <2>3
<1>5. b[j] \in 0 .. 359 /\ b[k] \in 0 .. 359
  BY <1>2
<1>6. Tolerance \in Nat
  BY EngineAssumption
<1>. HIDE DEF n, M
<1>7. /\ Abs(n * b[j] - sum) <= n * Tolerance \/ 360 * n - Abs(n * b[j] - sum) <= n * Tolerance
      /\ Abs(n * b[k] - sum) <= n * Tolerance \/ 360 * n - Abs(n * b[k] - sum) <= n * Tolerance
  BY <1>2
<1>. QED BY <1>3, <1>4, <1>5, <1>6, <1>7, WithinTwice, ZenonT(60)

\* A convoy is reported only when enough of its bearings are coherent.
LEMMA ReportedCoherent ==
  ASSUME TypeOK, TypeOK', EvidenceInv', NEW o \in Observation, Ingest(o), fired' # fired,
         NEW s, s = fired'[Len(fired')].source, NEW ts, ts = fired'[Len(fired')].ts,
         NEW b, b = Bearings(deque', s, ts)
  PROVE  /\ IsFiniteSet(DOMAIN b) /\ \A k \in DOMAIN b : b[k] \in 0 .. 359
         /\ ~Dispersed(b)
<1> DEFINE f == [run |-> run, source |-> o.source, ts |-> o.ts]
<1>1. /\ fired' = Append(fired, f) /\ Fires(Filed(o), o.source, o.ts) /\ deque' = Filed(o)
      /\ o.ts = clock[o.source] /\ UNCHANGED <<clock, run>>
  BY DEF Ingest
<1>2. f \in Inference /\ o.source \in Source
  BY DEF TypeOK, Observation, Inference
<1>3. s = o.source /\ ts = o.ts
  <2>1. Len(fired') = Len(fired) + 1 /\ fired'[Len(fired) + 1] = f
    BY <1>1, <1>2, FiredMore
  <2>. QED BY <2>1
<1>4. ~Dispersed(b)
  BY <1>1, <1>3 DEF Fires
<1>5. deque' \in [Key -> Seq(Observation)]
  BY DEF TypeOK
<1>6. DOMAIN b \subseteq Active(deque', o.source, clock[o.source])
  BY <1>1, <1>3 DEF Bearings
<1>7. IsFiniteSet(Active(deque', o.source, clock[o.source]))
  <2>1. IsFiniteSet(heard') /\ HeldWasHeard(deque', heard', run)
    BY <1>1 DEF EvidenceInv, HeldWasHeard
  <2>. QED BY <1>2, <1>5, <2>1, ActiveHasEvidence
<1>8. IsFiniteSet(DOMAIN b)
  BY <1>6, <1>7, FS_Subset
<1>9. ASSUME NEW k \in DOMAIN b PROVE b[k] \in 0 .. 359
  <2> DEFINE q == deque'[k]
  <2>1. k \in Key /\ Moving(q) /\ b[k] = Displacement(q).bearing
    BY DEF Bearings, Active
  <2>2. q \in Seq(Observation) /\ Len(q) >= MinObs /\ MinObs \in Nat \ {0}
    BY <1>5, <2>1, EngineAssumption DEF Moving
  <2>. HIDE DEF q
  <2>3. q[1] \in Observation /\ q[Len(q)] \in Observation
    BY <2>2
  <2>4. <<q[1].spot, q[Len(q)].spot>> \in Spot \X Spot
    BY <2>3 DEF Observation
  <2>. QED BY <2>1, <2>4, EngineAssumption DEF Displacement
<1>. QED BY <1>4, <1>8, <1>9

\* Convoys that are reported move together: of the bearings of the entities
\* counted 60 percent are no more than twice the tolerance apart, on whichever
\* side of north they are.
THEOREM ConvoysMoveTogether == Spec => ReportedMoveTogether
<1>1. TypeOK /\ TypeOK' /\ EvidenceInv' /\ [Next]_vars =>
        [fired' # fired
           => LET f == fired'[Len(fired')]
                  b == Bearings(deque', f.source, f.ts)
              IN  \E together \in SUBSET DOMAIN b :
                    /\ 10 * Cardinality(together) >= 6 * Cardinality(DOMAIN b)
                    /\ \A j, k \in together : Apart(b[j], b[k]) <= 2 * Tolerance]_vars
  <2> SUFFICES ASSUME TypeOK, TypeOK', EvidenceInv', [Next]_vars, fired' # fired,
                      NEW s, s = fired'[Len(fired')].source, NEW ts, ts = fired'[Len(fired')].ts,
                      NEW b, b = Bearings(deque', s, ts)
               PROVE  \E together \in SUBSET DOMAIN b :
                        /\ 10 * Cardinality(together) >= 6 * Cardinality(DOMAIN b)
                        /\ \A j, k \in together : Apart(b[j], b[k]) <= 2 * Tolerance
    OBVIOUS
  <2>1. PICK o \in Observation : Ingest(o)
    BY DEF Next, Tick, RestartC2, vars
  <2>2. /\ IsFiniteSet(DOMAIN b) /\ \A k \in DOMAIN b : b[k] \in 0 .. 359
        /\ ~Dispersed(b)
    BY <2>1, ReportedCoherent
  <2>3. Coherent(b) \in SUBSET DOMAIN b
    BY DEF Coherent
  <2>4. ASSUME NEW j \in Coherent(b), NEW k \in Coherent(b)
        PROVE  Apart(b[j], b[k]) <= 2 * Tolerance
    BY <2>2, CoherentTogether
  <2>5. 10 * Cardinality(Coherent(b)) >= 6 * Cardinality(DOMAIN b)
    <3>1. Cardinality(Coherent(b)) \in Nat /\ Cardinality(DOMAIN b) \in Nat
      BY <2>2, <2>3, FS_Subset, FS_CardinalityType
    <3>2. DOMAIN b = {} => Cardinality(DOMAIN b) = 0
      BY FS_EmptySet
    <3>3. ~(DOMAIN b # {} /\ 10 * Cardinality(Coherent(b)) < 6 * Cardinality(DOMAIN b))
      BY <2>2 DEF Dispersed
    <3> DEFINE c == Cardinality(Coherent(b))
               n == Cardinality(DOMAIN b)
               none == DOMAIN b = {}
    <3>4. c \in Nat /\ n \in Nat /\ (none => n = 0) /\ (~none => ~(10 * c < 6 * n))
      BY <3>1, <3>2, <3>3
    <3>. HIDE DEF c, n, none
    <3>5. 10 * c >= 6 * n
      BY <3>4
    <3>. QED BY <3>5 DEF c, n
  <2>. QED BY <2>3, <2>4, <2>5
<1>. QED BY <1>1, TypeInit, TypeStep, EvidenceInit, EvidenceStep, PTL
     DEF Spec, ReportedMoveTogether
=============================================================================
