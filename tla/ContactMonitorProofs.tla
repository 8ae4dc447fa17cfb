------------------------ MODULE ContactMonitorProofs ------------------------
(***************************************************************************)
(* Proofs about ContactMonitor: an outage and a return are told to the     *)
(* operator in time, a source is called lost only when it is silent, and   *)
(* the number of messages that is told covers what went missing, for any   *)
(* sources, thresholds and schedule of the two threads.                    *)
(***************************************************************************)
EXTENDS ContactMonitor, TLAPS

-----------------------------------------------------------------------------
(* The inductive invariant *)

\* The monitor's clock: it is late by Slack at most and sleeps for Period.
ClockInv ==
  /\ clock <= wake + Slack
  /\ wake <= clock + Period
  /\ mpc = "judge" => wake <= clock
  /\ mpc = "sleep" => Unjudged = {}
  /\ phase = "starting" => mpc = "sleep" /\ Known = {}

InCopy(s) == copy[s].ago # Never

\* The source is called lost, or will be when the monitor comes to it.
Found(s) == InCopy(s) /\ Silent(copy[s].ago)
Marked(s) == s \in lost \/ Found(s)

TableInv(s) ==
  /\ seen[s] # Never => seen[s] <= clock /\ last[s] > 0
  /\ view[s] = "lost" <=> s \in lost
  /\ s \in lost \/ InCopy(s) => seen[s] # Never
  /\ back[s] # NotBack => back[s].at # Never /\ back[s].at <= seen[s]

\* A source that is not marked as lost was heard shortly before the last look.
OutageInv(s) ==
  /\ InCopy(s) => seen[s] + copy[s].ago >= wake
  /\ seen[s] # Never /\ s \notin lost => seen[s] >= wake - Period - Slack - LostAfter
  /\ seen[s] # Never /\ s \notin lost /\ mpc = "judge" /\ ~InCopy(s)
       => seen[s] + LostAfter >= wake
  /\ Found(s) => Ago(s) > LostAfter \/ seen[s] >= wake

\* A source that is marked as lost is still silent, or is back since the last
\* look; and what it missed is already counted.
ReturnInv(s) ==
  /\ Marked(s) /\ back[s] = NotBack => Ago(s) > LostAfter
  /\ Marked(s) /\ back[s] # NotBack
       => gaps[s] >= back[s].skipped /\ back[s].at >= wake - Period - Slack
  /\ Found(s) /\ back[s] # NotBack => back[s].at >= wake
  /\ mpc = "judge" /\ s \in lost /\ ~InCopy(s) /\ back[s] # NotBack => back[s].at >= wake
  /\ InCopy(s) /\ s \in lost /\ ~Silent(copy[s].ago)
       => back[s] # NotBack /\ Resumed(copy[s].ago) /\ copy[s].gaps >= back[s].skipped

SourceInv(s) == TableInv(s) /\ OutageInv(s) /\ ReturnInv(s)

MonitorInv == TypeOK /\ ClockInv /\ \A s \in Source : SourceInv(s)

-----------------------------------------------------------------------------
(* Types and the clock *)

\* What the types say of one source.
LEMMA Values ==
  ASSUME TypeOK, NEW s \in Source
  PROVE  /\ clock \in Nat /\ wake \in Nat
         /\ last[s] \in Nat /\ gaps[s] \in Nat
         /\ seen[s] \in Nat \cup {Never}
         /\ copy[s].ago \in Nat \cup {Never} /\ copy[s].gaps \in Nat
         /\ back[s].at \in Nat \cup {Never} /\ back[s].skipped \in Nat
  BY DEF TypeOK, Time

LEMMA InitInv == Init => MonitorInv
<1> SUFFICES ASSUME Init PROVE MonitorInv
  OBVIOUS
<1>1. TypeOK
  BY MonitorAssumption DEF Init, TypeOK, NoCopy, NotBack, Time
<1>2. \A s \in Source : copy[s].ago = Never
  BY DEF Init, NoCopy
<1>3. ClockInv
  BY <1>2, MonitorAssumption DEF Init, ClockInv, Unjudged, Known
<1>4. \A s \in Source : SourceInv(s)
  BY <1>2 DEF Init, SourceInv, TableInv, OutageInv, ReturnInv, Marked, Found, InCopy
<1>. QED BY <1>1, <1>3, <1>4 DEF MonitorInv

LEMMA TypeStep == MonitorInv /\ [Next]_vars => TypeOK'
<1> SUFFICES ASSUME MonitorInv, [Next]_vars PROVE TypeOK'
  OBVIOUS
<1>. USE DEF Time
<1>1. TypeOK /\ \A s \in Source : TableInv(s)
  BY DEF MonitorInv, SourceInv
<1>2. Period \in Nat /\ Slack \in Nat
  BY MonitorAssumption
<1>3. CASE Tick \/ Serve \/ Shutdown \/ SleepOn \/ Judged
  BY <1>1, <1>2, <1>3 DEF Tick, Serve, Shutdown, SleepOn, Judged, TypeOK, serverVars, monitorVars
<1>4. ASSUME NEW s \in Source, NEW c \in 1 .. MaxCounter, Admit(s, c) PROVE TypeOK'
  <2>1. c \in Nat /\ c > last[s] /\ clock \in Nat /\ last[s] \in Nat /\ gaps[s] \in Nat
    BY <1>1, <1>4, Values, MonitorAssumption DEF Admit
  <2>2. gaps[s] + Skipped(s, c) \in Nat /\ c - last[s] - 1 \in Nat
    BY <2>1 DEF Skipped
  <2>3. last' \in [Source -> Nat] /\ gaps' \in [Source -> Nat] /\ seen' \in [Source -> Nat \cup {Never}]
    BY <1>1, <1>4, <2>1, <2>2 DEF Admit, TypeOK
  <2>4. back' \in [Source -> [at : Nat \cup {Never}, skipped : Nat]]
    BY <1>1, <1>4, <2>1, <2>2 DEF Admit, TypeOK
  <2>. QED BY <1>1, <1>4, <2>3, <2>4 DEF Admit, TypeOK, monitorVars
<1>5. CASE Look
  <2>1. \A s \in Known : seen[s] \in Nat /\ Ago(s) \in Nat /\ gaps[s] \in Nat
    BY <1>1, Values DEF Known, Ago, TableInv
  <2>2. copy' \in [Source -> [ago : Nat \cup {Never}, gaps : Nat]]
    BY <1>5, <2>1 DEF Look, NoCopy
  <2>3. back' \in [Source -> [at : Nat \cup {Never}, skipped : Nat]]
    BY <1>1, <1>5 DEF Look, NotBack, TypeOK
  <2>. QED BY <1>1, <1>5, <2>2, <2>3 DEF Look, TypeOK
<1>6. ASSUME NEW s \in Source, Judge(s) PROVE TypeOK'
  <2>1. /\ lost' \subseteq Source
        /\ view' \in [Source -> {"nothing", "lost", "restored"}]
    BY <1>1, <1>6 DEF Judge, AnnouncedAgain, TypeOK
  <2>2. copy' \in [Source -> [ago : Nat \cup {Never}, gaps : Nat]]
    BY <1>1, <1>6 DEF Judge, NoCopy, TypeOK
  <2>. QED BY <1>1, <1>6, <2>1, <2>2 DEF Judge, TypeOK, serverVars
<1>7. CASE UNCHANGED vars
  BY <1>1, <1>7 DEF vars, serverVars, monitorVars, TypeOK
<1>. QED BY <1>3, <1>4, <1>5, <1>6, <1>7 DEF Next, Reject

LEMMA ClockStep == MonitorInv /\ [Next]_vars => ClockInv'
<1> SUFFICES ASSUME MonitorInv, [Next]_vars PROVE ClockInv'
  OBVIOUS
<1>1. TypeOK /\ ClockInv
  BY DEF MonitorInv
<1>2. Period \in Nat \ {0} /\ Slack \in Nat /\ clock \in Nat /\ wake \in Nat
  BY <1>1, MonitorAssumption DEF TypeOK, Time
<1>. USE DEF ClockInv, Unjudged, Known
<1>3. CASE Tick
  BY <1>1, <1>2, <1>3 DEF Tick, serverVars, monitorVars
<1>4. CASE Serve \/ Shutdown
  BY <1>1, <1>2, <1>4 DEF Serve, Shutdown, serverVars, monitorVars
<1>5. ASSUME NEW s \in Source, NEW c \in 1 .. MaxCounter, Admit(s, c) PROVE ClockInv'
  BY <1>1, <1>2, <1>5 DEF Admit, monitorVars
<1>6. CASE SleepOn
  BY <1>1, <1>2, <1>6 DEF SleepOn, serverVars
<1>7. CASE Look
  BY <1>1, <1>2, <1>7 DEF Look
<1>8. ASSUME NEW s \in Source, Judge(s) PROVE ClockInv'
  BY <1>1, <1>2, <1>8 DEF Judge, serverVars
<1>9. CASE Judged
  BY <1>1, <1>2, <1>9 DEF Judged, serverVars
<1>10. CASE UNCHANGED vars
  BY <1>1, <1>10 DEF vars, serverVars, monitorVars
<1>. QED BY <1>3, <1>4, <1>5, <1>6, <1>7, <1>8, <1>9, <1>10 DEF Next, Reject

-----------------------------------------------------------------------------
(* What a step does to one source *)

\* A step that leaves the source's rows alone keeps its invariant while the
\* clock goes on.
LEMMA RowsAlone ==
  ASSUME MonitorInv, NEW s \in Source,
         UNCHANGED <<seen[s], last[s], gaps[s], back[s], copy[s], view[s], s \in lost>>,
         wake' = wake, mpc' = mpc, clock' \in Nat, clock <= clock'
  PROVE  SourceInv(s)'
<1>1. TypeOK /\ SourceInv(s)
  BY DEF MonitorInv
<1>2. clock \in Nat /\ seen[s] \in Nat \cup {Never}
  BY <1>1, Values
<1>3. LostAfter \in Nat
  BY MonitorAssumption
<1>4. TableInv(s)'
  BY <1>1, <1>2 DEF SourceInv, TableInv, InCopy, Never
<1>5. Found(s)' <=> Found(s)
  BY DEF Found, InCopy, Silent
<1>6. seen[s] # Never /\ Ago(s) > LostAfter => Ago(s)' > LostAfter
  BY <1>2, <1>3 DEF Ago, Never
<1>7. Marked(s) => seen[s] # Never
  BY <1>1 DEF Marked, Found, SourceInv, TableInv
<1>8. OutageInv(s)'
  BY <1>1, <1>5, <1>6, <1>7 DEF SourceInv, OutageInv, InCopy, Marked
<1>9. ReturnInv(s)'
  BY <1>1, <1>5, <1>6, <1>7 DEF SourceInv, ReturnInv, InCopy, Marked, Silent, Resumed
<1>. QED BY <1>4, <1>8, <1>9 DEF SourceInv

LEMMA AdmitStep ==
  ASSUME MonitorInv, NEW s \in Source, NEW c \in 1 .. MaxCounter, Admit(s, c)
  PROVE  SourceInv(s)'
<1>1. TypeOK /\ ClockInv /\ SourceInv(s)
  BY DEF MonitorInv
<1>2. /\ clock \in Nat /\ wake \in Nat /\ last[s] \in Nat /\ gaps[s] \in Nat
      /\ seen[s] \in Nat \cup {Never} /\ copy[s].ago \in Nat \cup {Never}
      /\ back[s].at \in Nat \cup {Never} /\ back[s].skipped \in Nat
      /\ Period \in Nat /\ Slack \in Nat /\ LostAfter \in Nat
      /\ c \in Nat /\ c > last[s]
  BY <1>1, Values, MonitorAssumption DEF Admit
<1>3. /\ gaps'[s] = gaps[s] + Skipped(s, c) /\ last'[s] = c /\ seen'[s] = clock
      /\ back'[s] = IF back[s] = NotBack THEN [at |-> clock, skipped |-> c - last[s] - 1]
                    ELSE back[s]
      /\ clock' = clock /\ copy' = copy /\ lost' = lost /\ view' = view /\ wake' = wake /\ mpc' = mpc
  BY <1>1 DEF Admit, TypeOK, monitorVars
<1>4. /\ back'[s] # NotBack /\ back'[s].at # Never
      /\ back'[s].at = IF back[s] = NotBack THEN clock ELSE back[s].at
      /\ back'[s].skipped = IF back[s] = NotBack THEN c - last[s] - 1 ELSE back[s].skipped
  <2>1. CASE back[s] = NotBack
    <3>1. back'[s].at = clock /\ back'[s].skipped = c - last[s] - 1 /\ clock # Never
      BY <1>2, <1>3, <2>1 DEF Never
    <3>2. NotBack.at = Never
      BY DEF NotBack
    <3>. QED BY <2>1, <3>1, <3>2
  <2>2. CASE back[s] # NotBack
    BY <1>1, <1>3, <2>2 DEF SourceInv, TableInv
  <2>. QED BY <2>1, <2>2
<1>5. (InCopy(s)' <=> InCopy(s)) /\ (Found(s)' <=> Found(s)) /\ (Marked(s)' <=> Marked(s))
  BY <1>3 DEF Found, InCopy, Marked, Silent
<1>6. Marked(s) => last[s] > 0
  BY <1>1 DEF Marked, Found, SourceInv, TableInv
<1>7. Skipped(s, c) \in Nat /\ (last[s] > 0 => Skipped(s, c) = c - last[s] - 1)
  BY <1>2 DEF Skipped
<1>8. InCopy(s) => mpc = "judge" /\ wake <= clock /\ copy[s].ago \in Nat
  BY <1>1, <1>2 DEF ClockInv, Unjudged, InCopy, TypeOK
<1>9. TableInv(s)'
  BY <1>1, <1>2, <1>3, <1>4, <1>5 DEF SourceInv, TableInv, Never
<1>10. OutageInv(s)'
  BY <1>1, <1>2, <1>3, <1>5, <1>8 DEF SourceInv, OutageInv, ClockInv, Found
<1>11. ReturnInv(s)'
  <2>1. Marked(s) => gaps'[s] >= back'[s].skipped /\ back'[s].at >= wake - Period - Slack
    BY <1>1, <1>2, <1>3, <1>4, <1>6, <1>7 DEF SourceInv, ReturnInv, ClockInv
  <2>2. Found(s) => back'[s].at >= wake
    BY <1>1, <1>2, <1>3, <1>4, <1>8 DEF SourceInv, ReturnInv, Found
  <2>3. mpc = "judge" /\ s \in lost /\ ~InCopy(s) => back'[s].at >= wake
    BY <1>1, <1>2, <1>3, <1>4 DEF SourceInv, ReturnInv, ClockInv
  <2>4. InCopy(s) /\ s \in lost /\ ~Silent(copy[s].ago)
          => Resumed(copy[s].ago) /\ copy[s].gaps >= back'[s].skipped
    BY <1>1, <1>4 DEF SourceInv, ReturnInv
  <2>. QED BY <1>3, <1>4, <1>5, <2>1, <2>2, <2>3, <2>4 DEF ReturnInv, Resumed, Silent
<1>. QED BY <1>9, <1>10, <1>11 DEF SourceInv

LEMMA LookStep ==
  ASSUME MonitorInv, NEW s \in Source, Look
  PROVE  SourceInv(s)'
<1>1. TypeOK /\ ClockInv /\ SourceInv(s)
  BY DEF MonitorInv
<1>2. /\ clock \in Nat /\ wake \in Nat /\ last[s] \in Nat /\ gaps[s] \in Nat
      /\ seen[s] \in Nat \cup {Never} /\ copy[s].ago \in Nat \cup {Never}
      /\ back[s].at \in Nat \cup {Never} /\ back[s].skipped \in Nat
      /\ Period \in Nat /\ Slack \in Nat /\ LostAfter \in Nat /\ RestoredWithin \in Nat
  BY <1>1, Values, MonitorAssumption
<1>3. /\ clock' = clock /\ seen' = seen /\ last' = last /\ gaps' = gaps /\ lost' = lost
      /\ view' = view /\ wake' = wake /\ mpc' = "judge" /\ wake <= clock
      /\ copy'[s] = IF s \in Known THEN [ago |-> Ago(s), gaps |-> gaps[s]] ELSE NoCopy[s]
      /\ back'[s] = IF s \in Known /\ Silent(Ago(s)) THEN NotBack ELSE back[s]
  BY <1>2 DEF Look
<1>4. ~InCopy(s) /\ ~Found(s)
  BY <1>1 DEF Look, ClockInv, Unjudged, InCopy, Found
<1>5. CASE seen[s] = Never
  <2>1. s \notin lost /\ back[s] = NotBack
    BY <1>1, <1>2, <1>5 DEF SourceInv, TableInv, Never
  <2>2. copy'[s].ago = Never /\ back'[s] = NotBack
    BY <1>3, <1>5, <2>1 DEF Known, NoCopy
  <2>3. ~InCopy(s)' /\ ~Found(s)' /\ ~Marked(s)'
    BY <1>3, <2>1, <2>2 DEF InCopy, Found, Marked
  <2>. QED BY <1>1, <1>3, <1>5, <2>1, <2>2, <2>3 DEF SourceInv, TableInv, OutageInv, ReturnInv
<1>6. CASE seen[s] # Never
  <2>1. seen[s] \in Nat /\ seen[s] <= clock /\ Ago(s) \in Nat /\ Ago(s)' = Ago(s)
    BY <1>1, <1>2, <1>3, <1>6 DEF SourceInv, TableInv, Ago
  <2>2. copy'[s].ago = Ago(s) /\ copy'[s].gaps = gaps[s] /\ Ago(s) # Never
    BY <1>3, <1>6, <2>1 DEF Known, Never
  <2>3. InCopy(s)' /\ (Found(s)' <=> Ago(s) > LostAfter)
    BY <2>2 DEF InCopy, Found, Silent
  <2>4. back'[s] = IF Ago(s) > LostAfter THEN NotBack ELSE back[s]
    BY <1>3, <1>6 DEF Known, Silent
  <2>5. TableInv(s)'
    BY <1>1, <1>3, <1>6, <2>3, <2>4 DEF SourceInv, TableInv
  <2>6. OutageInv(s)'
    BY <1>1, <1>2, <1>3, <2>1, <2>2, <2>3 DEF SourceInv, OutageInv, Ago
  <2>7. s \in lost /\ ~(Ago(s) > LostAfter) =>
          /\ back[s] # NotBack /\ gaps[s] >= back[s].skipped
          /\ back[s].at >= wake - Period - Slack /\ back[s].at <= seen[s]
          /\ back[s].at \in Nat
    BY <1>1, <1>2 DEF SourceInv, TableInv, ReturnInv, Marked
  <2>8. s \in lost /\ ~(Ago(s) > LostAfter) => Ago(s) < RestoredWithin
    <3>1. clock <= wake + Slack /\ Period + 2 * Slack < RestoredWithin
      BY <1>1, LagAssumption DEF ClockInv, Lag
    <3>2. ASSUME back[s].at \in Nat, back[s].at >= wake - Period - Slack, back[s].at <= seen[s]
          PROVE  clock - seen[s] < RestoredWithin
      BY <1>2, <2>1, <3>1, <3>2
    <3>. QED BY <2>7, <3>2 DEF Ago
  <2>9. ReturnInv(s)'
    BY <1>3, <2>1, <2>2, <2>3, <2>4, <2>7, <2>8 DEF ReturnInv, Marked, Silent, Resumed
  <2>. QED BY <2>5, <2>6, <2>9 DEF SourceInv
<1>. QED BY <1>5, <1>6

LEMMA JudgeStep ==
  ASSUME MonitorInv, NEW s \in Source, Judge(s)
  PROVE  SourceInv(s)'
<1>1. TypeOK /\ ClockInv /\ SourceInv(s)
  BY DEF MonitorInv
<1>2. /\ clock \in Nat /\ wake \in Nat /\ last[s] \in Nat /\ gaps[s] \in Nat
      /\ seen[s] \in Nat \cup {Never} /\ copy[s].ago \in Nat \cup {Never}
      /\ back[s].at \in Nat \cup {Never} /\ back[s].skipped \in Nat
      /\ Period \in Nat /\ Slack \in Nat /\ LostAfter \in Nat /\ RestoredWithin \in Nat
  BY <1>1, Values, MonitorAssumption
<1>3. /\ clock' = clock /\ seen' = seen /\ last' = last /\ gaps' = gaps /\ back' = back
      /\ wake' = wake /\ mpc' = mpc /\ mpc = "judge" /\ InCopy(s)
      /\ copy'[s].ago = Never
  BY <1>1 DEF Judge, serverVars, Unjudged, InCopy, NoCopy, TypeOK
<1>4. ~InCopy(s)' /\ ~Found(s)' /\ (Marked(s)' <=> s \in lost') /\ Ago(s)' = Ago(s)
  BY <1>3 DEF InCopy, Found, Marked, Ago
<1>5. CASE Silent(copy[s].ago) /\ s \notin lost /\ lost' = lost \cup {s} /\ view' = [view EXCEPT ![s] = "lost"]
  <2>1. view'[s] = "lost" /\ s \in lost' /\ Found(s) /\ Marked(s)
    BY <1>1, <1>3, <1>5 DEF TypeOK, Found, Marked
  <2>. QED BY <1>1, <1>3, <1>4, <2>1 DEF SourceInv, TableInv, OutageInv, ReturnInv
<1>6. CASE Resumed(copy[s].ago) /\ s \in lost /\ lost' = AnnouncedAgain(s) /\ view' = [view EXCEPT ![s] = "restored"]
  <2>1. view'[s] = "restored" /\ s \notin lost'
    BY <1>1, <1>6 DEF TypeOK, AnnouncedAgain
  <2>2. copy[s].ago < RestoredWithin /\ copy[s].ago \in Nat
    BY <1>2, <1>3, <1>6 DEF Resumed, InCopy
  <2>3. seen[s] \in Nat /\ seen[s] + copy[s].ago >= wake
    BY <1>1, <1>2, <1>3 DEF SourceInv, TableInv, OutageInv
  <2>4. seen[s] + LostAfter >= wake
    BY <1>2, <2>2, <2>3, LagAssumption
  <2>5. seen[s] >= wake - Period - Slack - LostAfter
    BY <1>2, <2>3, <2>4
  <2>. QED BY <1>1, <1>3, <1>4, <2>1, <2>4, <2>5 DEF SourceInv, TableInv, OutageInv, ReturnInv
<1>7. CASE /\ ~(Silent(copy[s].ago) /\ s \notin lost)
           /\ ~(Resumed(copy[s].ago) /\ s \in lost)
           /\ UNCHANGED <<lost, view>>
  <2>1. TableInv(s)'
    BY <1>1, <1>3, <1>4, <1>7 DEF SourceInv, TableInv
  <2>2. s \notin lost => seen[s] + LostAfter >= wake
    <3>1. s \notin lost => ~(copy[s].ago > LostAfter) /\ copy[s].ago \in Nat
      BY <1>2, <1>3, <1>7 DEF Silent, InCopy
    <3>2. seen[s] \in Nat /\ seen[s] + copy[s].ago >= wake
      BY <1>1, <1>2, <1>3 DEF SourceInv, TableInv, OutageInv
    <3>. QED BY <1>2, <3>1, <3>2
  <2>3. OutageInv(s)'
    BY <1>1, <1>3, <1>4, <1>7, <2>2 DEF SourceInv, OutageInv
  <2>4. s \in lost => Found(s)
    BY <1>1, <1>3, <1>7 DEF SourceInv, ReturnInv, Found
  <2>5. ReturnInv(s)'
    BY <1>1, <1>3, <1>4, <1>7, <2>4 DEF SourceInv, ReturnInv, Marked
  <2>. QED BY <2>1, <2>3, <2>5 DEF SourceInv
<1>. QED BY <1>5, <1>6, <1>7 DEF Judge

LEMMA SleepStep ==
  ASSUME MonitorInv, NEW s \in Source, SleepOn \/ Judged
  PROVE  SourceInv(s)'
<1>1. TypeOK /\ ClockInv /\ SourceInv(s)
  BY DEF MonitorInv
<1>2. /\ clock \in Nat /\ wake \in Nat /\ seen[s] \in Nat \cup {Never}
      /\ back[s].at \in Nat \cup {Never}
      /\ Period \in Nat /\ Slack \in Nat /\ LostAfter \in Nat
  BY <1>1, Values, MonitorAssumption
<1>3. /\ UNCHANGED <<clock, seen, last, gaps, back, copy, lost, view>>
      /\ wake' = clock + Period /\ mpc' = "sleep"
  BY DEF SleepOn, Judged, serverVars
<1>4. ~InCopy(s) /\ ~Found(s)
  BY <1>1 DEF SleepOn, Judged, ClockInv, Unjudged, InCopy, Found
<1>5. ~InCopy(s)' /\ ~Found(s)' /\ (Marked(s)' <=> Marked(s)) /\ Ago(s)' = Ago(s)
  BY <1>3, <1>4 DEF InCopy, Found, Marked, Ago, Silent
<1>6. TableInv(s)'
  BY <1>1, <1>3, <1>5 DEF SourceInv, TableInv
<1>7. CASE SleepOn
  <2>1. seen[s] = Never /\ s \notin lost
    BY <1>1, <1>7 DEF SleepOn, ClockInv, Known, SourceInv, TableInv
  <2>. QED BY <1>3, <1>4, <1>5, <1>6, <2>1 DEF SourceInv, OutageInv, ReturnInv, Marked
<1>8. CASE Judged
  <2>1. mpc = "judge" /\ clock <= wake + Slack
    BY <1>1, <1>8 DEF Judged, ClockInv
  <2>2. seen[s] # Never /\ s \notin lost => seen'[s] >= wake' - Period - Slack - LostAfter
    <3>1. seen[s] # Never /\ s \notin lost => seen[s] + LostAfter >= wake /\ seen[s] \in Nat
      BY <1>1, <1>2, <1>4, <2>1 DEF SourceInv, OutageInv
    <3>. QED BY <1>2, <1>3, <2>1, <3>1
  <2>3. s \in lost /\ back[s] # NotBack => back'[s].at >= wake' - Period - Slack
    <3>1. s \in lost /\ back[s] # NotBack => back[s].at >= wake /\ back[s].at \in Nat
      BY <1>1, <1>2, <1>4, <2>1 DEF SourceInv, ReturnInv, TableInv
    <3>. QED BY <1>2, <1>3, <2>1, <3>1
  <2>4. OutageInv(s)'
    BY <1>3, <1>5, <2>2 DEF OutageInv
  <2>5. ReturnInv(s)'
    BY <1>1, <1>3, <1>4, <1>5, <2>3 DEF SourceInv, ReturnInv, Marked
  <2>. QED BY <1>6, <2>4, <2>5 DEF SourceInv
<1>. QED BY <1>7, <1>8

LEMMA SourceStep ==
  ASSUME MonitorInv, [Next]_vars, NEW s \in Source
  PROVE  SourceInv(s)'
<1>1. TypeOK /\ clock \in Nat
  BY Values DEF MonitorInv
<1>2. CASE Tick \/ Serve \/ Shutdown \/ UNCHANGED vars
  BY <1>1, <1>2, RowsAlone DEF Tick, Serve, Shutdown, vars, serverVars, monitorVars
<1>3. ASSUME NEW t \in Source, NEW c \in 1 .. MaxCounter, Admit(t, c) PROVE SourceInv(s)'
  <2>1. CASE t = s
    BY <1>3, <2>1, AdmitStep
  <2>2. CASE t # s
    <3>1. UNCHANGED <<seen[s], last[s], gaps[s], back[s]>>
      BY <1>1, <1>3, <2>2 DEF Admit, TypeOK
    <3>. QED BY <1>1, <1>3, <3>1, RowsAlone DEF Admit, monitorVars
  <2>. QED BY <2>1, <2>2
<1>4. CASE SleepOn \/ Judged
  BY <1>4, SleepStep
<1>5. CASE Look
  BY <1>5, LookStep
<1>6. ASSUME NEW t \in Source, Judge(t) PROVE SourceInv(s)'
  <2>1. CASE t = s
    BY <1>6, <2>1, JudgeStep
  <2>2. CASE t # s
    <3>1. UNCHANGED <<copy[s], view[s], s \in lost>>
      BY <1>1, <1>6, <2>2 DEF Judge, AnnouncedAgain, TypeOK
    <3>. QED BY <1>1, <1>6, <3>1, RowsAlone DEF Judge, serverVars
  <2>. QED BY <2>1, <2>2
<1>. QED BY <1>2, <1>3, <1>4, <1>5, <1>6 DEF Next, Reject

LEMMA NextInv == MonitorInv /\ [Next]_vars => MonitorInv'
  BY TypeStep, ClockStep, SourceStep DEF MonitorInv

-----------------------------------------------------------------------------
(* Theorems *)

\* Every variable keeps its type.
THEOREM TypeCorrect == Spec => []TypeOK
<1>1. MonitorInv => TypeOK
  BY DEF MonitorInv
<1>. QED BY <1>1, InitInv, NextInv, PTL DEF Spec

\* The operator is told of an outage within the monitor's lag: status_loop
\* looks at every source that was heard, and late by at most the lag.
THEOREM OutagesAreTold == Spec => []OutageAnnounced
<1>1. MonitorInv => OutageAnnounced
  <2> SUFFICES ASSUME MonitorInv, NEW s \in Known, Ago(s) > LostAfter + Lag, s \notin lost
               PROVE  FALSE
    BY DEF OutageAnnounced, MonitorInv, SourceInv, TableInv, Known
  <2>1. TypeOK /\ ClockInv /\ SourceInv(s) /\ s \in Source /\ seen[s] # Never
    BY DEF MonitorInv, Known
  <2>2. /\ clock \in Nat /\ wake \in Nat /\ seen[s] \in Nat
        /\ Period \in Nat /\ Slack \in Nat /\ LostAfter \in Nat
    BY <2>1, Values, MonitorAssumption
  <2>. QED BY <2>1, <2>2 DEF ClockInv, SourceInv, OutageInv, Ago, Lag
<1>. QED BY <1>1, InitInv, NextInv, PTL DEF Spec

\* The operator is told of a return within the lag, even of a source that sends
\* one datagram and falls silent again.
THEOREM ReturnsAreTold == Spec => []ReturnAnnounced
<1>1. MonitorInv => ReturnAnnounced
  <2> SUFFICES ASSUME MonitorInv, NEW s \in Source, view[s] = "lost", back[s] # NotBack
               PROVE  clock - back[s].at <= Lag
    BY DEF ReturnAnnounced
  <2>1. TypeOK /\ ClockInv /\ SourceInv(s) /\ s \in lost /\ back[s].at # Never
    BY DEF MonitorInv, SourceInv, TableInv
  <2>2. /\ clock \in Nat /\ wake \in Nat /\ back[s].at \in Nat
        /\ Period \in Nat /\ Slack \in Nat
    BY <2>1, Values, MonitorAssumption
  <2>. QED BY <2>1, <2>2 DEF ClockInv, SourceInv, ReturnInv, Marked, Lag
<1>. QED BY <1>1, InitInv, NextInv, PTL DEF Spec

\* A change of what the operator is told is a turn of the monitor's loop.
LEMMA ToldByJudge ==
  ASSUME MonitorInv, [Next]_vars, NEW s \in Source, view'[s] # view[s]
  PROVE  /\ Judge(s)
         /\ view'[s] = "lost" => Silent(copy[s].ago)
         /\ view'[s] = "restored" => Resumed(copy[s].ago) /\ s \in lost
<1>1. TypeOK
  BY DEF MonitorInv
<1>2. PICK t \in Source : Judge(t)
  BY DEF Next, Tick, Serve, Shutdown, Admit, Reject, SleepOn, Look, Judged, vars, monitorVars
<1>3. t = s
  BY <1>1, <1>2 DEF Judge, TypeOK
<1>4. \/ Silent(copy[s].ago) /\ view' = [view EXCEPT ![s] = "lost"]
      \/ Resumed(copy[s].ago) /\ s \in lost /\ view' = [view EXCEPT ![s] = "restored"]
  BY <1>2, <1>3 DEF Judge
<1>5. \/ Silent(copy[s].ago) /\ view'[s] = "lost"
      \/ Resumed(copy[s].ago) /\ s \in lost /\ view'[s] = "restored"
  BY <1>1, <1>4 DEF TypeOK
<1>. QED BY <1>2, <1>3, <1>5

\* A source is called lost only after a silence, or a datagram of it has come
\* while the monitor was late.
THEOREM LostMeansSilent == Spec => CalledLostWhenSilent
<1>1. MonitorInv /\ [Next]_vars =>
        [\A s \in Source :
           view'[s] = "lost" /\ view[s] # "lost" => Ago(s) > LostAfter \/ Ago(s) <= Slack]_vars
  <2> SUFFICES ASSUME MonitorInv, [Next]_vars, NEW s \in Source,
                      view'[s] = "lost", view[s] # "lost"
               PROVE  Ago(s) > LostAfter \/ Ago(s) <= Slack
    OBVIOUS
  <2>1. Judge(s) /\ Silent(copy[s].ago)
    BY ToldByJudge
  <2>2. TypeOK /\ ClockInv /\ OutageInv(s) /\ Found(s) /\ seen[s] # Never
    BY <2>1 DEF Judge, Unjudged, Found, InCopy, MonitorInv, SourceInv, TableInv
  <2>3. clock \in Nat /\ wake \in Nat /\ seen[s] \in Nat /\ Slack \in Nat
    BY <2>2, Values, MonitorAssumption
  <2>. QED BY <2>2, <2>3 DEF OutageInv, ClockInv, Ago
<1>. QED BY <1>1, InitInv, NextInv, PTL DEF Spec, CalledLostWhenSilent

\* When contact is restored the number of messages that is told covers what
\* went missing in the outage.
THEOREM MissedIsCovered == Spec => MissedCoversOutage
<1>1. MonitorInv /\ [Next]_vars =>
        [\A s \in Source :
           view'[s] = "restored" /\ view[s] = "lost" => copy[s].gaps >= back[s].skipped]_vars
  <2> SUFFICES ASSUME MonitorInv, [Next]_vars, NEW s \in Source,
                      view'[s] = "restored", view[s] = "lost"
               PROVE  copy[s].gaps >= back[s].skipped
    OBVIOUS
  <2>1. Judge(s) /\ Resumed(copy[s].ago) /\ s \in lost
    BY ToldByJudge
  <2>2. TypeOK /\ ReturnInv(s) /\ InCopy(s)
    BY <2>1 DEF Judge, Unjudged, InCopy, MonitorInv, SourceInv
  <2>3. ~Silent(copy[s].ago)
    <3>1. copy[s].ago \in Nat /\ RestoredWithin \in Nat /\ LostAfter \in Nat
      BY <2>2, Values, MonitorAssumption DEF InCopy
    <3>. QED BY <2>1, <3>1, LagAssumption DEF Resumed, Silent
  <2>. QED BY <2>1, <2>2, <2>3 DEF ReturnInv
<1>. QED BY <1>1, InitInv, NextInv, PTL DEF Spec, MissedCoversOutage
=============================================================================
