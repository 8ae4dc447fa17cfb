--------------------------- MODULE ContactMonitor ---------------------------
(***************************************************************************)
(* Loss and return of contact, as C2's operator is told of it.  The        *)
(* listener thread notes under the lock when it last heard each source and *)
(* how many counters it missed; the thread of status_loop wakes once a     *)
(* second, takes a copy of these tables under the lock, and judges one     *)
(* source after another by the copy while datagrams go on arriving.        *)
(*                                                                         *)
(*   main:    starting - serving - ended                                   *)
(*   monitor: sleep - judge - sleep ...                                    *)
(*                                                                         *)
(* This is one run of C2; a further run starts with empty tables.          *)
(***************************************************************************)
EXTENDS Integers

CONSTANTS
  Source,
  Period,          \* sleep of status_loop (1 s)
  LostAfter,       \* silence that counts as lost contact (5 s)
  RestoredWithin,  \* age of the last datagram that counts as contact (2 s)
  Slack,           \* how late the monitor may be, in a turn of its loop
  MaxTime,         \* bound: the clock
  MaxCounter       \* bound: counters of a source

ASSUME MonitorAssumption ==
  /\ {Period, LostAfter, RestoredWithin} \subseteq Nat \ {0}
  /\ {Slack, MaxTime, MaxCounter} \subseteq Nat

\* From a change to the line that tells of it the monitor takes at most one
\* sleep and two delays.
Lag == Period + 2 * Slack

\* A datagram is still fresh when the monitor looks for the next time.
ASSUME LagAssumption == Lag < RestoredWithin /\ RestoredWithin <= LostAfter

VARIABLES
  clock,
  phase,       \* of C2Process.run
  last,        \* _last_counter
  gaps,        \* _counter_gaps
  seen,        \* _last_seen_ts, of the sources in last
  mpc,         \* the monitor
  wake,        \* when its sleep ends
  copy,        \* what stats() returned, for the sources it has yet to judge
  lost,        \* contact_lost_announced
  view,        \* what the operator was last told of each source
  back         \* history: the first datagram of a source since it was found lost

serverVars == <<last, gaps, seen, back>>
monitorVars == <<mpc, wake, copy, lost, view>>
vars == <<clock, phase, serverVars, monitorVars>>

Never == -1
NotBack == [at |-> Never, skipped |-> 0]
Unjudged == {s \in Source : copy[s].ago # Never}
NoCopy == [s \in Source |-> [ago |-> Never, gaps |-> 0]]
Known == {s \in Source : seen[s] # Never}

Init ==
  /\ clock = 0
  /\ phase = "starting"
  /\ last = [s \in Source |-> 0]
  /\ gaps = [s \in Source |-> 0]
  /\ seen = [s \in Source |-> Never]
  /\ mpc = "sleep" /\ wake = Period
  /\ copy = NoCopy
  /\ lost = {}
  /\ view = [s \in Source |-> "nothing"]
  /\ back = [s \in Source |-> NotBack]

-----------------------------------------------------------------------------
(* Time and the process *)

\* The monitor is late by Slack at most.
Tick ==
  /\ clock < MaxTime
  /\ clock < wake + Slack
  /\ clock' = clock + 1
  /\ UNCHANGED <<phase, serverVars, monitorVars>>

\* run() has started the monitor before it builds the listener and binds it.
Serve ==
  /\ phase = "starting"
  /\ phase' = "serving"
  /\ UNCHANGED <<clock, serverVars, monitorVars>>

\* Ctrl-C, and shutdown(); the monitor ends with the process.
Shutdown ==
  /\ phase # "ended"
  /\ phase' = "ended"
  /\ UNCHANGED <<clock, serverVars, monitorVars>>

-----------------------------------------------------------------------------
(* StreUdpListener.serve, under the lock *)

\* A faulty Skipped, which forgets that counters begin at the next one.
SkippedShort(s, c) == IF last[s] > 0 THEN c - last[s] - 2 ELSE 0

Skipped(s, c) == IF last[s] > 0 THEN c - last[s] - 1 ELSE 0

\* A datagram above the last counter: the counters between are lost, late or
\* never went out.  Whether it decrypts is found out later.
Admit(s, c) ==
  /\ phase = "serving"
  /\ c > last[s]
  /\ gaps' = [gaps EXCEPT ![s] = @ + Skipped(s, c)]
  /\ last' = [last EXCEPT ![s] = c]
  /\ seen' = [seen EXCEPT ![s] = clock]
  /\ back' = [back EXCEPT ![s] =
                IF @ = NotBack THEN [at |-> clock, skipped |-> c - last[s] - 1] ELSE @]
  /\ UNCHANGED <<clock, phase, monitorVars>>

\* A replay, or a datagram overtaken by a later one, is no sign of life.
Reject(s, c) ==
  /\ phase = "serving"
  /\ c <= last[s]
  /\ UNCHANGED vars

-----------------------------------------------------------------------------
(* C2Process.status_loop *)

Ago(s) == clock - seen[s]

\* A faulty Silent, off by one.
SilentEarly(ago) == ago >= LostAfter

Silent(ago) == ago > LostAfter

\* A faulty Resumed, with a window shorter than the monitor's lag.
ResumedPromptly(ago) == ago < Period

Resumed(ago) == ago < RestoredWithin

\* The sleep is over, but there is no listener yet.
SleepOn ==
  /\ mpc = "sleep"
  /\ clock >= wake
  /\ phase = "starting"
  /\ wake' = clock + Period
  /\ UNCHANGED <<clock, phase, serverVars, mpc, copy, lost, view>>

\* listener.stats(): a copy of the tables, taken under the lock.
Look ==
  /\ mpc = "sleep"
  /\ clock >= wake
  /\ phase = "serving"
  /\ copy' = [s \in Source |-> IF s \in Known THEN [ago |-> Ago(s), gaps |-> gaps[s]]
                               ELSE NoCopy[s]]
  /\ back' = [s \in Source |-> IF s \in Known /\ Silent(Ago(s)) THEN NotBack ELSE back[s]]
  /\ mpc' = "judge"
  /\ UNCHANGED <<clock, phase, last, gaps, seen, wake, lost, view>>

\* A faulty AnnouncedAgain, which leaves the source marked as lost.
AnnouncedOnce(s) == lost

AnnouncedAgain(s) == lost \ {s}

\* One turn of the loop over by_source.
Judge(s) ==
  /\ mpc = "judge"
  /\ phase = "serving"
  /\ s \in Unjudged
  /\ \/ /\ Silent(copy[s].ago) /\ s \notin lost
        /\ lost' = lost \cup {s}
        /\ view' = [view EXCEPT ![s] = "lost"]
     \/ /\ Resumed(copy[s].ago) /\ s \in lost
        /\ lost' = AnnouncedAgain(s)
        /\ view' = [view EXCEPT ![s] = "restored"]
     \/ /\ ~(Silent(copy[s].ago) /\ s \notin lost)
        /\ ~(Resumed(copy[s].ago) /\ s \in lost)
        /\ UNCHANGED <<lost, view>>
  /\ copy' = [copy EXCEPT ![s] = NoCopy[s]]
  /\ UNCHANGED <<clock, phase, serverVars, mpc, wake>>

\* All are judged, and the thread sleeps again.
Judged ==
  /\ mpc = "judge"
  /\ phase = "serving"
  /\ Unjudged = {}
  /\ mpc' = "sleep" /\ wake' = clock + Period
  /\ UNCHANGED <<clock, phase, serverVars, copy, lost, view>>

-----------------------------------------------------------------------------
Next ==
  \/ Tick
  \/ Serve
  \/ Shutdown
  \/ \E s \in Source : \E c \in 1 .. MaxCounter : Admit(s, c) \/ Reject(s, c)
  \/ SleepOn
  \/ Look
  \/ \E s \in Source : Judge(s)
  \/ Judged

Spec == Init /\ [][Next]_vars

-----------------------------------------------------------------------------
Time == Nat

\* Each variable has its type.
TypeOK ==
  /\ clock \in Time
  /\ phase \in {"starting", "serving", "ended"}
  /\ {last, gaps} \subseteq [Source -> Nat]
  /\ seen \in [Source -> Time \cup {Never}]
  /\ mpc \in {"sleep", "judge"}
  /\ wake \in Time
  /\ copy \in [Source -> [ago : Time \cup {Never}, gaps : Nat]]
  /\ lost \subseteq Source
  /\ view \in [Source -> {"nothing", "lost", "restored"}]
  /\ back \in [Source -> [at : Time \cup {Never}, skipped : Nat]]

\* "This is how the operator sees a kill-switch event in real time": a source
\* that was heard in this run and has been silent for longer than LostAfter and
\* the monitor's lag is one the operator was told is lost.
OutageAnnounced ==
  \A s \in Known :
    phase = "serving" /\ Ago(s) > LostAfter + Lag => view[s] = "lost"

\* A source that the operator was told is lost and that is heard again is
\* reported as restored within the lag, even if it falls silent after one
\* datagram.
ReturnAnnounced ==
  \A s \in Source :
    phase = "serving" /\ view[s] = "lost" /\ back[s] # NotBack
      => clock - back[s].at <= Lag

\* A source is called lost only after a silence, though the monitor judges by a
\* copy: if a datagram has come since, it came within Slack.
CalledLostWhenSilent ==
  [][\A s \in Source :
       view'[s] = "lost" /\ view[s] # "lost" => Ago(s) > LostAfter \/ Ago(s) <= Slack]_vars

\* "missed N messages": when contact is restored the number told covers what
\* went missing in the outage.
MissedCoversOutage ==
  [][\A s \in Source :
       view'[s] = "restored" /\ view[s] = "lost" => copy[s].gaps >= back[s].skipped]_vars
=============================================================================
