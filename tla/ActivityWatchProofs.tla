------------------------ MODULE ActivityWatchProofs ------------------------
(***************************************************************************)
(* What the two pages show of the daemons and of the scheduled job, for    *)
(* every number of processes and every setting.                            *)
(***************************************************************************)
EXTENDS ActivityWatch, MonitorProbes, FiniteSetTheorems, SequenceTheorems, WellFoundedInduction, TLAPS

Events == {"started", "heartbeat", "other", "scheduled_task_started",
           "scheduled_task_skipped", "scheduled_task_ended"}

Entry == [event : Events, by : Processes, at : Nat]

WatchTypeOK ==
    /\ now \in Nat /\ since \in Nat /\ touched \in Nat /\ dated \subseteq Int
    /\ taskLock \in Nat /\ chatter \in 0..Chatter
    /\ log \in Seq(Entry)
    /\ life \in [Processes -> {"down", "starting", "up"}]
    /\ stream \in [Processes -> {"current", "dated"}]
    /\ rollAt \in [Processes -> Nat]
    /\ beaten \in [Daemons -> Nat] /\ died \in [Daemons -> Nat]

IsSign(line, d) == line.by = d /\ line.event \in {"started", "heartbeat"}

\* Every sign of a daemon is past, and older than its death if it is not up.
SignsPast ==
    /\ \A d \in Daemons : beaten[d] <= now /\ died[d] <= now
    /\ \A d \in Daemons, i \in DOMAIN log :
          IsSign(log[i], d) => log[i].at <= now /\ (life[d] # "up" => log[i].at <= died[d])

\* The lock covers the run, and a half-made page was right of the worker.
TaskCovered ==
    /\ task # "idle" => now < taskLock
    /\ page = "running" => life[SchedulerWorker] = "up" \/ now - died[SchedulerWorker] <= Window

----------------------------------------------------------------------------
\* r lines follow the last sign of d, its last heartbeat.
Latest(d, r) ==
    /\ r < Len(log)
    /\ IsSign(log[Len(log) - r], d) /\ log[Len(log) - r].at = beaten[d]
    /\ \A i \in DOMAIN log : i > Len(log) - r => ~IsSign(log[i], d)

\* The other daemons that may have left a heartbeat in this time unit.
Busy(d) == {e \in Daemons \ {d} : IF life[e] = "up" THEN beaten[e] = now ELSE died[e] = now}

\* The lines of a time unit after a heartbeat.
MostLines == (Cardinality(Daemons) - 1) + 2 * Chatter

\* The lines that may follow the last heartbeat of d.
LinesAfter(d) == (now - beaten[d]) * MostLines + (2 * chatter + Cardinality(Busy(d)))

BeatFound ==
    \A d \in Daemons :
        life[d] = "up" /\ BeatIn(d) /\ now - beaten[d] <= Window =>
            \E r \in Nat : Latest(d, r) /\ r <= LinesAfter(d)

----------------------------------------------------------------------------
(* The end of the file.                                                    *)

\* t is the end of s.
IsEnd(t, s) == \A i \in 1..Len(t) : t[i] = s[i + (Len(s) - Len(t))]

(***************************************************************************)
(* The last n lines.                                                       *)
(***************************************************************************)
LEMMA LastLinesPositions ==
    ASSUME NEW S, NEW s \in Seq(S), NEW n \in Nat, NEW t, t = LastLines(s, n)
    PROVE  /\ t \in Seq(S) /\ Len(t) \in Nat /\ DOMAIN t = 1..Len(t) /\ Len(s) \in Nat
           /\ Len(t) = IF Len(s) > n THEN n ELSE Len(s)
           /\ IsEnd(t, s)
<1>1. Len(s) \in Nat
  BY LenProperties
<1> DEFINE from == IF Len(s) > n THEN Len(s) - n + 1 ELSE 1
<1>2. from \in 1..(Len(s) + 1) /\ Len(s) - from + 1 = IF Len(s) > n THEN n ELSE Len(s)
  BY <1>1
<1>3. t = SubSeq(s, from, Len(s))
  BY DEF LastLines
<1> HIDE DEF from
<1>4. /\ t \in Seq(S) /\ Len(t) = Len(s) - from + 1
      /\ \A i \in 1..Len(t) : t[i] = s[from + i - 1]
  BY <1>1, <1>2, <1>3, SubSeqProperties
<1>5. \A i \in 1..Len(t) : from + i - 1 = i + (Len(s) - Len(t))
  BY <1>1, <1>2, <1>4
<1>6. DOMAIN t = 1..Len(t) /\ Len(t) \in Nat
  BY <1>4, LenProperties
<1>7. IsEnd(t, s)
  BY <1>4, <1>5 DEF IsEnd
<1> QED
  BY <1>1, <1>2, <1>4, <1>6, <1>7

\* t was appended to s and the first lines forgotten. Counted from the end,
\* the new lines come first and the others follow, in their places.
IsTail(u, s, t, n) ==
    /\ Len(u) \in Nat /\ DOMAIN u = 1..Len(u)
    /\ Len(s) \in Nat /\ DOMAIN s = 1..Len(s)
    /\ Len(t) \in Nat /\ DOMAIN t = 1..Len(t)
    /\ Len(u) = IF Len(s) + Len(t) > n THEN n ELSE Len(s) + Len(t)
    /\ \A r \in Nat : r < Len(u) /\ r < Len(t) => u[Len(u) - r] = t[Len(t) - r]
    /\ \A r \in Nat : r < Len(u) /\ r >= Len(t) =>
          r - Len(t) < Len(s) /\ u[Len(u) - r] = s[Len(s) - (r - Len(t))]

(***************************************************************************)
(* What is left of the file and the lines appended to it.                  *)
(***************************************************************************)
LEMMA Appended ==
    ASSUME NEW S, NEW s \in Seq(S), NEW t \in Seq(S), NEW n \in Nat,
           NEW u, u = LastLines(s \o t, n)
    PROVE  u \in Seq(S) /\ IsTail(u, s, t, n)
<1>1. /\ Len(s) \in Nat /\ DOMAIN s = 1..Len(s)
      /\ Len(t) \in Nat /\ DOMAIN t = 1..Len(t)
  BY LenProperties
<1>2. PICK st : st = s \o t
  OBVIOUS
<1>3. /\ st \in Seq(S) /\ Len(st) = Len(s) + Len(t)
      /\ \A i \in 1..(Len(s) + Len(t)) : st[i] = IF i <= Len(s) THEN s[i] ELSE t[i - Len(s)]
  BY <1>2, ConcatProperties
<1>4. u = LastLines(st, n)
  BY <1>2
<1>5. u \in Seq(S) /\ Len(u) \in Nat /\ DOMAIN u = 1..Len(u)
  <2>1. u \in Seq(S)
    BY <1>3, <1>4, LastLinesPositions
  <2> QED
    BY <2>1, LenProperties
<1>6. Len(u) = IF Len(st) > n THEN n ELSE Len(st)
  BY <1>3, <1>4, LastLinesPositions
<1>7. IsEnd(u, st)
  BY <1>3, <1>4, LastLinesPositions
<1>8. ASSUME NEW r \in Nat, r < Len(u)
      PROVE  /\ u[Len(u) - r] = st[Len(s) + Len(t) - r]
             /\ Len(s) + Len(t) - r \in 1..(Len(s) + Len(t))
  <2>1. Len(u) - r \in 1..Len(u)
    BY <1>5, <1>8
  <2>2. u[Len(u) - r] = st[(Len(u) - r) + (Len(st) - Len(u))]
    BY <1>7, <2>1 DEF IsEnd
  <2>3. Len(st) \in Nat /\ Len(st) = Len(s) + Len(t) /\ Len(u) <= Len(st)
    BY <1>1, <1>3, <1>5, <1>6
  <2>4. /\ (Len(u) - r) + (Len(st) - Len(u)) = Len(s) + Len(t) - r
        /\ Len(s) + Len(t) - r \in 1..(Len(s) + Len(t))
    BY <1>1, <1>5, <1>8, <2>3
  <2> QED
    BY <2>2, <2>4
<1>9. ASSUME NEW r \in Nat, r < Len(u), r < Len(t) PROVE u[Len(u) - r] = t[Len(t) - r]
  <2>1. ~(Len(s) + Len(t) - r <= Len(s)) /\ (Len(s) + Len(t) - r) - Len(s) = Len(t) - r
    BY <1>1, <1>9
  <2> QED
    BY <1>3, <1>8, <1>9, <2>1
<1>10. ASSUME NEW r \in Nat, r < Len(u), r >= Len(t)
       PROVE  r - Len(t) < Len(s) /\ u[Len(u) - r] = s[Len(s) - (r - Len(t))]
  <2>1. /\ Len(s) + Len(t) - r <= Len(s) /\ Len(s) + Len(t) - r = Len(s) - (r - Len(t))
        /\ r - Len(t) < Len(s)
    BY <1>1, <1>8, <1>10
  <2> QED
    BY <1>3, <1>8, <1>10, <2>1
<1>11. Len(u) = IF Len(s) + Len(t) > n THEN n ELSE Len(s) + Len(t)
  BY <1>3, <1>6
<1> QED
  BY <1>1, <1>5, <1>9, <1>10, <1>11 DEF IsTail

(***************************************************************************)
(* The next midnight is a time.                                            *)
(***************************************************************************)
LEMMA MidnightTyped ==
    ASSUME NEW t \in Nat
    PROVE  NextMidnight(t) \in Nat
<1>1. PICK D \in Nat \ {0} : D = Day
  BY WatchAssumption
<1>2. t \div D \in Nat
  BY <1>1
<1> QED
  BY <1>1, <1>2 DEF NextMidnight

(***************************************************************************)
(* What a process writes is of the right type.                             *)
(***************************************************************************)
LEMMA LineTyped ==
    ASSUME now \in Nat, NEW p \in Processes, NEW e \in Events
    PROVE  Line(e, p) \in Entry /\ Line(e, p).by = p /\ Line(e, p).at = now /\ Line(e, p).event = e
BY DEF Line, Entry

(***************************************************************************)
(* A line of the file is an old one or one that was just written.          *)
(***************************************************************************)
LEMMA Written ==
    ASSUME WatchTypeOK, NEW p \in Processes, NEW lines \in Seq(Entry), LogActivity(p, lines)
    PROVE  /\ log' \in Seq(Entry) /\ since' \in Nat /\ touched' \in Nat /\ dated' \subseteq Int
           /\ stream' \in [Processes -> {"current", "dated"}] /\ rollAt' \in [Processes -> Nat]
           /\ \A i \in DOMAIN log' : \/ \E j \in DOMAIN log : log'[i] = log[j]
                                     \/ \E j \in DOMAIN lines : log'[i] = lines[j]
<1>1. CASE DoRollover(p, lines)
  <2>1. NextMidnight(now) \in Nat
    BY MidnightTyped DEF WatchTypeOK
  <2>2. dated' \subseteq Int
    <3>1. DatedFile(p) \in Int
      BY WatchAssumption DEF DatedFile, WatchTypeOK
    <3>2. dated' \subseteq dated \cup {DatedFile(p)}
      BY <1>1 DEF DoRollover, Newest
    <3> QED
      BY <3>1, <3>2 DEF WatchTypeOK
  <2> QED
    BY <1>1, <2>1, <2>2 DEF DoRollover, WatchTypeOK
<1>2. CASE /\ log' = LastLines(log \o lines, InspectTail) /\ touched' = now
           /\ UNCHANGED <<since, dated, stream, rollAt>>
  <2>1. InspectTail \in Nat /\ log \in Seq(Entry)
    BY WatchAssumption DEF WatchTypeOK
  <2>2. PICK u : u = LastLines(log \o lines, InspectTail)
    OBVIOUS
  <2>3. u \in Seq(Entry) /\ IsTail(u, log, lines, InspectTail)
    BY <2>1, <2>2, Appended
  <2>4. /\ Len(u) \in Nat /\ DOMAIN u = 1..Len(u)
        /\ Len(log) \in Nat /\ DOMAIN log = 1..Len(log)
        /\ Len(lines) \in Nat /\ DOMAIN lines = 1..Len(lines)
    BY <2>3 DEF IsTail
  <2>5. ASSUME NEW i \in DOMAIN u
        PROVE  (\E j \in DOMAIN log : u[i] = log[j]) \/ (\E j \in DOMAIN lines : u[i] = lines[j])
    <3>1. PICK r \in Nat : r < Len(u) /\ i = Len(u) - r
      <4>1. Len(u) - i \in Nat /\ Len(u) - i < Len(u) /\ i = Len(u) - (Len(u) - i)
        BY <2>4
      <4> QED
        BY <4>1
    <3>2. /\ r < Len(lines) => u[i] = lines[Len(lines) - r]
          /\ r >= Len(lines) => r - Len(lines) < Len(log) /\ u[i] = log[Len(log) - (r - Len(lines))]
      BY <2>3, <3>1 DEF IsTail
    <3>3. CASE r < Len(lines)
      <4>1. Len(lines) - r \in DOMAIN lines /\ u[i] = lines[Len(lines) - r]
        BY <2>4, <3>1, <3>2, <3>3
      <4> QED
        BY <4>1
    <3>4. CASE r >= Len(lines)
      <4>1. Len(log) - (r - Len(lines)) \in DOMAIN log /\ u[i] = log[Len(log) - (r - Len(lines))]
        BY <2>4, <3>1, <3>2, <3>4
      <4> QED
        BY <4>1
    <3> QED
      BY <2>4, <3>3, <3>4
  <2> QED
    BY <1>2, <2>2, <2>3, <2>5 DEF WatchTypeOK
<1>3. CASE UNCHANGED logVars
  BY <1>3 DEF logVars, WatchTypeOK
<1> QED
  BY <1>1, <1>2, <1>3 DEF LogActivity

----------------------------------------------------------------------------
(* The kinds of step.                                                      *)

\* A process logs what is no sign of a daemon.
Says(p) ==
    \E e \in Events \ {"started", "heartbeat"} :
        /\ Talk /\ LogActivity(p, <<Line(e, p)>>)
        /\ UNCHANGED <<now, life, beaten, died>>

Rests == UNCHANGED <<now, logVars, life, beaten, died, chatter>>

(***************************************************************************)
(* A step logs, is of a process, lets time pass, or does not touch the log.*)
(***************************************************************************)
LEMMA StepKinds ==
    ASSUME [WatchNext]_watchVars
    PROVE  \/ \E d \in Daemons : StartDaemon(d) \/ Heartbeat(d)
           \/ \E p \in Processes : SetupLogging(p) \/ ProcessDies(p) \/ Says(p)
           \/ Rests
           \/ WatchTick
<1>0. SchedulerWorker \in Processes /\ Webs \subseteq Processes
  BY WatchAssumption DEF Processes
<1>1. CASE \E d \in Daemons : StartDaemon(d) \/ Heartbeat(d)
  BY <1>1
<1>2. CASE \E p \in Processes : SetupLogging(p) \/ ProcessDies(p)
  BY <1>2
<1>3. ASSUME NEW w \in Webs, Activity(w) PROVE Says(w) /\ w \in Processes
  BY <1>0, <1>3 DEF Activity, Says, Events
<1>4. CASE StartTask
  <2>1. Says(SchedulerWorker)
    BY <1>4 DEF StartTask, Says, Events
  <2> QED
    BY <1>0, <2>1
<1>5. CASE SkipTask
  <2>1. Says(SchedulerWorker)
    BY <1>5 DEF SkipTask, Says, Events
  <2> QED
    BY <1>0, <2>1
<1>6. CASE EndTask
  <2>1. Says(SchedulerWorker)
    BY <1>6 DEF EndTask, Says, Events
  <2> QED
    BY <1>0, <2>1
<1>7. CASE ReleaseTask \/ ReadLog \/ ReadLocks \/ UNCHANGED watchVars
  BY <1>7 DEF ReleaseTask, ReadLog, ReadLocks, watchVars, Rests, logVars
<1> QED
  BY <1>1, <1>2, <1>3, <1>4, <1>5, <1>6, <1>7 DEF WatchNext

(***************************************************************************)
(* The lines of a step that logs.                                          *)
(***************************************************************************)
LEMMA LinesTyped ==
    ASSUME now \in Nat, NEW p \in Processes
    PROVE  /\ <<Line("started", p), Line("heartbeat", p)>> \in Seq(Entry)
           /\ \A e \in Events : <<Line(e, p)>> \in Seq(Entry)
BY LineTyped DEF Events

(***************************************************************************)
(* Every action keeps the types of the log and the processes.              *)
(***************************************************************************)
LEMMA InitTyped == WatchInit => WatchTypeOK
<1>1. <<>> \in Seq(Entry) /\ Chatter \in Nat
  BY WatchAssumption
<1> QED
  BY <1>1 DEF WatchInit, WatchTypeOK

LEMMA NextTyped ==
    ASSUME WatchTypeOK, [WatchNext]_watchVars
    PROVE  WatchTypeOK'
<1>0. /\ now \in Nat /\ Daemons \subseteq Processes
      /\ TaskTTL \in Nat /\ Chatter \in Nat /\ chatter \in Nat
  BY WatchAssumption DEF WatchTypeOK, Processes
<1>1. taskLock' \in Nat
  <2>1. CASE UNCHANGED taskLock
    BY <2>1 DEF WatchTypeOK
  <2>2. CASE StartTask
    BY <1>0, <2>2 DEF StartTask
  <2>3. CASE ReleaseTask
    BY <2>3 DEF ReleaseTask, WatchTypeOK
  <2>4. CASE WatchTick
    BY <1>0, <2>4 DEF WatchTick, WatchTypeOK
  <2> QED
    BY <2>1, <2>2, <2>3, <2>4
       DEF WatchNext, watchVars, taskVars, StartDaemon, Heartbeat, SetupLogging, ProcessDies,
           Activity, SkipTask, EndTask, ReadLog, ReadLocks
<1>2. ASSUME NEW d \in Daemons, StartDaemon(d) PROVE WatchTypeOK'
  <2>1. LogActivity(d, <<Line("started", d), Line("heartbeat", d)>>)
    BY <1>2 DEF StartDaemon
  <2>2. /\ log' \in Seq(Entry) /\ since' \in Nat /\ touched' \in Nat /\ dated' \subseteq Int
        /\ stream' \in [Processes -> {"current", "dated"}] /\ rollAt' \in [Processes -> Nat]
    BY <1>0, <2>1, LinesTyped, Written
  <2>3. /\ now' = now /\ life' = [life EXCEPT ![d] = "up"]
        /\ beaten' = [beaten EXCEPT ![d] = now] /\ died' = [died EXCEPT ![d] = 0]
        /\ chatter < Chatter /\ chatter' = chatter + 1
    BY <1>2 DEF StartDaemon, Talk
  <2> QED
    BY <1>0, <1>1, <2>2, <2>3 DEF WatchTypeOK
<1>3. ASSUME NEW d \in Daemons, Heartbeat(d) PROVE WatchTypeOK'
  <2>1. LogActivity(d, <<Line("heartbeat", d)>>) /\ "heartbeat" \in Events
    BY <1>3 DEF Heartbeat, Events
  <2>2. /\ log' \in Seq(Entry) /\ since' \in Nat /\ touched' \in Nat /\ dated' \subseteq Int
        /\ stream' \in [Processes -> {"current", "dated"}] /\ rollAt' \in [Processes -> Nat]
    BY <1>0, <2>1, LinesTyped, Written
  <2> QED
    BY <1>0, <1>1, <1>3, <2>2 DEF Heartbeat, WatchTypeOK
<1>4. ASSUME NEW p \in Processes, SetupLogging(p) PROVE WatchTypeOK'
  <2>1. NextMidnight(touched) \in Nat
    BY MidnightTyped DEF WatchTypeOK
  <2> QED
    BY <1>1, <1>4, <2>1 DEF SetupLogging, WatchTypeOK
<1>5. ASSUME NEW p \in Processes, ProcessDies(p) PROVE WatchTypeOK'
  BY <1>1, <1>5 DEF ProcessDies, WatchTypeOK
<1>6. ASSUME NEW p \in Processes, Says(p) PROVE WatchTypeOK'
  <2>1. PICK e \in Events : Talk /\ LogActivity(p, <<Line(e, p)>>) /\ UNCHANGED <<now, life, beaten, died>>
    BY <1>6 DEF Says
  <2>2. /\ log' \in Seq(Entry) /\ since' \in Nat /\ touched' \in Nat /\ dated' \subseteq Int
        /\ stream' \in [Processes -> {"current", "dated"}] /\ rollAt' \in [Processes -> Nat]
    BY <1>0, <2>1, LinesTyped, Written
  <2> QED
    <3>1. chatter' \in 0..Chatter
      BY <1>0, <2>1 DEF Talk
    <3> QED
      BY <1>1, <2>1, <2>2, <3>1 DEF WatchTypeOK
<1>7. CASE Rests
  BY <1>1, <1>7 DEF Rests, logVars, WatchTypeOK
<1>8. CASE WatchTick
  BY <1>0, <1>1, <1>8 DEF WatchTick, logVars, WatchTypeOK
<1> QED
  BY <1>2, <1>3, <1>4, <1>5, <1>6, <1>7, <1>8, StepKinds

----------------------------------------------------------------------------
(* The signs of a daemon that died, and the run under its lock.            *)

(***************************************************************************)
(* The signs of a file to which p writes.                                  *)
(***************************************************************************)
LEMMA SignsWritten ==
    ASSUME WatchTypeOK, SignsPast, NEW p \in Processes,
           NEW lines \in Seq(Entry), \A j \in DOMAIN lines : lines[j].by = p /\ lines[j].at = now,
           LogActivity(p, lines),
           NEW d \in Daemons, NEW i \in DOMAIN log', IsSign(log'[i], d)
    PROVE  /\ log'[i].at <= now
           /\ \/ /\ life[d] # "up" => log'[i].at <= died[d]
                 /\ \E j \in DOMAIN log : log'[i] = log[j]
              \/ p = d /\ \E j \in DOMAIN lines : log'[i] = lines[j]
<1>1. now \in Nat
  BY DEF WatchTypeOK
<1>2. \/ \E j \in DOMAIN log : log'[i] = log[j]
      \/ \E j \in DOMAIN lines : log'[i] = lines[j]
  BY Written
<1>3. ASSUME NEW j \in DOMAIN log, log'[i] = log[j]
      PROVE  log'[i].at <= now /\ (life[d] # "up" => log'[i].at <= died[d])
  BY <1>3 DEF SignsPast
<1>4. ASSUME NEW j \in DOMAIN lines, log'[i] = lines[j] PROVE log'[i].at <= now /\ p = d
  BY <1>1, <1>4 DEF IsSign
<1> QED
  BY <1>2, <1>3, <1>4

(***************************************************************************)
(* Every step keeps the signs older than the daemon's death.               *)
(***************************************************************************)
LEMMA NextSigns ==
    ASSUME WatchTypeOK, SignsPast, [WatchNext]_watchVars
    PROVE  SignsPast'
<1>0. /\ now \in Nat /\ Daemons \subseteq Processes
      /\ beaten \in [Daemons -> Nat] /\ died \in [Daemons -> Nat]
      /\ life \in [Processes -> {"down", "starting", "up"}]
      /\ \A d \in Daemons : beaten[d] <= now /\ died[d] <= now
  BY DEF WatchTypeOK, SignsPast, Processes
<1>1. ASSUME NEW d \in Daemons, StartDaemon(d) PROVE SignsPast'
  <2>1. PICK lines : lines = <<Line("started", d), Line("heartbeat", d)>>
    OBVIOUS
  <2>2. LogActivity(d, lines) /\ lines \in Seq(Entry)
    BY <1>0, <1>1, <2>1, LinesTyped DEF StartDaemon
  <2>3. \A j \in DOMAIN lines : lines[j].by = d /\ lines[j].at = now
    BY <1>0, <2>1 DEF Line
  <2>4. /\ now' = now /\ life' = [life EXCEPT ![d] = "up"]
        /\ beaten' = [beaten EXCEPT ![d] = now] /\ died' = [died EXCEPT ![d] = 0]
    BY <1>1 DEF StartDaemon
  <2>5. \A e \in Daemons : beaten'[e] <= now' /\ died'[e] <= now'
    BY <1>0, <2>4
  <2>6. ASSUME NEW e \in Daemons, NEW i \in DOMAIN log', IsSign(log'[i], e)
        PROVE  log'[i].at <= now' /\ (life'[e] # "up" => log'[i].at <= died'[e])
    <3>1. log'[i].at <= now /\ ((life[e] # "up" => log'[i].at <= died[e]) \/ e = d)
      BY <1>0, <2>2, <2>3, <2>6, SignsWritten
    <3> QED
      BY <1>0, <2>4, <3>1
  <2> QED
    BY <2>5, <2>6 DEF SignsPast
<1>2. ASSUME NEW p \in Processes, NEW e \in Events, LogActivity(p, <<Line(e, p)>>),
             p \in Daemons /\ e \in {"started", "heartbeat"} => life[p] = "up",
             UNCHANGED <<now, life, died>>, \A d \in Daemons : beaten'[d] <= now
      PROVE  SignsPast'
  <2>1. PICK lines : lines = <<Line(e, p)>>
    OBVIOUS
  <2>2. LogActivity(p, lines) /\ lines \in Seq(Entry)
    BY <1>0, <1>2, <2>1, LinesTyped
  <2>3. \A j \in DOMAIN lines : lines[j].by = p /\ lines[j].at = now /\ lines[j].event = e
    BY <1>0, <2>1 DEF Line
  <2>4. ASSUME NEW d \in Daemons, NEW i \in DOMAIN log', IsSign(log'[i], d)
        PROVE  log'[i].at <= now' /\ (life'[d] # "up" => log'[i].at <= died'[d])
    <3>1. /\ log'[i].at <= now
          /\ \/ life[d] # "up" => log'[i].at <= died[d]
             \/ p = d /\ \E j \in DOMAIN lines : log'[i] = lines[j]
      BY <2>2, <2>3, <2>4, SignsWritten
    <3>2. ASSUME p = d, NEW j \in DOMAIN lines, log'[i] = lines[j] PROVE life[d] = "up"
      BY <1>2, <2>3, <2>4, <3>2 DEF IsSign
    <3> QED
      BY <1>2, <3>1, <3>2
  <2>5. \A d \in Daemons : beaten'[d] <= now' /\ died'[d] <= now'
    BY <1>0, <1>2
  <2> QED
    BY <2>4, <2>5 DEF SignsPast
<1>3. ASSUME NEW d \in Daemons, Heartbeat(d) PROVE SignsPast'
  <2>1. "heartbeat" \in Events /\ \A e \in Daemons : beaten'[e] <= now
    BY <1>0, <1>3 DEF Heartbeat, Events
  <2> QED
    BY <1>0, <1>2, <1>3, <2>1 DEF Heartbeat
<1>4. ASSUME NEW p \in Processes, Says(p) PROVE SignsPast'
  BY <1>0, <1>2, <1>4 DEF Says
<1>5. ASSUME UNCHANGED log, now' >= now, now' \in Nat, beaten' = beaten \/ \A d \in Daemons : beaten'[d] <= now',
             \A d \in Daemons : \/ died'[d] = died[d] /\ (life[d] = life'[d] \/ life[d] # "up")
                                \/ died'[d] = now'
      PROVE  SignsPast'
  <2>1. \A d \in Daemons : beaten'[d] <= now' /\ died'[d] <= now'
    BY <1>0, <1>5
  <2>2. ASSUME NEW d \in Daemons, NEW i \in DOMAIN log, IsSign(log[i], d)
        PROVE  log[i].at <= now' /\ (life'[d] # "up" => log[i].at <= died'[d])
    <3>1. log[i].at \in Nat
      <4>1. log[i] \in Entry
        BY <2>2, ElementOfSeq, LenProperties DEF WatchTypeOK
      <4> QED
        BY <4>1 DEF Entry
    <3>2. log[i].at <= now /\ (life[d] # "up" => log[i].at <= died[d])
      BY <2>2 DEF SignsPast
    <3> QED
      BY <1>0, <1>5, <3>1, <3>2
  <2> QED
    BY <1>5, <2>1, <2>2 DEF SignsPast
<1>6. ASSUME NEW p \in Processes, SetupLogging(p) PROVE SignsPast'
  <2>1. UNCHANGED <<now, log, beaten, died>> /\ life[p] = "down"
    BY <1>6 DEF SetupLogging
  <2>2. \A d \in Daemons : life[d] = life'[d] \/ life[d] # "up"
    BY <1>0, <1>6 DEF SetupLogging
  <2> QED
    BY <1>0, <1>5, <2>1, <2>2
<1>7. ASSUME NEW p \in Processes, ProcessDies(p) PROVE SignsPast'
  <2>1. UNCHANGED <<now, log>> /\ life' = [life EXCEPT ![p] = "down"]
    BY <1>7 DEF ProcessDies
  <2>2. \A d \in Daemons : beaten'[d] <= now
    BY <1>0, <1>7 DEF ProcessDies
  <2>3. \A d \in Daemons : died'[d] = IF d = p THEN now ELSE died[d]
    BY <1>0, <1>7 DEF ProcessDies
  <2>4. \A d \in Daemons \ {p} : life'[d] = life[d]
    BY <1>0, <2>1
  <2> QED
    BY <1>0, <1>5, <2>1, <2>2, <2>3, <2>4
<1>8. CASE Rests
  BY <1>0, <1>5, <1>8 DEF Rests, logVars
<1>9. CASE WatchTick
  BY <1>0, <1>5, <1>9 DEF WatchTick, logVars
<1> QED
  BY <1>1, <1>3, <1>4, <1>6, <1>7, <1>8, <1>9, StepKinds

(***************************************************************************)
(* A nonempty set of positions has a greatest.                             *)
(***************************************************************************)
LEMMA GreatestExists ==
    ASSUME NEW n \in Nat, NEW T, T \subseteq 1..n, T # {}
    PROVE  \E i \in T : \A j \in T : j <= i
<1> DEFINE D == {n - i : i \in T}
<1>1. D \subseteq Nat /\ D # {}
  <2>1. \A i \in T : n - i \in Nat
    OBVIOUS
  <2>2. D # {}
    OBVIOUS
  <2> QED
    BY <2>1, <2>2
<1>2. PICK x \in D : \A y \in D : ~(<<y, x>> \in OpToRel(<, Nat))
  BY <1>1, NatLessThanWellFounded, WFMin
<1>3. PICK i \in T : x = n - i
  BY <1>2
<1>4. ASSUME NEW j \in T PROVE j <= i
  <2>1. n - j \in D /\ n - j \in Nat /\ n - i \in Nat
    OBVIOUS
  <2>2. ~(n - j < n - i)
    BY <1>2, <1>3, <2>1 DEF OpToRel
  <2> QED
    BY <2>2
<1> QED
  BY <1>4

(***************************************************************************)
(* The status of a daemon is that of its last sign a page reads.           *)
(***************************************************************************)
LEMMA StatusOfLast ==
    ASSUME WatchTypeOK, NEW d \in Daemons, NEW n \in Nat, Signs(d, n) # {}
    PROVE  \E i \in Signs(d, n) :
              /\ \A j \in Signs(d, n) : j <= i
              /\ Recent(n)[i].at \in Nat
              /\ DaemonShown(d, n) = IF now - Recent(n)[i].at > Window THEN "stale" ELSE "running"
<1>1. log \in Seq(Entry) /\ now \in Nat /\ Window \in Nat
  BY WatchAssumption DEF WatchTypeOK
<1>2. Recent(n) \in Seq(Entry)
  BY <1>1, LastLinesPositions DEF Recent
<1>3. DOMAIN Recent(n) = 1..Len(Recent(n)) /\ Len(Recent(n)) \in Nat
  BY <1>2, LenProperties
<1>4. Signs(d, n) \subseteq 1..Len(Recent(n))
  BY <1>3 DEF Signs
<1>5. \E i \in Signs(d, n) : \A j \in Signs(d, n) : j <= i
  BY <1>3, <1>4, GreatestExists
<1>6. PICK i : i = CHOOSE k \in Signs(d, n) : \A j \in Signs(d, n) : j <= k
  OBVIOUS
<1>7. i \in Signs(d, n) /\ \A j \in Signs(d, n) : j <= i
  BY <1>5, <1>6
<1>8. Seen(d, n) = Recent(n)[i].at /\ Recent(n)[i].at \in Nat
  <2>1. Recent(n)[i] \in Entry
    BY <1>2, <1>4, <1>7, ElementOfSeq
  <2> QED
    BY <1>6, <2>1 DEF Seen, Entry
<1>9. DaemonShown(d, n) = IF now - Seen(d, n) > Window THEN "stale" ELSE "running"
  <2>1. CASE now - Seen(d, n) > Window
    <3>1. ~(now - Seen(d, n) <= Window)
      BY <1>1, <1>8, <2>1
    <3> QED
      BY <2>1, <3>1 DEF DaemonShown
  <2>2. CASE ~(now - Seen(d, n) > Window)
    <3>1. now - Seen(d, n) <= Window
      BY <1>1, <1>8, <2>2
    <3> QED
      BY <2>2, <3>1 DEF DaemonShown
  <2> QED
    BY <2>1, <2>2
<1> QED
  BY <1>7, <1>8, <1>9

(***************************************************************************)
(* A page shows only one status, and running only a daemon that was up     *)
(* within the window.                                                      *)
(***************************************************************************)
LEMMA DeadNotShown ==
    ASSUME WatchTypeOK, SignsPast, NEW d \in Daemons, NEW n \in Nat, DaemonShown(d, n) = "running"
    PROVE  life[d] = "up" \/ now - died[d] <= Window
<1>1. now \in Nat /\ Window \in Nat /\ died[d] \in Nat /\ log \in Seq(Entry)
  BY WatchAssumption DEF WatchTypeOK
<1>2. CASE Signs(d, n) = {}
  BY <1>2 DEF DaemonShown
<1>3. CASE Signs(d, n) # {}
  <2>1. PICK i \in Signs(d, n) :
           /\ Recent(n)[i].at \in Nat
           /\ DaemonShown(d, n) = IF now - Recent(n)[i].at > Window THEN "stale" ELSE "running"
    BY <1>3, StatusOfLast
  <2>2. now - Recent(n)[i].at <= Window
    BY <1>1, <2>1
  <2>3. PICK t : t = Recent(n)
    OBVIOUS
  <2>4. i \in DOMAIN t /\ IsSign(t[i], d)
    BY <2>1, <2>3 DEF Signs, IsSign
  <2>5. \E k \in DOMAIN log : t[i] = log[k]
    <3>1. t = LastLines(log, n)
      BY <2>3 DEF Recent
    <3>2. /\ Len(t) \in Nat /\ DOMAIN t = 1..Len(t) /\ Len(log) \in Nat
          /\ Len(t) = IF Len(log) > n THEN n ELSE Len(log)
      BY <1>1, <3>1, LastLinesPositions
    <3>3. t[i] = log[i + (Len(log) - Len(t))]
      <4>1. IsEnd(t, log)
        BY <1>1, <3>1, LastLinesPositions
      <4> QED
        BY <2>4, <3>2, <4>1 DEF IsEnd
    <3>4. i + (Len(log) - Len(t)) \in 1..Len(log) /\ DOMAIN log = 1..Len(log)
      BY <1>1, <2>4, <3>2, LenProperties
    <3> QED
      BY <3>3, <3>4
  <2>6. life[d] # "up" => t[i].at <= died[d]
    BY <2>4, <2>5 DEF SignsPast
  <2> QED
    BY <1>1, <2>1, <2>2, <2>3, <2>6
<1> QED
  BY <1>2, <1>3

(***************************************************************************)
(* Every step keeps the lock over the run, and the status a page has read  *)
(* true of the scheduler worker.                                           *)
(***************************************************************************)
LEMMA NextCovered ==
    ASSUME WatchTypeOK, SignsPast, TaskCovered, [WatchNext]_watchVars
    PROVE  TaskCovered'
<1> DEFINE S == SchedulerWorker
           Within == life[S] = "up" \/ now - died[S] <= Window
<1>0. /\ now \in Nat /\ Window \in Nat /\ taskLock \in Nat /\ TaskTTL \in Nat \ {0}
      /\ S \in Daemons /\ Daemons \subseteq Processes
      /\ life \in [Processes -> {"down", "starting", "up"}] /\ died \in [Daemons -> Nat]
  BY WatchAssumption DEF WatchTypeOK, Processes
<1>1. task' # "idle" => now' < taskLock'
  <2>1. CASE UNCHANGED <<now, taskLock>> /\ (task' = "idle" \/ task # "idle")
    BY <2>1 DEF TaskCovered
  <2>2. CASE StartTask
    BY <1>0, <2>2 DEF StartTask
  <2>3. CASE WatchTick
    BY <1>0, <2>3 DEF WatchTick
  <2>4. CASE ReleaseTask
    BY <2>4 DEF ReleaseTask
  <2> QED
    BY <2>1, <2>2, <2>3, <2>4
       DEF WatchNext, watchVars, taskVars, StartDaemon, Heartbeat, SetupLogging, ProcessDies,
           Activity, SkipTask, EndTask, ReadLog, ReadLocks
<1>2. page' = page \/ ReadLog \/ page' = "none"
  BY DEF WatchNext, watchVars, StartDaemon, Heartbeat, SetupLogging, ProcessDies, Activity,
         StartTask, SkipTask, EndTask, ReleaseTask, ReadLocks, WatchTick
<1>3. ASSUME page' = page, page = "running" PROVE Within'
  <2>0. Within
    BY <1>3 DEF TaskCovered
  <2>1. ASSUME NEW d \in Daemons, StartDaemon(d) PROVE Within'
    <3>1. /\ now' = now /\ life' = [life EXCEPT ![d] = "up"]
          /\ died' = [died EXCEPT ![d] = 0]
      BY <2>1 DEF StartDaemon
    <3> QED
      BY <1>0, <2>0, <3>1
  <2>2. ASSUME NEW p \in Processes, SetupLogging(p) PROVE Within'
    <3>1. life[S] = "up" => life'[S] = "up"
      BY <1>0, <2>2 DEF SetupLogging
    <3> QED
      BY <2>0, <2>2, <3>1 DEF SetupLogging
  <2>3. ASSUME NEW p \in Processes, ProcessDies(p) PROVE Within'
    <3>1. CASE p = S
      <4>1. died'[S] = now /\ now' = now
        BY <1>0, <2>3, <3>1 DEF ProcessDies
      <4> QED
        BY <1>0, <4>1
    <3>2. CASE p # S
      <4>1. died'[S] = died[S] /\ life'[S] = life[S] /\ now' = now
        BY <1>0, <2>3, <3>2 DEF ProcessDies
      <4> QED
        BY <2>0, <4>1
    <3> QED
      BY <3>1, <3>2
  <2>4. CASE UNCHANGED <<now, life, died>>
    BY <2>0, <2>4
  <2>5. ~WatchTick
    BY <1>3 DEF WatchTick
  <2> QED
    BY <2>1, <2>2, <2>3, <2>4, <2>5, StepKinds DEF Heartbeat, Says, Rests
<1>4. ASSUME ReadLog, page' = "running" PROVE Within'
  <2>1. DaemonShown(S, InspectTail) = "running" /\ InspectTail \in Nat
    BY <1>4, WatchAssumption DEF ReadLog, TasksPageShows
  <2>2. Within
    BY <1>0, <2>1, DeadNotShown
  <2> QED
    BY <1>4, <2>2 DEF ReadLog
<1> QED
  BY <1>1, <1>2, <1>3, <1>4 DEF TaskCovered

TaskInv == WatchTypeOK /\ SignsPast /\ TaskCovered

(***************************************************************************)
(* The page of tasks never shows a running job idle or waiting for a       *)
(* worker, and idle only while the worker was up within the window, for    *)
(* every number of processes, every tail and every lifetime of the lock.   *)
(***************************************************************************)
THEOREM TasksTrue == WatchSpec => []TasksShownTruly
<1>1. ASSUME WatchInit PROVE TaskInv
  <2>1. WatchTypeOK
    BY <1>1, InitTyped
  <2>2. DOMAIN log = {}
    BY <1>1 DEF WatchInit
  <2> QED
    BY <1>1, <2>1, <2>2 DEF WatchInit, TaskInv, SignsPast, TaskCovered
<1>2. TaskInv /\ [WatchNext]_watchVars => TaskInv'
  BY NextTyped, NextSigns, NextCovered DEF TaskInv
<1>3. TaskInv => TasksShownTruly
  BY DEF TaskInv, TaskCovered, TasksShownTruly, Runtime
<1> QED
  BY <1>1, <1>2, <1>3, PTL DEF WatchSpec

----------------------------------------------------------------------------
(* The last heartbeat of a daemon that is up.                              *)

(***************************************************************************)
(* A write rolls the file over, adds to it, or is lost.                    *)
(***************************************************************************)
LEMMA WriteCases ==
    ASSUME WatchTypeOK, NEW p \in Processes, NEW lines \in Seq(Entry), LogActivity(p, lines)
    PROVE  \/ log' = lines /\ since' = now /\ stream'[p] = "current"
           \/ /\ UNCHANGED <<since, stream>>
              /\ log' \in Seq(Entry) /\ IsTail(log', log, lines, InspectTail)
           \/ stream[p] = "dated" /\ UNCHANGED <<log, since, stream>>
<1>1. CASE DoRollover(p, lines)
  BY <1>1 DEF DoRollover
<1>2. CASE log' = LastLines(log \o lines, InspectTail) /\ UNCHANGED <<since, stream>>
  <2>1. PICK u : u = LastLines(log \o lines, InspectTail)
    OBVIOUS
  <2>2. InspectTail \in Nat /\ log \in Seq(Entry)
    BY WatchAssumption DEF WatchTypeOK
  <2>3. u \in Seq(Entry) /\ IsTail(u, log, lines, InspectTail)
    BY <2>1, <2>2, Appended
  <2>4. log' = u
    BY <1>2, <2>1
  <2> QED
    BY <1>2, <2>3, <2>4
<1>3. CASE stream[p] = "dated" /\ UNCHANGED logVars
  BY <1>3 DEF logVars
<1> QED
  BY <1>1, <1>2, <1>3 DEF LogActivity

(***************************************************************************)
(* What a page must read to find a heartbeat: fewer lines than either page *)
(* reads may follow one within the window.                                 *)
(***************************************************************************)
TailsSuffice == IsFiniteSet(Daemons) /\ (Window + 1) * MostLines < MonitorTail

(***************************************************************************)
(* Within the window the lines after a heartbeat leave room for it.        *)
(***************************************************************************)
LEMMA RoomInWindow ==
    ASSUME TailsSuffice, NEW d \in Daemons,
           NEW age \in 0..Window, NEW talk \in 0..Chatter, NEW B, B \subseteq Daemons \ {d}
    PROVE  /\ IsFiniteSet(B) /\ Cardinality(B) \in Nat /\ MostLines \in Nat
           /\ 2 * talk + Cardinality(B) <= MostLines
           /\ age * MostLines + (2 * talk + Cardinality(B)) \in Nat
           /\ age * MostLines + (2 * talk + Cardinality(B)) < MonitorTail
           /\ MonitorTail <= InspectTail /\ MonitorTail \in Nat /\ InspectTail \in Nat
<1>1. Window \in Nat /\ Chatter \in Nat
      /\ MonitorTail <= InspectTail /\ MonitorTail \in Nat /\ InspectTail \in Nat
  BY WatchAssumption
<1>2. /\ IsFiniteSet(Daemons \ {d})
      /\ Cardinality(Daemons \ {d}) = Cardinality(Daemons) - 1
  BY FS_RemoveElement DEF TailsSuffice
<1>3. IsFiniteSet(B) /\ Cardinality(B) <= Cardinality(Daemons \ {d})
  BY <1>2, FS_Subset
<1>4. Cardinality(B) \in Nat /\ Cardinality(Daemons \ {d}) \in Nat
  BY <1>2, <1>3, FS_CardinalityType
<1>5. PICK others \in Nat : others = Cardinality(Daemons) - 1 /\ Cardinality(B) <= others
  BY <1>2, <1>3, <1>4
<1>6. PICK most \in Nat : most = MostLines /\ 2 * talk + Cardinality(B) <= most
  BY <1>1, <1>4, <1>5 DEF MostLines
<1>7. age * most \in Nat /\ age * most <= Window * most /\ (Window + 1) * most = Window * most + most
  BY <1>1, <1>6
<1>8. (Window + 1) * most < MonitorTail
  BY <1>6 DEF TailsSuffice
<1>9. Window * most \in Nat /\ 2 * talk + Cardinality(B) \in Nat
  BY <1>1, <1>4, <1>6
<1>10. age * most + (2 * talk + Cardinality(B)) < MonitorTail
  BY <1>1, <1>6, <1>7, <1>8, <1>9
<1> QED
  BY <1>1, <1>3, <1>4, <1>6, <1>7, <1>9, <1>10

(***************************************************************************)
(* The heartbeat a daemon writes is its last sign, if it is written to the *)
(* current file at all.                                                    *)
(***************************************************************************)
LEMMA BeatWritten ==
    ASSUME WatchTypeOK, InspectTail > 0, NEW d \in Processes, NEW lines \in Seq(Entry),
           Len(lines) > 0, IsSign(lines[Len(lines)], d), lines[Len(lines)].at = beaten'[d],
           LogActivity(d, lines), stream'[d] = "current"
    PROVE  Latest(d, 0)'
<1>1. Len(lines) \in Nat /\ DOMAIN lines = 1..Len(lines) /\ InspectTail \in Nat
  BY LenProperties, WatchAssumption
<1>2. CASE log' = lines
  BY <1>1, <1>2 DEF Latest
<1>3. CASE log' \in Seq(Entry) /\ IsTail(log', log, lines, InspectTail)
  <2>1. /\ Len(log') \in Nat /\ DOMAIN log' = 1..Len(log') /\ Len(log) \in Nat
        /\ Len(log') = IF Len(log) + Len(lines) > InspectTail THEN InspectTail ELSE Len(log) + Len(lines)
    BY <1>3 DEF IsTail
  <2>2. 0 < Len(log')
    BY <1>1, <2>1
  <2>3. log'[Len(log') - 0] = lines[Len(lines) - 0]
    BY <1>1, <1>3, <2>2 DEF IsTail
  <2>4. Len(lines) - 0 = Len(lines) /\ Len(log') - 0 = Len(log')
    BY <1>1, <2>1
  <2>5. \A i \in DOMAIN log' : ~(i > Len(log'))
    BY <2>1
  <2> QED
    BY <2>2, <2>3, <2>4, <2>5 DEF Latest
<1>4. ~(stream[d] = "dated" /\ UNCHANGED stream)
  OBVIOUS
<1> QED
  BY <1>2, <1>3, <1>4, WriteCases

(***************************************************************************)
(* Lines that are no signs of d leave its last sign where it is, behind    *)
(* them.                                                                   *)
(***************************************************************************)
LEMMA BeatBehind ==
    ASSUME WatchTypeOK, NEW d \in Daemons, NEW lines \in Seq(Entry),
           \A j \in DOMAIN lines : ~IsSign(lines[j], d),
           log' \in Seq(Entry), IsTail(log', log, lines, InspectTail),
           NEW r \in Nat, Latest(d, r), r + Len(lines) < InspectTail, beaten'[d] = beaten[d]
    PROVE  r + Len(lines) \in Nat /\ Latest(d, r + Len(lines))'
<1>1. /\ Len(log') \in Nat /\ DOMAIN log' = 1..Len(log')
      /\ Len(log) \in Nat /\ DOMAIN log = 1..Len(log)
      /\ Len(lines) \in Nat /\ DOMAIN lines = 1..Len(lines) /\ InspectTail \in Nat
      /\ Len(log') = IF Len(log) + Len(lines) > InspectTail THEN InspectTail ELSE Len(log) + Len(lines)
  BY WatchAssumption DEF IsTail
<1>2. PICK k \in Nat : k = r + Len(lines)
  BY <1>1
<1>3. r < Len(log) /\ IsSign(log[Len(log) - r], d) /\ log[Len(log) - r].at = beaten[d]
  BY DEF Latest
<1>4. k < Len(log') /\ k >= Len(lines) /\ k - Len(lines) = r
  BY <1>1, <1>2, <1>3
<1>5. log'[Len(log') - k] = log[Len(log) - r]
  BY <1>4 DEF IsTail
<1>6. ASSUME NEW i \in DOMAIN log', i > Len(log') - k PROVE ~IsSign(log'[i], d)
  <2>1. PICK q \in Nat : q < Len(log') /\ i = Len(log') - q /\ q < k
    <3>1. PICK l \in Nat : l = Len(log')
      BY <1>1
    <3>2. i \in 1..l /\ i > l - k
      BY <1>1, <1>6, <3>1
    <3>3. l - i \in Nat /\ i = l - (l - i) /\ l - i < k /\ l - i < l
      BY <1>2, <3>2
    <3> QED
      BY <3>1, <3>3
  <2>2. CASE q < Len(lines)
    <3>1. log'[i] = lines[Len(lines) - q] /\ Len(lines) - q \in DOMAIN lines
      BY <1>1, <2>1, <2>2 DEF IsTail
    <3> QED
      BY <3>1
  <2>3. CASE q >= Len(lines)
    <3>1. q - Len(lines) < Len(log) /\ log'[i] = log[Len(log) - (q - Len(lines))]
      BY <2>1, <2>3 DEF IsTail
    <3>2. /\ Len(log) - (q - Len(lines)) \in DOMAIN log
          /\ Len(log) - (q - Len(lines)) > Len(log) - r
      BY <1>1, <1>2, <2>1, <2>3, <3>1
    <3> QED
      BY <3>1, <3>2 DEF Latest
  <2> QED
    BY <1>1, <2>1, <2>2, <2>3
<1>7. Latest(d, k)'
  BY <1>3, <1>4, <1>5, <1>6 DEF Latest
<1> QED
  BY <1>2, <1>7

(***************************************************************************)
(* A write keeps the heartbeat of a daemon that stays up and does not beat *)
(* where the page finds it, if it counts the new lines.                    *)
(***************************************************************************)
LEMMA WriteKeepsBeat ==
    ASSUME TailsSuffice, WatchTypeOK, SignsPast, BeatFound,
           NEW p \in Processes, NEW lines \in Seq(Entry), LogActivity(p, lines),
           NEW d \in Daemons, \A j \in DOMAIN lines : ~IsSign(lines[j], d),
           life[d] = "up", beaten'[d] = beaten[d], now' = now, SignsPast', WatchTypeOK',
           LinesAfter(d)' >= LinesAfter(d) + Len(lines),
           BeatIn(d)', now' - beaten'[d] <= Window
    PROVE  \E r \in Nat : Latest(d, r)' /\ r <= LinesAfter(d)'
<1>0. /\ now \in Nat /\ d \in Processes
      /\ beaten[d] \in Nat /\ Len(lines) \in Nat /\ InspectTail \in Nat
  BY LenProperties, WatchAssumption DEF WatchTypeOK, Processes
<1>1. LinesAfter(d) \in Nat /\ LinesAfter(d)' \in Nat /\ LinesAfter(d)' < InspectTail
  <2>1. /\ now - beaten[d] \in 0..Window /\ chatter \in 0..Chatter /\ chatter' \in 0..Chatter
        /\ Busy(d) \subseteq Daemons \ {d} /\ Busy(d)' \subseteq Daemons \ {d}
    <3>1. beaten[d] <= now
      BY DEF SignsPast
    <3>2. now - beaten[d] \in 0..Window
      BY <1>0, <3>1, WatchAssumption
    <3>3. chatter \in 0..Chatter /\ chatter' \in 0..Chatter
      BY DEF WatchTypeOK
    <3>4. Busy(d) \subseteq Daemons \ {d} /\ Busy(d)' \subseteq Daemons \ {d}
      BY DEF Busy
    <3> QED
      BY <3>2, <3>3, <3>4
  <2>2. PICK age : age = now - beaten[d]
    OBVIOUS
  <2>3. PICK B, C : B = Busy(d) /\ C = Busy(d)'
    OBVIOUS
  <2>4. LinesAfter(d) = age * MostLines + (2 * chatter + Cardinality(B))
    BY <2>2, <2>3 DEF LinesAfter
  <2>5. LinesAfter(d)' = age * MostLines + (2 * chatter' + Cardinality(C))
    BY <2>2, <2>3 DEF LinesAfter, MostLines
  <2>6. age * MostLines + (2 * chatter + Cardinality(B)) \in Nat
    BY <2>1, <2>2, <2>3, RoomInWindow
  <2>7. /\ age * MostLines + (2 * chatter' + Cardinality(C)) \in Nat
        /\ age * MostLines + (2 * chatter' + Cardinality(C)) < InspectTail
    BY <2>1, <2>2, <2>3, RoomInWindow
  <2> QED
    BY <2>4, <2>5, <2>6, <2>7
<1>2. CASE log' = lines /\ since' = now
  <2>1. beaten[d] <= now
    BY DEF SignsPast
  <2>2. ~(beaten'[d] > since')
    BY <1>0, <1>2, <2>1
  <2> QED
    BY <2>2 DEF BeatIn
<1>3. ASSUME UNCHANGED <<since, stream>>
      PROVE  \E r \in Nat : Latest(d, r) /\ r <= LinesAfter(d)
  <2>1. BeatIn(d) /\ now - beaten[d] <= Window
    BY <1>3 DEF BeatIn
  <2> QED
    BY <2>1 DEF BeatFound
<1>4. CASE /\ UNCHANGED <<since, stream>>
           /\ log' \in Seq(Entry) /\ IsTail(log', log, lines, InspectTail)
  <2>1. PICK r \in Nat : Latest(d, r) /\ r <= LinesAfter(d)
    BY <1>3, <1>4
  <2>2. r + Len(lines) <= LinesAfter(d)' /\ r + Len(lines) < InspectTail
    BY <1>0, <1>1, <2>1
  <2>3. r + Len(lines) \in Nat /\ Latest(d, r + Len(lines))'
    BY <1>4, <2>1, <2>2, BeatBehind
  <2> QED
    BY <2>2, <2>3
<1>5. CASE UNCHANGED <<log, since, stream>>
  <2>1. PICK r \in Nat : Latest(d, r) /\ r <= LinesAfter(d)
    BY <1>3, <1>5
  <2>2. Latest(d, r)'
    BY <1>5, <2>1 DEF Latest
  <2>3. r <= LinesAfter(d)'
    BY <1>0, <1>1, <2>1
  <2> QED
    BY <2>2, <2>3
<1> QED
  BY <1>2, <1>4, <1>5, WriteCases

(***************************************************************************)
(* Busy daemons stay busy while time stands still.                         *)
(***************************************************************************)
LEMMA BusyGrows ==
    ASSUME IsFiniteSet(Daemons), NEW d \in Daemons, now' = now,
           \A e \in Daemons : \/ life'[e] = life[e] /\ beaten'[e] = beaten[e] /\ died'[e] = died[e]
                              \/ life[e] # "up" /\ life'[e] # "up" /\ died'[e] = died[e]
                              \/ e = d
                              \/ IF life'[e] = "up" THEN beaten'[e] = now ELSE died'[e] = now
    PROVE  /\ Cardinality(Busy(d)) \in Nat /\ Cardinality(Busy(d)') \in Nat
           /\ Cardinality(Busy(d)) <= Cardinality(Busy(d)')
           /\ \A e \in Busy(d)' : e \notin Busy(d) => Cardinality(Busy(d)) + 1 <= Cardinality(Busy(d)')
<1>1. PICK B, C : B = Busy(d) /\ C = Busy(d)'
  OBVIOUS
<1>2. B \subseteq C /\ C \subseteq Daemons
  BY <1>1 DEF Busy
<1>3. IsFiniteSet(C) /\ IsFiniteSet(B) /\ Cardinality(B) <= Cardinality(C)
  <2>1. IsFiniteSet(C)
    BY <1>2, FS_Subset
  <2> QED
    BY <1>2, <2>1, FS_Subset
<1>4. Cardinality(B) \in Nat /\ Cardinality(C) \in Nat
  BY <1>3, FS_CardinalityType
<1>5. ASSUME NEW e \in C, e \notin B PROVE Cardinality(B) + 1 <= Cardinality(C)
  <2>1. IsFiniteSet(B \cup {e}) /\ Cardinality(B \cup {e}) = Cardinality(B) + 1
    BY <1>3, <1>5, FS_AddElement
  <2>2. B \cup {e} \subseteq C
    BY <1>2, <1>5
  <2>3. Cardinality(B \cup {e}) <= Cardinality(C)
    BY <1>3, <2>2, FS_Subset
  <2> QED
    BY <2>1, <2>3
<1> QED
  BY <1>1, <1>3, <1>4, <1>5

(***************************************************************************)
(* k lines are counted by the chatter and the daemons that beat.           *)
(***************************************************************************)
LEMMA LinesCounted ==
    ASSUME NEW d \in Daemons, NEW k \in Nat, now' = now, beaten'[d] = beaten[d],
           now - beaten[d] \in Nat, MostLines \in Nat, chatter \in Nat, chatter' \in Nat,
           NEW b \in Nat, NEW c \in Nat, b = Cardinality(Busy(d)), c = Cardinality(Busy(d)'),
           2 * chatter' + c >= 2 * chatter + b + k
    PROVE  LinesAfter(d)' >= LinesAfter(d) + k
<1>1. PICK m : m = (now - beaten[d]) * MostLines
  OBVIOUS
<1>2. m \in Nat
  BY <1>1
<1>3. LinesAfter(d) = m + (2 * chatter + b)
  BY <1>1 DEF LinesAfter
<1>4. LinesAfter(d)' = m + (2 * chatter' + c)
  BY <1>1 DEF LinesAfter, MostLines
<1> QED
  BY <1>2, <1>3, <1>4

(***************************************************************************)
(* Every step keeps the heartbeats of the daemons that are up where the    *)
(* pages find them.                                                        *)
(***************************************************************************)
LEMMA NextFound ==
    ASSUME TailsSuffice, WatchTypeOK, SignsPast, BeatFound,
           WatchTypeOK', SignsPast', [WatchNext]_watchVars
    PROVE  BeatFound'
<1> SUFFICES ASSUME NEW d \in Daemons, life'[d] = "up", BeatIn(d)', now' - beaten'[d] <= Window
             PROVE  \E r \in Nat : Latest(d, r)' /\ r <= LinesAfter(d)'
  BY DEF BeatFound
<1>0. /\ now \in Nat /\ now' \in Nat /\ Daemons \subseteq Processes /\ d \in Processes
      /\ beaten \in [Daemons -> Nat] /\ beaten' \in [Daemons -> Nat] /\ died \in [Daemons -> Nat]
      /\ \A e \in Daemons : beaten[e] <= now /\ died[e] <= now /\ beaten'[e] <= now'
      /\ life \in [Processes -> {"down", "starting", "up"}]
      /\ stream \in [Processes -> {"current", "dated"}]
      /\ chatter \in 0..Chatter /\ chatter' \in 0..Chatter
      /\ Window \in Nat /\ Chatter \in Nat /\ BeatEvery \in Nat \ {0}
      /\ IsFiniteSet(Daemons)
  BY WatchAssumption DEF WatchTypeOK, SignsPast, Processes, TailsSuffice
<1>1. MostLines \in Nat /\ InspectTail > 0 /\ LinesAfter(d)' \in Nat
  <2>1. now' - beaten'[d] \in 0..Window
    BY <1>0
  <2>2. PICK age, C : age = now' - beaten'[d] /\ C = Busy(d)'
    OBVIOUS
  <2>3. C \subseteq Daemons \ {d}
    BY <2>2 DEF Busy
  <2>4. /\ MostLines \in Nat /\ MonitorTail <= InspectTail /\ MonitorTail \in Nat /\ InspectTail \in Nat
        /\ age * MostLines + (2 * chatter' + Cardinality(C)) \in Nat
        /\ age * MostLines + (2 * chatter' + Cardinality(C)) < MonitorTail
    BY <1>0, <2>1, <2>2, <2>3, RoomInWindow
  <2>5. LinesAfter(d)' = age * MostLines + (2 * chatter' + Cardinality(C))
    BY <2>2 DEF LinesAfter, MostLines
  <2> QED
    BY <2>4, <2>5
\* Nothing is written, and the lines allowed for do not become fewer.
<1>2. ASSUME UNCHANGED log, life[d] = "up", BeatIn(d), beaten'[d] = beaten[d], now' >= now,
             LinesAfter(d) \in Nat, LinesAfter(d) <= LinesAfter(d)'
      PROVE  \E r \in Nat : Latest(d, r)' /\ r <= LinesAfter(d)'
  <2>1. now - beaten[d] <= Window
    BY <1>0, <1>2
  <2>2. PICK r \in Nat : Latest(d, r) /\ r <= LinesAfter(d)
    BY <1>2, <2>1 DEF BeatFound
  <2>3. Latest(d, r)'
    BY <1>2, <2>2 DEF Latest
  <2> QED
    BY <1>1, <1>2, <2>2, <2>3
<1>3. ASSUME NEW e \in Daemons, StartDaemon(e)
      PROVE  \E r \in Nat : Latest(d, r)' /\ r <= LinesAfter(d)'
  <2>1. PICK lines : lines = <<Line("started", e), Line("heartbeat", e)>>
    OBVIOUS
  <2>2. /\ LogActivity(e, lines) /\ lines \in Seq(Entry) /\ Len(lines) = 2 /\ DOMAIN lines = 1..2
        /\ lines[2] = Line("heartbeat", e) /\ \A j \in 1..2 : lines[j].by = e
    BY <1>0, <1>3, <2>1, LinesTyped DEF StartDaemon, Line
  <2>3. /\ now' = now /\ life' = [life EXCEPT ![e] = "up"] /\ chatter' = chatter + 1
        /\ beaten' = [beaten EXCEPT ![e] = now] /\ died' = [died EXCEPT ![e] = 0]
    BY <1>3 DEF StartDaemon, Talk
  <2>4. CASE e = d
    <3>1. IsSign(lines[Len(lines)], d) /\ lines[Len(lines)].at = beaten'[d] /\ Len(lines) > 0
      BY <1>0, <2>2, <2>3, <2>4 DEF IsSign, Line
    <3>2. stream'[d] = "current"
      BY DEF BeatIn
    <3>3. Latest(d, 0)'
      BY <1>0, <1>1, <2>2, <2>4, <3>1, <3>2, BeatWritten
    <3> QED
      BY <1>1, <3>3
  <2>5. CASE e # d
    <3>1. life[d] = "up" /\ beaten'[d] = beaten[d]
      BY <1>0, <2>3, <2>5
    <3>2. \A j \in DOMAIN lines : ~IsSign(lines[j], d)
      BY <2>2, <2>5 DEF IsSign
    <3>3. \A f \in Daemons : \/ life'[f] = life[f] /\ beaten'[f] = beaten[f] /\ died'[f] = died[f]
                             \/ IF life'[f] = "up" THEN beaten'[f] = now ELSE died'[f] = now
      BY <1>0, <2>3
    <3>4. /\ Cardinality(Busy(d)) \in Nat /\ Cardinality(Busy(d)') \in Nat
          /\ Cardinality(Busy(d)) <= Cardinality(Busy(d)')
      BY <1>0, <2>3, <3>3, BusyGrows
    <3>5. LinesAfter(d)' >= LinesAfter(d) + Len(lines)
      <4>1. PICK b \in Nat, c \in Nat : b = Cardinality(Busy(d)) /\ c = Cardinality(Busy(d)') /\ b <= c
        BY <3>4
      <4>2. 2 * chatter' + c >= 2 * chatter + b + 2 /\ chatter \in Nat /\ chatter' \in Nat
        BY <1>0, <2>3, <4>1
      <4>3. now - beaten[d] \in Nat
        BY <1>0
      <4> QED
        BY <1>1, <2>2, <2>3, <3>1, <4>1, <4>2, <4>3, LinesCounted
    <3> QED
      BY <1>0, <2>2, <2>3, <3>1, <3>2, <3>5, WriteKeepsBeat
  <2> QED
    BY <2>4, <2>5
<1>4. ASSUME NEW e \in Daemons, Heartbeat(e)
      PROVE  \E r \in Nat : Latest(d, r)' /\ r <= LinesAfter(d)'
  <2>1. PICK lines : lines = <<Line("heartbeat", e)>>
    OBVIOUS
  <2>2. /\ LogActivity(e, lines) /\ lines \in Seq(Entry) /\ Len(lines) = 1 /\ DOMAIN lines = 1..1
        /\ lines[1] = Line("heartbeat", e)
    BY <1>0, <1>4, <2>1, LinesTyped DEF Heartbeat, Events
  <2>3. /\ now' = now /\ life' = life /\ died' = died /\ chatter' = chatter
        /\ beaten' = [beaten EXCEPT ![e] = now]
        /\ life[e] = "up" /\ now >= beaten[e] + BeatEvery
    BY <1>4 DEF Heartbeat
  <2>4. CASE e = d
    <3>1. IsSign(lines[Len(lines)], d) /\ lines[Len(lines)].at = beaten'[d] /\ Len(lines) > 0
      BY <1>0, <2>2, <2>3, <2>4 DEF IsSign, Line
    <3>2. stream'[d] = "current"
      BY DEF BeatIn
    <3>3. Latest(d, 0)'
      BY <1>0, <1>1, <2>2, <2>4, <3>1, <3>2, BeatWritten
    <3> QED
      BY <1>1, <3>3
  <2>5. CASE e # d
    <3>1. life[d] = "up" /\ beaten'[d] = beaten[d]
      BY <1>0, <2>3, <2>5
    <3>2. \A j \in DOMAIN lines : ~IsSign(lines[j], d)
      BY <2>2, <2>5 DEF IsSign, Line
    <3>3. \A f \in Daemons : \/ life'[f] = life[f] /\ beaten'[f] = beaten[f] /\ died'[f] = died[f]
                             \/ IF life'[f] = "up" THEN beaten'[f] = now ELSE died'[f] = now
      BY <1>0, <2>3
    <3>4. e \in Busy(d)' /\ e \notin Busy(d)
      BY <1>0, <2>3, <2>5 DEF Busy
    <3>5. /\ Cardinality(Busy(d)) \in Nat /\ Cardinality(Busy(d)') \in Nat
          /\ Cardinality(Busy(d)) + 1 <= Cardinality(Busy(d)')
      BY <1>0, <2>3, <3>3, <3>4, BusyGrows
    <3>6. LinesAfter(d)' >= LinesAfter(d) + Len(lines)
      <4>1. PICK b \in Nat, c \in Nat : b = Cardinality(Busy(d)) /\ c = Cardinality(Busy(d)') /\ b + 1 <= c
        BY <3>5
      <4>2. 2 * chatter' + c >= 2 * chatter + b + 1 /\ chatter \in Nat /\ chatter' \in Nat
        BY <1>0, <2>3, <4>1
      <4>3. now - beaten[d] \in Nat
        BY <1>0
      <4> QED
        BY <1>1, <2>2, <2>3, <3>1, <4>1, <4>2, <4>3, LinesCounted
    <3> QED
      BY <1>0, <2>2, <2>3, <3>1, <3>2, <3>6, WriteKeepsBeat
  <2> QED
    BY <2>4, <2>5
<1>5. ASSUME NEW p \in Processes, Says(p)
      PROVE  \E r \in Nat : Latest(d, r)' /\ r <= LinesAfter(d)'
  <2>1. PICK e \in Events \ {"started", "heartbeat"} :
           /\ Talk /\ LogActivity(p, <<Line(e, p)>>)
           /\ UNCHANGED <<now, life, beaten, died>>
    BY <1>5 DEF Says
  <2>2. PICK lines : lines = <<Line(e, p)>>
    OBVIOUS
  <2>3. /\ LogActivity(p, lines) /\ lines \in Seq(Entry) /\ Len(lines) = 1 /\ DOMAIN lines = 1..1
        /\ lines[1] = Line(e, p)
    BY <1>0, <2>1, <2>2, LinesTyped
  <2>4. \A j \in DOMAIN lines : ~IsSign(lines[j], d)
    BY <2>1, <2>3 DEF IsSign, Line
  <2>5. life[d] = "up" /\ beaten'[d] = beaten[d] /\ now' = now /\ chatter' = chatter + 1
    BY <2>1 DEF Talk
  <2>6. /\ Cardinality(Busy(d)) \in Nat /\ Cardinality(Busy(d)') \in Nat
        /\ Cardinality(Busy(d)) <= Cardinality(Busy(d)')
    BY <1>0, <2>1, BusyGrows
  <2>7. LinesAfter(d)' >= LinesAfter(d) + Len(lines)
    <3>1. PICK b \in Nat, c \in Nat : b = Cardinality(Busy(d)) /\ c = Cardinality(Busy(d)') /\ b <= c
      BY <2>6
    <3>2. 2 * chatter' + c >= 2 * chatter + b + 1 /\ chatter \in Nat /\ chatter' \in Nat
      BY <1>0, <2>5, <3>1
    <3>3. now - beaten[d] \in Nat
      BY <1>0
    <3> QED
      BY <1>1, <2>3, <2>5, <3>1, <3>2, <3>3, LinesCounted
  <2> QED
    BY <1>0, <2>3, <2>4, <2>5, <2>7, WriteKeepsBeat
\* The others come and go.
<1>6. ASSUME now' = now, UNCHANGED <<log, chatter>>,
             life[d] = "up", beaten'[d] = beaten[d], BeatIn(d),
             \A e \in Daemons : \/ life'[e] = life[e] /\ beaten'[e] = beaten[e] /\ died'[e] = died[e]
                                \/ life[e] # "up" /\ life'[e] # "up" /\ died'[e] = died[e]
                                \/ IF life'[e] = "up" THEN beaten'[e] = now ELSE died'[e] = now
      PROVE  \E r \in Nat : Latest(d, r)' /\ r <= LinesAfter(d)'
  <2>1. /\ Cardinality(Busy(d)) \in Nat /\ Cardinality(Busy(d)') \in Nat
        /\ Cardinality(Busy(d)) <= Cardinality(Busy(d)')
    BY <1>0, <1>6, BusyGrows
  <2>2. PICK b \in Nat, c \in Nat : b = Cardinality(Busy(d)) /\ c = Cardinality(Busy(d)') /\ b <= c
    BY <2>1
  <2>3. 2 * chatter' + c >= 2 * chatter + b + 0 /\ chatter \in Nat /\ chatter' \in Nat
    BY <1>0, <1>6, <2>2
  <2>4. now - beaten[d] \in Nat
    BY <1>0
  <2>5. LinesAfter(d)' >= LinesAfter(d) + 0
    BY <1>1, <1>6, <2>2, <2>3, <2>4, LinesCounted
  <2>6. LinesAfter(d) \in Nat
    <3>1. PICK m \in Nat : m = (now - beaten[d]) * MostLines
      BY <1>1, <2>4
    <3>2. LinesAfter(d) = m + (2 * chatter + b)
      BY <2>2, <3>1 DEF LinesAfter
    <3> QED
      BY <2>2, <2>3, <3>2
  <2>7. LinesAfter(d) <= LinesAfter(d)'
    BY <1>1, <2>5, <2>6
  <2> QED
    BY <1>0, <1>2, <1>6, <2>6, <2>7
<1>7. ASSUME NEW p \in Processes, SetupLogging(p)
      PROVE  \E r \in Nat : Latest(d, r)' /\ r <= LinesAfter(d)'
  <2>1. /\ UNCHANGED <<now, log, since, beaten, died, chatter>> /\ life[p] = "down"
        /\ life' = [life EXCEPT ![p] = IF p \in Daemons THEN "starting" ELSE "up"]
        /\ stream' = [stream EXCEPT ![p] = "current"]
    BY <1>7 DEF SetupLogging
  <2>2. p # d
    BY <1>0, <2>1
  <2>3. life[d] = "up" /\ BeatIn(d)
    BY <1>0, <2>1, <2>2 DEF BeatIn
  <2>4. \A e \in Daemons : life'[e] = life[e] \/ (life[e] # "up" /\ life'[e] # "up")
    BY <1>0, <2>1
  <2> QED
    BY <1>6, <2>1, <2>3, <2>4
<1>8. ASSUME NEW p \in Processes, ProcessDies(p)
      PROVE  \E r \in Nat : Latest(d, r)' /\ r <= LinesAfter(d)'
  <2>1. /\ UNCHANGED <<now, log, since, chatter>>
        /\ life' = [life EXCEPT ![p] = "down"] /\ stream' = [stream EXCEPT ![p] = "dated"]
        /\ \A e \in Daemons : /\ died'[e] = IF e = p THEN now ELSE died[e]
                              /\ e # p => beaten'[e] = beaten[e]
    BY <1>0, <1>8 DEF ProcessDies
  <2>2. p # d
    BY <1>0, <2>1
  <2>3. life[d] = "up" /\ BeatIn(d) /\ beaten'[d] = beaten[d]
    BY <1>0, <2>1, <2>2 DEF BeatIn
  <2>4. \A e \in Daemons : \/ life'[e] = life[e] /\ beaten'[e] = beaten[e] /\ died'[e] = died[e]
                           \/ IF life'[e] = "up" THEN beaten'[e] = now ELSE died'[e] = now
    BY <1>0, <2>1
  <2> QED
    BY <1>6, <2>1, <2>3, <2>4
<1>9. CASE Rests
  <2>1. UNCHANGED <<now, log, since, stream, life, beaten, died, chatter>>
    BY <1>9 DEF Rests, logVars
  <2>2. BeatIn(d)
    BY <2>1 DEF BeatIn
  <2> QED
    BY <1>6, <2>1, <2>2
\* Time passes: nobody is busy, and the lines of the last unit are counted.
<1>10. CASE WatchTick
  <2>1. UNCHANGED <<log, since, stream, life, beaten, died>> /\ now' = now + 1 /\ chatter' = 0
    BY <1>10 DEF WatchTick, logVars
  <2>2. Busy(d)' = {}
    BY <1>0, <2>1 DEF Busy
  <2>3. BeatIn(d)
    BY <2>1 DEF BeatIn
  <2>4. PICK age, B : age = now - beaten[d] /\ B = Busy(d)
    OBVIOUS
  <2>5. age \in 0..Window /\ B \subseteq Daemons \ {d}
    <3>1. age \in 0..Window
      BY <1>0, <2>1, <2>4
    <3> QED
      BY <2>4, <3>1 DEF Busy
  <2>6. /\ 2 * chatter + Cardinality(B) <= MostLines
        /\ age * MostLines + (2 * chatter + Cardinality(B)) \in Nat /\ Cardinality(B) \in Nat
    BY <1>0, <2>5, RoomInWindow
  <2>7. LinesAfter(d) = age * MostLines + (2 * chatter + Cardinality(B))
    BY <2>4 DEF LinesAfter
  <2>8. LinesAfter(d)' = (age + 1) * MostLines
    <3>1. now' - beaten'[d] = age + 1
      BY <1>0, <2>1, <2>4
    <3>2. LinesAfter(d)' = (age + 1) * MostLines + (2 * 0 + Cardinality({}))
      BY <2>1, <2>2, <3>1 DEF LinesAfter, MostLines
    <3>3. (age + 1) * MostLines \in Nat
      BY <1>1, <2>5, <1>0
    <3> QED
      BY <3>2, <3>3, FS_EmptySet
  <2>9. (age + 1) * MostLines = age * MostLines + MostLines /\ age * MostLines \in Nat
    BY <1>0, <1>1, <2>5
  <2>10. LinesAfter(d) \in Nat /\ LinesAfter(d) <= LinesAfter(d)'
    BY <1>0, <1>1, <2>6, <2>7, <2>8, <2>9
  <2>11. life[d] = "up" /\ beaten'[d] = beaten[d] /\ now' >= now
    BY <1>0, <2>1
  <2> QED
    BY <1>2, <2>1, <2>3, <2>10, <2>11
<1> QED
  BY <1>3, <1>4, <1>5, <1>7, <1>8, <1>9, <1>10, StepKinds

(***************************************************************************)
(* A heartbeat within the window that few enough lines follow is found.    *)
(***************************************************************************)
LEMMA LiveShown ==
    ASSUME WatchTypeOK, NEW d \in Daemons, NEW n \in Nat,
           NEW r \in Nat, Latest(d, r), r < n, now - beaten[d] <= Window
    PROVE  DaemonShown(d, n) = "running"
<1>1. log \in Seq(Entry) /\ Len(log) \in Nat /\ DOMAIN log = 1..Len(log)
  BY LenProperties DEF WatchTypeOK
<1>2. PICK t : t = Recent(n)
  OBVIOUS
<1>3. t = LastLines(log, n)
  BY <1>2 DEF Recent
<1>4. /\ Len(t) \in Nat /\ DOMAIN t = 1..Len(t)
      /\ Len(t) = IF Len(log) > n THEN n ELSE Len(log)
  BY <1>1, <1>3, LastLinesPositions
<1>5. IsEnd(t, log)
  BY <1>1, <1>3, LastLinesPositions
<1>6. r < Len(log) /\ r < Len(t) /\ Len(t) <= Len(log)
  BY <1>1, <1>4 DEF Latest
<1>7. PICK k \in 1..Len(t) : k = Len(t) - r /\ k + (Len(log) - Len(t)) = Len(log) - r
  <2>1. Len(t) - r \in 1..Len(t) /\ (Len(t) - r) + (Len(log) - Len(t)) = Len(log) - r
    BY <1>1, <1>4, <1>6
  <2> QED
    BY <2>1
<1>8. t[k] = log[Len(log) - r]
  BY <1>5, <1>7 DEF IsEnd
<1>9. k \in Signs(d, n) /\ t[k].at = beaten[d]
  <2>1. IsSign(t[k], d) /\ t[k].at = beaten[d] /\ k \in DOMAIN t
    BY <1>4, <1>7, <1>8 DEF Latest
  <2> QED
    BY <1>2, <2>1 DEF Signs, IsSign
<1>10. ASSUME NEW j \in Signs(d, n), j > k PROVE FALSE
  <2>1. j \in 1..Len(t) /\ IsSign(t[j], d)
    BY <1>2, <1>4 DEF Signs, IsSign
  <2>2. /\ j + (Len(log) - Len(t)) \in DOMAIN log
        /\ j + (Len(log) - Len(t)) > Len(log) - r
    <3>1. PICK l \in Nat, m \in Nat : l = Len(log) /\ m = Len(t) /\ m <= l
      BY <1>1, <1>4, <1>6
    <3>2. j \in 1..m /\ j > k /\ k \in 1..m /\ k + (l - m) = l - r
      BY <1>7, <1>10, <2>1, <3>1
    <3>3. j + (l - m) \in 1..l /\ j + (l - m) > l - r
      BY <3>1, <3>2
    <3> QED
      BY <1>1, <3>1, <3>3
  <2>3. t[j] = log[j + (Len(log) - Len(t))]
    BY <1>5, <2>1 DEF IsEnd
  <2> QED
    BY <2>1, <2>2, <2>3 DEF Latest
<1>11. PICK i \in Signs(d, n) :
          /\ \A j \in Signs(d, n) : j <= i
          /\ DaemonShown(d, n) = IF now - t[i].at > Window THEN "stale" ELSE "running"
  BY <1>2, <1>9, StatusOfLast
<1>12. i = k
  <2>1. k <= i /\ i \in 1..Len(t) /\ ~(i > k)
    BY <1>2, <1>4, <1>9, <1>10, <1>11 DEF Signs
  <2> QED
    BY <1>4, <1>7, <2>1
<1>13. ~(now - beaten[d] > Window)
  <2>1. now \in Nat /\ beaten[d] \in Nat /\ Window \in Nat
    BY WatchAssumption DEF WatchTypeOK
  <2> QED
    BY <2>1
<1> QED
  BY <1>9, <1>11, <1>12, <1>13

WatchInv == WatchTypeOK /\ SignsPast /\ BeatFound

(***************************************************************************)
(* For any finite number of daemons, any number of other processes and     *)
(* every setting, a page shows a daemon running only if it was up within   *)
(* the window; and it does show one that is up, writes to the current file *)
(* and left a heartbeat within the window since that file was opened,      *)
(* however the handlers of the others roll over, if the page reads more    *)
(* lines than can follow one (TailsSuffice).                               *)
(***************************************************************************)
THEOREM DaemonsTrue ==
    ASSUME TailsSuffice
    PROVE  WatchSpec => []DaemonsShownTruly
<1>1. ASSUME WatchInit PROVE WatchInv
  <2>1. WatchTypeOK
    BY <1>1, InitTyped
  <2>2. DOMAIN log = {}
    BY <1>1 DEF WatchInit
  <2>3. SignsPast /\ BeatFound
    BY <1>1, <2>2 DEF WatchInit, SignsPast, BeatFound, Processes
  <2> QED
    BY <2>1, <2>3 DEF WatchInv
<1>2. WatchInv /\ [WatchNext]_watchVars => WatchInv'
  <2> SUFFICES ASSUME WatchInv, [WatchNext]_watchVars PROVE WatchInv'
    OBVIOUS
  <2>1. WatchTypeOK' /\ SignsPast'
    BY NextTyped, NextSigns DEF WatchInv
  <2>2. BeatFound'
    BY <2>1, NextFound DEF WatchInv
  <2> QED
    BY <2>1, <2>2 DEF WatchInv
<1>3. ASSUME WatchInv PROVE DaemonsShownTruly
  <2> SUFFICES ASSUME NEW d \in Daemons, NEW n \in {MonitorTail, InspectTail}
               PROVE  /\ life[d] = "down" /\ now - died[d] > Window => DaemonShown(d, n) # "running"
                      /\ life[d] = "up" /\ BeatIn(d) /\ now - beaten[d] <= Window =>
                            DaemonShown(d, n) = "running"
    BY DEF DaemonsShownTruly
  <2>0. /\ n \in Nat /\ n >= MonitorTail /\ now \in Nat /\ died[d] \in Nat /\ beaten[d] \in Nat
        /\ beaten[d] <= now /\ chatter \in 0..Chatter /\ Window \in Nat /\ MonitorTail \in Nat
    BY <1>3, WatchAssumption DEF WatchInv, WatchTypeOK, SignsPast
  <2>1. life[d] = "down" /\ now - died[d] > Window => DaemonShown(d, n) # "running"
    <3>1. DaemonShown(d, n) = "running" => life[d] = "up" \/ now - died[d] <= Window
      BY <1>3, <2>0, DeadNotShown DEF WatchInv
    <3> QED
      BY <2>0, <3>1
  <2>2. ASSUME life[d] = "up", BeatIn(d), now - beaten[d] <= Window
        PROVE  DaemonShown(d, n) = "running"
    <3>1. PICK r \in Nat : Latest(d, r) /\ r <= LinesAfter(d)
      BY <1>3, <2>2 DEF WatchInv, BeatFound
    <3>2. PICK age, B : age = now - beaten[d] /\ B = Busy(d)
      OBVIOUS
    <3>3. age \in 0..Window /\ B \subseteq Daemons \ {d}
      <4>1. age \in 0..Window
        BY <2>0, <2>2, <3>2
      <4> QED
        BY <3>2, <4>1 DEF Busy
    <3>4. /\ age * MostLines + (2 * chatter + Cardinality(B)) \in Nat
          /\ age * MostLines + (2 * chatter + Cardinality(B)) < MonitorTail
      BY <2>0, <3>3, RoomInWindow
    <3>5. LinesAfter(d) = age * MostLines + (2 * chatter + Cardinality(B))
      BY <3>2 DEF LinesAfter
    <3>6. r < n
      BY <2>0, <3>1, <3>4, <3>5
    <3> QED
      BY <1>3, <2>2, <3>1, <3>6, <2>0, LiveShown DEF WatchInv
  <2> QED
    BY <2>1, <2>2
<1> QED
  BY <1>1, <1>2, <1>3, PTL DEF WatchSpec

----------------------------------------------------------------------------
(***************************************************************************)
(* How far a check is, and what it may have left by then.                  *)
(***************************************************************************)
QueueStage ==
    \/ calls = <<"push", "move", "remove">> /\ traces = {}
    \/ calls = <<"move", "remove">> /\ traces \subseteq {"ready"}
    \/ calls = <<"remove">> /\ traces \subseteq {"processing"}
    \/ calls = <<"remove">> /\ doubt
    \/ calls = <<>> /\ (traces = {} \/ doubt)

\* release() goes on after an error, and then the look finds the lock.
LockStage ==
    \/ calls = <<"acquire", "release", "look">> /\ traces = {}
    \/ calls = <<"release", "look">> /\ traces \subseteq {"lock"}
    \/ calls = <<"look">> /\ traces \subseteq {"lock"}
    \/ calls = <<>> /\ (traces = {} \/ doubt)

MetadataStage ==
    \/ calls = <<"set key", "add id", "get", "list", "delete key", "delete id", "get again">> /\ traces = {}
    \/ calls = <<"add id", "get", "list", "delete key", "delete id", "get again">> /\ traces \subseteq {"key"}
    \/ calls = <<"get", "list", "delete key", "delete id", "get again">> /\ traces \subseteq {"key", "id"}
    \/ calls = <<"list", "delete key", "delete id", "get again">> /\ traces \subseteq {"key", "id"}
    \/ calls = <<"delete key", "delete id", "get again">> /\ traces \subseteq {"key", "id"}
    \/ calls = <<"delete id", "get again">> /\ traces \subseteq {"id"}
    \/ calls = <<"get again">> /\ traces = {}
    \/ calls = <<>> /\ traces = {}

Stage ==
    CASE check = "queue"    -> QueueStage
      [] check = "lock"     -> LockStage
      [] check = "metadata" -> MetadataStage
      [] check = "mongo"    -> calls \in {<<"ping">>, <<>>} /\ traces = {}
      [] check = "llm"      -> calls \in {<<"ask">>, <<>>} /\ traces = {}

\* A check that runs is at one of its stages, or a call of it has raised.
ProbeInv ==
    /\ check \in {"queue", "lock", "metadata", "mongo", "llm"}
    /\ doubt \in BOOLEAN /\ raised \in BOOLEAN /\ uncleared \in BOOLEAN
    /\ entry \in {"none", "checking", "not configured", "failed", "working"}
    /\ entry # "checking" => calls = <<>>
    /\ entry = "checking" => \/ raised /\ calls = <<>> /\ (check \in {"mongo", "llm"} => traces = {})
                             \/ ~raised /\ Stage
    /\ ChecksLeaveNothing

LEMMA ProbeBegins == ASSUME ProbeInv, NEW c \in Checks, BeginCheck(c) PROVE ProbeInv'
<1>1. c \in {"queue", "lock", "metadata", "mongo", "llm"}
  BY DEF Checks, Calls
<1>2. /\ check' = c /\ traces' = {} /\ doubt' = FALSE /\ raised' = FALSE /\ uncleared' = FALSE
  BY DEF BeginCheck
<1>3. CASE entry' = "not configured" /\ calls' = <<>>
  BY <1>1, <1>2, <1>3 DEF ProbeInv, ChecksLeaveNothing
<1>4. CASE entry' = "checking" /\ calls' = Calls[c]
  <2>1. calls' = CASE c = "queue" -> QueueCalls [] c = "lock" -> LockCalls [] c = "metadata" -> MetadataCalls
                   [] c = "mongo" -> MongoCalls [] c = "llm" -> LlmCalls
    BY <1>1, <1>4 DEF Calls
  <2>2. c = "queue" => Stage'
    BY <1>2, <2>1 DEF Stage, QueueStage, QueueCalls
  <2>3. c = "lock" => Stage'
    BY <1>2, <2>1 DEF Stage, LockStage, LockCalls
  <2>4. c = "metadata" => Stage'
    BY <1>2, <2>1 DEF Stage, MetadataStage, MetadataCalls
  <2>5. c \in {"mongo", "llm"} => Stage'
    BY <1>2, <2>1 DEF Stage, MongoCalls, LlmCalls
  <2>6. Stage'
    BY <1>1, <2>2, <2>3, <2>4, <2>5
  <2> QED
    BY <1>1, <1>2, <1>4, <2>6 DEF ProbeInv, ChecksLeaveNothing
<1> QED
  BY <1>3, <1>4 DEF BeginCheck

First(list) == Head(list)

Rest(list) == Tail(list)

(***************************************************************************)
(* The first of some calls, and the rest.                                  *)
(***************************************************************************)
LEMMA NextCall ==
    /\ \A a : First(<<a>>) = a /\ Rest(<<a>>) = <<>>
    /\ \A a, b : First(<<a, b>>) = a /\ Rest(<<a, b>>) = <<b>>
    /\ \A a, b, c : First(<<a, b, c>>) = a /\ Rest(<<a, b, c>>) = <<b, c>>
    /\ \A a, b, c, d : First(<<a, b, c, d>>) = a /\ Rest(<<a, b, c, d>>) = <<b, c, d>>
    /\ \A a, b, c, d, e : First(<<a, b, c, d, e>>) = a /\ Rest(<<a, b, c, d, e>>) = <<b, c, d, e>>
    /\ \A a, b, c, d, e, f : First(<<a, b, c, d, e, f>>) = a /\ Rest(<<a, b, c, d, e, f>>) = <<b, c, d, e, f>>
    /\ \A a, b, c, d, e, f, g : First(<<a, b, c, d, e, f, g>>) = a /\ Rest(<<a, b, c, d, e, f, g>>) = <<b, c, d, e, f, g>>
BY DEF First, Rest

(***************************************************************************)
(* The next call of a check, and the rest.                                 *)
(***************************************************************************)
LEMMA StageStep ==
    ASSUME check \in {"queue", "lock", "metadata", "mongo", "llm"}, doubt \in BOOLEAN,
           Stage, calls # <<>>, calls' = Tail(calls), check' = check,
           \/ traces' = Effect(Head(calls)) /\ doubt' = (doubt \/ ~Expected(Head(calls)))
           \/ Head(calls) = "release" /\ traces' \in {traces, Effect(Head(calls))} /\ doubt' = doubt
    PROVE  Stage'
<1>1. CASE check = "queue"
  <2>1. QueueStage
    BY <1>1 DEF Stage
  <2>2. QueueStage'
    <3>1. CASE calls = <<"push", "move", "remove">> /\ traces = {}
      <4>1. First(calls) = "push" /\ Rest(calls) = <<"move", "remove">>
        BY <3>1, NextCall
      <4> QED
        BY <3>1, <4>1 DEF QueueStage, Effect, First, Rest, Expected
    <3>2. CASE calls = <<"move", "remove">> /\ traces \subseteq {"ready"}
      <4>1. First(calls) = "move" /\ Rest(calls) = <<"remove">>
        BY <3>2, NextCall
      <4> QED
        BY <3>2, <4>1 DEF QueueStage, Effect, First, Rest, Expected
    <3>3. CASE calls = <<"remove">> /\ traces \subseteq {"processing"}
      <4>1. First(calls) = "remove" /\ Rest(calls) = <<>>
        BY <3>3, NextCall
      <4> QED
        BY <3>3, <4>1 DEF QueueStage, Effect, First, Rest, Expected
    <3>4. CASE calls = <<"remove">> /\ doubt
      <4>1. First(calls) = "remove" /\ Rest(calls) = <<>>
        BY <3>4, NextCall
      <4> QED
        BY <3>4, <4>1 DEF QueueStage, Effect, First, Rest, Expected
    <3> QED
      BY <2>1, <3>1, <3>2, <3>3, <3>4 DEF QueueStage
  <2> QED
    BY <1>1, <2>2 DEF Stage
<1>2. CASE check = "lock"
  <2>1. LockStage
    BY <1>2 DEF Stage
  <2>2. LockStage'
    <3>1. CASE calls = <<"acquire", "release", "look">> /\ traces = {}
      <4>1. First(calls) = "acquire" /\ Rest(calls) = <<"release", "look">>
        BY <3>1, NextCall
      <4> QED
        BY <3>1, <4>1 DEF LockStage, Effect, First, Rest, Expected
    <3>2. CASE calls = <<"release", "look">> /\ traces \subseteq {"lock"}
      <4>1. First(calls) = "release" /\ Rest(calls) = <<"look">>
        BY <3>2, NextCall
      <4> QED
        BY <3>2, <4>1 DEF LockStage, Effect, First, Rest, Expected
    <3>3. CASE calls = <<"look">> /\ traces \subseteq {"lock"}
      <4>1. First(calls) = "look" /\ Rest(calls) = <<>>
        BY <3>3, NextCall
      <4> QED
        BY <3>3, <4>1 DEF LockStage, Effect, First, Rest, Expected
    <3> QED
      BY <2>1, <3>1, <3>2, <3>3 DEF LockStage
  <2> QED
    BY <1>2, <2>2 DEF Stage
<1>3. CASE check = "metadata"
  <2>1. MetadataStage
    BY <1>3 DEF Stage
  <2>2. MetadataStage'
    <3> DEFINE k1 == "set key"
               k2 == "add id"
               k3 == "get"
               k4 == "list"
               k5 == "delete key"
               k6 == "delete id"
               k7 == "get again"
    <3>1. CASE calls = <<"set key", "add id", "get", "list", "delete key", "delete id", "get again">> /\ traces = {}
      <4>1. First(<<k1, k2, k3, k4, k5, k6, k7>>) = k1 /\ Rest(<<k1, k2, k3, k4, k5, k6, k7>>) = <<k2, k3, k4, k5, k6, k7>>
        <5> HIDE DEF k1, k2, k3, k4, k5, k6, k7
        <5> QED
          BY NextCall
      <4>2. First(calls) = k1 /\ Rest(calls) = <<k2, k3, k4, k5, k6, k7>>
        BY <3>1, <4>1
      <4> QED
        BY <3>1, <4>2 DEF MetadataStage, Effect, First, Rest
    <3>2. CASE calls = <<"add id", "get", "list", "delete key", "delete id", "get again">> /\ traces \subseteq {"key"}
      <4>1. First(<<k2, k3, k4, k5, k6, k7>>) = k2 /\ Rest(<<k2, k3, k4, k5, k6, k7>>) = <<k3, k4, k5, k6, k7>>
        <5> HIDE DEF k2, k3, k4, k5, k6, k7
        <5> QED
          BY NextCall
      <4>2. First(calls) = k2 /\ Rest(calls) = <<k3, k4, k5, k6, k7>>
        BY <3>2, <4>1
      <4> QED
        BY <3>2, <4>2 DEF MetadataStage, Effect, First, Rest
    <3>3. CASE calls = <<"get", "list", "delete key", "delete id", "get again">> /\ traces \subseteq {"key", "id"}
      <4>1. First(<<k3, k4, k5, k6, k7>>) = k3 /\ Rest(<<k3, k4, k5, k6, k7>>) = <<k4, k5, k6, k7>>
        <5> HIDE DEF k3, k4, k5, k6, k7
        <5> QED
          BY NextCall
      <4>2. First(calls) = k3 /\ Rest(calls) = <<k4, k5, k6, k7>>
        BY <3>3, <4>1
      <4> QED
        BY <3>3, <4>2 DEF MetadataStage, Effect, First, Rest
    <3>4. CASE calls = <<"list", "delete key", "delete id", "get again">> /\ traces \subseteq {"key", "id"}
      <4>1. First(<<k4, k5, k6, k7>>) = k4 /\ Rest(<<k4, k5, k6, k7>>) = <<k5, k6, k7>>
        <5> HIDE DEF k4, k5, k6, k7
        <5> QED
          BY NextCall
      <4>2. First(calls) = k4 /\ Rest(calls) = <<k5, k6, k7>>
        BY <3>4, <4>1
      <4> QED
        BY <3>4, <4>2 DEF MetadataStage, Effect, First, Rest
    <3>5. CASE calls = <<"delete key", "delete id", "get again">> /\ traces \subseteq {"key", "id"}
      <4>1. First(<<k5, k6, k7>>) = k5 /\ Rest(<<k5, k6, k7>>) = <<k6, k7>>
        <5> HIDE DEF k5, k6, k7
        <5> QED
          BY NextCall
      <4>2. First(calls) = k5 /\ Rest(calls) = <<k6, k7>>
        BY <3>5, <4>1
      <4> QED
        BY <3>5, <4>2 DEF MetadataStage, Effect, First, Rest
    <3>6. CASE calls = <<"delete id", "get again">> /\ traces \subseteq {"id"}
      <4>1. First(<<k6, k7>>) = k6 /\ Rest(<<k6, k7>>) = <<k7>>
        <5> HIDE DEF k6, k7
        <5> QED
          BY NextCall
      <4>2. First(calls) = k6 /\ Rest(calls) = <<k7>>
        BY <3>6, <4>1
      <4> QED
        BY <3>6, <4>2 DEF MetadataStage, Effect, First, Rest
    <3>7. CASE calls = <<"get again">> /\ traces = {}
      <4>1. First(<<k7>>) = k7 /\ Rest(<<k7>>) = <<>>
        <5> HIDE DEF k7
        <5> QED
          BY NextCall
      <4>2. First(calls) = k7 /\ Rest(calls) = <<>>
        BY <3>7, <4>1
      <4> QED
        BY <3>7, <4>2 DEF MetadataStage, Effect, First, Rest
    <3> QED
      BY <2>1, <3>1, <3>2, <3>3, <3>4, <3>5, <3>6, <3>7 DEF MetadataStage
  <2> QED
    BY <1>3, <2>2 DEF Stage
<1>4. CASE check = "mongo"
  <2>1. calls = <<"ping">> /\ traces = {}
    BY <1>4 DEF Stage
  <2>2. Head(calls) = "ping" /\ Tail(calls) = <<>>
    BY <2>1
  <2> QED
    BY <1>4, <2>1, <2>2 DEF Stage, Effect
<1>5. CASE check = "llm"
  <2>1. calls = <<"ask">> /\ traces = {}
    BY <1>5 DEF Stage
  <2>2. Head(calls) = "ask" /\ Tail(calls) = <<>>
    BY <2>1
  <2> QED
    BY <1>5, <2>1, <2>2 DEF Stage, Effect
<1> QED
  BY <1>1, <1>2, <1>3, <1>4, <1>5

LEMMA ProbeCalls == ASSUME ProbeInv, Answered \/ CallRaises PROVE ProbeInv'
<1>1. /\ calls # <<>> /\ check' = check /\ uncleared' = uncleared /\ entry' = entry
      /\ entry = "checking" /\ ~raised /\ Stage
  BY DEF Answered, CallRaises, ProbeInv
<1>2. CASE Answered
  <2>1. Stage'
    BY <1>1, <1>2, StageStep DEF Answered, ProbeInv
  <2> QED
    BY <1>1, <1>2, <2>1 DEF Answered, ProbeInv, ChecksLeaveNothing
<1>3. CASE CallRaises /\ Head(calls) = "release" /\ calls' = Tail(calls) /\ raised' = raised
  <2>1. Stage'
    BY <1>1, <1>3, StageStep DEF CallRaises, ProbeInv
  <2> QED
    BY <1>1, <1>3, <2>1 DEF CallRaises, ProbeInv, ChecksLeaveNothing
<1>4. CASE CallRaises /\ calls' = <<>> /\ raised' = TRUE
  <2>1. check \in {"mongo", "llm"} => traces' = {}
    <3>1. check \in {"mongo", "llm"} => calls \in {<<"ping">>, <<"ask">>} /\ traces = {}
      BY <1>1 DEF Stage
    <3>2. Head(<<"ping">>) = "ping" /\ Head(<<"ask">>) = "ask"
      OBVIOUS
    <3>3. traces' \in {traces, Effect(Head(calls))}
      BY <1>4 DEF CallRaises
    <3>4. check \in {"mongo", "llm"} => Effect(Head(calls)) = traces
      BY <3>1, <3>2 DEF Effect
    <3> QED
      BY <3>1, <3>3, <3>4
  <2> QED
    BY <1>1, <1>4, <2>1 DEF CallRaises, ProbeInv, ChecksLeaveNothing
<1> QED
  BY <1>2, <1>3, <1>4 DEF CallRaises

LEMMA ProbeEnds == ASSUME ProbeInv, EndCheck PROVE ProbeInv'
<1>1. /\ entry = "checking" /\ calls = <<>> /\ calls' = <<>> /\ check' = check
      /\ doubt' = doubt /\ raised' = raised
      /\ entry' = IF raised \/ doubt THEN "failed" ELSE "working"
  BY DEF EndCheck
<1>2. uncleared' \in BOOLEAN /\ (traces' = {} \/ traces' = traces)
  BY DEF EndCheck, ClearUp, ProbeInv
<1>3. ~raised /\ ~doubt => traces = {}
  BY <1>1 DEF ProbeInv, Stage, QueueStage, LockStage, MetadataStage
<1>4. traces' # {} => uncleared' \/ (check = "metadata" /\ raised)
  <2>1. CASE check \in {"queue", "lock"}
    BY <2>1 DEF EndCheck, ClearUp, Clearing
  <2>2. CASE check \in {"metadata", "mongo", "llm"}
    <3>1. traces' = traces
      BY <2>2 DEF EndCheck, ClearUp, Clearing
    <3>2. ~raised => traces = {}
      BY <1>1, <2>2 DEF ProbeInv, Stage, MetadataStage
    <3>3. raised => check = "metadata" \/ traces = {}
      BY <1>1, <2>2 DEF ProbeInv
    <3> QED
      BY <3>1, <3>2, <3>3
  <2> QED
    BY <2>1, <2>2 DEF ProbeInv
<1> QED
  BY <1>1, <1>2, <1>3, <1>4 DEF ProbeInv, ChecksLeaveNothing

LEMMA ProbeForgets == ASSUME ProbeInv, RedisForgets PROVE ProbeInv'
<1>1. entry = "checking" /\ traces' = {} /\ UNCHANGED <<check, calls, doubt, raised, uncleared, entry>>
  BY DEF RedisForgets
<1>2. Stage => Stage'
  <2>1. (QueueStage => QueueStage') /\ (LockStage => LockStage') /\ (MetadataStage => MetadataStage')
    BY <1>1 DEF QueueStage, LockStage, MetadataStage
  <2>2. check' = check /\ calls' = calls /\ traces' = {}
    BY <1>1
  <2>3. check \in {"mongo", "llm"} /\ Stage => Stage'
    BY <2>2 DEF Stage
  <2>4. check \in {"queue", "lock", "metadata"} /\ Stage => Stage'
    BY <2>1, <2>2 DEF Stage
  <2> QED
    BY <2>3, <2>4 DEF ProbeInv
<1> QED
  BY <1>1, <1>2 DEF ProbeInv, ChecksLeaveNothing

(***************************************************************************)
(* ChecksLeaveNothing: a check that reports a working store has taken back *)
(* what it wrote there, in every order of errors and losses of Redis; and  *)
(* a failed one leaves keys only if its clean-up failed or it has none.    *)
(***************************************************************************)
THEOREM ProbesLeaveNothing == ProbeSpec => []ChecksLeaveNothing
<1>1. ProbeInit => ProbeInv
  BY DEF ProbeInit, ProbeInv, ChecksLeaveNothing
<1>2. ProbeInv /\ [ProbeNext]_probeVars => ProbeInv'
  <2> SUFFICES ASSUME ProbeInv, [ProbeNext]_probeVars PROVE ProbeInv'
    OBVIOUS
  <2>1. CASE UNCHANGED probeVars
    BY <2>1 DEF probeVars, ProbeInv, Stage, QueueStage, LockStage, MetadataStage, ChecksLeaveNothing
  <2> QED
    BY <2>1, ProbeBegins, ProbeCalls, ProbeEnds, ProbeForgets DEF ProbeNext
<1>3. ProbeInv => ChecksLeaveNothing
  BY DEF ProbeInv
<1> QED
  BY <1>1, <1>2, <1>3, PTL DEF ProbeSpec
============================================================================
