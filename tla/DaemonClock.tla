----------------------------- MODULE DaemonClock -----------------------------
(***************************************************************************)
(* What the daemon does by the clock, timers.c and the start of            *)
(* performance_module_server: old rows are deleted every DELETE_INTERVAL,   *)
(* the daemon ends at a time of day or after some seconds, so that it is   *)
(* started anew, and the table is optimised at a time of day.              *)
(*                                                                         *)
(* The timers belong to one daemon and go with it; DaemonLife, whose steps  *)
(* are composed with the clock here, says when there is one.               *)
(***************************************************************************)
EXTENDS DaemonLife, Integers

CONSTANTS
  Day,             \* 24 * 3600
  DELETE_INTERVAL,
  Checks,          \* what PerformanceCheckDaemonTimeExec may say
  Defrags,         \* what PerformanceFragmentationTime may say
  Never,           \* not yet
  Lag,             \* assumption: a signal is handled this many seconds late at most
  MaxClock         \* bound: the last second

\* A setting is an argument of a directive: `time' is the time of day it says,
\* in seconds, or {} if gettimeinterval does not take it for one (no setting, a
\* number of seconds, an hour of 24), and `number' what apr_atoi64 makes of it,
\* which of "03:00:00" is 3.
Setting == [time : SUBSET (0..(Day - 1)), number : Nat]

ASSUME ClockAssumption ==
  /\ Day \in Nat \ {0} /\ DELETE_INTERVAL \in Nat \ {0}
  /\ Lag \in Nat /\ Lag < Day /\ MaxClock \in Nat
  /\ \A s \in Checks \cup Defrags : s.number \in Nat /\ \E t \in -1..(Day - 1) :
       s.time = {t} \cap Nat
  /\ Never \notin Int

VARIABLES
  check,    \* performance_check_extm
  defrag,   \* performance_db_defrag, with MySQL
  clock,    \* seconds since some midnight
  timer,    \* the timers that are set: seconds left, 0 and less when due
  exiting,  \* daemon_should_exit
  since,    \* when the daemon set its timers
  ran,      \* history: when each was last done
  runs      \* history: how often this daemon has optimised the table

clockVars == <<check, defrag, clock, timer, exiting, since, ran, runs>>
allVars == <<lifeVars, clockVars>>

None == [k \in {} |-> 0]
With(f, k, v) == [j \in DOMAIN f \cup {k} |-> IF j = k THEN v ELSE f[j]]
Due(k) == k \in DOMAIN timer /\ timer[k] <= 0

\* Seeded fault: at the very second the interval is 0.
IntervalNow(s, now) ==
  IF s.time = {} THEN 0
  ELSE LET need == CHOOSE t \in s.time : TRUE
           current == now % Day
       IN IF need >= current THEN need - current ELSE Day - current + need

\* gettimeinterval: seconds until that time of day, 0 if it is not one.  At the
\* very second it is a day.
gettimeinterval(s, now) ==
  IF s.time = {} THEN 0
  ELSE LET need == CHOOSE t \in s.time : TRUE
           current == now % Day
       IN IF need > current THEN need - current ELSE Day - current + need

\* timer_settime: 0 disarms the timer.
Arm(timers, k, seconds) ==
  IF seconds = 0 THEN [j \in DOMAIN timers \ {k} |-> timers[j]] ELSE With(timers, k, seconds)

ClockInit ==
  /\ LifeInit
  /\ check \in Checks /\ defrag \in Defrags
  /\ clock \in 0..(Day - 1)
  /\ timer = None /\ exiting = FALSE
  /\ since = clock /\ runs = 0
  /\ ran = [k \in {"delete", "restart", "defrag"} |-> Never]

-----------------------------------------------------------------------------
(* The daemon.                                                             *)

\* performance_module_server: a restart every so many seconds if the setting
\* is not a time of day.
SetTimers ==
  LET restart == gettimeinterval(check, clock)
      seconds == IF restart = 0 THEN check.number ELSE restart
  IN /\ timer' = Arm(Arm(With(None, "delete", DELETE_INTERVAL), "restart", seconds),
                     "defrag", gettimeinterval(defrag, clock))
     /\ since' = clock /\ runs' = 0
     /\ ran' = [ran EXCEPT !["delete"] = clock]
     /\ UNCHANGED <<check, defrag, clock, exiting>>

\* The daemon's timers and its flag are gone with it.
Gone ==
  /\ timer' = None /\ exiting' = FALSE
  /\ UNCHANGED <<check, defrag, clock, since, ran, runs>>

\* performance_module_alarm
Delete ==
  /\ Due("delete")
  /\ ran' = [ran EXCEPT !["delete"] = clock]
  /\ timer' = With(timer, "delete", DELETE_INTERVAL)
  /\ UNCHANGED <<lifeVars, check, defrag, clock, exiting, since, runs>>

\* restar_daemon_interval, and restar_daemon_interval_val, which sets the timer
\* again; the other is periodic.
Restart ==
  /\ Due("restart")
  /\ exiting' = TRUE
  /\ ran' = [ran EXCEPT !["restart"] = clock]
  /\ timer' = IF check.time = {} THEN With(timer, "restart", timer["restart"] + check.number)
                                 ELSE Arm(timer, "restart", gettimeinterval(check, clock))
  /\ UNCHANGED <<lifeVars, check, defrag, clock, since, runs>>

\* Seeded fault: the next one is a day after this one, not at the time.
DefragDrifts ==
  /\ Due("defrag")
  /\ ran' = [ran EXCEPT !["defrag"] = clock]
  /\ runs' = runs + 1
  /\ timer' = Arm(timer, "defrag", Day)
  /\ UNCHANGED <<lifeVars, check, defrag, clock, exiting, since>>

\* performance_db_defrag_action
Defrag ==
  /\ Due("defrag")
  /\ ran' = [ran EXCEPT !["defrag"] = clock]
  /\ runs' = runs + 1
  /\ timer' = Arm(timer, "defrag", gettimeinterval(defrag, clock))
  /\ UNCHANGED <<lifeVars, check, defrag, clock, exiting, since>>

\* The main cycle sees daemon_should_exit and the daemon ends.
Exits == exiting /\ Dies /\ Gone

\* A second passes; no signal waits longer than Lag.
Tick ==
  /\ clock < MaxClock
  /\ \A k \in DOMAIN timer : timer[k] > -Lag
  /\ clock' = clock + 1
  /\ timer' = [k \in DOMAIN timer |-> timer[k] - 1]
  /\ UNCHANGED <<lifeVars, check, defrag, exiting, since, ran, runs>>

ClockStep ==
  \/ Serve /\ SetTimers
  \/ Exits
  \/ Delete \/ Restart \/ Defrag
  \/ Tick

ClockNext ==
  \/ ClockStep
  \/ (Fork \/ Reap \/ RestartBegins \/ Bind \/ Listen) /\ UNCHANGED clockVars
  \/ (RestartKills \/ Dies) /\ Gone

\* The fairness of LifeFairSpec.
ClockSpec ==
  /\ ClockInit /\ [][ClockNext]_allVars
  /\ WF_allVars(Fork /\ UNCHANGED clockVars) /\ WF_allVars(Reap /\ UNCHANGED clockVars)
  /\ WF_allVars(RestartKills /\ Gone)
  /\ WF_allVars((Bind \/ Listen) /\ UNCHANGED clockVars) /\ WF_allVars(Serve /\ SetTimers)

-----------------------------------------------------------------------------
(* Properties.                                                             *)

Serving == daemon.state = "serving"

\* How often it has been that time of day, after one moment and up to another.
Times(s, from, to) == LET t == CHOOSE t \in s.time : TRUE
                      IN (to - t) \div Day - (from - t) \div Day

\* A daemon that serves optimises the table once for every time the clock has
\* shown the time set, however late its signals are: never twice, none left out
\* but the one that is due (timers.c:146-153, README:104 "daily").
DefragOncePerDay ==
  Serving /\ defrag.time # {} =>
    Times(defrag, since, clock) - runs = IF Due("defrag") THEN 1 ELSE 0

\* A restart by the clock is not followed by another before the next day, though
\* the daemon that comes after it reads the clock in the same second or soon
\* after, and the setting is also a small number (mod_performance.c:1760-1772).
RestartsApart ==
  [][ran'["restart"] # ran["restart"] /\ ran["restart"] # Never /\ check.time # {}
       => clock - ran["restart"] >= Day - Lag]_allVars
==============================================================================
