---------------------------- MODULE MCDaemonClock ----------------------------
(***************************************************************************)
(* TLC instance of DaemonClock: days of 6 seconds.                         *)
(***************************************************************************)
EXTENDS DaemonClock

Both == {{}, Left}

AtTime(t) == [time |-> {t}, number |-> t]
Seconds(n) == [time |-> {}, number |-> n]

MCChecks  == {AtTime(2), AtTime(0), Seconds(4), Seconds(0)}
MCDefrags == {AtTime(1), AtTime(5), Seconds(0)}
==============================================================================
