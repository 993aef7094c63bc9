-------------------------- MODULE MCDaemonThreads --------------------------
(***************************************************************************)
(* TLC instances of DaemonThreads.                                         *)
(***************************************************************************)
EXTENDS DaemonThreads

\* One handler with a database: SQLite and PostgreSQL have no optimize timer.
AlarmOnly == {"alarm"}

\* MySQL with PerformanceFragmentationTime.
AlarmAndDefrag == {"alarm", "defrag"}
==============================================================================
