----------------------------- MODULE DaemonLife -----------------------------
(***************************************************************************)
(* The life of the daemon process, mod_performance.c: the parent forks it  *)
(* (performance_module_start), is told of its death and forks it again     *)
(* (performance_module_maint), and replaces it when the server restarts.   *)
(* The daemon puts its socket into the file system and listens on it       *)
(* (performance_module_server).                                            *)
(*                                                                         *)
(* Nobody but the parent removes the socket file, and the daemon does not  *)
(* look at what bind returned: if a file is in the way it finds out when   *)
(* it listens, and a daemon that fails there is not started again.         *)
(***************************************************************************)
EXTENDS Naturals

CONSTANTS
  MaxPid,   \* bound: how many daemons the parent forks
  Found     \* what may be at the socket's path when the server starts

\* A file of an earlier server, which was killed: with
\* PerformanceSocketPermType ... NOPID its name is always the same.
Left == {0}

ASSUME LifeAssumption ==
  /\ MaxPid \in Nat \ {0}
  /\ Found \subseteq {{}, Left}

VARIABLES
  daemon,   \* [state, pid, status]: the current daemon process
  parent,   \* what the parent is in the middle of
  sock,     \* the socket file: {} or the pid of the daemon that bound it
  caught    \* history: a restart of the server met a daemon before its bind

lifeVars == <<daemon, parent, sock, caught>>

Before == {"starting", "bound", "unbound", "listening"}
Alive  == Before \cup {"serving"}

LifeInit ==
  /\ daemon = [state |-> "none", pid |-> 0, status |-> "run"]
  /\ parent = "starting"
  /\ sock \in Found
  /\ caught = FALSE

Become(s) == daemon' = [daemon EXCEPT !.state = s]

-----------------------------------------------------------------------------
(* Seeded faults: single steps as a plausible mistake would have them.  The *)
(* properties below are checked to fail when one replaces the real step.   *)

\* A file in the way is removed when the new daemon has been forked already.
ForkUnlinksLate ==
  \/ /\ parent = "starting" /\ daemon.pid < MaxPid
     /\ daemon' = [state |-> "starting", pid |-> daemon.pid + 1, status |-> "run"]
     /\ parent' = "idle"
     /\ UNCHANGED <<sock, caught>>
  \/ /\ parent = "idle" /\ daemon.state \in Alive
     /\ sock' = {}
     /\ UNCHANGED <<daemon, parent, caught>>

\* Unregistering the dead daemon leaves its file.
ReapKeepsFile ==
  /\ parent = "idle" /\ daemon.state = "dead"
  /\ Become("none")
  /\ parent' = IF daemon.status = "startup_error" THEN "idle" ELSE "starting"
  /\ UNCHANGED <<sock, caught>>

-----------------------------------------------------------------------------
(* The parent.                                                             *)

\* performance_module_start: fork.
Fork ==
  /\ parent = "starting" /\ daemon.pid < MaxPid
  /\ daemon' = [state |-> "starting", pid |-> daemon.pid + 1, status |-> "run"]
  /\ parent' = "idle"
  /\ UNCHANGED <<sock, caught>>

\* performance_module_maint, APR_OC_REASON_DEATH.  Unregistering calls it
\* again with APR_OC_REASON_UNREGISTER, which removes the file; a daemon that
\* failed to initialize is not restarted.
Reap ==
  /\ parent = "idle" /\ daemon.state = "dead"
  /\ Become("none")
  /\ sock' = {}
  /\ parent' = IF daemon.status = "startup_error" THEN "idle" ELSE "starting"
  /\ UNCHANGED caught

\* The server restarts: the pool the child is registered in is cleared, whose
\* cleanup unregisters the daemon (file removed, SIGHUP) ...
RestartBegins ==
  /\ parent = "idle" /\ daemon.pid < MaxPid
  /\ sock' = {}
  /\ parent' = "killing"
  /\ caught' = (caught \/ daemon.state = "starting")
  /\ UNCHANGED daemon

\* ... and only then terminates it and waits until it is gone.
RestartKills ==
  /\ parent = "killing"
  /\ Become("none")
  /\ parent' = "starting"
  /\ UNCHANGED <<sock, caught>>

-----------------------------------------------------------------------------
(* The daemon.                                                             *)

\* The result of bind is assigned to rc and not looked at.
Bind ==
  /\ daemon.state = "starting"
  /\ IF sock = {} THEN Become("bound") /\ sock' = {daemon.pid}
                  ELSE Become("unbound") /\ UNCHANGED sock
  /\ UNCHANGED <<parent, caught>>

\* listen on a socket that is not bound is an error: exit(DAEMON_STARTUP_ERROR).
Listen ==
  /\ daemon.state \in {"bound", "unbound"}
  /\ daemon' = IF daemon.state = "bound"
                 THEN [daemon EXCEPT !.state = "listening"]
                 ELSE [daemon EXCEPT !.state = "dead", !.status = "startup_error"]
  /\ UNCHANGED <<parent, sock, caught>>

\* The file is given to the workers' user, the threads are started.
Serve ==
  /\ daemon.state = "listening"
  /\ Become("serving")
  /\ UNCHANGED <<parent, sock, caught>>

\* A crash, a SIGHUP, or the restart timer (exit code -1).  The last daemon of
\* the bound stays.
Dies ==
  /\ daemon.state \in Alive /\ daemon.pid < MaxPid
  /\ Become("dead")
  /\ UNCHANGED <<parent, sock, caught>>

ParentStep == Fork \/ Reap \/ RestartKills
DaemonStep == Bind \/ Listen \/ Serve
LifeNext   == ParentStep \/ RestartBegins \/ DaemonStep \/ Dies

LifeSpec == LifeInit /\ [][LifeNext]_lifeVars

\* The parent polls for dead children and finishes what it has begun; the
\* daemon's start does not block.  Nobody has to die or restart.
LifeFairSpec == LifeSpec /\ WF_lifeVars(ParentStep) /\ WF_lifeVars(DaemonStep)

-----------------------------------------------------------------------------
\* State of the parent, the daemon and the file.
LifeTypeOK ==
  /\ daemon \in [state: Alive \cup {"none", "dead"}, pid: 0..MaxPid,
                 status: {"run", "startup_error"}]
  /\ parent \in {"idle", "starting", "killing"}
  /\ sock \in {{}} \cup {{p} : p \in 0..MaxPid}
  /\ caught \in BOOLEAN

\* The file the workers connect to is the serving daemon's own, from its bind
\* until the parent takes it away to replace the daemon: no order of deaths,
\* unlinks and forks removes the file of a daemon that stays, or leaves it in
\* front of somebody else's (mod_performance.c:1829-1900, 1684-1732).
Reachable ==
  /\ daemon.state \in {"bound", "listening", "serving"} /\ parent # "killing"
       => sock = {daemon.pid}

\* Unless a server that was killed left a file, or a restart catches a daemon
\* between fork and bind, the daemon is back after every death and every
\* restart (mod_performance.c:1844, "daemon process died, restarting").
ComesBack == sock = {} => []<>(daemon.state = "serving" \/ caught)
==============================================================================
