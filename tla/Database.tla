------------------------------ MODULE Database ------------------------------
(***************************************************************************)
(* The adapter's connections in one process, either the daemon, which       *)
(* inserts, deletes and optimises with `w' (m_db, p_db) under mutex_db, or  *)
(* a web server child, which reads pages with `r' (m_db_r, p_db_r).  Every  *)
(* call first asks whether the connection still works and reconnects if     *)
(* not; db_lock_rw is there to keep a reconnect apart from the queries.     *)
(* SQLite, which has no connection to lose, is left out.  A signal handler  *)
(* of the daemon makes its call on top of what its thread was doing: it is  *)
(* a thread of its own here, and the one beneath stands still meanwhile.   *)
(***************************************************************************)
EXTENDS Integers, FiniteSets

CONSTANTS
  Processes, \* the kinds of process, each the set of its threads
  Calls(_),  \* the calls a thread makes
  Beneath(_), \* the thread that a signal handler interrupts, or NoThread
  DbTypes,   \* "mysql", "pgsql"
  NoThread,
  MaxCalls(_), \* bound: calls of one thread
  MaxFails   \* bound: how often the server goes away

Threads == UNION Processes

Handles == {"w", "r"}
HandleOf(o) == IF o \in {"page", "mem_max"} THEN "r" ELSE "w"

ASSUME DatabaseAssumption ==
  /\ NoThread \notin Threads
  /\ IsFiniteSet(Threads)
  /\ \A t \in Threads :
       /\ Calls(t) # {}
       /\ Calls(t) \subseteq {"insert", "delete", "create", "optimize", "page", "mem_max"}
  /\ \A p \in Processes : \E h \in Handles : \A t \in p : \A o \in Calls(t) : HandleOf(o) = h
  /\ \A t \in Threads : Beneath(t) \in Threads \cup {NoThread}
  /\ DbTypes \subseteq {"mysql", "pgsql"}
  /\ \A t \in Threads : MaxCalls(t) \in Nat
  /\ MaxFails \in Nat

VARIABLES
  process,  \* the process
  db_type,  \* which of the adapters is used
  up,       \* whether the server runs
  fails,    \* how often it has gone away
  handle,   \* the pointer: "open", "null", or "freed" but not null
  conn,     \* whether the session behind it lives
  readers,  \* read locks held of db_lock_rw
  writer,   \* who holds it for writing
  mutex_db, \* who holds mutex_db
  pc, op,   \* where each thread is, in which call
  calls,    \* calls it has begun
  result,   \* how its last call ended: "done", "error" or "nothing" (NULL, like "done")
  met,      \* whether another thread gave up its connection during the call
  given,    \* the handles that were given up
  bad       \* a thread that used a handle that is not open, or unlocked what nobody held

vars == <<process, db_type, up, fails, handle, conn, readers, writer, mutex_db, pc, op, calls,
          result, met, given, bad>>
server == <<process, db_type, up, fails>>
history == <<calls, met, given>>

Init ==
  /\ process \in Processes
  /\ db_type \in DbTypes
  /\ up = TRUE /\ fails = 0
  /\ handle = [h \in Handles |-> "open"]
  /\ conn = [h \in Handles |-> TRUE]
  /\ readers = 0 /\ writer = NoThread /\ mutex_db = NoThread
  /\ pc = [t \in Threads |-> "idle"]
  /\ op = [t \in Threads |-> CHOOSE o \in Calls(t) : TRUE]
  /\ calls = [t \in Threads |-> 0]
  /\ result = [t \in Threads |-> "done"]
  /\ met = [t \in Threads |-> FALSE]
  /\ given = {}
  /\ bad = NoThread

MyHandle(t) == HandleOf(op[t])
Works(h) == handle[h] = "open" /\ conn[h] /\ up

\* The step a thread takes next, once it has done this one.
Go(t, where) == pc' = [pc EXCEPT ![t] = where]
Return(t, r) == Go(t, "idle") /\ result' = [result EXCEPT ![t] = r]

\* No signal handler runs on top of the thread.
Runs(t) == \A u \in Threads : Beneath(u) = t => pc[u] = "idle"

RdLock   == writer = NoThread /\ readers' = readers + 1
RdUnlock == readers > 0 /\ readers' = readers - 1

\* A handle is used that is not open: what happens then is anybody's guess.
BadUse(t) ==
  /\ bad' = t
  /\ UNCHANGED <<server, history, handle, conn, readers, writer, mutex_db, pc, op, result>>

-----------------------------------------------------------------------------
(* smysql_reconnect and spgsql_reconnect, at the start of every call.       *)

\* performance_module_alarm and performance_db_defrag_action, each of which masks its
\* own signal: they may interrupt each other, and otherwise are calls of main.
Start(t, o) ==
  /\ t \in process
  /\ Beneath(t) # NoThread =>
       pc[Beneath(t)] # "idle" /\ op[Beneath(t)] \in {"delete", "optimize"} \ {o}
  /\ pc[t] = "idle" /\ calls[t] < MaxCalls(t)
  /\ o \in Calls(t)
  /\ o = "mem_max" => db_type = "pgsql"
  /\ o = "optimize" => db_type = "mysql"
  /\ op' = [op EXCEPT ![t] = o]
  /\ calls' = [calls EXCEPT ![t] = @ + 1]
  /\ met' = [met EXCEPT ![t] = FALSE]
  /\ Go(t, "enter")
  /\ UNCHANGED <<server, handle, conn, readers, writer, mutex_db, result, given, bad>>

\* Seeded fault: the lock is taken for reading again before the reconnect.
WrLockShared(t) ==
  /\ pc[t] = "wrlock"
  /\ writer = NoThread
  /\ writer' = t
  /\ Go(t, "connect")
  /\ UNCHANGED <<server, history, handle, conn, readers, mutex_db, op, result, bad>>

\* Seeded fault: the read lock is kept while the write lock is asked for.
PingBadKeeping(t) ==
  LET h == MyHandle(t)
  IN /\ pc[t] = "ping"
     /\ handle[h] = "open" /\ ~Works(h)
     /\ db_type = "mysql" => ~up
     /\ handle' = IF db_type = "pgsql" THEN [handle EXCEPT ![h] = "freed"] ELSE handle
     /\ Go(t, "wrlock")
     /\ UNCHANGED <<server, history, readers, conn, writer, mutex_db, op, result, bad>>

Enter(t) ==
  /\ pc[t] = "enter"
  /\ RdLock
  /\ Go(t, "ping")
  /\ UNCHANGED <<server, history, handle, conn, writer, mutex_db, op, result, bad>>

\* The thread beneath is reconnecting: the lock is refused to its handler, which
\* does not look at that and uses a handle that is being connected.
EnterRefused(t) ==
  /\ pc[t] \in {"enter", "lock"}
  /\ writer # NoThread /\ writer = Beneath(t)
  /\ BadUse(t)

\* The connection works, or there is none to ask.  mysql_ping brings back a
\* session of a server that runs (MYSQL_OPT_RECONNECT); PQexec may hide a broken
\* one, as its answer is only looked at for being NULL.
PingGood(t) ==
  LET h == MyHandle(t)
  IN /\ pc[t] = "ping"
     /\ handle[h] \in {"open", "null"}
     /\ handle[h] = "open" => up \/ db_type = "pgsql"
     /\ conn' = IF handle[h] = "open" /\ db_type = "mysql" THEN [conn EXCEPT ![h] = TRUE] ELSE conn
     /\ RdUnlock
     /\ Go(t, "begin")
     /\ UNCHANGED <<server, history, handle, writer, mutex_db, op, result, bad>>

\* It does not.  PQfinish is called here, with the lock held for reading.
PingBad(t) ==
  LET h == MyHandle(t)
  IN /\ pc[t] = "ping"
     /\ handle[h] = "open" /\ ~Works(h)
     /\ db_type = "mysql" => ~up
     /\ handle' = IF db_type = "pgsql" THEN [handle EXCEPT ![h] = "freed"] ELSE handle
     /\ RdUnlock
     /\ Go(t, "wrlock")
     /\ UNCHANGED <<server, history, conn, writer, mutex_db, op, result, bad>>

PingFreed(t) == pc[t] = "ping" /\ handle[MyHandle(t)] = "freed" /\ BadUse(t)

WrLock(t) ==
  /\ pc[t] = "wrlock"
  /\ readers = 0 /\ writer = NoThread
  /\ writer' = t
  /\ Go(t, "connect")
  /\ UNCHANGED <<server, history, handle, conn, readers, mutex_db, op, result, bad>>

\* mysql_real_connect, which may refuse a handle that another thread has
\* connected in the meantime.
ConnectMysql(t) ==
  LET h == MyHandle(t)
  IN /\ pc[t] = "connect" /\ db_type = "mysql"
     /\ \/ /\ up /\ handle[h] = "open"
           /\ conn' = [conn EXCEPT ![h] = TRUE]
           /\ Go(t, "begin")
        \/ /\ ~up \/ conn[h]
           /\ Go(t, "drop")
           /\ UNCHANGED conn
     /\ handle[h] = "open"
     /\ writer' = NoThread
     /\ UNCHANGED <<server, history, handle, readers, mutex_db, op, result, bad>>

\* PQconnectdb makes a new handle, connected or not, but the status that is
\* looked at is that of p_db_r: for the daemon, which connected p_db and does
\* not use p_db_r, the one p_db_r was opened with, and so it never gives up.
ConnectPgsql(t) ==
  LET h == MyHandle(t)
      good == h = "w" \/ up
  IN /\ pc[t] = "connect" /\ db_type = "pgsql"
     /\ handle' = [handle EXCEPT ![h] = IF good THEN "open" ELSE "freed"]
     /\ conn' = [conn EXCEPT ![h] = up]
     /\ Go(t, IF good THEN "begin" ELSE "drop")
     /\ writer' = NoThread
     /\ UNCHANGED <<server, history, readers, mutex_db, op, result, bad>>

\* The lock is given back that LockMemMax gave back already.
UnlockNothing(t) ==
  /\ \/ pc[t] \in {"ping", "fetch", "error"}
     \/ pc[t] = "lock" /\ op[t] = "mem_max"
     \/ pc[t] = "check" /\ handle[MyHandle(t)] = "null"
  /\ readers = 0
  /\ BadUse(t)

\* The handle that mysql_real_connect is to connect is gone already.
ConnectNull(t) ==
  /\ pc[t] = "connect" /\ db_type = "mysql"
  /\ handle[MyHandle(t)] # "open"
  /\ BadUse(t)

\* mysql_reconnect(x), pgsql_reconnect(x): x = 0, with no lock held.
Drop(t) ==
  LET h == MyHandle(t)
  IN /\ pc[t] = "drop"
     /\ handle' = [handle EXCEPT ![h] = "null"]
     /\ conn' = [conn EXCEPT ![h] = FALSE]
     /\ given' = given \cup {h}
     /\ met' = [u \in Threads |-> met[u] \/ (u # t /\ pc[u] # "idle" /\ MyHandle(u) = h)]
     /\ Go(t, "begin")
     /\ UNCHANGED <<server, calls, readers, writer, mutex_db, op, result, bad>>

-----------------------------------------------------------------------------
(* The call itself.                                                        *)

Writes == {"insert", "delete", "create"}

\* Seeded fault: nothing is looked at before the lock.
BeginUnchecked(t) ==
  /\ pc[t] = "begin"
  /\ Go(t, "lock")
  /\ UNCHANGED <<server, history, result, handle, conn, readers, writer, mutex_db, op, bad>>

\* Seeded fault: a session that is broken is taken for none.
BeginBroken(t) ==
  /\ pc[t] = "begin"
  /\ IF op[t] \in Writes /\ ~Works("w")
       THEN Return(t, "nothing")
       ELSE Go(t, "lock") /\ UNCHANGED result
  /\ UNCHANGED <<server, history, handle, conn, readers, writer, mutex_db, op, bad>>

\* insert, delete and create look at the handle before they take the lock.
Begin(t) ==
  /\ pc[t] = "begin"
  /\ IF op[t] \in Writes /\ handle["w"] = "null"
       THEN Return(t, "nothing")
       ELSE /\ Go(t, IF op[t] = "insert" /\ db_type = "mysql" THEN "escape" ELSE "lock")
            /\ UNCHANGED result
  /\ UNCHANGED <<server, history, handle, conn, readers, writer, mutex_db, op, bad>>

\* mysql_real_escape_string asks the handle for its character set, with no lock.
Escape(t) ==
  /\ pc[t] = "escape"
  /\ IF handle["w"] # "open" THEN BadUse(t)
     ELSE /\ Go(t, "lock")
          /\ UNCHANGED <<server, history, handle, conn, readers, writer, mutex_db, op, result, bad>>

Lock(t) ==
  /\ pc[t] = "lock" /\ op[t] # "mem_max"
  /\ RdLock
  /\ Go(t, IF op[t] \in Writes THEN "mutex" ELSE "check")
  /\ UNCHANGED <<server, history, handle, conn, writer, mutex_db, op, result, bad>>

\* sql_adapter_get_mem_max_text_info, PgSQL: it unlocks where it should
\* lock; a read lock of somebody else is gone then.
LockMemMax(t) ==
  /\ pc[t] = "lock" /\ op[t] = "mem_max"
  /\ RdUnlock
  /\ Go(t, "check")
  /\ UNCHANGED <<server, history, handle, conn, writer, mutex_db, op, result, bad>>

\* sql_adapter_get_..., optimize_table: with the lock held.
Check(t) ==
  /\ pc[t] = "check"
  /\ handle[MyHandle(t)] # "null"
  /\ Go(t, IF op[t] = "optimize" THEN "mutex" ELSE "query")
  /\ UNCHANGED <<server, history, handle, conn, readers, writer, mutex_db, op, result, bad>>

\* Without a handle a page is empty and OPTIMIZE done.
CheckNull(t) ==
  /\ pc[t] = "check"
  /\ handle[MyHandle(t)] = "null"
  /\ RdUnlock
  /\ Return(t, "nothing")
  /\ UNCHANGED <<server, history, handle, conn, writer, mutex_db, op, bad>>

Mutex(t) ==
  /\ pc[t] = "mutex" /\ mutex_db = NoThread
  /\ mutex_db' = t
  /\ Go(t, "query")
  /\ UNCHANGED <<server, history, handle, conn, readers, writer, op, result, bad>>

\* The query is sent and answered; after it the result or the error is fetched
\* from the handle, which is read anew.
Query(t) ==
  /\ pc[t] = "query"
  /\ IF handle[MyHandle(t)] # "open" THEN BadUse(t)
     ELSE /\ result' = [result EXCEPT ![t] = IF Works(MyHandle(t)) THEN "done" ELSE "error"]
          /\ Go(t, "fetch")
          /\ UNCHANGED <<server, history, handle, conn, readers, writer, mutex_db, op, bad>>

\* Where an error is fetched after mutex_db was given back.
Late(t) == op[t] = "insert" \/ (op[t] = "delete" /\ db_type = "mysql")

Release(t) ==
  /\ pc[t] = "fetch" /\ result[t] = "error" /\ Late(t)
  /\ mutex_db' = NoThread
  /\ Go(t, "error")
  /\ UNCHANGED <<server, history, handle, conn, readers, writer, op, result, bad>>

\* A write that went well takes nothing more from the handle.
Fetch(t) ==
  LET again == HandleOf(op[t]) = "r" \/ result[t] = "error"
  IN /\ pc[t] \in {"fetch", "error"}
     /\ pc[t] = "fetch" => ~(result[t] = "error" /\ Late(t))
     /\ IF again /\ handle[MyHandle(t)] # "open" THEN BadUse(t)
        ELSE /\ RdUnlock
             /\ mutex_db' = IF mutex_db = t THEN NoThread ELSE mutex_db
             /\ Go(t, "idle")
             /\ UNCHANGED <<server, history, handle, conn, writer, op, result, bad>>

-----------------------------------------------------------------------------
ServerFails ==
  /\ up /\ fails < MaxFails
  /\ up' = FALSE /\ fails' = fails + 1
  /\ conn' = [h \in Handles |-> FALSE]
  /\ UNCHANGED <<process, db_type, history, handle, readers, writer, mutex_db, pc, op, result, bad>>

ServerReturns ==
  /\ ~up
  /\ up' = TRUE
  /\ UNCHANGED <<process, db_type, fails, history, handle, conn, readers, writer, mutex_db, pc, op,
                 result, bad>>

Step(t) ==
  \/ Enter(t) \/ EnterRefused(t) \/ PingGood(t) \/ PingBad(t) \/ PingFreed(t)
  \/ WrLock(t) \/ ConnectMysql(t) \/ ConnectPgsql(t) \/ ConnectNull(t) \/ Drop(t)
  \/ UnlockNothing(t)
  \/ Begin(t) \/ Escape(t) \/ Lock(t) \/ LockMemMax(t) \/ Check(t) \/ CheckNull(t)
  \/ Mutex(t) \/ Query(t) \/ Release(t) \/ Fetch(t)

Next ==
  /\ bad = NoThread
  /\ \/ \E t \in Threads : Runs(t) /\ (Step(t) \/ \E o \in Calls(t) : Start(t, o))
     \/ ServerFails \/ ServerReturns

Spec == Init /\ [][Next]_vars /\ \A t \in Threads : WF_vars(bad = NoThread /\ Runs(t) /\ Step(t))

-----------------------------------------------------------------------------
(* Properties.                                                             *)

Places == {"idle", "enter", "ping", "wrlock", "connect", "drop", "begin", "escape", "lock", "check",
           "mutex", "query", "fetch", "error"}

\* Every variable stays in its type.
TypeOK ==
  /\ process \in Processes /\ db_type \in DbTypes /\ up \in BOOLEAN /\ fails \in 0..MaxFails
  /\ handle \in [Handles -> {"open", "null", "freed"}]
  /\ conn \in [Handles -> BOOLEAN]
  /\ readers \in Nat
  /\ writer \in Threads \cup {NoThread} /\ mutex_db \in Threads \cup {NoThread}
  /\ pc \in [Threads -> Places] /\ met \in [Threads -> BOOLEAN]
  /\ op \in [Threads -> {"insert", "delete", "create", "optimize", "page", "mem_max"}]
  /\ result \in [Threads -> {"done", "error", "nothing"}]
  /\ given \subseteq Handles
  /\ bad \in Threads \cup {NoThread}

\* Where a thread holds the lock for reading.
Reading == {"ping", "check", "mutex", "query", "fetch", "error"}
HasMutex(t) == pc[t] \in {"query", "fetch"} /\ HandleOf(op[t]) = "w"

\* With MySQL nobody is in the client library under the lock while a thread
\* reconnects, on either connection: only the escaping of a row, which takes no lock,
\* may meet it.  With both databases the queries of m_db and p_db come one at a time,
\* each answered before the next; only pings, escapes, and the errors that an insert
\* and a MySQL delete fetch after they gave mutex_db back, may meet one.
ConnectAlone ==
  /\ db_type = "mysql" =>
       \A t, u \in Threads : pc[t] = "connect" => pc[u] \notin Reading /\ (pc[u] = "connect" => u = t)
  /\ \A t, u \in Threads : HasMutex(t) /\ HasMutex(u) => t = u

\* With MySQL a handle that is gone is used only by a call during which another
\* thread gave that same handle up: it was checked before, and dropped with no lock;
\* one that is being connected, by the handler of a signal that came meanwhile.
BadNeedsAnother ==
  db_type = "mysql" /\ bad # NoThread => met[bad] \/ writer = Beneath(bad)

\* A call that did nothing and says that all is well, so that its row is lost
\* without an entry in the log, finds a handle that was given up.
NothingOnlyIfGiven ==
  \A t \in Threads : pc[t] = "idle" /\ result[t] = "nothing" => HandleOf(op[t]) \in given

\* A handler waits for a lock of the thread that it interrupted.
SelfLocked ==
  \E t \in Threads :
    \/ pc[t] = "mutex" /\ mutex_db # NoThread /\ mutex_db = Beneath(t)
    \/ pc[t] = "wrlock" /\ Beneath(t) # NoThread /\ pc[Beneath(t)] \in Reading

\* Once no more calls are begun, which would let a writer starve, every call
\* returns: reconnecting threads, readers and writers do not wait for each other for
\* good, unless a handler came while its own thread held a lock it needs.
CallsReturn ==
  <>[][UNCHANGED calls]_vars =>
    \A t \in Threads : pc[t] # "idle" ~> pc[t] = "idle" \/ bad # NoThread \/ SelfLocked
==============================================================================
