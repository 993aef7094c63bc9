--------------------------- MODULE DatabaseProofs ---------------------------
(***************************************************************************)
(* Theorems about Database, for any number of processes, threads and calls. *)
(***************************************************************************)
EXTENDS Database, FiniteSetTheorems, TLAPS

\* The threads that hold the lock for reading, when nobody unlocks it twice.
Inside == {t \in Threads : pc[t] \in Reading}

\* Which calls pass which places.
Flow ==
  \A t \in Threads :
    /\ pc[t] = "check" => op[t] \notin Writes
    /\ pc[t] # "idle" /\ op[t] = "mem_max" => db_type = "pgsql"
    /\ pc[t] \in {"fetch", "error"} => result[t] # "nothing"
    /\ pc[t] \in {"escape", "error"} => HandleOf(op[t]) = "w"

\* mutex_db belongs to the thread that writes.
Mutexed == \A t \in Threads : HasMutex(t) => mutex_db = t

\* With MySQL db_lock_rw counts the threads inside, and who connects has it alone.
Locked ==
  db_type = "mysql" =>
    /\ readers = Cardinality(Inside)
    /\ \A t \in Threads : pc[t] = "connect" <=> writer = t
    /\ writer # NoThread => readers = 0

\* Where a thread has seen that its handle is not null.
Seen(t) ==
  \/ pc[t] \in {"wrlock", "connect", "escape", "mutex", "query", "fetch", "error"}
  \/ pc[t] = "lock" /\ op[t] \in Writes

\* With MySQL what a thread has seen is so until another gives the handle up.
Known ==
  db_type = "mysql" =>
    /\ \A h \in Handles : handle[h] # "freed"
    /\ \A t \in Threads : Seen(t) => handle[MyHandle(t)] = "open" \/ met[t]

\* A handle is null, and a call ends with nothing done, when it was given up.
Accounted ==
  /\ \A h \in Handles : handle[h] = "null" => h \in given
  /\ NothingOnlyIfGiven

IInv == TypeOK /\ Flow /\ Mutexed /\ Locked /\ Known /\ Accounted /\ BadNeedsAnother

-----------------------------------------------------------------------------
(* Lemmas.                                                                 *)

\* Every call has one of the two handles.
LEMMA HandleType == \A o : HandleOf(o) \in Handles
BY DEF HandleOf, Handles

\* How many are inside after a thread has gone on.
LEMMA Count ==
  ASSUME TypeOK, NEW t \in Threads, NEW where \in Places, Go(t, where)
  PROVE  /\ Cardinality(Inside) \in Nat /\ Cardinality(Inside') \in Nat
         /\ pc[t] \in Reading /\ where \in Reading => Inside' = Inside
         /\ pc[t] \notin Reading /\ where \notin Reading => Inside' = Inside
         /\ pc[t] \notin Reading /\ where \in Reading =>
              Cardinality(Inside') = Cardinality(Inside) + 1
         /\ pc[t] \in Reading /\ where \notin Reading =>
              Cardinality(Inside') = Cardinality(Inside) - 1
<1>1. pc \in [Threads -> Places] /\ pc' = [pc EXCEPT ![t] = where]
  BY DEF TypeOK, Go
<1>2. IsFiniteSet(Inside) /\ IsFiniteSet(Inside')
  <2>1. Inside \subseteq Threads /\ Inside' \subseteq Threads
    BY DEF Inside
  <2> QED
    BY <2>1, DatabaseAssumption, FS_Subset DEF DatabaseAssumption
<1>3. Cardinality(Inside) \in Nat /\ Cardinality(Inside') \in Nat
  BY <1>2, FS_CardinalityType
<1>4. pc[t] \in Reading /\ where \in Reading => Inside' = Inside
  BY <1>1 DEF Inside
<1>5. pc[t] \notin Reading /\ where \notin Reading => Inside' = Inside
  BY <1>1 DEF Inside
<1>6. ASSUME pc[t] \notin Reading, where \in Reading
      PROVE  Cardinality(Inside') = Cardinality(Inside) + 1
  <2>1. Inside' = Inside \cup {t} /\ t \notin Inside
    BY <1>1, <1>6 DEF Inside
  <2> QED
    BY <1>2, <2>1, FS_AddElement
<1>7. ASSUME pc[t] \in Reading, where \notin Reading
      PROVE  Cardinality(Inside') = Cardinality(Inside) - 1
  <2>1. Inside' = Inside \ {t} /\ t \in Inside
    BY <1>1, <1>7 DEF Inside
  <2> QED
    BY <1>2, <2>1, FS_RemoveElement
<1> QED
  BY <1>3, <1>4, <1>5, <1>6, <1>7

\* With MySQL the lock is not free for a thread that is inside.
LEMMA InsideCounts ==
  ASSUME TypeOK, Locked, db_type = "mysql", NEW t \in Threads, pc[t] \in Reading
  PROVE  readers > 0 /\ writer = NoThread
<1>1. t \in Inside
  BY DEF Inside
<1>2. IsFiniteSet(Inside)
  BY DatabaseAssumption, FS_Subset DEF DatabaseAssumption, Inside
<1>3. Cardinality(Inside) \in Nat /\ Cardinality(Inside) # 0
  BY <1>1, <1>2, FS_CardinalityType, FS_EmptySet
<1> QED
  BY <1>3 DEF Locked

LEMMA InitInv == Init => IInv
<1> SUFFICES ASSUME Init PROVE IInv
  OBVIOUS
<1>1. op \in [Threads -> {"insert", "delete", "create", "optimize", "page", "mem_max"}]
  BY DatabaseAssumption DEF Init, DatabaseAssumption
<1>2. TypeOK
  BY <1>1, DatabaseAssumption DEF Init, TypeOK, Places, DatabaseAssumption
<1>3. Inside = {} /\ readers = 0
  BY DEF Init, Inside, Reading
<1>4. readers = Cardinality(Inside)
  BY <1>3, FS_EmptySet
<1>5. Flow /\ Mutexed /\ Known /\ Accounted /\ BadNeedsAnother
  BY DEF Init, Flow, Mutexed, HasMutex, Known, Seen, Accounted, NothingOnlyIfGiven,
         BadNeedsAnother, Handles
<1>6. \A t \in Threads : pc[t] # "connect" /\ writer # t
  BY DatabaseAssumption DEF Init, DatabaseAssumption
<1> QED
  BY <1>2, <1>3, <1>4, <1>5, <1>6 DEF IInv, Locked

-----------------------------------------------------------------------------
(* The steps, conjunct by conjunct.                                        *)

\* Every step keeps every variable in its type.
LEMMA TypeNext == IInv /\ [Next]_vars => TypeOK'
<1> SUFFICES ASSUME IInv, [Next]_vars PROVE TypeOK'
  OBVIOUS
<1> USE DEF server, history
<1>1. ASSUME NEW t \in Threads, Enter(t) PROVE TypeOK'
  BY <1>1, HandleType DEF Enter, Go, RdLock, IInv, TypeOK, Places, MyHandle, Handles
<1>2. ASSUME NEW t \in Threads, PingGood(t) PROVE TypeOK'
  BY <1>2, HandleType DEF PingGood, Go, RdUnlock, IInv, TypeOK, Places, MyHandle, Handles
<1>3. ASSUME NEW t \in Threads, PingBad(t) PROVE TypeOK'
  BY <1>3, HandleType DEF PingBad, Go, RdUnlock, IInv, TypeOK, Places, MyHandle, Handles
<1>4. ASSUME NEW t \in Threads, PingFreed(t) PROVE TypeOK'
  BY <1>4, HandleType DEF PingFreed, Go, BadUse, IInv, TypeOK, Places, MyHandle, Handles
<1>5. ASSUME NEW t \in Threads, WrLock(t) PROVE TypeOK'
  BY <1>5, HandleType DEF WrLock, Go, IInv, TypeOK, Places, MyHandle, Handles
<1>6. ASSUME NEW t \in Threads, ConnectMysql(t) PROVE TypeOK'
  <2>1. conn' \in [Handles -> BOOLEAN]
    BY <1>6, HandleType, ZenonT(60) DEF ConnectMysql, IInv, TypeOK, MyHandle, Handles
  <2>2. pc' \in [Threads -> Places]
    BY <1>6 DEF ConnectMysql, Go, IInv, TypeOK, Places
  <2> QED
    BY <1>6, <2>1, <2>2 DEF ConnectMysql, IInv, TypeOK
<1>7. ASSUME NEW t \in Threads, ConnectPgsql(t) PROVE TypeOK'
  BY <1>7, HandleType DEF ConnectPgsql, Go, IInv, TypeOK, Places, MyHandle, Handles
<1>8. ASSUME NEW t \in Threads, ConnectNull(t) PROVE TypeOK'
  BY <1>8, HandleType DEF ConnectNull, Go, BadUse, IInv, TypeOK, Places, MyHandle, Handles
<1>9. ASSUME NEW t \in Threads, Drop(t) PROVE TypeOK'
  BY <1>9, HandleType DEF Drop, Go, IInv, TypeOK, Places, MyHandle, Handles
<1>10. ASSUME NEW t \in Threads, UnlockNothing(t) PROVE TypeOK'
  BY <1>10, HandleType DEF UnlockNothing, Go, BadUse, IInv, TypeOK, Places, MyHandle, Handles
<1>11. ASSUME NEW t \in Threads, Begin(t) PROVE TypeOK'
  BY <1>11, HandleType DEF Begin, Go, Return, IInv, TypeOK, Places, MyHandle, Handles
<1>12. ASSUME NEW t \in Threads, Lock(t) PROVE TypeOK'
  BY <1>12, HandleType DEF Lock, Go, RdLock, IInv, TypeOK, Places, MyHandle, Handles
<1>13. ASSUME NEW t \in Threads, LockMemMax(t) PROVE TypeOK'
  BY <1>13, HandleType DEF LockMemMax, Go, RdUnlock, IInv, TypeOK, Places, MyHandle, Handles
<1>14. ASSUME NEW t \in Threads, Check(t) PROVE TypeOK'
  BY <1>14, HandleType DEF Check, Go, IInv, TypeOK, Places, MyHandle, Handles
<1>15. ASSUME NEW t \in Threads, CheckNull(t) PROVE TypeOK'
  BY <1>15, HandleType DEF CheckNull, Go, RdUnlock, Return, IInv, TypeOK, Places, MyHandle, Handles
<1>16. ASSUME NEW t \in Threads, Mutex(t) PROVE TypeOK'
  BY <1>16, HandleType DEF Mutex, Go, IInv, TypeOK, Places, MyHandle, Handles
<1>17. ASSUME NEW t \in Threads, Query(t) PROVE TypeOK'
  BY <1>17, HandleType DEF Query, Go, BadUse, IInv, TypeOK, Places, MyHandle, Handles
<1>18. ASSUME NEW t \in Threads, Fetch(t) PROVE TypeOK'
  <2>1. CASE BadUse(t)
    BY <1>18, <2>1 DEF BadUse, IInv, TypeOK
  <2>2. CASE ~BadUse(t)
    <3>1. readers > 0 /\ readers' = readers - 1
      BY <1>18, <2>2 DEF Fetch, RdUnlock
    <3>2. readers' \in Nat
      BY <3>1 DEF IInv, TypeOK
    <3>3. pc' \in [Threads -> Places] /\ mutex_db' \in Threads \cup {NoThread}
      BY <1>18, <2>2 DEF Fetch, Go, IInv, TypeOK, Places
    <3> QED
      BY <1>18, <2>2, <3>2, <3>3 DEF Fetch, IInv, TypeOK
  <2> QED
    BY <2>1, <2>2
<1>22. ASSUME NEW t \in Threads, EnterRefused(t) PROVE TypeOK'
  BY <1>22 DEF EnterRefused, BadUse, IInv, TypeOK
<1>23. ASSUME NEW t \in Threads, Escape(t) PROVE TypeOK'
  BY <1>23 DEF Escape, Go, BadUse, IInv, TypeOK, Places
<1>24. ASSUME NEW t \in Threads, Release(t) PROVE TypeOK'
  BY <1>24 DEF Release, Go, IInv, TypeOK, Places
<1>19. ASSUME NEW t \in Threads, NEW o \in Calls(t), Start(t, o) PROVE TypeOK'
  BY <1>19, HandleType, DatabaseAssumption DEF Start, Go, DatabaseAssumption, IInv, TypeOK, Places, MyHandle, Handles
<1>20. CASE ServerFails \/ ServerReturns
  <2>1. fails' \in 0..MaxFails
    BY <1>20, DatabaseAssumption DEF ServerFails, ServerReturns, DatabaseAssumption, IInv, TypeOK
  <2>2. conn' \in [Handles -> BOOLEAN] /\ up' \in BOOLEAN
    BY <1>20 DEF ServerFails, ServerReturns, IInv, TypeOK
  <2> QED
    BY <1>20, <2>1, <2>2 DEF ServerFails, ServerReturns, IInv, TypeOK
<1>21. CASE UNCHANGED vars
  BY <1>21, HandleType DEF vars, IInv, TypeOK, Places, MyHandle, Handles
<1> QED
  BY <1>1, <1>2, <1>3, <1>4, <1>5, <1>6, <1>7, <1>8, <1>9, <1>10, <1>11,
     <1>12, <1>13, <1>14, <1>15, <1>16, <1>17, <1>18, <1>19, <1>20, <1>21,
     <1>22, <1>23, <1>24 DEF Next, Step

\* Calls pass the places they should.
LEMMA FlowNext == IInv /\ [Next]_vars => Flow'
<1> SUFFICES ASSUME IInv, [Next]_vars PROVE Flow'
  OBVIOUS
<1> USE DEF server, history
<1>1. ASSUME NEW t \in Threads, Enter(t) PROVE Flow'
  BY <1>1 DEF Enter, Go, RdLock, IInv, TypeOK, Flow, Writes
<1>2. ASSUME NEW t \in Threads, PingGood(t) PROVE Flow'
  BY <1>2 DEF PingGood, Go, RdUnlock, IInv, TypeOK, Flow, Writes
<1>3. ASSUME NEW t \in Threads, PingBad(t) PROVE Flow'
  BY <1>3 DEF PingBad, Go, RdUnlock, IInv, TypeOK, Flow, Writes
<1>4. ASSUME NEW t \in Threads, PingFreed(t) PROVE Flow'
  BY <1>4 DEF PingFreed, Go, BadUse, IInv, TypeOK, Flow, Writes
<1>5. ASSUME NEW t \in Threads, WrLock(t) PROVE Flow'
  BY <1>5 DEF WrLock, Go, IInv, TypeOK, Flow, Writes
<1>6. ASSUME NEW t \in Threads, ConnectMysql(t) PROVE Flow'
  BY <1>6 DEF ConnectMysql, Go, IInv, TypeOK, Flow, Writes
<1>7. ASSUME NEW t \in Threads, ConnectPgsql(t) PROVE Flow'
  BY <1>7 DEF ConnectPgsql, Go, IInv, TypeOK, Flow, Writes
<1>8. ASSUME NEW t \in Threads, ConnectNull(t) PROVE Flow'
  BY <1>8 DEF ConnectNull, Go, BadUse, IInv, TypeOK, Flow, Writes
<1>9. ASSUME NEW t \in Threads, Drop(t) PROVE Flow'
  BY <1>9 DEF Drop, Go, IInv, TypeOK, Flow, Writes
<1>10. ASSUME NEW t \in Threads, UnlockNothing(t) PROVE Flow'
  BY <1>10 DEF UnlockNothing, Go, BadUse, IInv, TypeOK, Flow, Writes
<1>11. ASSUME NEW t \in Threads, Begin(t) PROVE Flow'
  BY <1>11 DEF Begin, Go, Return, IInv, TypeOK, Flow, Writes, HandleOf
<1>12. ASSUME NEW t \in Threads, Lock(t) PROVE Flow'
  BY <1>12 DEF Lock, Go, RdLock, IInv, TypeOK, Flow, Writes
<1>13. ASSUME NEW t \in Threads, LockMemMax(t) PROVE Flow'
  BY <1>13 DEF LockMemMax, Go, RdUnlock, IInv, TypeOK, Flow, Writes
<1>14. ASSUME NEW t \in Threads, Check(t) PROVE Flow'
  BY <1>14 DEF Check, Go, IInv, TypeOK, Flow, Writes
<1>15. ASSUME NEW t \in Threads, CheckNull(t) PROVE Flow'
  BY <1>15 DEF CheckNull, Go, RdUnlock, Return, IInv, TypeOK, Flow, Writes
<1>16. ASSUME NEW t \in Threads, Mutex(t) PROVE Flow'
  BY <1>16 DEF Mutex, Go, IInv, TypeOK, Flow, Writes
<1>17. ASSUME NEW t \in Threads, Query(t) PROVE Flow'
  BY <1>17 DEF Query, Go, BadUse, IInv, TypeOK, Flow, Writes
<1>18. ASSUME NEW t \in Threads, Fetch(t) PROVE Flow'
  BY <1>18 DEF Fetch, Go, RdUnlock, BadUse, IInv, TypeOK, Flow, Writes
<1>22. ASSUME NEW t \in Threads, EnterRefused(t) PROVE Flow'
  BY <1>22 DEF EnterRefused, BadUse, IInv, Flow, Writes
<1>23. ASSUME NEW t \in Threads, Escape(t) PROVE Flow'
  BY <1>23 DEF Escape, Go, BadUse, IInv, TypeOK, Flow, Writes
<1>24. ASSUME NEW t \in Threads, Release(t) PROVE Flow'
  BY <1>24 DEF Release, Late, Go, IInv, TypeOK, Flow, Writes, HandleOf
<1>19. ASSUME NEW t \in Threads, NEW o \in Calls(t), Start(t, o) PROVE Flow'
  BY <1>19, DatabaseAssumption DEF Start, Go, DatabaseAssumption, IInv, TypeOK, Flow, Writes
<1>20. CASE ServerFails \/ ServerReturns
  BY <1>20 DEF ServerFails, ServerReturns, IInv, TypeOK, Flow, Writes
<1>21. CASE UNCHANGED vars
  BY <1>21 DEF vars, IInv, TypeOK, Flow, Writes
<1> QED
  BY <1>1, <1>2, <1>3, <1>4, <1>5, <1>6, <1>7, <1>8, <1>9, <1>10, <1>11,
     <1>12, <1>13, <1>14, <1>15, <1>16, <1>17, <1>18, <1>19, <1>20, <1>21,
     <1>22, <1>23, <1>24 DEF Next, Step

\* mutex_db is taken when it is free and given back by its owner.
LEMMA MutexNext == IInv /\ [Next]_vars => Mutexed'
<1> SUFFICES ASSUME IInv, [Next]_vars PROVE Mutexed'
  OBVIOUS
<1> USE DEF server, history
<1>1. ASSUME NEW t \in Threads, Enter(t) PROVE Mutexed'
  BY <1>1 DEF Enter, Go, RdLock, IInv, TypeOK, Flow, Mutexed, HasMutex, HandleOf, Writes
<1>2. ASSUME NEW t \in Threads, PingGood(t) PROVE Mutexed'
  BY <1>2 DEF PingGood, Go, RdUnlock, IInv, TypeOK, Flow, Mutexed, HasMutex, HandleOf, Writes
<1>3. ASSUME NEW t \in Threads, PingBad(t) PROVE Mutexed'
  BY <1>3 DEF PingBad, Go, RdUnlock, IInv, TypeOK, Flow, Mutexed, HasMutex, HandleOf, Writes
<1>4. ASSUME NEW t \in Threads, PingFreed(t) PROVE Mutexed'
  BY <1>4 DEF PingFreed, Go, BadUse, IInv, TypeOK, Flow, Mutexed, HasMutex, HandleOf, Writes
<1>5. ASSUME NEW t \in Threads, WrLock(t) PROVE Mutexed'
  BY <1>5 DEF WrLock, Go, IInv, TypeOK, Flow, Mutexed, HasMutex, HandleOf, Writes
<1>6. ASSUME NEW t \in Threads, ConnectMysql(t) PROVE Mutexed'
  BY <1>6 DEF ConnectMysql, Go, IInv, TypeOK, Flow, Mutexed, HasMutex, HandleOf, Writes
<1>7. ASSUME NEW t \in Threads, ConnectPgsql(t) PROVE Mutexed'
  BY <1>7 DEF ConnectPgsql, Go, IInv, TypeOK, Flow, Mutexed, HasMutex, HandleOf, Writes
<1>8. ASSUME NEW t \in Threads, ConnectNull(t) PROVE Mutexed'
  BY <1>8 DEF ConnectNull, Go, BadUse, IInv, TypeOK, Flow, Mutexed, HasMutex, HandleOf, Writes
<1>9. ASSUME NEW t \in Threads, Drop(t) PROVE Mutexed'
  BY <1>9 DEF Drop, Go, IInv, TypeOK, Flow, Mutexed, HasMutex, HandleOf, Writes
<1>10. ASSUME NEW t \in Threads, UnlockNothing(t) PROVE Mutexed'
  BY <1>10 DEF UnlockNothing, Go, BadUse, IInv, TypeOK, Flow, Mutexed, HasMutex, HandleOf, Writes
<1>11. ASSUME NEW t \in Threads, Begin(t) PROVE Mutexed'
  BY <1>11 DEF Begin, Go, Return, IInv, TypeOK, Flow, Mutexed, HasMutex, HandleOf, Writes
<1>12. ASSUME NEW t \in Threads, Lock(t) PROVE Mutexed'
  BY <1>12 DEF Lock, Go, RdLock, IInv, TypeOK, Flow, Mutexed, HasMutex, HandleOf, Writes
<1>13. ASSUME NEW t \in Threads, LockMemMax(t) PROVE Mutexed'
  BY <1>13 DEF LockMemMax, Go, RdUnlock, IInv, TypeOK, Flow, Mutexed, HasMutex, HandleOf, Writes
<1>14. ASSUME NEW t \in Threads, Check(t) PROVE Mutexed'
  BY <1>14 DEF Check, Go, IInv, TypeOK, Flow, Mutexed, HasMutex, HandleOf, Writes
<1>15. ASSUME NEW t \in Threads, CheckNull(t) PROVE Mutexed'
  BY <1>15 DEF CheckNull, Go, RdUnlock, Return, IInv, TypeOK, Flow, Mutexed, HasMutex, HandleOf, Writes
<1>16. ASSUME NEW t \in Threads, Mutex(t) PROVE Mutexed'
  BY <1>16, DatabaseAssumption DEF Mutex, Go, DatabaseAssumption, IInv, TypeOK, Mutexed, HasMutex
<1>17. ASSUME NEW t \in Threads, Query(t) PROVE Mutexed'
  BY <1>17 DEF Query, Go, BadUse, IInv, TypeOK, Flow, Mutexed, HasMutex, HandleOf, Writes
<1>18. ASSUME NEW t \in Threads, Fetch(t) PROVE Mutexed'
  BY <1>18 DEF Fetch, Go, RdUnlock, BadUse, IInv, TypeOK, Flow, Mutexed, HasMutex, HandleOf, Writes
<1>22. ASSUME NEW t \in Threads, EnterRefused(t) PROVE Mutexed'
  BY <1>22 DEF EnterRefused, BadUse, IInv, Mutexed, HasMutex
<1>23. ASSUME NEW t \in Threads, Escape(t) PROVE Mutexed'
  BY <1>23 DEF Escape, Go, BadUse, IInv, TypeOK, Mutexed, HasMutex
<1>24. ASSUME NEW t \in Threads, Release(t) PROVE Mutexed'
  <2>1. HasMutex(t) /\ t # NoThread
    BY <1>24, DatabaseAssumption DEF Release, Late, HasMutex, HandleOf, DatabaseAssumption
  <2>2. \A u \in Threads : HasMutex(u) => u = t
    BY <2>1 DEF IInv, Mutexed
  <2>3. \A u \in Threads : ~HasMutex(u)'
    BY <1>24, <2>2 DEF Release, Go, IInv, TypeOK, HasMutex
  <2> QED
    BY <2>3 DEF Mutexed
<1>19. ASSUME NEW t \in Threads, NEW o \in Calls(t), Start(t, o) PROVE Mutexed'
  BY <1>19, DatabaseAssumption DEF Start, Go, DatabaseAssumption, IInv, TypeOK, Flow, Mutexed, HasMutex, HandleOf, Writes
<1>20. CASE ServerFails \/ ServerReturns
  BY <1>20 DEF ServerFails, ServerReturns, IInv, TypeOK, Flow, Mutexed, HasMutex, HandleOf, Writes
<1>21. CASE UNCHANGED vars
  BY <1>21 DEF vars, IInv, TypeOK, Flow, Mutexed, HasMutex, HandleOf, Writes
<1> QED
  BY <1>1, <1>2, <1>3, <1>4, <1>5, <1>6, <1>7, <1>8, <1>9, <1>10, <1>11,
     <1>12, <1>13, <1>14, <1>15, <1>16, <1>17, <1>18, <1>19, <1>20, <1>21,
     <1>22, <1>23, <1>24 DEF Next, Step

\* A handle is given up by Drop alone, which tells the others.
LEMMA KnownNext == IInv /\ [Next]_vars => Known'
<1> SUFFICES ASSUME IInv, [Next]_vars PROVE Known'
  OBVIOUS
<1> USE DEF server, history
<1>1. ASSUME NEW t \in Threads, Enter(t) PROVE Known'
  BY <1>1, HandleType DEF Enter, Go, RdLock, IInv, TypeOK, Flow, Known, Seen, MyHandle, Works, Writes
<1>2. ASSUME NEW t \in Threads, PingGood(t) PROVE Known'
  BY <1>2, HandleType DEF PingGood, Go, RdUnlock, IInv, TypeOK, Flow, Known, Seen, MyHandle, Works, Writes
<1>3. ASSUME NEW t \in Threads, PingBad(t) PROVE Known'
  BY <1>3, HandleType DEF PingBad, Go, RdUnlock, IInv, TypeOK, Flow, Known, Seen, MyHandle, Works, Writes
<1>4. ASSUME NEW t \in Threads, PingFreed(t) PROVE Known'
  BY <1>4, HandleType DEF PingFreed, Go, BadUse, IInv, TypeOK, Flow, Known, Seen, MyHandle, Works, Writes
<1>5. ASSUME NEW t \in Threads, WrLock(t) PROVE Known'
  BY <1>5, HandleType DEF WrLock, Go, IInv, TypeOK, Flow, Known, Seen, MyHandle, Works, Writes
<1>6. ASSUME NEW t \in Threads, ConnectMysql(t) PROVE Known'
  BY <1>6, HandleType DEF ConnectMysql, Go, IInv, TypeOK, Flow, Known, Seen, MyHandle, Works, Writes
<1>7. ASSUME NEW t \in Threads, ConnectPgsql(t) PROVE Known'
  BY <1>7, HandleType DEF ConnectPgsql, Go, IInv, TypeOK, Flow, Known, Seen, MyHandle, Works, Writes
<1>8. ASSUME NEW t \in Threads, ConnectNull(t) PROVE Known'
  BY <1>8, HandleType DEF ConnectNull, Go, BadUse, IInv, TypeOK, Flow, Known, Seen, MyHandle, Works, Writes
<1>9. ASSUME NEW t \in Threads, Drop(t) PROVE Known'
  BY <1>9, HandleType DEF Drop, Go, IInv, TypeOK, Flow, Known, Seen, MyHandle, Works, Writes
<1>10. ASSUME NEW t \in Threads, UnlockNothing(t) PROVE Known'
  BY <1>10, HandleType DEF UnlockNothing, Go, BadUse, IInv, TypeOK, Flow, Known, Seen, MyHandle, Works, Writes
<1>11. ASSUME NEW t \in Threads, Begin(t) PROVE Known'
  BY <1>11, HandleType DEF Begin, Go, Return, IInv, TypeOK, Known, Seen, MyHandle, HandleOf, Handles, Writes
<1>12. ASSUME NEW t \in Threads, Lock(t) PROVE Known'
  BY <1>12, HandleType DEF Lock, Go, RdLock, IInv, TypeOK, Flow, Known, Seen, MyHandle, Works, Writes
<1>13. ASSUME NEW t \in Threads, LockMemMax(t) PROVE Known'
  BY <1>13, HandleType DEF LockMemMax, Go, RdUnlock, IInv, TypeOK, Flow, Known, Seen, MyHandle, Works, Writes
<1>14. ASSUME NEW t \in Threads, Check(t) PROVE Known'
  BY <1>14, HandleType DEF Check, Go, IInv, TypeOK, Flow, Known, Seen, MyHandle, Works, Writes
<1>15. ASSUME NEW t \in Threads, CheckNull(t) PROVE Known'
  BY <1>15, HandleType DEF CheckNull, Go, RdUnlock, Return, IInv, TypeOK, Flow, Known, Seen, MyHandle, Works, Writes
<1>16. ASSUME NEW t \in Threads, Mutex(t) PROVE Known'
  BY <1>16, HandleType DEF Mutex, Go, IInv, TypeOK, Flow, Known, Seen, MyHandle, Works, Writes
<1>17. ASSUME NEW t \in Threads, Query(t) PROVE Known'
  BY <1>17, HandleType DEF Query, Go, BadUse, IInv, TypeOK, Flow, Known, Seen, MyHandle, Works, Writes
<1>18. ASSUME NEW t \in Threads, Fetch(t) PROVE Known'
  BY <1>18, HandleType DEF Fetch, Go, RdUnlock, BadUse, IInv, TypeOK, Flow, Known, Seen, MyHandle, Works, Writes
<1>22. ASSUME NEW t \in Threads, EnterRefused(t) PROVE Known'
  BY <1>22 DEF EnterRefused, BadUse, IInv, Known, Seen, MyHandle
<1>23. ASSUME NEW t \in Threads, Escape(t) PROVE Known'
  BY <1>23, HandleType DEF Escape, Go, BadUse, IInv, TypeOK, Flow, Known, Seen, MyHandle
<1>24. ASSUME NEW t \in Threads, Release(t) PROVE Known'
  BY <1>24, HandleType DEF Release, Go, IInv, TypeOK, Known, Seen, MyHandle
<1>19. ASSUME NEW t \in Threads, NEW o \in Calls(t), Start(t, o) PROVE Known'
  BY <1>19, HandleType, DatabaseAssumption DEF Start, Go, DatabaseAssumption, IInv, TypeOK, Flow, Known, Seen, MyHandle, Works, Writes
<1>20. CASE ServerFails \/ ServerReturns
  BY <1>20, HandleType DEF ServerFails, ServerReturns, IInv, TypeOK, Flow, Known, Seen, MyHandle, Works, Writes
<1>21. CASE UNCHANGED vars
  BY <1>21, HandleType DEF vars, IInv, TypeOK, Flow, Known, Seen, MyHandle, Works, Writes
<1> QED
  BY <1>1, <1>2, <1>3, <1>4, <1>5, <1>6, <1>7, <1>8, <1>9, <1>10, <1>11,
     <1>12, <1>13, <1>14, <1>15, <1>16, <1>17, <1>18, <1>19, <1>20, <1>21,
     <1>22, <1>23, <1>24 DEF Next, Step

\* Nothing is done without a handle only after it was given up.
LEMMA AccountedNext == IInv /\ [Next]_vars => Accounted'
<1> SUFFICES ASSUME IInv, [Next]_vars PROVE Accounted'
  OBVIOUS
<1> USE DEF server, history
<1>1. ASSUME NEW t \in Threads, Enter(t) PROVE Accounted'
  BY <1>1, HandleType DEF Enter, Go, RdLock, IInv, TypeOK, Flow, Accounted, NothingOnlyIfGiven, MyHandle, HandleOf, Handles, Writes
<1>2. ASSUME NEW t \in Threads, PingGood(t) PROVE Accounted'
  BY <1>2, HandleType DEF PingGood, Go, RdUnlock, IInv, TypeOK, Flow, Accounted, NothingOnlyIfGiven, MyHandle, HandleOf, Handles, Writes
<1>3. ASSUME NEW t \in Threads, PingBad(t) PROVE Accounted'
  BY <1>3, HandleType DEF PingBad, Go, RdUnlock, IInv, TypeOK, Flow, Accounted, NothingOnlyIfGiven, MyHandle, HandleOf, Handles, Writes
<1>4. ASSUME NEW t \in Threads, PingFreed(t) PROVE Accounted'
  BY <1>4, HandleType DEF PingFreed, Go, BadUse, IInv, TypeOK, Flow, Accounted, NothingOnlyIfGiven, MyHandle, HandleOf, Handles, Writes
<1>5. ASSUME NEW t \in Threads, WrLock(t) PROVE Accounted'
  BY <1>5, HandleType DEF WrLock, Go, IInv, TypeOK, Flow, Accounted, NothingOnlyIfGiven, MyHandle, HandleOf, Handles, Writes
<1>6. ASSUME NEW t \in Threads, ConnectMysql(t) PROVE Accounted'
  BY <1>6, HandleType DEF ConnectMysql, Go, IInv, TypeOK, Flow, Accounted, NothingOnlyIfGiven, MyHandle, HandleOf, Handles, Writes
<1>7. ASSUME NEW t \in Threads, ConnectPgsql(t) PROVE Accounted'
  BY <1>7, HandleType DEF ConnectPgsql, Go, IInv, TypeOK, Flow, Accounted, NothingOnlyIfGiven, MyHandle, HandleOf, Handles, Writes
<1>8. ASSUME NEW t \in Threads, ConnectNull(t) PROVE Accounted'
  BY <1>8, HandleType DEF ConnectNull, Go, BadUse, IInv, TypeOK, Flow, Accounted, NothingOnlyIfGiven, MyHandle, HandleOf, Handles, Writes
<1>9. ASSUME NEW t \in Threads, Drop(t) PROVE Accounted'
  BY <1>9, HandleType DEF Drop, Go, IInv, TypeOK, Flow, Accounted, NothingOnlyIfGiven, MyHandle, HandleOf, Handles, Writes
<1>10. ASSUME NEW t \in Threads, UnlockNothing(t) PROVE Accounted'
  BY <1>10, HandleType DEF UnlockNothing, Go, BadUse, IInv, TypeOK, Flow, Accounted, NothingOnlyIfGiven, MyHandle, HandleOf, Handles, Writes
<1>11. ASSUME NEW t \in Threads, Begin(t) PROVE Accounted'
  BY <1>11, HandleType DEF Begin, Go, Return, IInv, TypeOK, Flow, Accounted, NothingOnlyIfGiven, MyHandle, HandleOf, Handles, Writes
<1>12. ASSUME NEW t \in Threads, Lock(t) PROVE Accounted'
  BY <1>12, HandleType DEF Lock, Go, RdLock, IInv, TypeOK, Flow, Accounted, NothingOnlyIfGiven, MyHandle, HandleOf, Handles, Writes
<1>13. ASSUME NEW t \in Threads, LockMemMax(t) PROVE Accounted'
  BY <1>13, HandleType DEF LockMemMax, Go, RdUnlock, IInv, TypeOK, Flow, Accounted, NothingOnlyIfGiven, MyHandle, HandleOf, Handles, Writes
<1>14. ASSUME NEW t \in Threads, Check(t) PROVE Accounted'
  BY <1>14, HandleType DEF Check, Go, IInv, TypeOK, Flow, Accounted, NothingOnlyIfGiven, MyHandle, HandleOf, Handles, Writes
<1>15. ASSUME NEW t \in Threads, CheckNull(t) PROVE Accounted'
  BY <1>15, HandleType DEF CheckNull, Go, RdUnlock, Return, IInv, TypeOK, Flow, Accounted, NothingOnlyIfGiven, MyHandle, HandleOf, Handles, Writes
<1>16. ASSUME NEW t \in Threads, Mutex(t) PROVE Accounted'
  BY <1>16, HandleType DEF Mutex, Go, IInv, TypeOK, Flow, Accounted, NothingOnlyIfGiven, MyHandle, HandleOf, Handles, Writes
<1>17. ASSUME NEW t \in Threads, Query(t) PROVE Accounted'
  BY <1>17, HandleType DEF Query, Go, BadUse, IInv, TypeOK, Flow, Accounted, NothingOnlyIfGiven, MyHandle, HandleOf, Handles, Writes
<1>18. ASSUME NEW t \in Threads, Fetch(t) PROVE Accounted'
  BY <1>18, HandleType DEF Fetch, Go, RdUnlock, BadUse, IInv, TypeOK, Flow, Accounted, NothingOnlyIfGiven, MyHandle, HandleOf, Handles, Writes
<1>22. ASSUME NEW t \in Threads, EnterRefused(t) PROVE Accounted'
  BY <1>22 DEF EnterRefused, BadUse, IInv, Accounted, NothingOnlyIfGiven
<1>23. ASSUME NEW t \in Threads, Escape(t) PROVE Accounted'
  BY <1>23 DEF Escape, Go, BadUse, IInv, TypeOK, Accounted, NothingOnlyIfGiven
<1>24. ASSUME NEW t \in Threads, Release(t) PROVE Accounted'
  BY <1>24 DEF Release, Go, IInv, TypeOK, Accounted, NothingOnlyIfGiven
<1>19. ASSUME NEW t \in Threads, NEW o \in Calls(t), Start(t, o) PROVE Accounted'
  BY <1>19, HandleType, DatabaseAssumption DEF Start, Go, DatabaseAssumption, IInv, TypeOK, Flow, Accounted, NothingOnlyIfGiven, MyHandle, HandleOf, Handles, Writes
<1>20. CASE ServerFails \/ ServerReturns
  BY <1>20, HandleType DEF ServerFails, ServerReturns, IInv, TypeOK, Flow, Accounted, NothingOnlyIfGiven, MyHandle, HandleOf, Handles, Writes
<1>21. CASE UNCHANGED vars
  BY <1>21, HandleType DEF vars, IInv, TypeOK, Flow, Accounted, NothingOnlyIfGiven, MyHandle, HandleOf, Handles, Writes
<1> QED
  BY <1>1, <1>2, <1>3, <1>4, <1>5, <1>6, <1>7, <1>8, <1>9, <1>10, <1>11,
     <1>12, <1>13, <1>14, <1>15, <1>16, <1>17, <1>18, <1>19, <1>20, <1>21,
     <1>22, <1>23, <1>24 DEF Next, Step

\* db_lock_rw counts who is inside, and is held for writing by who connects.
LEMMA LockNext == IInv /\ [Next]_vars => Locked'
<1> SUFFICES ASSUME IInv, [Next]_vars PROVE Locked'
  OBVIOUS
<1> USE DEF server, history
<1>1. ASSUME NEW t \in Threads, Enter(t) PROVE Locked'
  <2>1. PICK where \in {"ping"} : Go(t, where)
    BY <1>1 DEF Enter, Return, Writes
  <2>2. \A u \in Threads : pc'[u] = IF u = t THEN where ELSE pc[u]
    BY <2>1 DEF Go, IInv, TypeOK
  <2>3. Cardinality(Inside) \in Nat /\ Cardinality(Inside') = Cardinality(Inside) + 1
    BY <1>1, <2>1, Count DEF Enter, Places, Reading, IInv
  <2>4. db_type = "mysql" /\ pc[t] \in Reading => readers > 0 /\ writer = NoThread
    BY InsideCounts DEF IInv
  <2> QED
    BY <1>1, <2>1, <2>2, <2>3, <2>4, DatabaseAssumption
    DEF Enter, RdLock, DatabaseAssumption, Reading, IInv, Locked
<1>2. ASSUME NEW t \in Threads, PingGood(t) PROVE Locked'
  <2>1. PICK where \in {"begin"} : Go(t, where)
    BY <1>2 DEF PingGood, Return, Writes
  <2>2. \A u \in Threads : pc'[u] = IF u = t THEN where ELSE pc[u]
    BY <2>1 DEF Go, IInv, TypeOK
  <2>3. Cardinality(Inside) \in Nat /\ Cardinality(Inside') = Cardinality(Inside) - 1
    BY <1>2, <2>1, Count DEF PingGood, Places, Reading, IInv
  <2>4. db_type = "mysql" /\ pc[t] \in Reading => readers > 0 /\ writer = NoThread
    BY InsideCounts DEF IInv
  <2> QED
    BY <1>2, <2>1, <2>2, <2>3, <2>4, DatabaseAssumption
    DEF PingGood, RdUnlock, DatabaseAssumption, Reading, IInv, Locked
<1>3. ASSUME NEW t \in Threads, PingBad(t) PROVE Locked'
  <2>1. PICK where \in {"wrlock"} : Go(t, where)
    BY <1>3 DEF PingBad, Return, Writes
  <2>2. \A u \in Threads : pc'[u] = IF u = t THEN where ELSE pc[u]
    BY <2>1 DEF Go, IInv, TypeOK
  <2>3. Cardinality(Inside) \in Nat /\ Cardinality(Inside') = Cardinality(Inside) - 1
    BY <1>3, <2>1, Count DEF PingBad, Places, Reading, IInv
  <2>4. db_type = "mysql" /\ pc[t] \in Reading => readers > 0 /\ writer = NoThread
    BY InsideCounts DEF IInv
  <2> QED
    BY <1>3, <2>1, <2>2, <2>3, <2>4, DatabaseAssumption
    DEF PingBad, RdUnlock, DatabaseAssumption, Reading, IInv, Locked
<1>4. ASSUME NEW t \in Threads, PingFreed(t) PROVE Locked'
  <2>1. UNCHANGED <<db_type, readers, writer, pc>>
    BY <1>4 DEF PingFreed, BadUse
  <2> QED
    BY <2>1 DEF Locked, Inside, IInv
<1>5. ASSUME NEW t \in Threads, WrLock(t) PROVE Locked'
  <2>1. PICK where \in {"connect"} : Go(t, where)
    BY <1>5 DEF WrLock, Return, Writes
  <2>2. \A u \in Threads : pc'[u] = IF u = t THEN where ELSE pc[u]
    BY <2>1 DEF Go, IInv, TypeOK
  <2>3. Cardinality(Inside) \in Nat /\ Cardinality(Inside') = Cardinality(Inside)
    BY <1>5, <2>1, Count DEF WrLock, Places, Reading, IInv
  <2>4. db_type = "mysql" /\ pc[t] \in Reading => readers > 0 /\ writer = NoThread
    BY InsideCounts DEF IInv
  <2> QED
    BY <1>5, <2>1, <2>2, <2>3, <2>4, DatabaseAssumption
    DEF WrLock, DatabaseAssumption, Reading, IInv, Locked
<1>6. ASSUME NEW t \in Threads, ConnectMysql(t) PROVE Locked'
  <2>1. PICK where \in {"begin", "drop"} : Go(t, where)
    BY <1>6 DEF ConnectMysql, Return, Writes
  <2>2. \A u \in Threads : pc'[u] = IF u = t THEN where ELSE pc[u]
    BY <2>1 DEF Go, IInv, TypeOK
  <2>3. Cardinality(Inside) \in Nat /\ Cardinality(Inside') = Cardinality(Inside)
    BY <1>6, <2>1, Count DEF ConnectMysql, Places, Reading, IInv
  <2>4. db_type = "mysql" /\ pc[t] \in Reading => readers > 0 /\ writer = NoThread
    BY InsideCounts DEF IInv
  <2> QED
    BY <1>6, <2>1, <2>2, <2>3, <2>4, DatabaseAssumption
    DEF ConnectMysql, DatabaseAssumption, Reading, IInv, Locked
<1>7. ASSUME NEW t \in Threads, ConnectPgsql(t) PROVE Locked'
  BY <1>7 DEF ConnectPgsql, server, Locked
<1>8. ASSUME NEW t \in Threads, ConnectNull(t) PROVE Locked'
  <2>1. UNCHANGED <<db_type, readers, writer, pc>>
    BY <1>8 DEF ConnectNull, BadUse
  <2> QED
    BY <2>1 DEF Locked, Inside, IInv
<1>9. ASSUME NEW t \in Threads, Drop(t) PROVE Locked'
  <2>1. PICK where \in {"begin"} : Go(t, where)
    BY <1>9 DEF Drop, Return, Writes
  <2>2. \A u \in Threads : pc'[u] = IF u = t THEN where ELSE pc[u]
    BY <2>1 DEF Go, IInv, TypeOK
  <2>3. Cardinality(Inside) \in Nat /\ Cardinality(Inside') = Cardinality(Inside)
    BY <1>9, <2>1, Count DEF Drop, Places, Reading, IInv
  <2>4. db_type = "mysql" /\ pc[t] \in Reading => readers > 0 /\ writer = NoThread
    BY InsideCounts DEF IInv
  <2> QED
    BY <1>9, <2>1, <2>2, <2>3, <2>4, DatabaseAssumption
    DEF Drop, DatabaseAssumption, Reading, IInv, Locked
<1>10. ASSUME NEW t \in Threads, UnlockNothing(t) PROVE Locked'
  <2>1. UNCHANGED <<db_type, readers, writer, pc>>
    BY <1>10 DEF UnlockNothing, BadUse
  <2> QED
    BY <2>1 DEF Locked, Inside, IInv
<1>11. ASSUME NEW t \in Threads, Begin(t) PROVE Locked'
  <2>1. PICK where \in {"idle", "escape", "lock"} : Go(t, where)
    BY <1>11 DEF Begin, Return, Writes
  <2>2. \A u \in Threads : pc'[u] = IF u = t THEN where ELSE pc[u]
    BY <2>1 DEF Go, IInv, TypeOK
  <2>3. Cardinality(Inside) \in Nat /\ Cardinality(Inside') = Cardinality(Inside)
    BY <1>11, <2>1, Count DEF Begin, Places, Reading, IInv
  <2>4. db_type = "mysql" /\ pc[t] \in Reading => readers > 0 /\ writer = NoThread
    BY InsideCounts DEF IInv
  <2> QED
    BY <1>11, <2>1, <2>2, <2>3, <2>4, DatabaseAssumption
    DEF Begin, DatabaseAssumption, Reading, IInv, Locked
<1>12. ASSUME NEW t \in Threads, Lock(t) PROVE Locked'
  <2>1. PICK where \in {"mutex", "check"} : Go(t, where)
    BY <1>12 DEF Lock, Return, Writes
  <2>2. \A u \in Threads : pc'[u] = IF u = t THEN where ELSE pc[u]
    BY <2>1 DEF Go, IInv, TypeOK
  <2>3. Cardinality(Inside) \in Nat /\ Cardinality(Inside') = Cardinality(Inside) + 1
    BY <1>12, <2>1, Count DEF Lock, Places, Reading, IInv
  <2>4. db_type = "mysql" /\ pc[t] \in Reading => readers > 0 /\ writer = NoThread
    BY InsideCounts DEF IInv
  <2> QED
    BY <1>12, <2>1, <2>2, <2>3, <2>4, DatabaseAssumption
    DEF Lock, RdLock, DatabaseAssumption, Reading, IInv, Locked
<1>13. ASSUME NEW t \in Threads, LockMemMax(t) PROVE Locked'
  BY <1>13 DEF LockMemMax, server, IInv, Flow, Locked
<1>14. ASSUME NEW t \in Threads, Check(t) PROVE Locked'
  <2>1. PICK where \in {"mutex", "query"} : Go(t, where)
    BY <1>14 DEF Check, Return, Writes
  <2>2. \A u \in Threads : pc'[u] = IF u = t THEN where ELSE pc[u]
    BY <2>1 DEF Go, IInv, TypeOK
  <2>3. Cardinality(Inside) \in Nat /\ Cardinality(Inside') = Cardinality(Inside)
    BY <1>14, <2>1, Count DEF Check, Places, Reading, IInv
  <2>4. db_type = "mysql" /\ pc[t] \in Reading => readers > 0 /\ writer = NoThread
    BY InsideCounts DEF IInv
  <2> QED
    BY <1>14, <2>1, <2>2, <2>3, <2>4, DatabaseAssumption
    DEF Check, DatabaseAssumption, Reading, IInv, Locked
<1>15. ASSUME NEW t \in Threads, CheckNull(t) PROVE Locked'
  <2>1. PICK where \in {"idle"} : Go(t, where)
    BY <1>15 DEF CheckNull, Return, Writes
  <2>2. \A u \in Threads : pc'[u] = IF u = t THEN where ELSE pc[u]
    BY <2>1 DEF Go, IInv, TypeOK
  <2>3. Cardinality(Inside) \in Nat /\ Cardinality(Inside') = Cardinality(Inside) - 1
    BY <1>15, <2>1, Count DEF CheckNull, Places, Reading, IInv
  <2>4. db_type = "mysql" /\ pc[t] \in Reading => readers > 0 /\ writer = NoThread
    BY InsideCounts DEF IInv
  <2> QED
    BY <1>15, <2>1, <2>2, <2>3, <2>4, DatabaseAssumption
    DEF CheckNull, RdUnlock, DatabaseAssumption, Reading, IInv, Locked
<1>16. ASSUME NEW t \in Threads, Mutex(t) PROVE Locked'
  <2>1. PICK where \in {"query"} : Go(t, where)
    BY <1>16 DEF Mutex, Return, Writes
  <2>2. \A u \in Threads : pc'[u] = IF u = t THEN where ELSE pc[u]
    BY <2>1 DEF Go, IInv, TypeOK
  <2>3. Cardinality(Inside) \in Nat /\ Cardinality(Inside') = Cardinality(Inside)
    BY <1>16, <2>1, Count DEF Mutex, Places, Reading, IInv
  <2>4. db_type = "mysql" /\ pc[t] \in Reading => readers > 0 /\ writer = NoThread
    BY InsideCounts DEF IInv
  <2> QED
    BY <1>16, <2>1, <2>2, <2>3, <2>4, DatabaseAssumption
    DEF Mutex, DatabaseAssumption, Reading, IInv, Locked
<1>17. ASSUME NEW t \in Threads, Query(t) PROVE Locked'
  <2>1. CASE BadUse(t)
    BY <2>1 DEF BadUse, Locked, Inside, IInv
  <2>2. CASE Go(t, "fetch") /\ UNCHANGED <<server, readers, writer>>
    BY <1>17, <2>2, Count DEF Query, Go, Places, Reading, IInv, TypeOK, Locked
  <2> QED
    BY <1>17, <2>1, <2>2 DEF Query
<1>18. ASSUME NEW t \in Threads, Fetch(t) PROVE Locked'
  <2>1. CASE BadUse(t)
    BY <2>1 DEF BadUse, Locked, Inside, IInv
  <2>2. CASE Go(t, "idle") /\ RdUnlock /\ UNCHANGED <<server, writer>>
    BY <1>18, <2>2, Count, InsideCounts DEF Fetch, RdUnlock, Go, Places, Reading, IInv, TypeOK, Locked
  <2> QED
    BY <1>18, <2>1, <2>2 DEF Fetch
<1>22. ASSUME NEW t \in Threads, EnterRefused(t) PROVE Locked'
  <2>1. UNCHANGED <<db_type, readers, writer, pc>>
    BY <1>22 DEF EnterRefused, BadUse
  <2> QED
    BY <2>1 DEF Locked, Inside, IInv
<1>23. ASSUME NEW t \in Threads, Escape(t) PROVE Locked'
  <2>1. CASE BadUse(t)
    BY <2>1 DEF BadUse, Locked, Inside, IInv
  <2>2. CASE Go(t, "lock") /\ UNCHANGED <<server, readers, writer>>
    BY <1>23, <2>2, Count DEF Escape, Go, Places, Reading, IInv, TypeOK, Locked
  <2> QED
    BY <1>23, <2>1, <2>2 DEF Escape
<1>24. ASSUME NEW t \in Threads, Release(t) PROVE Locked'
  <2>1. Inside' = Inside
    BY <1>24, Count DEF Release, Places, Reading, IInv
  <2>2. \A u \in Threads : pc'[u] = "connect" <=> pc[u] = "connect"
    BY <1>24 DEF Release, Go, IInv, TypeOK
  <2> QED
    BY <1>24, <2>1, <2>2 DEF Release, IInv, Locked
<1>19. ASSUME NEW t \in Threads, NEW o \in Calls(t), Start(t, o) PROVE Locked'
  <2>1. PICK where \in {"enter"} : Go(t, where)
    BY <1>19 DEF Start, Return, Writes
  <2>2. \A u \in Threads : pc'[u] = IF u = t THEN where ELSE pc[u]
    BY <2>1 DEF Go, IInv, TypeOK
  <2>3. Cardinality(Inside) \in Nat /\ Cardinality(Inside') = Cardinality(Inside)
    BY <1>19, <2>1, Count DEF Start, Places, Reading, IInv
  <2>4. db_type = "mysql" /\ pc[t] \in Reading => readers > 0 /\ writer = NoThread
    BY InsideCounts DEF IInv
  <2> QED
    BY <1>19, <2>1, <2>2, <2>3, <2>4, DatabaseAssumption
    DEF Start, DatabaseAssumption, Reading, IInv, Locked
<1>20. CASE ServerFails \/ ServerReturns
  BY <1>20 DEF ServerFails, ServerReturns, Locked, Inside, IInv
<1>21. CASE UNCHANGED vars
  BY <1>21 DEF vars, Locked, Inside, IInv
<1> QED
  BY <1>1, <1>2, <1>3, <1>4, <1>5, <1>6, <1>7, <1>8, <1>9, <1>10, <1>11,
     <1>12, <1>13, <1>14, <1>15, <1>16, <1>17, <1>18, <1>19, <1>20, <1>21,
     <1>22, <1>23, <1>24 DEF Next, Step

\* A handle that a thread has seen is gone only if another gave it up.
LEMMA BadNext == IInv /\ [Next]_vars => BadNeedsAnother'
<1> SUFFICES ASSUME IInv, [Next]_vars PROVE BadNeedsAnother'
  OBVIOUS
<1> USE DEF server, history
<1>1. ASSUME NEW t \in Threads, Enter(t) PROVE BadNeedsAnother'
  BY <1>1 DEF Enter, Go, RdLock, IInv, TypeOK, BadNeedsAnother
<1>2. ASSUME NEW t \in Threads, PingGood(t) PROVE BadNeedsAnother'
  BY <1>2 DEF PingGood, Go, RdUnlock, IInv, TypeOK, BadNeedsAnother
<1>3. ASSUME NEW t \in Threads, PingBad(t) PROVE BadNeedsAnother'
  BY <1>3 DEF PingBad, Go, RdUnlock, IInv, TypeOK, BadNeedsAnother
<1>4. ASSUME NEW t \in Threads, PingFreed(t) PROVE BadNeedsAnother'
  BY <1>4, HandleType DEF PingFreed, MyHandle, IInv, Known, BadNeedsAnother, BadUse
<1>5. ASSUME NEW t \in Threads, WrLock(t) PROVE BadNeedsAnother'
  <2>1. CASE bad = NoThread
    BY <1>5, <2>1 DEF WrLock, BadNeedsAnother
  <2>2. CASE UNCHANGED vars
    BY <2>2 DEF vars, IInv, BadNeedsAnother
  <2> QED
    BY <2>1, <2>2 DEF Next
<1>6. ASSUME NEW t \in Threads, ConnectMysql(t) PROVE BadNeedsAnother'
  <2>1. CASE bad = NoThread
    BY <1>6, <2>1 DEF ConnectMysql, BadNeedsAnother
  <2>2. CASE UNCHANGED vars
    BY <2>2 DEF vars, IInv, BadNeedsAnother
  <2> QED
    BY <2>1, <2>2 DEF Next
<1>7. ASSUME NEW t \in Threads, ConnectPgsql(t) PROVE BadNeedsAnother'
  BY <1>7 DEF ConnectPgsql, Go, IInv, TypeOK, BadNeedsAnother
<1>8. ASSUME NEW t \in Threads, ConnectNull(t) PROVE BadNeedsAnother'
  BY <1>8 DEF ConnectNull, Seen, IInv, Known, BadNeedsAnother, BadUse
<1>9. ASSUME NEW t \in Threads, Drop(t) PROVE BadNeedsAnother'
  BY <1>9 DEF Drop, Go, IInv, TypeOK, BadNeedsAnother
<1>10. ASSUME NEW t \in Threads, UnlockNothing(t) PROVE BadNeedsAnother'
  <2>1. db_type = "mysql" => FALSE
    BY <1>10, InsideCounts DEF UnlockNothing, Reading, IInv, Flow
  <2> QED
    BY <1>10, <2>1 DEF UnlockNothing, BadUse, BadNeedsAnother
<1>11. ASSUME NEW t \in Threads, Begin(t) PROVE BadNeedsAnother'
  BY <1>11 DEF Begin, Go, Return, IInv, TypeOK, BadNeedsAnother
<1>12. ASSUME NEW t \in Threads, Lock(t) PROVE BadNeedsAnother'
  BY <1>12 DEF Lock, Go, RdLock, IInv, TypeOK, BadNeedsAnother
<1>13. ASSUME NEW t \in Threads, LockMemMax(t) PROVE BadNeedsAnother'
  BY <1>13 DEF LockMemMax, Go, RdUnlock, IInv, TypeOK, BadNeedsAnother
<1>14. ASSUME NEW t \in Threads, Check(t) PROVE BadNeedsAnother'
  BY <1>14 DEF Check, Go, IInv, TypeOK, BadNeedsAnother
<1>15. ASSUME NEW t \in Threads, CheckNull(t) PROVE BadNeedsAnother'
  BY <1>15 DEF CheckNull, Go, RdUnlock, Return, IInv, TypeOK, BadNeedsAnother
<1>16. ASSUME NEW t \in Threads, Mutex(t) PROVE BadNeedsAnother'
  BY <1>16 DEF Mutex, Go, IInv, TypeOK, BadNeedsAnother
<1>17. ASSUME NEW t \in Threads, Query(t) PROVE BadNeedsAnother'
  BY <1>17, HandleType DEF Query, Seen, MyHandle, IInv, TypeOK, Known, BadNeedsAnother, BadUse
<1>18. ASSUME NEW t \in Threads, Fetch(t) PROVE BadNeedsAnother'
  BY <1>18, HandleType DEF Fetch, Seen, MyHandle, IInv, TypeOK, Known, BadNeedsAnother, BadUse
<1>22. ASSUME NEW t \in Threads, EnterRefused(t) PROVE BadNeedsAnother'
  BY <1>22 DEF EnterRefused, BadUse, BadNeedsAnother
<1>23. ASSUME NEW t \in Threads, Escape(t) PROVE BadNeedsAnother'
  <2>1. db_type = "mysql" => handle["w"] = "open" \/ met[t]
    BY <1>23 DEF Escape, Seen, MyHandle, IInv, Flow, Known
  <2> QED
    BY <1>23, <2>1 DEF Escape, Go, IInv, TypeOK, BadNeedsAnother, BadUse
<1>24. ASSUME NEW t \in Threads, Release(t) PROVE BadNeedsAnother'
  BY <1>24 DEF Release, Go, IInv, TypeOK, BadNeedsAnother
<1>19. ASSUME NEW t \in Threads, NEW o \in Calls(t), Start(t, o) PROVE BadNeedsAnother'
  <2>1. CASE bad = NoThread
    BY <1>19, <2>1 DEF Start, BadNeedsAnother
  <2>2. CASE UNCHANGED vars
    BY <2>2 DEF vars, IInv, BadNeedsAnother
  <2> QED
    BY <2>1, <2>2 DEF Next
<1>20. CASE ServerFails \/ ServerReturns
  BY <1>20 DEF ServerFails, ServerReturns, IInv, TypeOK, BadNeedsAnother
<1>21. CASE UNCHANGED vars
  BY <1>21 DEF vars, IInv, TypeOK, BadNeedsAnother
<1> QED
  BY <1>1, <1>2, <1>3, <1>4, <1>5, <1>6, <1>7, <1>8, <1>9, <1>10, <1>11,
     <1>12, <1>13, <1>14, <1>15, <1>16, <1>17, <1>18, <1>19, <1>20, <1>21,
     <1>22, <1>23, <1>24 DEF Next, Step

-----------------------------------------------------------------------------
(* The theorems.                                                           *)

\* The inductive invariant holds: who is where in a call, who holds which lock, and
\* what each caller knows of the handle (sql_adapter.c:439-520).
THEOREM Invariant == Spec => []IInv
<1>1. IInv /\ [Next]_vars => IInv'
  BY TypeNext, FlowNext, MutexNext, LockNext, KnownNext, AccountedNext, BadNext DEF IInv
<1> QED
  BY <1>1, InitInv, PTL DEF Spec

\* Every variable stays in its type; the count of read locks is never below 0.
THEOREM TypeCorrect == Spec => []TypeOK
<1>1. IInv => TypeOK
  BY DEF IInv
<1> QED
  BY <1>1, Invariant, PTL

\* With MySQL a thread connects alone, and with both databases one thread at a
\* time writes (sql_adapter.c:446-469).
THEOREM ConnectsAlone == Spec => []ConnectAlone
<1>1. ASSUME IInv, db_type = "mysql", NEW t \in Threads, NEW u \in Threads, pc[t] = "connect"
      PROVE  pc[u] \notin Reading /\ (pc[u] = "connect" => u = t)
  <2>1. writer = t /\ t # NoThread
    BY <1>1, DatabaseAssumption DEF IInv, Locked, DatabaseAssumption
  <2>2. pc[u] \notin Reading
    BY <1>1, <2>1, InsideCounts DEF IInv
  <2> QED
    BY <1>1, <2>1, <2>2 DEF IInv, Locked
<1>2. IInv => ConnectAlone
  BY <1>1 DEF ConnectAlone, IInv, Mutexed
<1> QED
  BY <1>2, Invariant, PTL

\* With MySQL a handle is misused only where another thread gave it up under a
\* call that had checked it (sql_adapter.c:444).
THEOREM MisuseNeedsAnother == Spec => []BadNeedsAnother
<1>1. IInv => BadNeedsAnother
  BY DEF IInv
<1> QED
  BY <1>1, Invariant, PTL

\* A row is dropped without a word only after the handle was given up.
THEOREM NothingDoneAccounted == Spec => []NothingOnlyIfGiven
<1>1. IInv => NothingOnlyIfGiven
  BY DEF IInv, Accounted
<1> QED
  BY <1>1, Invariant, PTL
=============================================================================
