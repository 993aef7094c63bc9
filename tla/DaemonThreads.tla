--------------------------- MODULE DaemonThreads ---------------------------
(***************************************************************************)
(* The three threads of the daemon, their five mutexes, the signal         *)
(* handlers and the way out: performance_module_server with its main cycle *)
(* (main), proceed_data_every_second (cleaner) and                         *)
(* proceed_data_every_second2 (saver), mod_performance.c and               *)
(* tid_pid_list_ut.c.                                                      *)
(*                                                                         *)
(* A thread is at a `stage' of its loop, inside the critical sections      *)
(* `held', and waits for the mutex `want'.  The lists and tables behind    *)
(* the mutexes are in Accounting; here a walk over a list or a table has   *)
(* up to MaxItems items.  Process signals are delivered to main, whose     *)
(* code is suspended until the handler on top of `stack' has returned.     *)
(***************************************************************************)
EXTENDS Naturals, Sequences, FiniteSets, SequencesExt

CONSTANTS MayDie,      \* may the process of a tracked request be gone?
          Handlers,    \* the handlers that use the database: SIGALRM, defrag
          MaxSignals,  \* bound: signals delivered to them
          MaxItems     \* bound: items in a list or table

ASSUME DaemonAssumption ==
  /\ MayDie \in BOOLEAN
  /\ Handlers \subseteq {"alarm", "defrag"}
  /\ MaxSignals \in Nat /\ MaxItems \in Nat

VARIABLES
  stage,      \* where each thread is
  held,       \* the critical sections each thread is in
  want,       \* the mutex the cleaner or the saver waits for, or None
  items,      \* how many more a thread's round over a list or array may meet
  stack,      \* the signal handlers running on main, the last one on top
  inDb,       \* those of them that have locked mutex_db
  signals,    \* signals still to come
  alive,      \* the mutexes not destroyed yet
  freed,      \* destroy_tid_pid_ut has freed the tables and lists
  exit,       \* daemon_should_exit # 0
  gone        \* "no", or how the process ended

vars == <<stage, held, want, items, stack, inDb, signals, alive, freed, exit, gone>>

Threads == {"main", "cleaner", "saver"}
Locks   == {"list", "rem", "tid", "cnt", "db"}
None    == "none"

\* The order in which destroy_tid_pid_ut destroys its mutexes: main's stage
\* names the one that is next.
NextStage == [tid |-> "cnt", cnt |-> "list", list |-> "rem", rem |-> "join1"]

Init ==
  /\ stage = [t \in Threads |-> "head"]
  /\ held  = [t \in Threads |-> {}]
  /\ want  = [t \in Threads |-> None]
  /\ items = [t \in Threads |-> MaxItems]
  /\ stack = <<>> /\ inDb = {} /\ signals = MaxSignals
  /\ alive = Locks /\ freed = FALSE /\ exit = FALSE /\ gone = "no"

-----------------------------------------------------------------------------
GoTo(t, s)  == stage' = [stage EXCEPT ![t] = s]
Ask(t, l)   == want' = [want EXCEPT ![t] = l]
Enter(t, l) == held' = [held EXCEPT ![t] = @ \cup {l}]
NextItem(t) == items[t] > 0 /\ items' = [items EXCEPT ![t] = @ - 1]
NewWalk(t)  == items' = [items EXCEPT ![t] = MaxItems]
Leave(t, l) == held' = [held EXCEPT ![t] = @ \ {l}]

\* apr_thread_mutex_lock returns: at once with an error when the mutex was
\* destroyed (no caller looks), otherwise when nobody is in the section.
Free(l) == l \in alive => \A t \in Threads : l \notin held[t]

Runs(t) == gone = "no" /\ want[t] = None
MainRuns == gone = "no" /\ stack = <<>>

handlerVars == <<stack, inDb, signals>>
endVars     == <<alive, freed, exit, gone>>

Grant(t) ==
  /\ gone = "no"
  /\ want[t] # None /\ Free(want[t])
  /\ Enter(t, want[t]) /\ Ask(t, None)
  /\ UNCHANGED <<stage, items, handlerVars, endVars>>

-----------------------------------------------------------------------------
(* main: performance_server_main_cycle and the end of                      *)
(* performance_module_server.                                              *)

\* poll returns: up to MaxItems reads are made in this round.
BeginRound ==
  /\ MainRuns /\ stage["main"] = "head" /\ ~exit
  /\ GoTo("main", "scan") /\ NewWalk("main")
  /\ UNCHANGED <<held, want, handlerVars, endVars>>

\* performance_read_data_from.  It blocks, and no signal gets it out (EINTR):
\* where poll reported a message it has one, but stale revents lead to
\* connections that have none (Block of PollLoop).
BeginRead ==
  /\ MainRuns /\ stage["main"] = "scan"
  /\ NextItem("main") /\ GoTo("main", "read")
  /\ UNCHANGED <<held, want, handlerVars, endVars>>

ReadFails ==
  /\ MainRuns /\ stage["main"] = "read"
  /\ GoTo("main", "scan")
  /\ UNCHANGED <<held, want, items, handlerVars, endVars>>

\* A message came, or the other side ended:
\* apr_thread_mutex_trylock in add_item_to_list_ut, add_item_to_removelist_ut.
\* On EBUSY the item goes to the second list, which changes nothing here.
Try(l) ==
  /\ MainRuns /\ stage["main"] = "read" /\ Free(l)
  /\ GoTo("main", "push") /\ Enter("main", l)
  /\ UNCHANGED <<want, items, handlerVars, endVars>>

Pushed ==
  /\ MainRuns /\ stage["main"] = "push"
  /\ GoTo("main", "scan")
  /\ held' = [held EXCEPT !["main"] = {}]
  /\ UNCHANGED <<want, items, handlerVars, endVars>>

EndRound ==
  /\ MainRuns /\ stage["main"] = "scan"
  /\ GoTo("main", "head")
  /\ UNCHANGED <<held, want, items, handlerVars, endVars>>

\* poll fails with something else than EINTR: the cycle returns at once.
PollError ==
  /\ MainRuns /\ stage["main"] = "head" /\ ~exit
  /\ GoTo("main", "join1") /\ exit' = TRUE
  /\ UNCHANGED <<held, want, items, handlerVars, alive, freed, gone>>

\* The cycle ends: destroy_tid_pid_ut frees tables and lists ...
FreeTables ==
  /\ MainRuns /\ stage["main"] = "head" /\ exit
  /\ GoTo("main", "tid") /\ freed' = TRUE
  /\ UNCHANGED <<held, want, items, handlerVars, alive, exit, gone>>

\* ... and destroys the mutexes one by one; a locked one stays (EBUSY).
DestroyMutex(l) ==
  /\ MainRuns /\ stage["main"] = l
  /\ alive' = IF Free(l) THEN alive \ {l} ELSE alive
  /\ GoTo("main", NextStage[l])
  /\ UNCHANGED <<held, want, items, handlerVars, freed, exit, gone>>

JoinCleaner ==
  /\ MainRuns /\ stage["main"] = "join1" /\ stage["cleaner"] = "done"
  /\ GoTo("main", "join2")
  /\ UNCHANGED <<held, want, items, handlerVars, endVars>>

\* The saver is joined, mutex_db destroyed, and the process exits.
JoinSaver ==
  /\ MainRuns /\ stage["main"] = "join2" /\ stage["saver"] = "done"
  /\ GoTo("main", "done")
  /\ alive' = alive \ {"db"}
  /\ gone' = "exited"
  /\ UNCHANGED <<held, want, items, handlerVars, freed, exit>>

\* The steps main always gets to.
MainMoves == \/ BeginRound \/ Pushed \/ EndRound \/ FreeTables \/ JoinCleaner \/ JoinSaver
             \/ \E l \in DOMAIN NextStage : DestroyMutex(l)

\* The return of read.
ReadReturns == ReadFails \/ \E l \in {"list", "rem"} : Try(l)

Main == BeginRead \/ ReadReturns \/ PollError \/ MainMoves

-----------------------------------------------------------------------------
(* Signals.  SIGHUP and the restart timer only count daemon_should_exit up. *)

Stop ==
  /\ gone = "no" /\ ~exit /\ exit' = TRUE
  /\ UNCHANGED <<stage, held, want, items, handlerVars, alive, freed, gone>>

\* performance_module_alarm and performance_db_defrag_action; a handler masks
\* its own signal and no other.
Deliver(h) ==
  /\ gone = "no" /\ signals > 0 /\ h \notin Range(stack)
  /\ stack' = Append(stack, h) /\ signals' = signals - 1
  /\ UNCHANGED <<stage, held, want, items, inDb, endVars>>

\* sql_adapter_get_delete_table, sql_adapter_optimize_table.
HandlerLocks(h) ==
  /\ gone = "no" /\ stack # <<>> /\ h = Last(stack) /\ h \notin inDb
  /\ Free("db")
  /\ inDb' = inDb \cup {h} /\ Enter("main", "db")
  /\ UNCHANGED <<stage, want, items, stack, signals, endVars>>

HandlerReturns(h) ==
  /\ gone = "no" /\ stack # <<>> /\ h = Last(stack) /\ h \in inDb
  /\ stack' = Front(stack) /\ inDb' = inDb \ {h} /\ Leave("main", "db")
  /\ UNCHANGED <<stage, want, items, signals, endVars>>

Signals == \E h \in Handlers : HandlerLocks(h) \/ HandlerReturns(h)

-----------------------------------------------------------------------------
(* The cleaner: clean_item_list_ut, usleep, prcd_function_ut.              *)

Walks == {"list1", "list2", "rem1", "rem2"}
Visited(s) == IF s \in {"list1", "list2"} THEN {"tid", "cnt"} ELSE {"tid"}

\* The cleaner is at a stage and inside no table.
At(s) == Runs("cleaner") /\ stage["cleaner"] = s /\ held["cleaner"] \cap {"tid", "cnt"} = {}

BeginPass ==
  /\ At("head") /\ ~exit
  /\ GoTo("cleaner", "list1") /\ Ask("cleaner", "list")
  /\ UNCHANGED <<held, items, handlerVars, endVars>>

\* One item: the tables' own functions lock and unlock their mutex.
Visit(l) ==
  /\ \E s \in Walks : At(s) /\ l \in Visited(s)
  /\ NextItem("cleaner") /\ Ask("cleaner", l)
  /\ UNCHANGED <<stage, held, handlerVars, endVars>>

Leaves(l) ==
  /\ Runs("cleaner") /\ stage["cleaner"] \in Walks /\ l \in held["cleaner"]
  /\ Leave("cleaner", l)
  /\ UNCHANGED <<stage, want, items, handlerVars, endVars>>

\* Seeded fault: mutex_list_ut is kept.
ListKept ==
  /\ At("list1") /\ GoTo("cleaner", "list2")
  /\ NewWalk("cleaner")
  /\ UNCHANGED <<held, want, handlerVars, endVars>>

ReleaseList ==
  /\ At("list1")
  /\ GoTo("cleaner", "list2") /\ Leave("cleaner", "list")
  /\ NewWalk("cleaner")
  /\ UNCHANGED <<want, handlerVars, endVars>>

BeginRemove ==
  /\ At("list2")
  /\ GoTo("cleaner", "rem1") /\ Ask("cleaner", "rem")
  /\ NewWalk("cleaner")
  /\ UNCHANGED <<held, handlerVars, endVars>>

ReleaseRemove ==
  /\ At("rem1")
  /\ GoTo("cleaner", "rem2") /\ Leave("cleaner", "rem")
  /\ NewWalk("cleaner")
  /\ UNCHANGED <<want, handlerVars, endVars>>

\* The pass is over; usleep, and prcd_function_ut: the sampler runs when 0.1 s have passed.
Wake ==
  /\ At("rem2")
  /\ \/ GoTo("cleaner", "head") /\ UNCHANGED want
     \/ GoTo("cleaner", "sample") /\ Ask("cleaner", "tid")
  /\ NewWalk("cleaner")
  /\ UNCHANGED <<held, handlerVars, endVars>>

\* proceed_tid_pid_ut, all tracked processes alive.
Sampled ==
  /\ Runs("cleaner") /\ stage["cleaner"] = "sample"
  /\ GoTo("cleaner", "head") /\ Leave("cleaner", "tid")
  /\ NewWalk("cleaner")
  /\ UNCHANGED <<want, handlerVars, endVars>>

\* proceed_tid_pid_ut, one of them dead: remove_tid_bad_from_list_ut looks the
\* entry up with get_tid_pid_data_ut, which locks mutex_tid_ut once more.
FoundDead ==
  /\ MayDie
  /\ Runs("cleaner") /\ stage["cleaner"] = "sample"
  /\ NextItem("cleaner") /\ Ask("cleaner", "tid")
  /\ UNCHANGED <<stage, held, handlerVars, endVars>>

CleanerStops ==
  /\ At("head") /\ exit /\ GoTo("cleaner", "done")
  /\ UNCHANGED <<held, want, items, handlerVars, endVars>>

Cleaner == \/ BeginPass \/ ReleaseList \/ BeginRemove \/ ReleaseRemove
           \/ Wake \/ Sampled \/ FoundDead \/ CleanerStops
           \/ \E l \in {"tid", "cnt"} : Visit(l) \/ Leaves(l)

-----------------------------------------------------------------------------
(* The saver: usleep and prcd_function2_ut.                                *)

\* Seeded fault: while (1).
SaverUnchecked ==
  /\ Runs("saver") /\ stage["saver"] = "head"
  /\ GoTo("saver", "sleep")
  /\ UNCHANGED <<held, want, items, handlerVars, endVars>>

\* Whoever passed the test of daemon_should_exit saves once more.
SaverChecks ==
  /\ Runs("saver") /\ stage["saver"] = "head"
  /\ GoTo("saver", IF exit THEN "done" ELSE "sleep")
  /\ UNCHANGED <<held, want, items, handlerVars, endVars>>

BeginSave ==
  /\ Runs("saver") /\ stage["saver"] = "sleep"
  /\ \/ GoTo("saver", "head") /\ UNCHANGED want
     \/ GoTo("saver", "rows") /\ Ask("saver", "cnt")
  /\ UNCHANGED <<held, items, handlerVars, endVars>>

\* Seeded fault: a row is saved under mutex_list_ut.
SaveRowListed ==
  /\ Runs("saver") /\ stage["saver"] = "rows" /\ "db" \notin held["saver"]
  /\ NextItem("saver") /\ Ask("saver", "list")
  /\ UNCHANGED <<stage, held, handlerVars, endVars>>

\* One row: performance_module_save_to_db.
SaveRow ==
  /\ Runs("saver") /\ stage["saver"] = "rows" /\ "db" \notin held["saver"]
  /\ NextItem("saver") /\ Ask("saver", "db")
  /\ UNCHANGED <<stage, held, handlerVars, endVars>>

RowSaved ==
  /\ Runs("saver") /\ "db" \in held["saver"]
  /\ Leave("saver", "db")
  /\ UNCHANGED <<stage, want, items, handlerVars, endVars>>

EndSave ==
  /\ Runs("saver") /\ stage["saver"] = "rows" /\ "db" \notin held["saver"]
  /\ GoTo("saver", "head") /\ Leave("saver", "cnt")
  /\ NewWalk("saver")
  /\ UNCHANGED <<want, handlerVars, endVars>>

Saver == SaverChecks \/ BeginSave \/ SaveRow \/ RowSaved \/ EndSave

-----------------------------------------------------------------------------
\* Tables or lists that were freed are still being walked: what that does is
\* undefined, the walk goes on or the process dies of it.
Crash ==
  /\ gone = "no" /\ freed
  /\ \/ stage["cleaner"] \in Walks \cup {"sample"}
     \/ stage["saver"] = "rows"
  /\ gone' = "crashed"
  /\ UNCHANGED <<stage, held, want, items, handlerVars, alive, freed, exit>>

\* The process is gone; its parent notices.
Ended == gone # "no" /\ UNCHANGED vars

Next == \/ Main \/ Stop \/ Signals \/ Cleaner \/ Saver \/ Crash \/ Ended
        \/ \E h \in Handlers : Deliver(h)
        \/ \E t \in {"cleaner", "saver"} : Grant(t)

Spec == Init /\ [][Next]_vars

\* Every thread is scheduled, main but for its read, which nothing makes return.
\* A mutex that is free again and again is not refused for ever; signals, hours
\* apart, are few enough not to keep main from running.
Fairness ==
  /\ WF_vars(MainMoves) /\ SF_vars(Signals)
  /\ SF_vars(Grant("cleaner")) /\ SF_vars(Grant("saver"))
  /\ WF_vars(Cleaner) /\ WF_vars(Saver)

FairSpec == Spec /\ Fairness

\* The same with clients that send or end in time.
ReadFairSpec == FairSpec /\ WF_vars(ReadReturns)
-----------------------------------------------------------------------------
\* What each variable may hold; no handler is on the stack twice, and only
\* handlers on the stack have mutex_db.
TypeOK ==
  /\ stage \in [Threads -> {"head", "scan", "read", "push", "tid", "cnt", "list", "rem", "join1", "join2",
                            "done", "sleep", "sample", "rows"} \cup Walks]
  /\ held \in [Threads -> SUBSET Locks]
  /\ want \in [Threads -> Locks \cup {None}]
  /\ stack \in Seq(Handlers) /\ IsInjective(stack)
  /\ inDb \subseteq Range(stack)
  /\ items \in [Threads -> 0..MaxItems] /\ signals \in 0..MaxSignals
  /\ alive \subseteq Locks
  /\ freed \in BOOLEAN /\ exit \in BOOLEAN
  /\ gone \in {"no", "exited", "crashed"}

\* Two threads are never in the section of one mutex as long as it exists: main
\* never waits for the lists but tries, the others wait.
Exclusion ==
  \A t, u \in Threads : t # u => held[t] \cap held[u] \cap alive = {}

\* What a thread waits for: a signal handler of main for mutex_db.
Waits(t) ==
  IF t # "main" THEN {want[t]} \ {None}
  ELSE IF stack # <<>> /\ Last(stack) \notin inDb THEN {"db"} ELSE {}

SelfLocked(t) == Waits(t) \cap held[t] \cap alive # {}

\* Nobody waits for a mutex below or beside one he holds: lists, then tables,
\* then the database.  No comment in the code says so; everything rests on it.
\* There are two ways to break it, and both lock a mutex twice: the sampler
\* that finds a dead process, and a handler that interrupts the other one.
Rank == [list |-> 1, rem |-> 1, tid |-> 2, cnt |-> 2, db |-> 3]

Relocks(t) == \/ t = "cleaner" /\ MayDie /\ stage[t] = "sample"
              \/ t = "main" /\ Len(stack) > 1

LockOrder ==
  \A t \in Threads : \A h \in held[t], l \in Waits(t) :
    Rank[h] < Rank[l] \/ (h = l /\ Relocks(t))

\* The threads never all wait for each other: as long as one waits, one is let
\* in, or is inside a section and runs, or waits for a mutex it holds itself.  The
\* saver waits for mutex_db inside mutex_counters_ut, the cleaner for that inside
\* mutex_list_ut, the handlers on main for mutex_db inside any of them.
SomeoneMoves ==
  (gone = "no" /\ \E t \in Threads : Waits(t) # {})
     => \E t \in Threads : \/ \E l \in Waits(t) : Free(l)
                           \/ Waits(t) = {} /\ held[t] # {}
                           \/ SelfLocked(t)

\* main sits in a read that does not return.
InRead == stage["main"] = "read"

\* Told to stop, by SIGHUP or by the restart timer, the daemon ends and its
\* parent can start the next one, unless a thread has locked itself out or main
\* stays in a read for ever: daemon_should_exit is looked at between rounds, and
\* the signal does not interrupt the read (mod_performance.c:513).
EndsOrSelfLocks ==
  []<>~InRead => (exit ~> (gone # "no" \/ \E t \in Threads : SelfLocked(t)))

\* Told to stop, the daemon ends.
ExitCompletes == exit ~> (gone # "no")
==============================================================================
