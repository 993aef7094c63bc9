------------------------ MODULE DaemonThreadsProofs ------------------------
(***************************************************************************)
(* Proofs about the daemon's threads, for any number of signals and items, *)
(* with or without dead processes and whichever handlers are installed.    *)
(* The inductive invariant says for each thread which sections it is in    *)
(* and which it can be waiting for at each stage of its loop.              *)
(***************************************************************************)
EXTENDS DaemonThreads, TLAPS

\* main is in a list's section while it pushes, and in mutex_db's section
\* exactly while one of the handlers that run on it is.
MainPlace ==
  /\ stage["main"] \in {"head", "scan", "read", "push", "join1", "join2", "done"} \cup DOMAIN NextStage
  /\ want["main"] = None
  /\ held["main"] \subseteq {"list", "rem", "db"}
  /\ stage["main"] # "push" => held["main"] \subseteq {"db"}
  /\ "db" \in held["main"] <=> inDb # {}
  /\ \A g, h \in inDb : g = h

\* What the cleaner is in throughout a stage, without the tables.
Outer(s) == CASE s = "list1" -> {"list"} [] s = "rem1" -> {"rem"} [] OTHER -> {}

WalkPlace(s, h, w) ==
  \/ h = {} /\ Outer(s) = {w}
  \/ h = Outer(s) /\ w \in Visited(s) \cup {None}
  \/ \E x \in Visited(s) : h = Outer(s) \cup {x} /\ w = None

CleanerPlace ==
  LET s == stage["cleaner"]  h == held["cleaner"]  w == want["cleaner"] IN
  /\ s \in {"head", "done", "sample"} \cup Walks
  /\ s \in {"head", "done"} => h = {} /\ w = None
  /\ s \in Walks => WalkPlace(s, h, w)
  /\ s = "sample" => \/ h = {} /\ w = "tid"
                     \/ h = {"tid"} /\ (w = None \/ (MayDie /\ w = "tid"))

SaverPlace ==
  LET s == stage["saver"]  h == held["saver"]  w == want["saver"] IN
  /\ s \in {"head", "done", "sleep", "rows"}
  /\ s # "rows" => h = {} /\ w = None
  /\ s = "rows" => \/ h = {} /\ w = "cnt"
                   \/ h = {"cnt"} /\ w \in {None, "db"}
                   \/ h = {"cnt", "db"} /\ w = None

\* mutex_db outlives the threads, and the tables are freed on the way out.
Ending == (gone = "no" => "db" \in alive) /\ (freed => exit)

Inv == TypeOK /\ MainPlace /\ CleanerPlace /\ SaverPlace /\ Exclusion /\ Ending

-----------------------------------------------------------------------------
\* A signal handler in mutex_db's section is on the stack.
LEMMA NoHandlerNoDb == TypeOK /\ stack = <<>> => inDb = {}
  BY DEF TypeOK, Range

\* The invariant holds when the threads are started.
LEMMA InitInv == Init => Inv
  <1> SUFFICES ASSUME Init PROVE Inv
    OBVIOUS
  <1> USE DEF Init, Threads, Locks, None
  <1>1. TypeOK
    <2>1. stack \in Seq(Handlers) /\ IsInjective(stack) /\ inDb \subseteq Range(stack)
      BY DEF IsInjective
    <2>2. items \in [Threads -> 0..MaxItems] /\ signals \in 0..MaxSignals
      BY DaemonAssumption DEF DaemonAssumption
    <2>3. /\ stage \in [Threads -> {"head"}] /\ held \in [Threads -> SUBSET Locks]
          /\ want \in [Threads -> Locks \cup {None}]
      OBVIOUS
    <2> QED  BY <2>1, <2>2, <2>3 DEF TypeOK
  <1>2. MainPlace /\ CleanerPlace /\ SaverPlace /\ Exclusion /\ Ending
    BY DEF MainPlace, CleanerPlace, SaverPlace, Exclusion, Ending, Walks, NextStage
  <1> QED  BY <1>1, <1>2 DEF Inv

\* The steps of main, its pushes and its way out, keep it.
LEMMA MainInv == Inv /\ Main => Inv'
  <1> SUFFICES ASSUME Inv, Main PROVE Inv'
    OBVIOUS
  <1> USE DEF Inv, Threads, Locks, None, GoTo, Ask, Enter, Leave, NextItem, NewWalk,
              Runs, MainRuns, At, Free, Walks, handlerVars, endVars
  <1>1. ASSUME NEW l \in {"list", "rem"}, Try(l) PROVE Inv'
    <2>1. TypeOK'
      BY <1>1 DEF Try, TypeOK
    <2>2. MainPlace'
      BY <1>1 DEF Try, TypeOK, MainPlace, NextStage
    <2>3. CleanerPlace'
      BY <1>1 DEF Try, TypeOK, CleanerPlace, WalkPlace, Outer, Visited
    <2>4. SaverPlace'
      BY <1>1 DEF Try, TypeOK, SaverPlace
    <2>5. Exclusion' /\ Ending'
      BY <1>1 DEF Try, TypeOK, Exclusion, Ending
    <2> QED  BY <2>1, <2>2, <2>3, <2>4, <2>5
  <1>2. CASE Pushed
    <2>1. TypeOK'
      BY <1>2 DEF Pushed, TypeOK
    <2>2. MainPlace'
      BY <1>2, NoHandlerNoDb DEF Pushed, TypeOK, MainPlace, NextStage
    <2>3. CleanerPlace'
      BY <1>2 DEF Pushed, TypeOK, CleanerPlace, WalkPlace, Outer, Visited
    <2>4. SaverPlace'
      BY <1>2 DEF Pushed, TypeOK, SaverPlace
    <2>5. Exclusion' /\ Ending'
      BY <1>2 DEF Pushed, TypeOK, Exclusion, Ending
    <2> QED  BY <2>1, <2>2, <2>3, <2>4, <2>5
  <1>3. CASE PollError
    <2>1. TypeOK'
      BY <1>3 DEF PollError, TypeOK
    <2>2. MainPlace'
      BY <1>3 DEF PollError, TypeOK, MainPlace, NextStage
    <2>3. CleanerPlace'
      BY <1>3 DEF PollError, TypeOK, CleanerPlace, WalkPlace, Outer, Visited
    <2>4. SaverPlace'
      BY <1>3 DEF PollError, TypeOK, SaverPlace
    <2>5. Exclusion' /\ Ending'
      BY <1>3 DEF PollError, TypeOK, Exclusion, Ending
    <2> QED  BY <2>1, <2>2, <2>3, <2>4, <2>5
  <1>4. CASE FreeTables
    <2>1. TypeOK'
      BY <1>4 DEF FreeTables, TypeOK
    <2>2. MainPlace'
      BY <1>4 DEF FreeTables, TypeOK, MainPlace, NextStage
    <2>3. CleanerPlace'
      BY <1>4 DEF FreeTables, TypeOK, CleanerPlace, WalkPlace, Outer, Visited
    <2>4. SaverPlace'
      BY <1>4 DEF FreeTables, TypeOK, SaverPlace
    <2>5. Exclusion' /\ Ending'
      BY <1>4 DEF FreeTables, TypeOK, Exclusion, Ending
    <2> QED  BY <2>1, <2>2, <2>3, <2>4, <2>5
  <1>5. CASE JoinCleaner
    <2>1. TypeOK'
      BY <1>5 DEF JoinCleaner, TypeOK
    <2>2. MainPlace'
      BY <1>5 DEF JoinCleaner, TypeOK, MainPlace, NextStage
    <2>3. CleanerPlace'
      BY <1>5 DEF JoinCleaner, TypeOK, CleanerPlace, WalkPlace, Outer, Visited
    <2>4. SaverPlace'
      BY <1>5 DEF JoinCleaner, TypeOK, SaverPlace
    <2>5. Exclusion' /\ Ending'
      BY <1>5 DEF JoinCleaner, TypeOK, Exclusion, Ending
    <2> QED  BY <2>1, <2>2, <2>3, <2>4, <2>5
  <1>6. CASE JoinSaver
    <2>1. TypeOK'
      BY <1>6 DEF JoinSaver, TypeOK
    <2>2. MainPlace'
      BY <1>6 DEF JoinSaver, TypeOK, MainPlace, NextStage
    <2>3. CleanerPlace'
      BY <1>6 DEF JoinSaver, TypeOK, CleanerPlace, WalkPlace, Outer, Visited
    <2>4. SaverPlace'
      BY <1>6 DEF JoinSaver, TypeOK, SaverPlace
    <2>5. Exclusion' /\ Ending'
      BY <1>6 DEF JoinSaver, TypeOK, Exclusion, Ending
    <2> QED  BY <2>1, <2>2, <2>3, <2>4, <2>5
  <1>7. ASSUME NEW l \in DOMAIN NextStage, DestroyMutex(l) PROVE Inv'
    <2>1. TypeOK'
      <3>1. NextStage[l] \in {"cnt", "list", "rem", "join1"}
        BY DEF NextStage
      <3> QED  BY <3>1, <1>7 DEF DestroyMutex, TypeOK
    <2>2. MainPlace'
      BY <1>7 DEF DestroyMutex, TypeOK, MainPlace, NextStage
    <2>3. CleanerPlace'
      BY <1>7 DEF DestroyMutex, TypeOK, CleanerPlace, WalkPlace, Outer, Visited
    <2>4. SaverPlace'
      BY <1>7 DEF DestroyMutex, TypeOK, SaverPlace
    <2>5. Exclusion' /\ Ending'
      BY <1>7 DEF DestroyMutex, TypeOK, Exclusion, Ending
    <2> QED  BY <2>1, <2>2, <2>3, <2>4, <2>5
  <1>8. CASE BeginRound
    <2>1. TypeOK'
      BY <1>8, DaemonAssumption DEF BeginRound, TypeOK, DaemonAssumption
    <2>2. MainPlace'
      BY <1>8 DEF BeginRound, TypeOK, MainPlace, NextStage
    <2>3. CleanerPlace'
      BY <1>8 DEF BeginRound, TypeOK, CleanerPlace, WalkPlace, Outer, Visited
    <2>4. SaverPlace'
      BY <1>8 DEF BeginRound, TypeOK, SaverPlace
    <2>5. Exclusion' /\ Ending'
      BY <1>8 DEF BeginRound, TypeOK, Exclusion, Ending
    <2> QED  BY <2>1, <2>2, <2>3, <2>4, <2>5
  <1>9. CASE BeginRead
    <2>1. TypeOK'
      BY <1>9, DaemonAssumption DEF BeginRead, TypeOK, DaemonAssumption
    <2>2. MainPlace'
      BY <1>9 DEF BeginRead, TypeOK, MainPlace, NextStage
    <2>3. CleanerPlace'
      BY <1>9 DEF BeginRead, TypeOK, CleanerPlace, WalkPlace, Outer, Visited
    <2>4. SaverPlace'
      BY <1>9 DEF BeginRead, TypeOK, SaverPlace
    <2>5. Exclusion' /\ Ending'
      BY <1>9 DEF BeginRead, TypeOK, Exclusion, Ending
    <2> QED  BY <2>1, <2>2, <2>3, <2>4, <2>5
  <1>10. CASE ReadFails
    <2>1. TypeOK'
      BY <1>10 DEF ReadFails, TypeOK
    <2>2. MainPlace'
      BY <1>10 DEF ReadFails, TypeOK, MainPlace, NextStage
    <2>3. CleanerPlace'
      BY <1>10 DEF ReadFails, TypeOK, CleanerPlace, WalkPlace, Outer, Visited
    <2>4. SaverPlace'
      BY <1>10 DEF ReadFails, TypeOK, SaverPlace
    <2>5. Exclusion' /\ Ending'
      BY <1>10 DEF ReadFails, TypeOK, Exclusion, Ending
    <2> QED  BY <2>1, <2>2, <2>3, <2>4, <2>5
  <1>11. CASE EndRound
    <2>1. TypeOK'
      BY <1>11 DEF EndRound, TypeOK
    <2>2. MainPlace'
      BY <1>11 DEF EndRound, TypeOK, MainPlace, NextStage
    <2>3. CleanerPlace'
      BY <1>11 DEF EndRound, TypeOK, CleanerPlace, WalkPlace, Outer, Visited
    <2>4. SaverPlace'
      BY <1>11 DEF EndRound, TypeOK, SaverPlace
    <2>5. Exclusion' /\ Ending'
      BY <1>11 DEF EndRound, TypeOK, Exclusion, Ending
    <2> QED  BY <2>1, <2>2, <2>3, <2>4, <2>5
  <1> QED  BY <1>1, <1>2, <1>3, <1>4, <1>5, <1>6, <1>7, <1>8, <1>9, <1>10, <1>11
           DEF Main, MainMoves, ReadReturns

\* The steps of the cleaner keep it.
LEMMA CleanerInv == Inv /\ Cleaner => Inv'
  <1> SUFFICES ASSUME Inv, Cleaner PROVE Inv'
    OBVIOUS
  <1> USE DEF Inv, Threads, Locks, None, GoTo, Ask, Enter, Leave, NextItem, NewWalk,
              Runs, MainRuns, At, Free, Walks, handlerVars, endVars
  <1>1. CASE BeginPass
    <2>1. TypeOK'
      BY <1>1 DEF BeginPass, TypeOK
    <2>2. MainPlace'
      BY <1>1 DEF BeginPass, TypeOK, MainPlace, NextStage
    <2>3. CleanerPlace'
      BY <1>1 DEF BeginPass, TypeOK, CleanerPlace, WalkPlace, Outer, Visited
    <2>4. SaverPlace'
      BY <1>1 DEF BeginPass, TypeOK, SaverPlace
    <2>5. Exclusion' /\ Ending'
      BY <1>1 DEF BeginPass, TypeOK, Exclusion, Ending
    <2> QED  BY <2>1, <2>2, <2>3, <2>4, <2>5
  <1>2. CASE ReleaseList
    <2>1. TypeOK'
      BY <1>2, DaemonAssumption DEF ReleaseList, TypeOK, DaemonAssumption
    <2>2. MainPlace'
      BY <1>2 DEF ReleaseList, TypeOK, MainPlace, NextStage
    <2>3. CleanerPlace'
      BY <1>2 DEF ReleaseList, TypeOK, CleanerPlace, WalkPlace, Outer, Visited
    <2>4. SaverPlace'
      BY <1>2 DEF ReleaseList, TypeOK, SaverPlace
    <2>5. Exclusion' /\ Ending'
      BY <1>2 DEF ReleaseList, TypeOK, Exclusion, Ending
    <2> QED  BY <2>1, <2>2, <2>3, <2>4, <2>5
  <1>3. CASE BeginRemove
    <2>1. TypeOK'
      BY <1>3, DaemonAssumption DEF BeginRemove, TypeOK, DaemonAssumption
    <2>2. MainPlace'
      BY <1>3 DEF BeginRemove, TypeOK, MainPlace, NextStage
    <2>3. CleanerPlace'
      BY <1>3 DEF BeginRemove, TypeOK, CleanerPlace, WalkPlace, Outer, Visited
    <2>4. SaverPlace'
      BY <1>3 DEF BeginRemove, TypeOK, SaverPlace
    <2>5. Exclusion' /\ Ending'
      BY <1>3 DEF BeginRemove, TypeOK, Exclusion, Ending
    <2> QED  BY <2>1, <2>2, <2>3, <2>4, <2>5
  <1>4. CASE ReleaseRemove
    <2>1. TypeOK'
      BY <1>4, DaemonAssumption DEF ReleaseRemove, TypeOK, DaemonAssumption
    <2>2. MainPlace'
      BY <1>4 DEF ReleaseRemove, TypeOK, MainPlace, NextStage
    <2>3. CleanerPlace'
      BY <1>4 DEF ReleaseRemove, TypeOK, CleanerPlace, WalkPlace, Outer, Visited
    <2>4. SaverPlace'
      BY <1>4 DEF ReleaseRemove, TypeOK, SaverPlace
    <2>5. Exclusion' /\ Ending'
      BY <1>4 DEF ReleaseRemove, TypeOK, Exclusion, Ending
    <2> QED  BY <2>1, <2>2, <2>3, <2>4, <2>5
  <1>5. CASE Wake
    <2>1. TypeOK'
      BY <1>5, DaemonAssumption DEF Wake, TypeOK, DaemonAssumption
    <2>2. MainPlace'
      BY <1>5 DEF Wake, TypeOK, MainPlace, NextStage
    <2>3. CleanerPlace'
      BY <1>5 DEF Wake, TypeOK, CleanerPlace, WalkPlace, Outer, Visited
    <2>4. SaverPlace'
      BY <1>5 DEF Wake, TypeOK, SaverPlace
    <2>5. Exclusion' /\ Ending'
      BY <1>5 DEF Wake, TypeOK, Exclusion, Ending
    <2> QED  BY <2>1, <2>2, <2>3, <2>4, <2>5
  <1>6. CASE Sampled
    <2>1. TypeOK'
      BY <1>6, DaemonAssumption DEF Sampled, TypeOK, DaemonAssumption
    <2>2. MainPlace'
      BY <1>6 DEF Sampled, TypeOK, MainPlace, NextStage
    <2>3. CleanerPlace'
      BY <1>6 DEF Sampled, TypeOK, CleanerPlace, WalkPlace, Outer, Visited
    <2>4. SaverPlace'
      BY <1>6 DEF Sampled, TypeOK, SaverPlace
    <2>5. Exclusion' /\ Ending'
      BY <1>6 DEF Sampled, TypeOK, Exclusion, Ending
    <2> QED  BY <2>1, <2>2, <2>3, <2>4, <2>5
  <1>7. CASE FoundDead
    <2>1. TypeOK'
      BY <1>7, DaemonAssumption DEF FoundDead, TypeOK, DaemonAssumption
    <2>2. MainPlace'
      BY <1>7 DEF FoundDead, TypeOK, MainPlace, NextStage
    <2>3. CleanerPlace'
      BY <1>7 DEF FoundDead, TypeOK, CleanerPlace, WalkPlace, Outer, Visited
    <2>4. SaverPlace'
      BY <1>7 DEF FoundDead, TypeOK, SaverPlace
    <2>5. Exclusion' /\ Ending'
      BY <1>7 DEF FoundDead, TypeOK, Exclusion, Ending
    <2> QED  BY <2>1, <2>2, <2>3, <2>4, <2>5
  <1>8. CASE CleanerStops
    <2>1. TypeOK'
      BY <1>8 DEF CleanerStops, TypeOK
    <2>2. MainPlace'
      BY <1>8 DEF CleanerStops, TypeOK, MainPlace, NextStage
    <2>3. CleanerPlace'
      BY <1>8 DEF CleanerStops, TypeOK, CleanerPlace, WalkPlace, Outer, Visited
    <2>4. SaverPlace'
      BY <1>8 DEF CleanerStops, TypeOK, SaverPlace
    <2>5. Exclusion' /\ Ending'
      BY <1>8 DEF CleanerStops, TypeOK, Exclusion, Ending
    <2> QED  BY <2>1, <2>2, <2>3, <2>4, <2>5
  <1>9. ASSUME NEW l \in {"tid", "cnt"}, Visit(l) PROVE Inv'
    <2>1. TypeOK'
      BY <1>9, DaemonAssumption DEF Visit, TypeOK, DaemonAssumption
    <2>2. MainPlace'
      BY <1>9 DEF Visit, TypeOK, MainPlace, NextStage
    <2>3. CleanerPlace'
      BY <1>9 DEF Visit, TypeOK, CleanerPlace, WalkPlace, Outer, Visited
    <2>4. SaverPlace'
      BY <1>9 DEF Visit, TypeOK, SaverPlace
    <2>5. Exclusion' /\ Ending'
      BY <1>9 DEF Visit, TypeOK, Exclusion, Ending
    <2> QED  BY <2>1, <2>2, <2>3, <2>4, <2>5
  <1>10. ASSUME NEW l \in {"tid", "cnt"}, Leaves(l) PROVE Inv'
    <2>1. TypeOK'
      BY <1>10 DEF Leaves, TypeOK
    <2>2. MainPlace'
      BY <1>10 DEF Leaves, TypeOK, MainPlace, NextStage
    <2>3. CleanerPlace'
      BY <1>10 DEF Leaves, TypeOK, CleanerPlace, WalkPlace, Outer, Visited
    <2>4. SaverPlace'
      BY <1>10 DEF Leaves, TypeOK, SaverPlace
    <2>5. Exclusion' /\ Ending'
      BY <1>10 DEF Leaves, TypeOK, Exclusion, Ending
    <2> QED  BY <2>1, <2>2, <2>3, <2>4, <2>5
  <1> QED  BY <1>1, <1>2, <1>3, <1>4, <1>5, <1>6, <1>7, <1>8, <1>9, <1>10 DEF Cleaner

\* The steps of the saver keep it.
LEMMA SaverInv == Inv /\ Saver => Inv'
  <1> SUFFICES ASSUME Inv, Saver PROVE Inv'
    OBVIOUS
  <1> USE DEF Inv, Threads, Locks, None, GoTo, Ask, Enter, Leave, NextItem, NewWalk,
              Runs, MainRuns, At, Free, Walks, handlerVars, endVars
  <1>1. CASE SaverChecks
    <2>1. TypeOK'
      BY <1>1 DEF SaverChecks, TypeOK
    <2>2. MainPlace'
      BY <1>1 DEF SaverChecks, TypeOK, MainPlace, NextStage
    <2>3. CleanerPlace'
      BY <1>1 DEF SaverChecks, TypeOK, CleanerPlace, WalkPlace, Outer, Visited
    <2>4. SaverPlace'
      BY <1>1 DEF SaverChecks, TypeOK, SaverPlace
    <2>5. Exclusion' /\ Ending'
      BY <1>1 DEF SaverChecks, TypeOK, Exclusion, Ending
    <2> QED  BY <2>1, <2>2, <2>3, <2>4, <2>5
  <1>2. CASE BeginSave
    <2>1. TypeOK'
      BY <1>2 DEF BeginSave, TypeOK
    <2>2. MainPlace'
      BY <1>2 DEF BeginSave, TypeOK, MainPlace, NextStage
    <2>3. CleanerPlace'
      BY <1>2 DEF BeginSave, TypeOK, CleanerPlace, WalkPlace, Outer, Visited
    <2>4. SaverPlace'
      BY <1>2 DEF BeginSave, TypeOK, SaverPlace
    <2>5. Exclusion' /\ Ending'
      BY <1>2 DEF BeginSave, TypeOK, Exclusion, Ending
    <2> QED  BY <2>1, <2>2, <2>3, <2>4, <2>5
  <1>3. CASE SaveRow
    <2>1. TypeOK'
      BY <1>3, DaemonAssumption DEF SaveRow, TypeOK, DaemonAssumption
    <2>2. MainPlace'
      BY <1>3 DEF SaveRow, TypeOK, MainPlace, NextStage
    <2>3. CleanerPlace'
      BY <1>3 DEF SaveRow, TypeOK, CleanerPlace, WalkPlace, Outer, Visited
    <2>4. SaverPlace'
      BY <1>3 DEF SaveRow, TypeOK, SaverPlace
    <2>5. Exclusion' /\ Ending'
      BY <1>3 DEF SaveRow, TypeOK, Exclusion, Ending
    <2> QED  BY <2>1, <2>2, <2>3, <2>4, <2>5
  <1>4. CASE RowSaved
    <2>1. TypeOK'
      BY <1>4 DEF RowSaved, TypeOK
    <2>2. MainPlace'
      BY <1>4 DEF RowSaved, TypeOK, MainPlace, NextStage
    <2>3. CleanerPlace'
      BY <1>4 DEF RowSaved, TypeOK, CleanerPlace, WalkPlace, Outer, Visited
    <2>4. SaverPlace'
      BY <1>4 DEF RowSaved, TypeOK, SaverPlace
    <2>5. Exclusion' /\ Ending'
      BY <1>4 DEF RowSaved, TypeOK, Exclusion, Ending
    <2> QED  BY <2>1, <2>2, <2>3, <2>4, <2>5
  <1>5. CASE EndSave
    <2>1. TypeOK'
      BY <1>5, DaemonAssumption DEF EndSave, TypeOK, DaemonAssumption
    <2>2. MainPlace'
      BY <1>5 DEF EndSave, TypeOK, MainPlace, NextStage
    <2>3. CleanerPlace'
      BY <1>5 DEF EndSave, TypeOK, CleanerPlace, WalkPlace, Outer, Visited
    <2>4. SaverPlace'
      BY <1>5 DEF EndSave, TypeOK, SaverPlace
    <2>5. Exclusion' /\ Ending'
      BY <1>5 DEF EndSave, TypeOK, Exclusion, Ending
    <2> QED  BY <2>1, <2>2, <2>3, <2>4, <2>5
  <1> QED  BY <1>1, <1>2, <1>3, <1>4, <1>5 DEF Saver

\* So do the order to stop, a crash and a mutex that is granted.
LEMMA OtherInv == Inv /\ (Stop \/ Crash \/ \E t \in {"cleaner", "saver"} : Grant(t)) => Inv'
  <1> SUFFICES ASSUME Inv, (Stop \/ Crash \/ \E t \in {"cleaner", "saver"} : Grant(t)) PROVE Inv'
    OBVIOUS
  <1> USE DEF Inv, Threads, Locks, None, GoTo, Ask, Enter, Leave, NextItem, NewWalk,
              Runs, MainRuns, At, Free, Walks, handlerVars, endVars
  <1>1. CASE Stop
    <2>1. TypeOK'
      BY <1>1 DEF Stop, TypeOK
    <2>2. MainPlace'
      BY <1>1 DEF Stop, TypeOK, MainPlace, NextStage
    <2>3. CleanerPlace'
      BY <1>1 DEF Stop, TypeOK, CleanerPlace, WalkPlace, Outer, Visited
    <2>4. SaverPlace'
      BY <1>1 DEF Stop, TypeOK, SaverPlace
    <2>5. Exclusion' /\ Ending'
      BY <1>1 DEF Stop, TypeOK, Exclusion, Ending
    <2> QED  BY <2>1, <2>2, <2>3, <2>4, <2>5
  <1>2. CASE Crash
    <2>1. TypeOK'
      BY <1>2 DEF Crash, TypeOK
    <2>2. MainPlace'
      BY <1>2 DEF Crash, TypeOK, MainPlace, NextStage
    <2>3. CleanerPlace'
      BY <1>2 DEF Crash, TypeOK, CleanerPlace, WalkPlace, Outer, Visited
    <2>4. SaverPlace'
      BY <1>2 DEF Crash, TypeOK, SaverPlace
    <2>5. Exclusion' /\ Ending'
      BY <1>2 DEF Crash, TypeOK, Exclusion, Ending
    <2> QED  BY <2>1, <2>2, <2>3, <2>4, <2>5
  <1>3. ASSUME NEW t \in {"cleaner", "saver"}, Grant(t) PROVE Inv'
    <2>1. TypeOK'
      BY <1>3 DEF Grant, TypeOK
    <2>2. MainPlace'
      BY <1>3 DEF Grant, TypeOK, MainPlace, NextStage
    <2>3. CleanerPlace'
      <3>1. CASE t = "saver"
        BY <3>1, <1>3 DEF Grant, TypeOK, CleanerPlace, WalkPlace, Outer, Visited
      <3>2. CASE t = "cleaner"
        <4> DEFINE s == stage["cleaner"]
                   w == want["cleaner"]
        <4>1. /\ stage' = stage /\ want' = [want EXCEPT !["cleaner"] = None]
              /\ held' = [held EXCEPT !["cleaner"] = @ \cup {w}] /\ w # None
          BY <3>2, <1>3 DEF Grant
        <4>2. CASE s = "sample"
          BY <4>1, <4>2 DEF TypeOK, CleanerPlace
        <4>3. CASE s \in Walks
          <5>1. /\ WalkPlace(s, held["cleaner"], w)
                /\ held'["cleaner"] = held["cleaner"] \cup {w} /\ want'["cleaner"] = None
            BY <4>1, <4>3 DEF TypeOK, CleanerPlace
          <5>2. WalkPlace(s, held'["cleaner"], want'["cleaner"])
            <6>1. CASE held["cleaner"] = {} /\ Outer(s) = {w}
              BY <5>1, <6>1 DEF WalkPlace
            <6>2. CASE held["cleaner"] = Outer(s) /\ w \in Visited(s) \cup {None}
              BY <4>1, <5>1, <6>2 DEF WalkPlace
            <6> QED  BY <4>1, <5>1, <6>1, <6>2 DEF WalkPlace
          <5> QED  BY <4>1, <4>3, <5>2 DEF CleanerPlace
        <4>4. CASE s \in {"head", "done"}
          BY <4>1, <4>4 DEF CleanerPlace
        <4> QED  BY <4>2, <4>3, <4>4 DEF CleanerPlace
      <3> QED  BY <3>1, <3>2
    <2>4. SaverPlace'
      BY <1>3 DEF Grant, TypeOK, SaverPlace
    <2>5. Exclusion' /\ Ending'
      BY <1>3 DEF Grant, TypeOK, Exclusion, Ending
    <2> QED  BY <2>1, <2>2, <2>3, <2>4, <2>5
  <1> QED  BY <1>1, <1>2, <1>3 DEF Inv

\* What the stack of handlers looks like after a signal and after a return.
LEMMA StackPush ==
  ASSUME NEW h \in Handlers, stack \in Seq(Handlers), IsInjective(stack), h \notin Range(stack)
  PROVE  /\ Append(stack, h) \in Seq(Handlers) /\ IsInjective(Append(stack, h))
         /\ Range(stack) \subseteq Range(Append(stack, h))
         /\ Last(Append(stack, h)) = h /\ Len(Append(stack, h)) = Len(stack) + 1
  <1> DEFINE s == Append(stack, h)
  <1>1. /\ s \in Seq(Handlers) /\ Len(s) = Len(stack) + 1 /\ Len(stack) \in Nat
        /\ \A k \in 1..Len(stack) : s[k] = stack[k]
        /\ s[Len(stack) + 1] = h
    OBVIOUS
  <1>2. DOMAIN s = 1..(Len(stack) + 1) /\ DOMAIN stack = 1..Len(stack)
    BY <1>1
  <1>3. \A k \in DOMAIN stack : stack[k] # h
    BY DEF Range
  <1>4. IsInjective(s)
    BY <1>1, <1>2, <1>3 DEF IsInjective
  <1>5. Range(stack) \subseteq Range(s)
    BY <1>1, <1>2 DEF Range
  <1> QED  BY <1>1, <1>4, <1>5 DEF Last

LEMMA StackPop ==
  ASSUME stack \in Seq(Handlers), IsInjective(stack), stack # <<>>
  PROVE  /\ Front(stack) \in Seq(Handlers) /\ IsInjective(Front(stack))
         /\ Range(stack) \ {Last(stack)} \subseteq Range(Front(stack))
  <1> DEFINE f == Front(stack)
  <1>1. Len(stack) \in Nat /\ Len(stack) > 0 /\ DOMAIN stack = 1..Len(stack)
    OBVIOUS
  <1>2. /\ f \in Seq(Handlers) /\ DOMAIN f = 1..(Len(stack) - 1)
        /\ \A k \in 1..(Len(stack) - 1) : f[k] = stack[k]
    BY <1>1 DEF Front
  <1>3. IsInjective(f)
    BY <1>1, <1>2 DEF IsInjective
  <1>4. ASSUME NEW x \in Range(stack), x # Last(stack) PROVE x \in Range(f)
    <2>1. PICK k \in DOMAIN stack : x = stack[k]
      BY DEF Range
    <2>2. k \in 1..(Len(stack) - 1)
      BY <1>1, <1>4, <2>1 DEF Last
    <2> QED  BY <1>2, <2>1, <2>2 DEF Range
  <1> QED  BY <1>2, <1>3, <1>4

\* A signal, a handler that gets mutex_db and one that returns keep the invariant.
LEMMA SignalInv == Inv /\ (Signals \/ \E h \in Handlers : Deliver(h)) => Inv'
  <1> SUFFICES ASSUME Inv, NEW h \in Handlers, HandlerLocks(h) \/ HandlerReturns(h) \/ Deliver(h)
               PROVE  Inv'
    BY DEF Signals
  <1> USE DEF Inv, Threads, Locks, None, Enter, Leave, Free, endVars
  <1>1. CASE Deliver(h)
    <2>1. /\ Append(stack, h) \in Seq(Handlers) /\ IsInjective(Append(stack, h))
          /\ Range(stack) \subseteq Range(Append(stack, h))
      BY <1>1, StackPush DEF Deliver, TypeOK
    <2>2. TypeOK'
      BY <1>1, <2>1, DaemonAssumption DEF Deliver, TypeOK, Walks, DaemonAssumption
    <2>3. MainPlace' /\ CleanerPlace' /\ SaverPlace' /\ Exclusion' /\ Ending'
      BY <1>1 DEF Deliver, MainPlace, CleanerPlace, SaverPlace, Exclusion, Ending
    <2> QED  BY <2>2, <2>3
  <1>2. CASE HandlerLocks(h)
    <2>1. h \in Range(stack)
      BY <1>2 DEF HandlerLocks, TypeOK, Range, Last
    <2>2. inDb = {}
      BY <1>2 DEF HandlerLocks, MainPlace, Ending
    <2>3. TypeOK'
      BY <1>2, <2>1 DEF HandlerLocks, TypeOK, Walks
    <2>4. MainPlace'
      BY <1>2, <2>2 DEF HandlerLocks, TypeOK, MainPlace
    <2>5. CleanerPlace' /\ SaverPlace'
      BY <1>2 DEF HandlerLocks, TypeOK, CleanerPlace, SaverPlace
    <2>6. Exclusion' /\ Ending'
      BY <1>2 DEF HandlerLocks, TypeOK, Exclusion, Ending
    <2> QED  BY <2>3, <2>4, <2>5, <2>6
  <1>3. CASE HandlerReturns(h)
    <2>1. /\ Front(stack) \in Seq(Handlers) /\ IsInjective(Front(stack))
          /\ Range(stack) \ {h} \subseteq Range(Front(stack))
      BY <1>3, StackPop DEF HandlerReturns, TypeOK
    <2>2. inDb = {h}
      BY <1>3 DEF HandlerReturns, MainPlace
    <2>3. TypeOK'
      BY <1>3, <2>1 DEF HandlerReturns, TypeOK, Walks
    <2>4. MainPlace'
      BY <1>3, <2>2 DEF HandlerReturns, TypeOK, MainPlace
    <2>5. CleanerPlace' /\ SaverPlace'
      BY <1>3 DEF HandlerReturns, TypeOK, CleanerPlace, SaverPlace
    <2>6. Exclusion' /\ Ending'
      BY <1>3 DEF HandlerReturns, TypeOK, Exclusion, Ending
    <2> QED  BY <2>3, <2>4, <2>5, <2>6
  <1> QED  BY <1>1, <1>2, <1>3

\* The invariant is inductive.
LEMMA NextInv == Inv /\ [Next]_vars => Inv'
  <1> SUFFICES ASSUME Inv, [Next]_vars PROVE Inv'
    OBVIOUS
  <1>1. CASE UNCHANGED vars
    BY <1>1 DEF vars, Inv, TypeOK, MainPlace, CleanerPlace, SaverPlace, Exclusion, Ending
  <1>2. CASE Ended
    BY <1>1, <1>2 DEF Ended
  <1> QED  BY <1>1, <1>2, MainInv, CleanerInv, SaverInv, OtherInv, SignalInv DEF Next

LEMMA Invariance == Spec => []Inv
  BY InitInv, NextInv, PTL DEF Spec

-----------------------------------------------------------------------------
\* The state keeps its types, and no handler is on the stack twice.
THEOREM TypeCorrect == Spec => []TypeOK
  BY Invariance, PTL DEF Inv

\* Two threads are never inside the section of one live mutex.
THEOREM MutualExclusion == Spec => []Exclusion
  BY Invariance, PTL DEF Inv

\* Mutexes are taken in the order lists, tables, database, but for the two ways
\* of locking one a second time.
LEMMA InvOrdered == Inv => LockOrder
  <1> SUFFICES ASSUME Inv, NEW t \in Threads, NEW h \in held[t], NEW l \in Waits(t)
               PROVE  Rank[h] < Rank[l] \/ (h = l /\ Relocks(t))
    BY DEF LockOrder
  <1> USE DEF Inv, Threads, None
  <1>1. CASE t = "main"
    <2>1. l = "db" /\ stack # <<>> /\ Last(stack) \notin inDb
      BY <1>1 DEF Waits
    <2>2. CASE h = "db"
      <3>1. PICK g \in inDb : g \in Range(stack)
        BY <1>1, <2>2 DEF MainPlace, TypeOK
      <3>2. g # Last(stack)
        BY <2>1
      <3>3. Len(stack) > 1
        BY <2>1, <3>1, <3>2 DEF Range, Last, TypeOK
      <3> QED  BY <1>1, <2>1, <2>2, <3>3 DEF Relocks
    <2>3. CASE h \in {"list", "rem"}
      BY <2>1, <2>3 DEF Rank
    <2> QED  BY <1>1, <2>2, <2>3 DEF MainPlace
  <1>2. CASE t = "saver"
    BY <1>2 DEF Waits, SaverPlace, Rank
  <1>3. CASE t = "cleaner"
    <2>1. l = want["cleaner"] /\ l # None
      BY <1>3 DEF Waits
    <2>2. CASE stage["cleaner"] = "sample"
      BY <1>3, <2>1, <2>2 DEF CleanerPlace, Relocks
    <2>3. CASE stage["cleaner"] \in Walks
      <3>1. h \in Outer(stage["cleaner"]) /\ l \in Visited(stage["cleaner"])
        BY <1>3, <2>1, <2>3 DEF CleanerPlace, WalkPlace
      <3> QED  BY <2>3, <3>1 DEF Outer, Visited, Walks, Rank
    <2> QED  BY <1>3, <2>1, <2>2, <2>3 DEF CleanerPlace
  <1> QED  BY <1>1, <1>2, <1>3

\* Nobody waits for a mutex below or beside one he holds, but for the two ways
\* of locking one twice.
THEOREM OrderedLocking == Spec => []LockOrder
  BY Invariance, InvOrdered, PTL

-----------------------------------------------------------------------------
\* Whoever waits in vain waits for a holder who runs, has locked himself out,
\* or waits for a mutex of a higher rank.
LEMMA WaitChain ==
  ASSUME Inv, NEW t \in Threads, NEW l \in Waits(t), ~Free(l)
  PROVE  \E u \in Threads : \/ Waits(u) = {} /\ held[u] # {}
                            \/ SelfLocked(u)
                            \/ \E m \in Waits(u) : Rank[l] < Rank[m]
  <1>1. PICK u \in Threads : l \in held[u] /\ l \in alive
    BY DEF Free
  <1>2. CASE Waits(u) = {}
    BY <1>1, <1>2
  <1>3. CASE Waits(u) # {}
    <2>1. PICK m \in Waits(u) : TRUE
      BY <1>3
    <2>2. Rank[l] < Rank[m] \/ l = m
      BY <1>1, <2>1, InvOrdered DEF LockOrder
    <2>3. l = m => SelfLocked(u)
      BY <1>1, <2>1 DEF SelfLocked
    <2> QED  BY <2>1, <2>2, <2>3
  <1> QED  BY <1>2, <1>3

\* The ranks are bounded, so no chain of waiting threads closes.
LEMMA InvMoves == Inv => SomeoneMoves
  <1> DEFINE Moves == \E t \in Threads : \/ \E l \in Waits(t) : Free(l)
                                         \/ Waits(t) = {} /\ held[t] # {}
                                         \/ SelfLocked(t)
  <1> SUFFICES ASSUME Inv, NEW t \in Threads, Waits(t) # {} PROVE Moves
    BY DEF SomeoneMoves
  <1>1. \A u \in Threads : \A m \in Waits(u) : Rank[m] \in 1..3
    <2> TAKE u \in Threads
    <2> TAKE m \in Waits(u)
    <2>1. m \in Locks
      BY DEF Inv, TypeOK, Waits, Locks, Threads
    <2> QED  BY <2>1 DEF Rank, Locks
  <1>2. \A u \in Threads : \A m \in Waits(u) : Rank[m] = 3 => Moves
    BY <1>1, WaitChain
  <1>3. \A u \in Threads : \A m \in Waits(u) : Rank[m] = 2 => Moves
    BY <1>1, <1>2, WaitChain, SMTT(30)
  <1>4. \A u \in Threads : \A m \in Waits(u) : Rank[m] = 1 => Moves
    BY <1>1, <1>2, <1>3, WaitChain
  <1> QED  BY <1>1, <1>2, <1>3, <1>4

\* In every reachable state in which a thread waits, some thread moves or has
\* locked itself out.
THEOREM NoWaitCycle == Spec => []SomeoneMoves
  BY Invariance, InvMoves, PTL
==============================================================================
