---------------------------- MODULE ReportsProofs ----------------------------
(***************************************************************************)
(* Theorems about Reports, for every table, every set of requests and      *)
(* pages, every number of days kept and every configuration.               *)
(***************************************************************************)
EXTENDS Reports, FiniteSetTheorems, FunctionTheorems, SequenceTheorems, TLAPS

-----------------------------------------------------------------------------
(* Lemmas about the operators.                                             *)

\* A moment of so many seconds and hundredths loses 999 units a hundredth
\* (Stamp, send_info.c).
LEMMA StampLoss ==
  ASSUME NEW t \in Nat
  PROVE  Stamp(t) - Real(t) = -999 * (t % 100)
<1>1. t = 100 * (t \div 100) + (t % 100) /\ t \div 100 \in Nat /\ t % 100 \in 0..99
  OBVIOUS
<1> DEFINE q == t \div 100
           r == t % 100
<1>2. Stamp(t) = q * 100000 + r
  BY DEF Stamp, Second
<1>3. Real(t) = (100 * q + r) * 1000
  BY <1>1 DEF Real
<1> HIDE DEF q, r
<1>4. q \in Nat /\ r \in Nat
  BY <1>1 DEF q, r
<1>5. (q * 100000 + r) - (100 * q + r) * 1000 = -999 * r
  BY <1>4
<1> QED
  BY <1>2, <1>3, <1>5 DEF r

\* The hundredths of two moments make less than a second's difference.
LEMMA LossBound ==
  ASSUME NEW x \in 0..99, NEW y \in 0..99
  PROVE  -999 * y - -999 * x \in (1 - Second)..(Second - 1)
<1> DEFINE d == -999 * y - -999 * x
<1>1. d \in Int /\ -98901 <= d /\ d <= 98901
  BY SMT
<1> HIDE DEF d
<1>2. 1 - Second <= d /\ d <= Second - 1 /\ Second \in Nat
  BY <1>1, SMT DEF Second
<1>3. d \in (1 - Second)..(Second - 1)
  BY <1>1, <1>2, SMT, SMTT(30)
<1> QED
  BY <1>3 DEF d

\* The measured time is off by less than a second, either way.
LEMMA ReqTimeBound ==
  ASSUME NEW b \in Nat, NEW e \in Nat
  PROVE  ReqTime(b, e) - Real(e - b) \in (1 - Second)..(Second - 1)
<1> DEFINE x == b % 100
           y == e % 100
<1>1. x \in 0..99 /\ y \in 0..99
  OBVIOUS
<1>2. Stamp(b) - Real(b) = -999 * x /\ Stamp(e) - Real(e) = -999 * y
  BY StampLoss
<1>3. Stamp(b) \in Int /\ Stamp(e) \in Int
  BY DEF Stamp, Second
<1>4. Real(b) \in Int /\ Real(e) \in Int /\ Real(e - b) = Real(e) - Real(b)
  BY DEF Real
<1> HIDE DEF x, y
<1>5. ReqTime(b, e) - Real(e - b) = -999 * y - -999 * x
  BY <1>1, <1>2, <1>3, <1>4, SMT DEF ReqTime
<1> QED
  BY <1>1, <1>5, LossBound

\* A page by days shows no more of them than are kept (performance_get_period).
LEMMA PeriodBound ==
  ASSUME NEW prd \in 1..10, History > 0
  PROVE  performance_get_period(prd) \in Nat /\ performance_get_period(prd) <= History
<1>1. History \in Nat
  BY QueriesAssumption DEF QueriesAssumption
<1>2. Min({prd, History}) \in Nat /\ Min({prd, History}) <= History
  <2>1. \E x \in {prd, History} : \A y \in {prd, History} : x <= y
    BY <1>1
  <2> QED
    BY <1>1, <2>1 DEF Min
<1> DEFINE m == Min({prd, History})
<1> HIDE DEF m
<1>3. Max({1, m}) \in Nat /\ Max({1, m}) <= History
  <2>1. m \in Nat /\ m <= History
    BY <1>2 DEF m
  <2>2. \E x \in {1, m} : \A y \in {1, m} : x >= y
    BY <2>1
  <2> QED
    BY <1>1, <2>1, <2>2 DEF Max
<1> QED
  BY <1>3 DEF performance_get_period, m

Adapters ==
  [type : {d.type : d \in Databases}, host_id : {d.host_id : d \in Databases},
   read : BOOLEAN, write : BOOLEAN, up : BOOLEAN]

\* Giving up a handle changes nothing else.
LEMMA ReconnectedType ==
  ASSUME NEW d \in Adapters, NEW h \in {"read", "write"}
  PROVE  Reconnected(d, h) \in Adapters
BY DEF Adapters, Reconnected

-----------------------------------------------------------------------------
(* The inductive invariant.                                                *)

IInv == TypeOK /\ db \in Adapters

Kinds == {"blank", "page", "picture", "walk", "served"}

\* Types, in parts that a step can be shown to keep.
LEMMA TypeParts ==
  IInv <=>
    /\ \A r \in table : r.id \in 1..(nextId - 1) /\ r.dateadd \in 1..now
    /\ nextId \in 1..(MaxRows + 1) /\ now \in 1..MaxNow
    /\ db \in Adapters
    /\ screen.kind \in Kinds
BY DEF IInv, TypeOK, Adapters, Kinds

LEMMA InitInv == Init => IInv
<1> SUFFICES ASSUME Init PROVE IInv
  OBVIOUS
<1>1. MaxRows \in Nat /\ MaxNow \in Nat \ {0}
  BY ReportsAssumption DEF ReportsAssumption
<1>2. db \in Adapters
  <2>1. PICK d \in Databases :
          db = [type |-> d.type, host_id |-> d.host_id, read |-> TRUE, write |-> TRUE, up |-> TRUE]
    BY DEF Init
  <2>2. d.type \in {x.type : x \in Databases} /\ d.host_id \in {x.host_id : x \in Databases}
    OBVIOUS
  <2> QED
    BY <2>1, <2>2 DEF Adapters
<1>3. nextId \in 1..(MaxRows + 1) /\ now \in 1..MaxNow
  BY <1>1 DEF Init
<1>4. table = {} /\ screen.kind \in Kinds
  BY DEF Init, Blank, Kinds
<1> QED
  BY <1>2, <1>3, <1>4, TypeParts

\* A row that is inserted has the next number and the present moment.
LEMMA InsertKeeps ==
  ASSUME IInv, nextId <= MaxRows,
         NEW s, NEW c, NEW w, NEW hostnm, Insert(Row(s, c, w, hostnm)), now' = now
  PROVE  /\ \A r \in table' : r.id \in 1..(nextId' - 1) /\ r.dateadd \in 1..now'
         /\ nextId' \in 1..(MaxRows + 1)
<1>1. MaxRows \in Nat
  BY ReportsAssumption DEF ReportsAssumption
<1>2. nextId \in 1..(MaxRows + 1) /\ now \in 1..MaxNow /\ nextId' = nextId + 1
  BY TypeParts DEF Insert
<1> DEFINE row == Row(s, c, w, hostnm)
<1>3. row.id = nextId /\ row.dateadd = now
  BY DEF Row
<1>4. table' = table \cup {row}
  BY DEF Insert
<1> HIDE DEF row
<1>5. ASSUME NEW r \in table' PROVE r.id \in 1..(nextId' - 1) /\ r.dateadd \in 1..now'
  <2>1. CASE r \in table
    BY <1>2, <2>1, TypeParts
  <2>2. CASE r = row
    BY <1>2, <1>3, <2>2, ReportsAssumption DEF ReportsAssumption
  <2> QED
    BY <1>4, <2>1, <2>2
<1> QED
  BY <1>1, <1>2, <1>5
\* What a page, a picture or a step of a walk leaves on the screen.
LEMMA ReadRowsKind ==
  ASSUME NEW q, NEW filters, NEW start, NEW before, ReadRows(q, filters, start, before)
  PROVE  screen'.kind \in Kinds
<1>1. PICK ans \in get_full_text_info(table, common_report_part(q), db, now) :
        screen' = IF ans.err \/ ans.rows = <<>> THEN Shown(q, common_report_part(q), ans)
                  ELSE [kind |-> "walk", q |-> q, a |-> common_report_part(q), filters |-> filters,
                        start |-> start, before |-> before, rows |-> Ids(ans.rows), links |-> 0]
  BY DEF ReadRows
<1> QED
  BY <1>1 DEF Shown, Kinds

LEMMA NextInv == IInv /\ [Next]_vars => IInv'
<1> SUFFICES ASSUME IInv, [Next]_vars PROVE IInv'
  OBVIOUS
<1> USE TypeParts
<1>0. /\ \A r \in table : r.id \in 1..(nextId - 1) /\ r.dateadd \in 1..now
      /\ nextId \in 1..(MaxRows + 1) /\ now \in 1..MaxNow
      /\ db \in Adapters
      /\ screen.kind \in Kinds
  OBVIOUS
<1> DEFINE Part ==
      /\ \A r \in table : r.id \in 1..(nextId - 1) /\ r.dateadd \in 1..now
      /\ nextId \in 1..(MaxRows + 1) /\ now \in 1..MaxNow
<1>10. IInv' <=> Part' /\ db' \in Adapters /\ screen'.kind \in Kinds
  BY DEF IInv, TypeOK, Adapters, Kinds
<1>11. UNCHANGED <<table, nextId, now>> => Part'
  BY <1>0
<1>1. ASSUME NEW s \in Samples, Serve(s) PROVE IInv'
  <2> DEFINE c == save_counters(Top, Cpus, s.begin, s.end, s.max_mem)
             w == save_to_db(c, Limit, 100, MaxPCPU(Top, Cpus), External, s.host)
  <2>1. nextId <= MaxRows /\ UNCHANGED now
    BY <1>1 DEF Serve
  <2>2. Insert(Row(s, c, w, InsertedHostName(db))) \/ UNCHANGED <<table, nextId>>
    BY <1>1 DEF Serve
  <2>3. db' = IF w.write THEN Reconnected(db, "write") ELSE db
    BY <1>1 DEF Serve
  <2>4. screen'.kind \in Kinds
    BY <1>0, <1>1 DEF Serve, Kinds
  <2> HIDE DEF c, w
  <2>5. Part'
    BY <1>0, <1>11, <2>1, <2>2, InsertKeeps
  <2>6. db' \in Adapters
    BY <1>0, <2>3, ReconnectedType
  <2> QED
    BY <1>10, <2>4, <2>5, <2>6
<1>2. ASSUME NEW s \in Others, OtherServer(s) PROVE IInv'
  <2> DEFINE c == save_counters(Top, Cpus, s.begin, s.end, s.max_mem)
             w == save_to_db(c, NoLimit, 100, MaxPCPU(Top, Cpus), {}, s.host)
  <2>1. nextId <= MaxRows /\ UNCHANGED <<now, db, screen>>
    BY <1>2 DEF OtherServer
  <2>2. Insert(Row(s, c, w, "other"))
    BY <1>2 DEF OtherServer
  <2> HIDE DEF c, w
  <2>3. Part'
    BY <1>0, <2>1, <2>2, InsertKeeps
  <2> QED
    BY <1>0, <1>10, <2>1, <2>3
<1>3. CASE Alarm
  <2>1. table' \subseteq table /\ UNCHANGED <<nextId, now, screen>>
    BY <1>3 DEF Alarm
  <2>2. db' \in Adapters
    BY <1>0, <1>3, ReconnectedType DEF Alarm
  <2>3. Part'
    BY <1>0, <2>1
  <2> QED
    BY <1>0, <1>10, <2>1, <2>2, <2>3
<1>4. CASE Tick
  <2>1. now < MaxNow /\ now' = now + 1 /\ UNCHANGED <<table, nextId, db, screen>>
    BY <1>4 DEF Tick
  <2>2. Part'
    BY <1>0, <2>1, ReportsAssumption DEF ReportsAssumption
  <2> QED
    BY <1>0, <1>10, <2>1, <2>2
<1>5. CASE ServerFails \/ ServerReturns
  <2>1. UNCHANGED <<table, nextId, now, screen>>
    BY <1>5 DEF ServerFails, ServerReturns
  <2>2. db' \in Adapters
    BY <1>0, <1>5 DEF ServerFails, ServerReturns, Adapters
  <2> QED
    BY <1>0, <1>10, <1>11, <2>1, <2>2
<1>6. ASSUME NEW q \in PageQueries, Open(q) PROVE IInv'
  <2>1. UNCHANGED <<table, nextId, now>>
    BY <1>6 DEF Open
  <2>2. db' \in Adapters
    BY <1>0, <1>6, ReconnectedType DEF Open
  <2>3. screen'.kind \in Kinds
    BY <1>6 DEF Open, Shown, Kinds
  <2> QED
    BY <1>10, <1>11, <2>1, <2>2, <2>3
<1>7. ASSUME NEW q \in PageQueries, Look(q) PROVE IInv'
  <2>1. UNCHANGED <<table, nextId, now>>
    BY <1>7 DEF Look
  <2>2. db' \in Adapters
    BY <1>0, <1>7, ReconnectedType DEF Look
  <2>3. screen'.kind \in Kinds
    BY <1>7 DEF Look, Shown, Kinds
  <2> QED
    BY <1>10, <1>11, <2>1, <2>2, <2>3
<1>8. ASSUME NEW q, NEW filters, NEW start, NEW before, ReadRows(q, filters, start, before)
      PROVE  IInv'
  <2>1. UNCHANGED <<table, nextId, now>>
    BY <1>8 DEF ReadRows
  <2>2. db' \in Adapters
    BY <1>0, <1>8, ReconnectedType DEF ReadRows
  <2> QED
    BY <1>8, <1>10, <1>11, <2>1, <2>2, ReadRowsKind
<1>9. CASE ReadCount
  <2>1. UNCHANGED <<table, nextId, now>>
    BY <1>9 DEF ReadCount
  <2>2. db' \in Adapters
    BY <1>0, <1>9, ReconnectedType DEF ReadCount
  <2>3. screen'.kind \in Kinds
    BY <1>9 DEF ReadCount, Blank, Kinds
  <2> QED
    BY <1>10, <1>11, <2>1, <2>2, <2>3
<1>12. CASE Close
  BY <1>0, <1>10, <1>11, <1>12 DEF Close, Blank, Kinds
<1>13. CASE UNCHANGED vars
  BY <1>0, <1>10, <1>11, <1>13 DEF vars
<1>14. ASSUME NEW q \in PageQueries, List(q) PROVE IInv'
  BY <1>8, <1>14 DEF List
<1>15. CASE FollowLink
  BY <1>8, <1>15 DEF FollowLink
<1> QED
  BY <1>1, <1>2, <1>3, <1>4, <1>5, <1>6, <1>7, <1>9, <1>12, <1>13, <1>14, <1>15 DEF Next, Steps

\* The inductive invariant holds: the rows, the clock, the adapter and the screen
\* are what they can be (sql_adapter.c, reports.c).
THEOREM Invariant == Spec => []IInv
<1> QED
  BY InitInv, NextInv, PTL DEF Spec
-----------------------------------------------------------------------------
(* What follows from it.                                                   *)

\* The rows carry the ids given out and moments that have been; the adapter's
\* handles and the screen are what they can be (Reports.tla, TypeOK).
THEOREM TypeCorrect == Spec => []TypeOK
<1>1. IInv => TypeOK
  BY DEF IInv
<1> QED
  BY <1>1, Invariant, PTL

\* The time of every request that is measured is less than a second off, for
\* any two moments (send_info.c:118, tid_pid_list_ut.c:330).
THEOREM TimesAccurate == Spec => []TimesWithinASecond
<1>1. Init => TimesWithinASecond
  BY DEF Init, Blank, TimesWithinASecond
<1>2. TimesWithinASecond /\ [Next]_vars => TimesWithinASecond'
  <2> SUFFICES ASSUME TimesWithinASecond, [Next]_vars, screen'.kind = "served"
               PROVE  screen'.time - screen'.real \in (1 - Second)..(Second - 1)
    BY DEF TimesWithinASecond
  <2>1. ASSUME NEW s \in Samples, Serve(s), screen.kind # "walk"
        PROVE  screen'.time - screen'.real \in (1 - Second)..(Second - 1)
    <3>1. screen'.time = ReqTime(s.begin.at, s.end.at)
      BY <2>1 DEF Serve, save_counters
    <3>2. screen'.real = Real(s.end.at - s.begin.at)
      BY <2>1 DEF Serve
    <3>3. s.begin.at \in Nat /\ s.end.at \in Nat
      BY ReportsAssumption DEF ReportsAssumption, Request, Reading
    <3> QED
      BY <3>1, <3>2, <3>3, ReqTimeBound
  <2>2. CASE UNCHANGED screen
    BY <2>2 DEF TimesWithinASecond
  <2>3. ASSUME NEW s \in Samples, Serve(s), screen.kind = "walk" PROVE UNCHANGED screen
    BY <2>3 DEF Serve
  <2>4. ASSUME NEW q, NEW filters, NEW start, NEW before, ReadRows(q, filters, start, before)
        PROVE  FALSE
    BY <2>4 DEF ReadRows, Shown
  <2>5. ASSUME NEW q \in PageQueries, Open(q) \/ Look(q) \/ List(q) PROVE FALSE
    BY <2>4, <2>5 DEF Open, Look, List, Shown
  <2>6. CASE ReadCount
    BY <2>6 DEF ReadCount, Blank
  <2>7. CASE FollowLink
    BY <2>4, <2>7 DEF FollowLink
  <2>8. CASE Close
    BY <2>8 DEF Close, Blank
  <2>9. ASSUME NEW s \in Others, OtherServer(s) PROVE UNCHANGED screen
    BY <2>9 DEF OtherServer
  <2>10. ASSUME Alarm \/ Tick \/ ServerFails \/ ServerReturns \/ UNCHANGED vars
         PROVE  UNCHANGED screen
    BY <2>10 DEF Alarm, Tick, ServerFails, ServerReturns, vars
  <2> QED
    BY <2>1, <2>2, <2>3, <2>5, <2>6, <2>7, <2>8, <2>9, <2>10 DEF Next, Steps
<1> QED
  BY <1>1, <1>2, PTL DEF Spec

\* Only the delete takes rows away, and only those of days no page reaches
\* (sql_adapter.c:920-1009 against 1011-1075).
THEOREM OnlyOldRowsGo == Spec => TrimmedWereInvisible
<1>1. ASSUME IInv, [Next]_vars, History > 0,
             NEW r \in table \ table', NEW prd \in 1..10
      PROVE  r \notin get_date_period(table, [prd |-> prd, prd_b |-> 0, prd_e |-> 0], now)
  <2>1. Alarm
    <3>1. ASSUME NEW s \in Samples, Serve(s) PROVE FALSE
      BY <1>1, <3>1 DEF Serve, Insert
    <3>2. ASSUME NEW s \in Others, OtherServer(s) PROVE FALSE
      BY <1>1, <3>2 DEF OtherServer, Insert
    <3>3. ASSUME NEW q, NEW filters, NEW start, NEW before, ReadRows(q, filters, start, before)
          PROVE  FALSE
      BY <1>1, <3>3 DEF ReadRows
    <3>4. ASSUME NEW q \in PageQueries, Open(q) \/ Look(q) \/ List(q) PROVE FALSE
      BY <1>1, <3>3, <3>4 DEF Open, Look, List
    <3>5. ~(ReadCount \/ FollowLink)
      BY <1>1, <3>3 DEF ReadCount, FollowLink
    <3>6. ~(Close \/ Tick \/ ServerFails \/ ServerReturns \/ UNCHANGED vars)
      BY <1>1 DEF Close, Tick, ServerFails, ServerReturns, vars
    <3> QED
      BY <1>1, <3>1, <3>2, <3>4, <3>5, <3>6 DEF Next, Steps
  <2>2. ~(Date(r.dateadd) >= Date(now) - History)
    BY <1>1, <2>1 DEF Alarm
  <2>3. r.dateadd \in Nat /\ now \in Nat /\ History \in Nat /\ DaySeconds \in Nat \ {0}
    BY <1>1, TypeParts, QueriesAssumption DEF QueriesAssumption
  <2>4. Date(r.dateadd) \in Int /\ Date(now) \in Int
    BY <2>3 DEF Date
  <2>5. performance_get_period(prd) \in Nat /\ performance_get_period(prd) <= History
    BY <1>1, PeriodBound
  <2>6. ~(Date(r.dateadd) >= Date(now) - performance_get_period(prd))
    BY <2>2, <2>3, <2>4, <2>5
  <2> QED
    BY <2>6 DEF get_date_period
<1>2. IInv /\ [Next]_vars =>
        [History > 0 =>
           \A r \in table \ table', prd \in 1..10 :
             r \notin get_date_period(table, [prd |-> prd, prd_b |-> 0, prd_e |-> 0], now)]_vars
  BY <1>1
<1> QED
  BY <1>2, Invariant, PTL DEF Spec, TrimmedWereInvisible

-----------------------------------------------------------------------------
(* Sorting: which row is at which place.                                   *)

\* The elements below one, where f is what S is sorted by.
Below(S, f, r) == {s \in S : f[s] < f[r]}

\* Numbers without repetition.
Injective(S, f) == f \in [S -> Int] /\ \A r, s \in S : f[r] = f[s] => r = s

\* There are no fewer below the higher of two.
LEMMA BelowGrows ==
  ASSUME NEW S, IsFiniteSet(S), NEW f, Injective(S, f), NEW r \in S, NEW s \in S
  PROVE  /\ IsFiniteSet(Below(S, f, r))
         /\ Cardinality(Below(S, f, r)) \in 0..(Cardinality(S) - 1)
         /\ f[r] < f[s] => Cardinality(Below(S, f, r)) < Cardinality(Below(S, f, s))
<1>1. \A x \in S : f[x] \in Int
  BY DEF Injective
<1>2. ASSUME NEW x \in S
      PROVE  /\ IsFiniteSet(Below(S, f, x)) /\ Cardinality(Below(S, f, x)) \in Nat
             /\ IsFiniteSet(Below(S, f, x) \cup {x}) /\ x \notin Below(S, f, x)
             /\ Cardinality(Below(S, f, x) \cup {x}) = Cardinality(Below(S, f, x)) + 1
  <2>1. Below(S, f, x) \in SUBSET S
    BY DEF Below
  <2>2. IsFiniteSet(Below(S, f, x))
    BY <2>1, FS_Subset
  <2>3. x \notin Below(S, f, x)
    BY <1>1 DEF Below
  <2>4. Cardinality(Below(S, f, x)) \in Nat
    BY <2>2, FS_CardinalityType
  <2>5. /\ IsFiniteSet(Below(S, f, x) \cup {x})
        /\ Cardinality(Below(S, f, x) \cup {x}) = Cardinality(Below(S, f, x)) + 1
    BY <2>2, <2>3, FS_AddElement, Zenon
  <2> QED
    BY <2>2, <2>3, <2>4, <2>5
<1>3. Cardinality(S) \in Nat
  BY FS_CardinalityType
<1>4. Below(S, f, r) \cup {r} \in SUBSET S
  BY DEF Below
<1>5. Cardinality(Below(S, f, r)) + 1 <= Cardinality(S)
  <2>1. Cardinality(Below(S, f, r) \cup {r}) <= Cardinality(S)
    BY <1>4, FS_Subset, Zenon
  <2> QED
    BY <1>2, <2>1
<1>7. \A c \in Nat, n \in Nat : c + 1 <= n => c \in 0..(n - 1)
  OBVIOUS
<1>6. ASSUME f[r] < f[s]
      PROVE  Cardinality(Below(S, f, r)) < Cardinality(Below(S, f, s))
  <2>1. Below(S, f, r) \cup {r} \in SUBSET Below(S, f, s)
    BY <1>1, <1>6 DEF Below
  <2>2. Cardinality(Below(S, f, r) \cup {r}) <= Cardinality(Below(S, f, s))
    BY <1>2, <2>1, FS_Subset, Zenon
  <2>3. Cardinality(Below(S, f, r)) + 1 <= Cardinality(Below(S, f, s))
    BY <1>2, <2>2
  <2>4. \A c, n \in Nat : c + 1 <= n => c < n
    OBVIOUS
  <2> QED
    BY <1>2, <2>3, <2>4
<1> QED
  BY <1>2, <1>3, <1>5, <1>6, <1>7

\* No two have as many below them.
LEMMA PlaceOfOne ==
  ASSUME NEW S, IsFiniteSet(S), NEW f, Injective(S, f), NEW r \in S, NEW s \in S,
         Cardinality(Below(S, f, r)) = Cardinality(Below(S, f, s))
  PROVE  r = s
<1>1. f[r] \in Int /\ f[s] \in Int
  BY DEF Injective
<1>2. ~(f[r] < f[s]) /\ ~(f[s] < f[r])
  BY BelowGrows
<1> QED
  BY <1>1, <1>2 DEF Injective

\* Every place is taken.
LEMMA EveryPlace ==
  ASSUME NEW S, IsFiniteSet(S), NEW f, Injective(S, f), NEW k \in 1..Cardinality(S)
  PROVE  \E r \in S : Cardinality(Below(S, f, r)) = k - 1
<1> DEFINE n == Cardinality(S)
           T == 0..(n - 1)
           g == [r \in S |-> Cardinality(Below(S, f, r))]
<1>1. n \in Nat
  BY FS_CardinalityType
<1>2. IsFiniteSet(T) /\ Cardinality(T) = n
  <2>1. 0 \in Int /\ n - 1 \in Int /\ (IF 0 > n - 1 THEN 0 ELSE n - 1 - 0 + 1) = n
    BY <1>1
  <2> HIDE DEF n
  <2> QED
    BY <2>1, FS_Interval, Zenon
<1>3. g \in [S -> T]
  BY BelowGrows
<1>4. \A r, s \in S : g[r] = g[s] => r = s
  BY PlaceOfOne
<1>5. g \in Injection(S, T)
  BY <1>3, <1>4 DEF Injection, IsInjective
<1>6. g \in Surjection(S, T)
  BY <1>2, <1>5, FS_Injection
<1>7. k - 1 \in T
  BY <1>1
<1>8. \E r \in S : g[r] = k - 1
  BY <1>6, <1>7 DEF Surjection
<1> QED
  BY <1>8

\* What the rows are sorted by: their ids, upwards or downwards.
Keyed(S, tp) == [r \in S |-> IF tp = 1 THEN r.id ELSE -r.id]

\* Rows that differ in their ids.
Numbered(S) ==
  IsFiniteSet(S) /\ (\A r \in S : r.id \in Nat) /\ \A r, s \in S : r.id = s.id => r = s

\* The key that sorts rows by id is one number for each.
LEMMA KeyedType ==
  ASSUME NEW S, Numbered(S), NEW tp
  PROVE  Injective(S, Keyed(S, tp))
<1>1. Keyed(S, tp) \in [S -> Int]
  BY DEF Keyed, Numbered
<1>2. ASSUME NEW r \in S, NEW s \in S, Keyed(S, tp)[r] = Keyed(S, tp)[s] PROVE r = s
  <2>1. r.id \in Nat /\ s.id \in Nat
    BY DEF Numbered
  <2>2. r.id = s.id
    BY <1>2, <2>1 DEF Keyed
  <2> QED
    BY <2>2 DEF Numbered
<1> QED
  BY <1>1, <1>2 DEF Injective

\* Sorting by id puts each row behind as many as come before it (order by id).
LEMMA ByIds ==
  ASSUME NEW S, Numbered(S), NEW tp
  PROVE  /\ By(S, "id", "id", tp) \in [1..Cardinality(S) -> S]
         /\ \A k \in 1..Cardinality(S) :
              Cardinality(Below(S, Keyed(S, tp), By(S, "id", "id", tp)[k])) = k - 1
<1> DEFINE f == Keyed(S, tp)
<1>1. ASSUME NEW r \in S
      PROVE  {s \in S : IF tp = 1 THEN s.id < r.id \/ (s.id = r.id /\ s.id < r.id)
                                  ELSE r.id < s.id \/ (r.id = s.id /\ r.id < s.id)} = Below(S, f, r)
  <2>1. \A s \in S : s.id \in Nat
    BY DEF Numbered
  <2> QED
    BY <2>1 DEF Keyed, Below
<1>2. By(S, "id", "id", tp) =
        [k \in 1..Cardinality(S) |->
           CHOOSE r \in S :
             Cardinality({s \in S : IF tp = 1 THEN s.id < r.id \/ (s.id = r.id /\ s.id < r.id)
                                     ELSE r.id < s.id \/ (r.id = s.id /\ r.id < s.id)}) = k - 1]
  BY DEF By, Ordered, Key
<1>3. ASSUME NEW k \in 1..Cardinality(S)
      PROVE  /\ By(S, "id", "id", tp)[k] \in S
             /\ Cardinality(Below(S, f, By(S, "id", "id", tp)[k])) = k - 1
  <2> DEFINE C(r) == Cardinality({s \in S :
                       IF tp = 1 THEN s.id < r.id \/ (s.id = r.id /\ s.id < r.id)
                                 ELSE r.id < s.id \/ (r.id = s.id /\ r.id < s.id)})
  <2>1. \A r \in S : C(r) = Cardinality(Below(S, f, r))
    BY <1>1
  <2>2. By(S, "id", "id", tp)[k] = CHOOSE r \in S : C(r) = k - 1
    BY <1>2
  <2> HIDE DEF C, f
  <2>3. \E r \in S : C(r) = k - 1
    <3>1. \E r \in S : Cardinality(Below(S, f, r)) = k - 1
      BY KeyedType, EveryPlace DEF Numbered, f
    <3> QED
      BY <2>1, <3>1
  <2> QED
    BY <2>1, <2>2, <2>3
<1>4. By(S, "id", "id", tp) \in [1..Cardinality(S) -> S]
  BY <1>2, <1>3
<1> QED
  BY <1>3, <1>4

\* How many rows come before one.
Rank(S, tp, r) == Cardinality(Below(S, Keyed(S, tp), r))

\* A rank is below the number of rows.
LEMMA RankType ==
  ASSUME NEW S, Numbered(S), NEW tp, NEW r \in S
  PROVE  Rank(S, tp, r) \in Nat /\ Rank(S, tp, r) < Cardinality(S) /\ Cardinality(S) \in Nat
<1>1. Injective(S, Keyed(S, tp)) /\ IsFiniteSet(S)
  BY KeyedType DEF Numbered
<1>2. Rank(S, tp, r) \in 0..(Cardinality(S) - 1)
  BY <1>1, BelowGrows DEF Rank
<1>3. Cardinality(S) \in Nat
  BY <1>1, FS_CardinalityType
<1> QED
  BY <1>2, <1>3

\* Rows sorted by id are at the places their ranks say.
LEMMA RankIsPlace ==
  ASSUME NEW S, Numbered(S), NEW tp, NEW r \in S
  PROVE  By(S, "id", "id", tp)[Rank(S, tp, r) + 1] = r
<1>1. Injective(S, Keyed(S, tp)) /\ IsFiniteSet(S)
  BY KeyedType DEF Numbered
<1>2. PICK k \in Nat : k = Rank(S, tp, r) /\ k < Cardinality(S) /\ Cardinality(S) \in Nat
  BY RankType
<1>3. k + 1 \in 1..Cardinality(S) /\ (k + 1) - 1 = k
  BY <1>2
<1> DEFINE x == By(S, "id", "id", tp)[k + 1]
           f == Keyed(S, tp)
<1>4. x \in S /\ Cardinality(Below(S, f, x)) = (k + 1) - 1
  BY <1>3, ByIds
<1> HIDE DEF x, f
<1>5. x \in S /\ Cardinality(Below(S, f, x)) = Cardinality(Below(S, f, r))
  BY <1>2, <1>3, <1>4 DEF Rank, f
<1>6. x = r
  BY <1>1, <1>5, PlaceOfOne DEF f
<1> QED
  BY <1>2, <1>6 DEF x

\* The page that is shown: page numbers count from 1, and a bad one is the first.
PageNo(page) == Max({1, page})

\* The larger of two numbers.
LEMMA MaxOfTwo ==
  ASSUME NEW a \in Int, NEW b \in Int
  PROVE  Max({a, b}) = (IF a >= b THEN a ELSE b) /\ Min({a, b}) = (IF a <= b THEN a ELSE b)
<1>1. Max({a, b}) = IF a >= b THEN a ELSE b
  <2>1. \A x \in {a, b} : (\A y \in {a, b} : x >= y) <=> x = IF a >= b THEN a ELSE b
    OBVIOUS
  <2>2. (IF a >= b THEN a ELSE b) \in {a, b}
    OBVIOUS
  <2> QED
    BY <2>1, <2>2 DEF Max
<1>2. Min({a, b}) = IF a <= b THEN a ELSE b
  <2>1. \A x \in {a, b} : (\A y \in {a, b} : x <= y) <=> x = IF a <= b THEN a ELSE b
    OBVIOUS
  <2>2. (IF a <= b THEN a ELSE b) \in {a, b}
    OBVIOUS
  <2> QED
    BY <2>1, <2>2 DEF Min
<1> QED
  BY <1>1, <1>2

\* Page numbers count from 1.
LEMMA PageNumbers ==
  ASSUME NEW page \in Int
  PROVE  /\ PageNo(page) \in Nat \ {0} /\ Max({0, page - 1}) = PageNo(page) - 1
         /\ page \in Nat \ {0} => PageNo(page) = page
         /\ page <= 1 => PageNo(page) = 1
<1>1. PageNo(page) = IF 1 >= page THEN 1 ELSE page
  BY MaxOfTwo DEF PageNo
<1>2. Max({0, page - 1}) = IF 0 >= page - 1 THEN 0 ELSE page - 1
  BY MaxOfTwo
<1> QED
  BY <1>1, <1>2

\* Products are bounded as their factors are.
LEMMA Product ==
  ASSUME NEW p \in Nat, NEW q \in Nat
  PROVE  p * q \in Nat /\ (p + 1) * q = p * q + q
OBVIOUS

\* A page has the rows with so many before them, and no other (sql_adapter_get_limit).
LEMMA OnPage ==
  ASSUME NEW S, Numbered(S), NEW tp, NEW page \in Int
  PROVE  /\ \A r \in S :
              /\ (PageNo(page) - 1) * PerPage <= Rank(S, tp, r)
              /\ Rank(S, tp, r) < PageNo(page) * PerPage
              => r.id \in Ids(get_limit(By(S, "id", "id", tp), page))
         /\ \A i \in Ids(get_limit(By(S, "id", "id", tp), page)) :
              \E r \in S : /\ r.id = i
                           /\ (PageNo(page) - 1) * PerPage <= Rank(S, tp, r)
                           /\ Rank(S, tp, r) < PageNo(page) * PerPage
<1> DEFINE n == Cardinality(S)
           b == By(S, "id", "id", tp)
           g == PageNo(page) - 1
           lo == g * PerPage + 1
           hi == Min({Len(b), (g + 1) * PerPage})
           shown == SubSeq(b, lo, hi)
<1>1. n \in Nat
  BY FS_CardinalityType DEF Numbered
<1>2. b \in [1..n -> S] /\ \A k \in 1..n : Rank(S, tp, b[k]) = k - 1
  BY ByIds DEF Rank
<1>3. Len(b) = n
  BY <1>1, <1>2
<1>4. g \in Nat /\ Max({0, page - 1}) = g /\ PageNo(page) = g + 1
  BY PageNumbers
<1>5. get_limit(b, page) = shown
  BY <1>4 DEF get_limit
<1>6. PerPage \in Nat \ {0}
  BY QueriesAssumption DEF QueriesAssumption
<1>7. lo \in Nat /\ (g + 1) * PerPage \in Nat /\ lo >= 1 /\ lo - 1 = g * PerPage
  BY <1>4, <1>6, Product
<1>8. hi = IF n <= (g + 1) * PerPage THEN n ELSE (g + 1) * PerPage
  <2>1. hi = Min({n, (g + 1) * PerPage})
    BY <1>3
  <2> DEFINE m == (g + 1) * PerPage
  <2>2. n \in Int /\ m \in Int
    BY <1>1, <1>7
  <2> HIDE DEF n, m
  <2>3. Min({n, m}) = IF n <= m THEN n ELSE m
    BY <2>2, MaxOfTwo
  <2> QED
    BY <2>1, <2>3 DEF m
<1>9. \A r \in S : Rank(S, tp, r) \in Nat /\ Rank(S, tp, r) < n /\ b[Rank(S, tp, r) + 1] = r
  BY RankType, RankIsPlace
<1>10. Ids(shown) = {shown[i].id : i \in DOMAIN shown}
  BY DEF Ids, Range
<1> HIDE DEF b, g, n
<1> DEFINE top == (g + 1) * PerPage
           bot == g * PerPage
<1>11. lo = bot + 1 /\ top \in Nat /\ bot \in Nat
  BY <1>7
<1> HIDE DEF lo, hi, top, bot
<1>12. hi \in Nat /\ hi <= n /\ hi <= top /\ \A k \in Nat : k <= n /\ k <= top => k <= hi
  BY <1>1, <1>8, <1>11 DEF top
<1>13. /\ Len(shown) = IF lo <= hi THEN hi - lo + 1 ELSE 0
       /\ \A i \in 1..(hi - lo + 1) : shown[i] = b[lo + i - 1]
       /\ DOMAIN shown = 1..Len(shown)
  <2>1. \A i \in lo..hi : b[i] \in S
    BY <1>1, <1>2, <1>11, <1>12
  <2>2. lo \in Int /\ hi \in Int
    BY <1>11, <1>12
  <2>3. shown \in Seq(S) /\ Len(shown) = (IF lo <= hi THEN hi - lo + 1 ELSE 0)
        /\ \A i \in 1..(hi - lo + 1) : shown[i] = b[lo + i - 1]
    BY <2>1, <2>2, SubSeqProperties
  <2>4. DOMAIN shown = 1..Len(shown)
    BY <2>3
  <2> QED
    BY <2>3, <2>4
<1> HIDE DEF shown
<1>14. ASSUME NEW r \in S, bot <= Rank(S, tp, r), Rank(S, tp, r) < top
       PROVE  r.id \in Ids(shown)
  <2> DEFINE c == Rank(S, tp, r)
             i == c + 2 - lo
  <2>1. c \in Nat /\ c < n /\ b[c + 1] = r
    BY <1>9
  <2> HIDE DEF c
  <2>2. c + 1 <= hi /\ lo <= c + 1
    BY <1>1, <1>11, <1>12, <1>14, <2>1 DEF c
  <2>3. i \in 1..(hi - lo + 1) /\ lo <= hi /\ lo + i - 1 = c + 1
    BY <1>11, <1>12, <2>1, <2>2
  <2>4. i \in DOMAIN shown /\ shown[i] = r
    BY <1>13, <2>1, <2>3
  <2> QED
    BY <1>10, <2>4
<1>15. ASSUME NEW x \in Ids(shown)
       PROVE  \E r \in S : r.id = x /\ bot <= Rank(S, tp, r) /\ Rank(S, tp, r) < top
  <2>1. PICK i \in DOMAIN shown : x = shown[i].id
    BY <1>10
  <2>2. i \in 1..(hi - lo + 1) /\ lo <= hi
    BY <1>11, <1>12, <1>13, <2>1
  <2> DEFINE k == lo + i - 1
  <2>3. k \in 1..n /\ lo <= k /\ k <= hi /\ shown[i] = b[k]
    BY <1>1, <1>11, <1>12, <1>13, <2>2
  <2> HIDE DEF k
  <2>4. b[k] \in S /\ Rank(S, tp, b[k]) = k - 1
    BY <1>2, <2>3
  <2>5. bot <= k - 1 /\ k - 1 < top
    BY <1>1, <1>11, <1>12, <2>3
  <2> QED
    BY <2>1, <2>3, <2>4, <2>5
<1> QED
  BY <1>4, <1>5, <1>14, <1>15 DEF b, bot, top, g

-----------------------------------------------------------------------------
(* What a page is about, row by row.                                       *)

\* get_date_period, of one row.
InPeriod(r, a, t) ==
  IF a.prd_b # 0 /\ a.prd_e # 0
    THEN a.prd_b <= r.dateadd /\ r.dateadd <= a.prd_e
    ELSE Date(r.dateadd) >= Date(t) - performance_get_period(a.prd)

\* get_filter, of one row.
InFilter(r, a, d) ==
  /\ Like(r.host, a.host) /\ Like(r.script, a.script) /\ Like(r.uri, a.uri)
  /\ d.host_id # "localhost" => r.hostnm = adapter_get_host_name(d)

\* The two are what the sets of queries are made of.
LEMMA PeriodByRow ==
  ASSUME NEW t, NEW a, NEW n
  PROVE  get_date_period(t, a, n) = {r \in t : InPeriod(r, a, n)}
BY DEF get_date_period, InPeriod

\* A query keeps the rows of its period that pass its filter.
LEMMA RowByRow ==
  ASSUME NEW t, NEW a, NEW d, NEW n
  PROVE  Where(t, a, d, n) = {r \in t : InPeriod(r, a, n) /\ InFilter(r, a, d)}
<1>1. get_date_period(t, a, n) = {r \in t : InPeriod(r, a, n)}
  BY PeriodByRow
<1>2. get_filter(t, a, d) = {r \in t : InFilter(r, a, d)}
  BY DEF get_filter, InFilter
<1> QED
  BY <1>1, <1>2 DEF Where

\* Giving up a handle does not change what the pages are about.
LEMMA SameFilter ==
  ASSUME NEW d \in Adapters, NEW h \in {"read", "write"}, NEW r, NEW a
  PROVE  InFilter(r, a, Reconnected(d, h)) = InFilter(r, a, d)
BY DEF Adapters, Reconnected, InFilter, adapter_get_host_name

\* A quotient and its remainder.
LEMMA QuotientBounds ==
  ASSUME NEW x \in Nat, NEW d \in Nat \ {0}
  PROVE  x \div d \in Nat /\ (x \div d) * d <= x /\ x < (x \div d) * d + d
<1>1. x \div d \in Nat
  OBVIOUS
<1>2. (x \div d) * d <= x
  OBVIOUS
<1>3. x < (x \div d) * d + d
  OBVIOUS
<1> QED
  BY <1>1, <1>2, <1>3

\* A larger dividend has no smaller quotient.
LEMMA QuotientGrows ==
  ASSUME NEW x \in Nat, NEW y \in Nat, x <= y, NEW d \in Nat \ {0}
  PROVE  x \div d <= y \div d
<1> DEFINE p == x \div d
           q == y \div d
<1>1. p \in Nat /\ q \in Nat /\ p * d <= x /\ y < q * d + d
  BY QuotientBounds
<1> HIDE DEF p, q
<1>2. ASSUME q < p PROVE FALSE
  <2>1. PICK k \in Nat : p = q + 1 + k
    <3>1. p - q - 1 \in Nat /\ p = q + 1 + (p - q - 1)
      BY <1>1, <1>2
    <3> QED
      BY <3>1
  <2>2. p * d = q * d + d + k * d /\ k * d \in Nat /\ q * d \in Nat
    BY <1>1, <2>1
  <2> QED
    BY <1>1, <2>2
<1> QED
  BY <1>1, <1>2 DEF p, q

\* The days a page looks back are a number.
LEMMA PeriodType ==
  ASSUME NEW prd \in Int
  PROVE  performance_get_period(prd) \in Int
<1>1. History \in Int
  BY QueriesAssumption DEF QueriesAssumption
<1>2. Min({prd, History}) \in Int
  BY <1>1, MaxOfTwo
<1> DEFINE m == Min({prd, History})
<1> HIDE DEF m
<1>3. Max({1, m}) \in Int
  BY <1>2, MaxOfTwo DEF m
<1> QED
  BY <1>3 DEF performance_get_period, m

\* A later moment is of no earlier day.
LEMMA DateGrows ==
  ASSUME NEW x \in Nat, NEW y \in Nat, x <= y
  PROVE  Date(x) \in Int /\ Date(y) \in Int /\ Date(x) <= Date(y)
BY QuotientBounds, QuotientGrows, QueriesAssumption DEF QueriesAssumption, Date

-----------------------------------------------------------------------------
(* The rows have numbers of their own, and a later row a later moment.     *)

\* A later row has the higher id, and no earlier date.
InOrderSaved(t) ==
  /\ Numbered(t)
  /\ \A r, s \in t : r.id < s.id => r.dateadd <= s.dateadd

\* Saving a row leaves the table in that order.
LEMMA InsertInOrder ==
  ASSUME IInv, InOrderSaved(table), nextId <= MaxRows,
         NEW s, NEW c, NEW w, NEW hostnm, Insert(Row(s, c, w, hostnm)), now' = now
  PROVE  /\ InOrderSaved(table')
         /\ table \subseteq table'
         /\ \A r \in table' : r.id < nextId => r \in table
<1> DEFINE row == Row(s, c, w, hostnm)
<1>1. row.id = nextId /\ row.dateadd = now /\ table' = table \cup {row}
  BY DEF Row, Insert
<1>2. /\ \A r \in table : r.id \in 1..(nextId - 1) /\ r.dateadd \in 1..now
      /\ nextId \in Nat /\ now \in Nat
  BY TypeParts, ReportsAssumption DEF ReportsAssumption
<1> HIDE DEF row
<1>3. IsFiniteSet(table')
  BY <1>1, FS_AddElement DEF InOrderSaved, Numbered
<1>4. \A r \in table' : r.id \in Nat /\ (r = row \/ (r \in table /\ r.id < nextId))
  BY <1>1, <1>2 DEF InOrderSaved, Numbered
<1>5. \A r, x \in table' : r.id = x.id => r = x
  BY <1>1, <1>2, <1>4 DEF InOrderSaved, Numbered
<1>6. ASSUME NEW r \in table', NEW x \in table', r.id < x.id PROVE r.dateadd <= x.dateadd
  <2>1. r \in table
    BY <1>1, <1>2, <1>4, <1>6
  <2>2. CASE x = row
    BY <1>1, <1>2, <2>1, <2>2
  <2>3. CASE x \in table
    BY <1>6, <2>1, <2>3 DEF InOrderSaved
  <2> QED
    BY <1>4, <2>2, <2>3
<1> QED
  BY <1>1, <1>2, <1>3, <1>4, <1>5, <1>6 DEF InOrderSaved, Numbered

\* And so does deleting rows.
LEMMA PartInOrder ==
  ASSUME NEW t, InOrderSaved(t), NEW u, u \subseteq t
  PROVE  InOrderSaved(u)
<1>1. IsFiniteSet(u)
  BY FS_Subset DEF InOrderSaved, Numbered
<1> QED
  BY <1>1 DEF InOrderSaved, Numbered
-----------------------------------------------------------------------------
(* What may happen around a walk: rows are saved and deleted, time passes,  *)
(* the server goes and returns.                                            *)

\* The steps of all others: a row is saved, old ones go, time passes, the server goes.
Around ==
  \/ \E s \in Samples : Serve(s)
  \/ \E s \in Others : OtherServer(s)
  \/ Alarm \/ Tick \/ ServerFails \/ ServerReturns \/ UNCHANGED vars

\* No row comes back; of two that were on a page the older one is not kept longer.
Survive(a) ==
  /\ InOrderSaved(table')
  /\ nextId' \in Nat /\ nextId <= nextId'
  /\ \A r \in table' : r.id < nextId => r \in table
  /\ \A r : InFilter(r, a, db') = InFilter(r, a, db)
  /\ \A r \in table' \cap table : InPeriod(r, a, now') =>
       /\ InPeriod(r, a, now)
       /\ \A s \in table : InPeriod(s, a, now) /\ r.id < s.id => s \in table' /\ InPeriod(s, a, now')

\* So it is after each of these steps.
LEMMA AroundSurvive ==
  ASSUME IInv, InOrderSaved(table), Around, NEW a, a.prd \in Int
  PROVE  Survive(a)
<1>0. /\ \A r \in table : r.id \in 1..(nextId - 1) /\ r.dateadd \in Nat /\ r.dateadd \in 1..now
      /\ nextId \in Nat /\ now \in Nat
      /\ db \in Adapters
  BY TypeParts, ReportsAssumption DEF ReportsAssumption
<1>1. ASSUME now' = now, nextId' \in Nat, nextId <= nextId', InOrderSaved(table'), table \subseteq table',
             \A r \in table' : r.id < nextId => r \in table,
             \A r : InFilter(r, a, db') = InFilter(r, a, db)
      PROVE  Survive(a)
  BY <1>1 DEF Survive
<1>2. ASSUME NEW s \in Samples, Serve(s) PROVE Survive(a)
  <2> DEFINE c == save_counters(Top, Cpus, s.begin, s.end, s.max_mem)
             w == save_to_db(c, Limit, 100, MaxPCPU(Top, Cpus), External, s.host)
  <2>1. nextId <= MaxRows /\ now' = now
    BY <1>2 DEF Serve
  <2>2. Insert(Row(s, c, w, InsertedHostName(db))) \/ UNCHANGED <<table, nextId>>
    BY <1>2 DEF Serve
  <2>3. db' = IF w.write THEN Reconnected(db, "write") ELSE db
    BY <1>2 DEF Serve
  <2> HIDE DEF c, w
  <2>4. \A r : InFilter(r, a, db') = InFilter(r, a, db)
    BY <1>0, <2>3, SameFilter
  <2>5. CASE UNCHANGED <<table, nextId>>
    BY <1>0, <1>1, <2>1, <2>4, <2>5
  <2>6. CASE Insert(Row(s, c, w, InsertedHostName(db)))
    <3>1. nextId' = nextId + 1
      BY <2>6 DEF Insert
    <3>2. InOrderSaved(table') /\ table \subseteq table' /\ \A r \in table' : r.id < nextId => r \in table
      BY <2>1, <2>6, InsertInOrder
    <3> QED
      BY <1>0, <1>1, <2>1, <2>4, <3>1, <3>2
  <2> QED
    BY <2>2, <2>5, <2>6
<1>3. ASSUME NEW s \in Others, OtherServer(s) PROVE Survive(a)
  <2> DEFINE c == save_counters(Top, Cpus, s.begin, s.end, s.max_mem)
             w == save_to_db(c, NoLimit, 100, MaxPCPU(Top, Cpus), {}, s.host)
  <2>1. nextId <= MaxRows /\ now' = now /\ db' = db
    BY <1>3 DEF OtherServer
  <2>2. Insert(Row(s, c, w, "other"))
    BY <1>3 DEF OtherServer
  <2> HIDE DEF c, w
  <2>3. nextId' = nextId + 1
    BY <2>2 DEF Insert
  <2>4. InOrderSaved(table') /\ table \subseteq table' /\ \A r \in table' : r.id < nextId => r \in table
    BY <2>1, <2>2, InsertInOrder
  <2> QED
    BY <1>0, <1>1, <2>1, <2>3, <2>4
<1>4. CASE Alarm
  <2> DEFINE kept == {r \in table : Date(r.dateadd) >= Date(now) - History}
  <2>1. /\ table' = table \/ table' = kept
        /\ nextId' = nextId /\ now' = now /\ db' = Reconnected(db, "write")
    BY <1>4 DEF Alarm
  <2>2. table' \subseteq table /\ InOrderSaved(table')
    BY <2>1, PartInOrder
  <2>3. \A r : InFilter(r, a, db') = InFilter(r, a, db)
    BY <1>0, <2>1, SameFilter
  <2>4. ASSUME NEW r \in table', NEW s \in table, r.id < s.id PROVE s \in table'
    <3>1. r \in table /\ r.dateadd <= s.dateadd
      BY <2>2, <2>4 DEF InOrderSaved
    <3>2. Date(r.dateadd) \in Int /\ Date(s.dateadd) \in Int /\ Date(r.dateadd) <= Date(s.dateadd)
      BY <1>0, <3>1, DateGrows
    <3>3. Date(now) \in Int /\ History \in Nat
      BY <1>0, DateGrows, QueriesAssumption DEF QueriesAssumption
    <3> QED
      BY <2>1, <2>4, <3>2, <3>3
  <2> QED
    BY <1>0, <2>1, <2>2, <2>3, <2>4 DEF Survive
<1>5. CASE Tick
  <2>1. now' = now + 1 /\ UNCHANGED <<table, nextId, db>>
    BY <1>5 DEF Tick
  <2>2. Date(now) \in Int /\ Date(now') \in Int /\ Date(now) <= Date(now')
    BY <1>0, <2>1, DateGrows
  <2> DEFINE p == performance_get_period(a.prd)
  <2>3. p \in Int
    BY PeriodType
  <2> HIDE DEF p
  <2>4. \A r, t : /\ a.prd_b # 0 /\ a.prd_e # 0 =>
                     (InPeriod(r, a, t) <=> a.prd_b <= r.dateadd /\ r.dateadd <= a.prd_e)
                /\ ~(a.prd_b # 0 /\ a.prd_e # 0) =>
                     (InPeriod(r, a, t) <=> Date(r.dateadd) >= Date(t) - p)
    BY DEF InPeriod, p
  <2>5. \A r \in table : Date(r.dateadd) \in Int
    BY <1>0, DateGrows
  <2>6. ASSUME NEW r \in table, InPeriod(r, a, now') PROVE InPeriod(r, a, now)
    <3>1. CASE a.prd_b # 0 /\ a.prd_e # 0
      BY <2>6, <3>1, Zenon DEF InPeriod
    <3>2. CASE ~(a.prd_b # 0 /\ a.prd_e # 0)
      <4>1. Date(r.dateadd) >= Date(now') - p
        BY <2>4, <2>6, <3>2
      <4>2. Date(r.dateadd) >= Date(now) - p
        BY <2>2, <2>3, <2>5, <4>1
      <4> QED
        BY <2>4, <3>2, <4>2
    <3> QED
      BY <3>1, <3>2
  <2>7. ASSUME NEW r \in table, InPeriod(r, a, now'), NEW s \in table, r.id < s.id, InPeriod(s, a, now)
        PROVE  InPeriod(s, a, now')
    <3>1. r.dateadd <= s.dateadd
      BY <2>7 DEF InOrderSaved
    <3>2. Date(r.dateadd) <= Date(s.dateadd)
      BY <1>0, <3>1, DateGrows
    <3>3. CASE a.prd_b # 0 /\ a.prd_e # 0
      BY <2>7, <3>3, Zenon DEF InPeriod
    <3>4. CASE ~(a.prd_b # 0 /\ a.prd_e # 0)
      <4>1. Date(r.dateadd) >= Date(now') - p
        BY <2>4, <2>7, <3>4
      <4>2. Date(s.dateadd) >= Date(now') - p
        BY <2>2, <2>3, <2>5, <3>2, <4>1
      <4> QED
        BY <2>4, <3>4, <4>2
    <3> QED
      BY <3>3, <3>4
  <2> QED
    BY <1>0, <2>1, <2>6, <2>7 DEF Survive
<1>6. CASE ServerFails \/ ServerReturns
  <2>1. UNCHANGED <<table, nextId, now>>
    BY <1>6 DEF ServerFails, ServerReturns
  <2>2. \A r : InFilter(r, a, db') = InFilter(r, a, db)
    <3>1. db'.type = db.type /\ db'.host_id = db.host_id
      BY <1>0, <1>6 DEF ServerFails, ServerReturns, Adapters
    <3> QED
      BY <3>1 DEF InFilter, adapter_get_host_name
  <2> QED
    BY <1>0, <1>1, <2>1, <2>2
<1>7. CASE UNCHANGED vars
  BY <1>0, <1>1, <1>7 DEF vars
<1> QED
  BY <1>2, <1>3, <1>4, <1>5, <1>6, <1>7 DEF Around

-----------------------------------------------------------------------------
(* A walk through the listing.                                             *)

\* The shape of a walk's screen.
OfWalk(s) ==
  [kind |-> "walk", q |-> s.q, a |-> s.a, filters |-> s.filters, start |-> s.start,
   before |-> s.before, rows |-> s.rows, links |-> s.links]

\* A page is asked for with the filters the walk began with, or without.
WalkInv ==
  screen.kind = "walk" =>
    /\ screen = OfWalk(screen)
    /\ screen.q \in Query /\ screen.a = common_report_part(screen.q)
    /\ screen.start \subseteq 1..(nextId - 1)
    /\ screen.a.sort = 1 => screen.rows \cup screen.before \subseteq 1..(nextId - 1)
    /\ \A k \in 1..3 : Filters(screen.q)[k] \in {screen.filters[k], {}}

\* The rows of all pages looked at.
Seen == screen.rows \cup screen.before

\* The rows the page on the screen is about.
Listed == Where(table, screen.a, db, now)

\* Newest first: a row there was at the first page and that a page could still show
\* has been seen, or is behind the page on the screen, and there is a link behind it.
DescInv ==
  Walking(1, 0) =>
    \A r \in table : r.id \in screen.start /\ InPeriod(r, screen.a, now) =>
      /\ InFilter(r, screen.a, db)
      /\ r.id \notin Seen => /\ Rank(Listed, 0, r) >= PageNo(screen.q.page) * PerPage
                             /\ ~(screen.links # 0 /\ PageNo(screen.q.page) >= screen.links)

\* Oldest first: what has been seen is no further than the page on the screen.
AscInv ==
  Walking(1, 1) /\ screen.filters = Filters(screen.q) =>
    /\ screen.rows \cap screen.before = {}
    /\ \A r \in Listed : r.id \in Seen => Rank(Listed, 1, r) < PageNo(screen.q.page) * PerPage

\* What a query string becomes (common_report_part).
LEMMA Arguments ==
  ASSUME NEW q \in Query
  PROVE  LET a == common_report_part(q)
         IN /\ a.page = q.page /\ q.page \in Int
            /\ a.prd = (IF q.prd \in 1..10 THEN q.prd ELSE 1) /\ a.prd \in Int
            /\ a.prd_b = q.prd_b /\ a.prd_e = q.prd_e
            /\ a.host = (IF q.admin THEN {{get_host_name}} ELSE q.host)
            /\ a.script = q.script /\ a.uri = q.uri
            /\ a.sort = (IF q.sort \in 1..12 THEN q.sort ELSE 1) /\ a.sort \in 1..12
            /\ a.tp = (IF q.tp \in 0..1 THEN q.tp ELSE 0)
<1>1. DOMAIN q = {"info", "pic", "admin", "prd", "prd_b", "prd_e", "host", "script", "uri",
                  "sort", "tp", "page"}
  BY DEF Query
<1>2. q.sort \in Int /\ q.prd \in Int /\ q.tp \in Int /\ q.page \in Int
  BY DEF Query
<1> DEFINE a == common_report_part(q)
<1>3. a.page = q.page
  BY <1>1 DEF common_report_part
<1>4. a.prd = IF q.prd \in 1..10 THEN q.prd ELSE 1
  BY <1>1 DEF common_report_part
<1>5. a.prd_b = q.prd_b /\ a.prd_e = q.prd_e
  BY <1>1 DEF common_report_part
<1>6. a.host = IF q.admin THEN {{get_host_name}} ELSE q.host
  BY <1>1 DEF common_report_part
<1>7. a.script = q.script /\ a.uri = q.uri
  BY <1>1 DEF common_report_part
<1>8. a.sort = IF q.sort \in 1..12 THEN q.sort ELSE 1
  BY <1>1 DEF common_report_part
<1>9. a.tp = IF q.tp \in 0..1 THEN q.tp ELSE 0
  BY <1>1 DEF common_report_part
<1> HIDE DEF a
<1>10. a.prd \in Int /\ a.sort \in 1..12
  BY <1>2, <1>4, <1>8
<1> QED
  BY <1>2, <1>3, <1>4, <1>5, <1>6, <1>7, <1>8, <1>9, <1>10 DEF a

\* What a page that is shown without an error has is the whole answer.
LEMMA WholeAnswer ==
  ASSUME NEW rows, NEW d, NEW ans \in Answers(rows, d), ~ans.err, ans.rows # <<>>
  PROVE  ans.rows = rows
BY DEF Answers

\* The rows a walk is about differ in their ids.
LEMMA ListedNumbered ==
  ASSUME NEW t, Numbered(t), NEW a, NEW d, NEW n
  PROVE  Numbered(Where(t, a, d, n))
<1>1. Where(t, a, d, n) \in SUBSET t
  BY RowByRow
<1>2. IsFiniteSet(Where(t, a, d, n))
  BY <1>1, FS_Subset DEF Numbered
<1> QED
  BY <1>1, <1>2 DEF Numbered

\* More rows before one put it further behind.
LEMMA RankGrows ==
  ASSUME NEW S, Numbered(S), NEW T, Numbered(T), NEW tp, NEW r \in S \cap T,
         \A s \in S : (IF tp = 1 THEN s.id < r.id ELSE r.id < s.id) => s \in T
  PROVE  Rank(S, tp, r) <= Rank(T, tp, r) /\ Rank(S, tp, r) \in Nat /\ Rank(T, tp, r) \in Nat
<1>1. ASSUME NEW s \in Below(S, Keyed(S, tp), r)
      PROVE  s \in Below(T, Keyed(T, tp), r)
  <2>1. s \in S /\ Keyed(S, tp)[s] < Keyed(S, tp)[r]
    BY DEF Below
  <2>2. s.id \in Nat /\ r.id \in Nat
    BY <2>1 DEF Numbered
  <2>3. IF tp = 1 THEN s.id < r.id ELSE r.id < s.id
    BY <2>1, <2>2 DEF Keyed
  <2>4. s \in T
    BY <2>1, <2>3
  <2> QED
    BY <2>2, <2>3, <2>4 DEF Keyed, Below
<1>2. Injective(T, Keyed(T, tp)) /\ IsFiniteSet(T)
  BY KeyedType DEF Numbered
<1>3. IsFiniteSet(Below(T, Keyed(T, tp), r))
  BY <1>2, BelowGrows
<1>4. Below(S, Keyed(S, tp), r) \in SUBSET Below(T, Keyed(T, tp), r)
  BY <1>1
<1>5. Rank(S, tp, r) <= Rank(T, tp, r)
  BY <1>3, <1>4, FS_Subset, Zenon DEF Rank
<1> QED
  BY <1>5, RankType

\* What the first query of the listing leaves: a page of the walk, or none.
LEMMA PageShown ==
  ASSUME NEW q \in Query, NEW filters, NEW start, NEW before,
         ReadRows(q, filters, start, before), screen'.kind = "walk",
         IInv, Numbered(table)
  PROVE  /\ screen' = [kind |-> "walk", q |-> q, a |-> common_report_part(q), filters |-> filters,
                       start |-> start, before |-> before, rows |-> screen'.rows, links |-> 0]
         /\ UNCHANGED <<table, nextId, now>>
         /\ \A r, a : InFilter(r, a, db') = InFilter(r, a, db)
         /\ LET a == common_report_part(q)
                W == Where(table, a, db, now)
            IN a.sort = 1 => screen'.rows = Ids(get_limit(By(W, "id", "id", a.tp), q.page))
<1> DEFINE a == common_report_part(q)
           W == Where(table, a, db, now)
<1>1. PICK ans \in get_full_text_info(table, a, db, now) :
        screen' = IF ans.err \/ ans.rows = <<>> THEN Shown(q, a, ans)
                  ELSE [kind |-> "walk", q |-> q, a |-> a, filters |-> filters,
                        start |-> start, before |-> before, rows |-> Ids(ans.rows), links |-> 0]
  BY DEF ReadRows
<1>2. ~ans.err /\ ans.rows # <<>>
  BY <1>1 DEF Shown
<1>3. screen' = [kind |-> "walk", q |-> q, a |-> a, filters |-> filters,
                 start |-> start, before |-> before, rows |-> Ids(ans.rows), links |-> 0]
  BY <1>1, <1>2
<1>4. UNCHANGED <<table, nextId, now>> /\ db' = Reconnected(db, "read")
  BY DEF ReadRows
<1>5. \A r, b : InFilter(r, b, db') = InFilter(r, b, db)
  BY <1>4, SameFilter, TypeParts
<1>6. ASSUME a.sort = 1 PROVE ans.rows = get_limit(By(W, "id", "id", a.tp), q.page)
  <2>1. Columns[1] = "id"
    BY DEF Columns
  <2>2. get_full_text_info(table, a, db, now) =
          Answers(get_limit(By(W, "id", "id", a.tp), a.page), db)
    BY <1>6, <2>1 DEF get_full_text_info
  <2>3. a.page = q.page
    BY Arguments
  <2> QED
    BY <1>2, <2>2, <2>3, WholeAnswer
<1> QED
  BY <1>3, <1>4, <1>5, <1>6

\* What of two query strings is the same on the way of a walk.
SameBut(q, l) ==
  /\ l.admin = q.admin /\ l.prd = q.prd /\ l.prd_b = q.prd_b /\ l.prd_e = q.prd_e
  /\ l.sort = q.sort /\ l.tp = q.tp
  /\ l.host \in {q.host, {}} /\ l.script \in {q.script, {}} /\ l.uri \in {q.uri, {}}

\* A link leads to the next page, or it loses a filter and may stay (show_row2).
LEMMA LinkLeads ==
  ASSUME NEW q \in Query, NEW page \in Int
  PROVE  /\ Link(q, page) \in Query /\ SameBut(q, Link(q, page))
         /\ \/ Link(q, page).page = page
            \/ q.page # 0 /\ Link(q, page).page = q.page
         /\ \/ Filters(Link(q, page)) = Filters(q) /\ Link(q, page).page = page
            \/ \E k \in 1..3 : Filters(q)[k] # {} /\ Filters(Link(q, page))[k] = {}
<1> DEFINE l == Link(q, page)
<1>1. DOMAIN q = {"info", "pic", "admin", "prd", "prd_b", "prd_e", "host", "script", "uri",
                  "sort", "tp", "page"}
  BY DEF Query
<1>2. {} \in Patterns
  BY DEF Patterns
<1>3. CASE \A f \in {"host", "script", "uri"} : q[f] \cap WithPage = {}
  <2>1. l = [q EXCEPT !.page = page]
    BY <1>3 DEF Link
  <2> HIDE DEF l
  <2>2. l \in Query
    BY <2>1 DEF Query
  <2>3. SameBut(q, l)
    BY <1>1, <2>1 DEF SameBut
  <2>4. l.page = page /\ Filters(l) = Filters(q)
    BY <1>1, <2>1 DEF Filters
  <2> QED
    BY <2>2, <2>3, <2>4 DEF l
<1>4. ASSUME ~(\A f \in {"host", "script", "uri"} : q[f] \cap WithPage = {})
      PROVE  \E cut \in {"host", "script", "uri"} :
               /\ q[cut] # {}
               /\ l = [q EXCEPT ![cut] = {}, !.page = IF @ # 0 THEN @ ELSE page]
  <2> DEFINE c == CHOOSE f \in {"host", "script", "uri"} : q[f] \cap WithPage # {}
  <2>1. c \in {"host", "script", "uri"} /\ q[c] \cap WithPage # {}
    BY <1>4
  <2>2. l = [q EXCEPT ![c] = {}, !.page = IF @ # 0 THEN @ ELSE page]
    BY <1>4 DEF Link
  <2> HIDE DEF c
  <2> QED
    BY <2>1, <2>2
<1>5. ASSUME NEW cut \in {"host", "script", "uri"}, q[cut] # {},
             l = [q EXCEPT ![cut] = {}, !.page = IF @ # 0 THEN @ ELSE page]
      PROVE  /\ l \in Query /\ SameBut(q, l)
             /\ l.page = page \/ (q.page # 0 /\ l.page = q.page)
             /\ \E k \in 1..3 : Filters(q)[k] # {} /\ Filters(l)[k] = {}
  <2> DEFINE p == IF q.page # 0 THEN q.page ELSE page
  <2>1. p \in Int /\ (p = page \/ (q.page # 0 /\ p = q.page))
    BY DEF Query
  <2>2. l = [q EXCEPT ![cut] = {}, !.page = p]
    BY <1>1, <1>5
  <2> HIDE DEF p, l
  <2>3. CASE cut = "host"
    <3>1. l = [[q EXCEPT !.host = {}] EXCEPT !.page = p]
      BY <2>2, <2>3
    <3>2. l \in Query
      BY <1>2, <2>1, <3>1 DEF Query
    <3>3. SameBut(q, l) /\ l.page = p
      BY <1>1, <3>1 DEF SameBut
    <3>4. Filters(q)[1] # {} /\ Filters(l)[1] = {}
      BY <1>1, <1>5, <2>3, <3>1 DEF Filters
    <3> QED
      BY <2>1, <3>2, <3>3, <3>4
  <2>4. CASE cut = "script"
    <3>1. l = [[q EXCEPT !.script = {}] EXCEPT !.page = p]
      BY <2>2, <2>4
    <3>2. l \in Query
      BY <1>2, <2>1, <3>1 DEF Query
    <3>3. SameBut(q, l) /\ l.page = p
      BY <1>1, <3>1 DEF SameBut
    <3>4. Filters(q)[2] # {} /\ Filters(l)[2] = {}
      BY <1>1, <1>5, <2>4, <3>1 DEF Filters
    <3> QED
      BY <2>1, <3>2, <3>3, <3>4
  <2>5. CASE cut = "uri"
    <3>1. l = [[q EXCEPT !.uri = {}] EXCEPT !.page = p]
      BY <2>2, <2>5
    <3>2. l \in Query
      BY <1>2, <2>1, <3>1 DEF Query
    <3>3. SameBut(q, l) /\ l.page = p
      BY <1>1, <3>1 DEF SameBut
    <3>4. Filters(q)[3] # {} /\ Filters(l)[3] = {}
      BY <1>1, <1>5, <2>5, <3>1 DEF Filters
    <3> QED
      BY <2>1, <3>2, <3>3, <3>4
  <2> QED
    BY <2>3, <2>4, <2>5
<1> QED
  BY <1>3, <1>4, <1>5

\* What passes the filters passes what is left of them, and the period is the same.
LEMMA SameButPages ==
  ASSUME NEW q \in Query, NEW l \in Query, SameBut(q, l), NEW d
  PROVE  LET a == common_report_part(q)
             b == common_report_part(l)
         IN /\ \A r, n : InPeriod(r, b, n) = InPeriod(r, a, n)
            /\ \A r : InFilter(r, a, d) => InFilter(r, b, d)
            /\ Filters(l) = Filters(q) => \A r : InFilter(r, a, d) = InFilter(r, b, d)
            /\ b.sort = a.sort /\ b.tp = a.tp
<1> DEFINE a == common_report_part(q)
           b == common_report_part(l)
<1>1. /\ a.prd = b.prd /\ a.prd_b = b.prd_b /\ a.prd_e = b.prd_e
      /\ a.sort = b.sort /\ a.tp = b.tp
      /\ b.host \in {a.host, {}} /\ b.script \in {a.script, {}} /\ b.uri \in {a.uri, {}}
      /\ Filters(l) = Filters(q) => b.host = a.host /\ b.script = a.script /\ b.uri = a.uri
  <2> HIDE DEF a, b
  <2>1. /\ a.prd = (IF q.prd \in 1..10 THEN q.prd ELSE 1)
        /\ b.prd = (IF l.prd \in 1..10 THEN l.prd ELSE 1)
        /\ a.prd_b = q.prd_b /\ a.prd_e = q.prd_e /\ b.prd_b = l.prd_b /\ b.prd_e = l.prd_e
        /\ a.sort = (IF q.sort \in 1..12 THEN q.sort ELSE 1)
        /\ b.sort = (IF l.sort \in 1..12 THEN l.sort ELSE 1)
        /\ a.tp = (IF q.tp \in 0..1 THEN q.tp ELSE 0) /\ b.tp = (IF l.tp \in 0..1 THEN l.tp ELSE 0)
    BY Arguments DEF a, b
  <2>2. /\ a.host = (IF q.admin THEN {{get_host_name}} ELSE q.host)
        /\ b.host = (IF l.admin THEN {{get_host_name}} ELSE l.host)
        /\ a.script = q.script /\ a.uri = q.uri /\ b.script = l.script /\ b.uri = l.uri
    BY Arguments DEF a, b
  <2>3. /\ a.prd = b.prd /\ a.prd_b = b.prd_b /\ a.prd_e = b.prd_e
        /\ a.sort = b.sort /\ a.tp = b.tp
    BY <2>1 DEF SameBut
  <2>4. b.host \in {a.host, {}} /\ b.script \in {a.script, {}} /\ b.uri \in {a.uri, {}}
    BY <2>2 DEF SameBut
  <2>5. Filters(l) = Filters(q) => l.host = q.host /\ l.script = q.script /\ l.uri = q.uri
    BY DEF Filters
  <2>6. Filters(l) = Filters(q) => b.host = a.host /\ b.script = a.script /\ b.uri = a.uri
    BY <2>2, <2>5 DEF SameBut
  <2> QED
    BY <2>3, <2>4, <2>6
<1> HIDE DEF a, b
<1>2. \A r, n : InPeriod(r, b, n) = InPeriod(r, a, n)
  BY <1>1 DEF InPeriod
<1>3. \A text : Like(text, {})
  BY DEF Like
<1>4. \A r : InFilter(r, a, d) => InFilter(r, b, d)
  BY <1>1, <1>3 DEF InFilter
<1>5. Filters(l) = Filters(q) => \A r : InFilter(r, a, d) = InFilter(r, b, d)
  BY <1>1 DEF InFilter
<1> QED
  BY <1>1, <1>2, <1>4, <1>5 DEF a, b

\* Which steps leave a walk on the screen.
LEMMA StepsOfWalk ==
  ASSUME [Next]_vars
  PROVE  /\ Around \/ UNCHANGED <<table, nextId, now>>
         /\ screen'.kind = "walk" =>
              \/ Around /\ UNCHANGED screen
              \/ \E q \in PageQueries : List(q)
              \/ ReadCount
              \/ FollowLink
<1>1. ASSUME NEW s \in Samples, Serve(s)
      PROVE  Around /\ (screen'.kind = "walk" => UNCHANGED screen)
  <2>1. Around
    BY <1>1 DEF Around
  <2>2. screen.kind = "walk" \/ screen'.kind = "served"
    BY <1>1 DEF Serve
  <2>3. screen.kind = "walk" => UNCHANGED screen
    BY <1>1 DEF Serve
  <2> QED
    BY <2>1, <2>2, <2>3
<1>2. ASSUME NEW s \in Others, OtherServer(s) PROVE Around /\ UNCHANGED screen
  BY <1>2 DEF Around, OtherServer
<1>3. ASSUME Alarm \/ Tick \/ ServerFails \/ ServerReturns \/ UNCHANGED vars
      PROVE  Around /\ UNCHANGED screen
  BY <1>3 DEF Around, Alarm, Tick, ServerFails, ServerReturns, vars
<1>4. ASSUME NEW q \in PageQueries, Open(q) \/ Look(q)
      PROVE  screen'.kind # "walk" /\ UNCHANGED <<table, nextId, now>>
  BY <1>4 DEF Open, Look, Shown
<1>5. ASSUME NEW q \in PageQueries, List(q) PROVE UNCHANGED <<table, nextId, now>>
  BY <1>5 DEF List, ReadRows
<1>6. ReadCount \/ FollowLink => UNCHANGED <<table, nextId, now>>
  BY DEF ReadCount, FollowLink, ReadRows
<1>7. Close => screen'.kind # "walk" /\ UNCHANGED <<table, nextId, now>>
  BY DEF Close, Blank
<1> QED
  BY <1>1, <1>2, <1>3, <1>4, <1>5, <1>6, <1>7 DEF Next, Steps

\* A page of the walk, newest or oldest rows first, has the rows at its places.
LEMMA PageOfWalk ==
  ASSUME NEW q \in Query, NEW filters, NEW start, NEW before,
         ReadRows(q, filters, start, before), screen'.kind = "walk",
         IInv, InOrderSaved(table), common_report_part(q).sort = 1
  PROVE  LET a == common_report_part(q)
             W == Where(table, a, db, now)
             P == PageNo(q.page)
         IN /\ Numbered(W) /\ Listed' = W
            /\ \A r \in W : (P - 1) * PerPage <= Rank(W, a.tp, r) /\ Rank(W, a.tp, r) < P * PerPage
                             => r.id \in screen'.rows
            /\ \A i \in screen'.rows :
                 \E r \in W : /\ r.id = i
                              /\ (P - 1) * PerPage <= Rank(W, a.tp, r)
                              /\ Rank(W, a.tp, r) < P * PerPage
<1> DEFINE a == common_report_part(q)
           W == Where(table, a, db, now)
<1>1. Numbered(table)
  BY DEF InOrderSaved
<1>2. /\ screen'.a = a /\ UNCHANGED <<table, nextId, now>>
      /\ \A r, b : InFilter(r, b, db') = InFilter(r, b, db)
      /\ screen'.rows = Ids(get_limit(By(W, "id", "id", a.tp), q.page))
  BY <1>1, PageShown
<1>3. Numbered(W)
  BY <1>1, ListedNumbered
<1>4. Listed' = W
  <2>1. Listed' = Where(table, a, db', now)
    BY <1>2 DEF Listed
  <2>2. Where(table, a, db', now) = {r \in table : InPeriod(r, a, now) /\ InFilter(r, a, db')}
    BY RowByRow
  <2>3. W = {r \in table : InPeriod(r, a, now) /\ InFilter(r, a, db)}
    BY RowByRow
  <2> QED
    BY <1>2, <2>1, <2>2, <2>3
<1>5. q.page \in Int
  BY Arguments
<1> HIDE DEF W, a
<1>6. /\ \A r \in W :
           /\ (PageNo(q.page) - 1) * PerPage <= Rank(W, a.tp, r)
           /\ Rank(W, a.tp, r) < PageNo(q.page) * PerPage
           => r.id \in Ids(get_limit(By(W, "id", "id", a.tp), q.page))
      /\ \A i \in Ids(get_limit(By(W, "id", "id", a.tp), q.page)) :
           \E r \in W : /\ r.id = i
                        /\ (PageNo(q.page) - 1) * PerPage <= Rank(W, a.tp, r)
                        /\ Rank(W, a.tp, r) < PageNo(q.page) * PerPage
  BY <1>3, <1>5, OnPage
<1> QED
  BY <1>2, <1>3, <1>4, <1>6 DEF W, a

-----------------------------------------------------------------------------
(* Everything there is to know of the table and of a walk, and that it stays *)
(* so.                                                                     *)

\* The rows of the table are in the order they were saved.
RowsInv == InOrderSaved(table)

\* Every step keeps them so.
LEMMA RowsInvNext == IInv /\ RowsInv /\ [Next]_vars => RowsInv'
<1> SUFFICES ASSUME IInv, RowsInv, [Next]_vars PROVE RowsInv'
  OBVIOUS
<1>1. CASE UNCHANGED <<table, nextId, now>>
  BY <1>1 DEF RowsInv, InOrderSaved, Numbered
<1>2. CASE Around
  <2>1. Survive([prd |-> 1])
    BY <1>2, AroundSurvive DEF RowsInv
  <2> QED
    BY <2>1 DEF Survive, RowsInv
<1> QED
  BY <1>1, <1>2, StepsOfWalk

\* What a page of the walk has is of the table.
LEMMA RowsAreSaved ==
  ASSUME NEW q \in Query, NEW filters, NEW start, NEW before,
         ReadRows(q, filters, start, before), screen'.kind = "walk",
         IInv, RowsInv, common_report_part(q).sort = 1
  PROVE  screen'.rows \subseteq 1..(nextId - 1)
<1>1. \A i \in screen'.rows : \E r \in Where(table, common_report_part(q), db, now) : r.id = i
  BY PageOfWalk DEF RowsInv
<1>2. \A r \in Where(table, common_report_part(q), db, now) : r \in table
  BY RowByRow
<1>3. \A r \in table : r.id \in 1..(nextId - 1)
  BY TypeParts
<1> QED
  BY <1>1, <1>2, <1>3

\* Rows of the past keep their ids: a new one has a higher one.
LEMMA AroundKeepsIds ==
  ASSUME IInv, RowsInv, Around
  PROVE  \A i \in 1..(nextId - 1) : i \in 1..(nextId' - 1)
<1>1. Survive([prd |-> 1])
  BY AroundSurvive DEF RowsInv
<1>2. nextId \in Nat /\ nextId' \in Nat /\ nextId <= nextId'
  <2>1. nextId \in Nat
    BY TypeParts, ReportsAssumption DEF ReportsAssumption
  <2> QED
    BY <1>1, <2>1 DEF Survive
<1>3. \A m, n \in Nat : m <= n => \A i \in 1..(m - 1) : i \in 1..(n - 1)
  OBVIOUS
<1> QED
  BY <1>2, <1>3

\* Every step keeps a walk in its shape.
LEMMA WalkInvNext == IInv /\ RowsInv /\ WalkInv /\ [Next]_vars => WalkInv'
<1> SUFFICES ASSUME IInv, RowsInv, WalkInv, [Next]_vars, screen'.kind = "walk"
             PROVE  WalkInv'
  BY DEF WalkInv
<1>0. Numbered(table)
  BY DEF RowsInv, InOrderSaved
<1>1. CASE Around /\ UNCHANGED screen
  <2>1. \A i \in 1..(nextId - 1) : i \in 1..(nextId' - 1)
    BY <1>1, AroundKeepsIds
  <2> QED
    BY <1>1, <2>1 DEF WalkInv, OfWalk, Filters
<1>2. ASSUME NEW q \in PageQueries, List(q) PROVE WalkInv'
  <2> DEFINE start == IF q.page <= 1
                        THEN {r.id : r \in Where(table, common_report_part(q), db, now)} ELSE {}
  <2>1. q \in Query
    BY ReportsAssumption DEF ReportsAssumption
  <2>2. ReadRows(q, Filters(q), start, {})
    BY <1>2 DEF List
  <2>3. start \subseteq 1..(nextId - 1)
    <3>1. \A r \in Where(table, common_report_part(q), db, now) : r \in table
      BY RowByRow
    <3>2. \A r \in table : r.id \in 1..(nextId - 1)
      BY TypeParts
    <3> QED
      BY <3>1, <3>2
  <2> HIDE DEF start
  <2>4. /\ screen' = [kind |-> "walk", q |-> q, a |-> common_report_part(q), filters |-> Filters(q),
                      start |-> start, before |-> {}, rows |-> screen'.rows, links |-> 0]
        /\ nextId' = nextId
    BY <1>0, <2>1, <2>2, PageShown
  <2>5. common_report_part(q).sort = 1 => screen'.rows \subseteq 1..(nextId - 1)
    BY <2>1, <2>2, RowsAreSaved
  <2>6. screen'.q = q /\ screen'.a = common_report_part(q) /\ screen'.filters = Filters(q)
        /\ screen'.start = start /\ screen'.before = {} /\ screen' = OfWalk(screen')
    BY <2>4 DEF OfWalk
  <2>7. \A k \in 1..3 : Filters(q)[k] \in {Filters(q)[k], {}}
    OBVIOUS
  <2>8. Filters(screen.q)' = Filters(screen'.q)
    BY DEF Filters
  <2> QED
    BY <2>1, <2>3, <2>4, <2>5, <2>6, <2>7, <2>8 DEF WalkInv, OfWalk
<1>3. CASE ReadCount
  <2>1. PICK ans \in get_full_text_info_count(table, screen.a, db, now) :
          screen' = IF ans.err \/ ans.rows = <<>> \/ ans.rows = <<0>> THEN Blank
                    ELSE [screen EXCEPT !.links = show_row2(ans.rows[1])]
    BY <1>3 DEF ReadCount
  <2>2. screen' = [screen EXCEPT !.links = show_row2(ans.rows[1])]
    BY <2>1 DEF Blank
  <2>3. screen.kind = "walk" /\ nextId' = nextId
    BY <1>3 DEF ReadCount
  <2>4. screen = OfWalk(screen)
    BY <2>3 DEF WalkInv
  <2>5. /\ screen'.q = screen.q /\ screen'.a = screen.a /\ screen'.filters = screen.filters
        /\ screen'.start = screen.start /\ screen'.before = screen.before
        /\ screen'.rows = screen.rows /\ screen' = OfWalk(screen')
    BY <2>2, <2>4 DEF OfWalk
  <2>6. Filters(screen.q)' = Filters(screen.q)
    BY <2>5 DEF Filters
  <2> QED
    BY <2>3, <2>5, <2>6 DEF WalkInv, OfWalk
<1>4. CASE FollowLink
  <2> DEFINE l == Link(screen.q, AtPage + 1)
  <2>1. screen.kind = "walk" /\ ReadRows(l, screen.filters, screen.start, screen.before \cup screen.rows)
    BY <1>4 DEF FollowLink
  <2>2. screen.q \in Query /\ screen.a = common_report_part(screen.q)
    BY <2>1 DEF WalkInv
  <2>3. AtPage + 1 \in Int
    <3>1. screen.q.page \in Int /\ AtPage = PageNo(screen.q.page)
      BY <2>2, Arguments DEF AtPage, PageNo
    <3>2. PageNo(screen.q.page) \in Nat \ {0}
      BY <3>1, PageNumbers
    <3> QED
      BY <3>1, <3>2
  <2>4. /\ l \in Query /\ SameBut(screen.q, l)
        /\ \A k \in 1..3 : Filters(l)[k] \in {Filters(screen.q)[k], {}}
    <3>1. l \in Query /\ SameBut(screen.q, l)
      BY <2>2, <2>3, LinkLeads
    <3> QED
      BY <3>1 DEF SameBut, Filters
  <2> HIDE DEF l
  <2>5. common_report_part(l).sort = screen.a.sort
    BY <2>2, <2>4, SameButPages
  <2>6. /\ screen' = [kind |-> "walk", q |-> l, a |-> common_report_part(l),
                      filters |-> screen.filters, start |-> screen.start,
                      before |-> screen.before \cup screen.rows, rows |-> screen'.rows, links |-> 0]
        /\ nextId' = nextId
    BY <1>0, <2>1, <2>4, PageShown
  <2>7. common_report_part(l).sort = 1 => screen'.rows \subseteq 1..(nextId - 1)
    BY <2>1, <2>4, RowsAreSaved
  <2>8. /\ screen'.q = l /\ screen'.a = common_report_part(l) /\ screen'.filters = screen.filters
        /\ screen'.start = screen.start /\ screen'.before = screen.before \cup screen.rows
        /\ screen' = OfWalk(screen')
    BY <2>6 DEF OfWalk
  <2>9. Filters(screen.q)' = Filters(l)
    BY <2>8 DEF Filters
  <2>10. \A k \in 1..3 : Filters(l)[k] \in {screen.filters[k], {}}
    BY <2>1, <2>4 DEF WalkInv
  <2>11. /\ screen.start \subseteq 1..(nextId - 1)
         /\ screen.a.sort = 1 => screen.rows \cup screen.before \subseteq 1..(nextId - 1)
    BY <2>1 DEF WalkInv
  <2> QED
    BY <2>4, <2>5, <2>6, <2>7, <2>8, <2>9, <2>10, <2>11 DEF WalkInv, OfWalk
<1> QED
  BY <1>1, <1>2, <1>3, <1>4, StepsOfWalk

\* A quotient rounded up exceeds what its product does not reach.
LEMMA CeilAbove ==
  ASSUME NEW c \in Nat, NEW p \in Nat, NEW d \in Nat \ {0}, p * d < c
  PROVE  CeilDiv(c, d) > p
<1> DEFINE f == (-c) \div d
<1>1. f \in Int
  OBVIOUS
<1>2. f * d <= -c
  OBVIOUS
<1> HIDE DEF f
<1>3. ASSUME -p <= f PROVE FALSE
  <2>1. PICK k \in Nat : f = k - p
    <3>1. f + p \in Nat /\ f = (f + p) - p
      BY <1>1, <1>3
    <3> QED
      BY <3>1
  <2>2. f * d = k * d - p * d /\ k * d \in Nat /\ p * d \in Nat
    BY <2>1
  <2> QED
    BY <1>2, <2>2
<1>4. -f > p
  BY <1>1, <1>3
<1> QED
  BY <1>4 DEF f, CeilDiv

\* What a link of the walk asks for.
LEMMA LinkOfWalk ==
  ASSUME IInv, RowsInv, WalkInv, FollowLink, screen'.kind = "walk", screen'.a.sort = 1
  PROVE  LET P  == PageNo(screen.q.page)
             P2 == PageNo(screen'.q.page)
         IN /\ screen.kind = "walk" /\ screen.a.sort = 1 /\ screen'.a.tp = screen.a.tp
            /\ Seen' = screen'.rows \cup Seen /\ screen'.start = screen.start
            /\ screen'.before = Seen /\ screen'.filters = screen.filters /\ screen'.links = 0
            /\ UNCHANGED <<table, now>>
            /\ Numbered(Listed) /\ Numbered(Listed') /\ Listed \subseteq Listed'
            /\ \A r : /\ InPeriod(r, screen'.a, now) = InPeriod(r, screen.a, now)
                      /\ InFilter(r, screen.a, db) => InFilter(r, screen'.a, db')
            /\ P \in Nat /\ P2 \in {P, P + 1}
            /\ screen.filters = Filters(screen'.q) =>
                 Filters(screen.q) = screen.filters /\ P2 = P + 1 /\ Listed' = Listed
            /\ \A r \in Listed' :
                 /\ (P2 - 1) * PerPage <= Rank(Listed', screen.a.tp, r)
                 /\ Rank(Listed', screen.a.tp, r) < P2 * PerPage
                 => r.id \in screen'.rows
            /\ \A i \in screen'.rows :
                 \E r \in Listed' : /\ r.id = i
                                    /\ (P2 - 1) * PerPage <= Rank(Listed', screen.a.tp, r)
                                    /\ Rank(Listed', screen.a.tp, r) < P2 * PerPage
<1> DEFINE q == screen.q
           l == Link(q, AtPage + 1)
           a == common_report_part(q)
           b == common_report_part(l)
           P == PageNo(q.page)
           W == Where(table, a, db, now)
           W2 == Where(table, b, db, now)
<1>1. screen.kind = "walk" /\ ReadRows(l, screen.filters, screen.start, screen.before \cup screen.rows)
  BY DEF FollowLink
<1>2. q \in Query /\ screen.a = a /\ q.page \in Int
  BY <1>1, Arguments DEF WalkInv
<1>3. AtPage = P /\ P \in Nat \ {0} /\ P + 1 \in Int
  <2>1. AtPage = P
    BY DEF AtPage, PageNo
  <2>2. P \in Nat \ {0}
    BY <1>2, PageNumbers
  <2> QED
    BY <2>1, <2>2
<1>4. Numbered(table)
  BY DEF RowsInv, InOrderSaved
<1> HIDE DEF q, P
<1>5. /\ l \in Query /\ SameBut(q, l)
      /\ l.page = P + 1 \/ (q.page # 0 /\ l.page = q.page)
      /\ \/ Filters(l) = Filters(q) /\ l.page = P + 1
         \/ \E k \in 1..3 : Filters(q)[k] # {} /\ Filters(l)[k] = {}
  BY <1>2, <1>3, LinkLeads
<1> HIDE DEF l
<1>6. /\ \A r, n : InPeriod(r, b, n) = InPeriod(r, a, n)
      /\ \A r : InFilter(r, a, db) => InFilter(r, b, db)
      /\ Filters(l) = Filters(q) => \A r : InFilter(r, a, db) = InFilter(r, b, db)
      /\ b.sort = a.sort /\ b.tp = a.tp
  BY <1>2, <1>5, SameButPages
<1> HIDE DEF a, b
<1>7. /\ screen' = [kind |-> "walk", q |-> l, a |-> b,
                    filters |-> screen.filters, start |-> screen.start,
                    before |-> screen.before \cup screen.rows, rows |-> screen'.rows, links |-> 0]
      /\ UNCHANGED <<table, nextId, now>>
      /\ \A r, x : InFilter(r, x, db') = InFilter(r, x, db)
  BY <1>1, <1>4, <1>5, PageShown DEF b
<1>8. /\ screen'.q = l /\ screen'.a = b /\ screen'.filters = screen.filters
      /\ screen'.start = screen.start /\ screen'.before = Seen /\ screen'.links = 0
      /\ Seen' = screen'.rows \cup Seen
  BY <1>7 DEF Seen
<1>9. b.sort = 1
  BY <1>8
<1>10. /\ Numbered(W2) /\ Listed' = W2
       /\ \A r \in W2 : /\ (PageNo(l.page) - 1) * PerPage <= Rank(W2, b.tp, r)
                        /\ Rank(W2, b.tp, r) < PageNo(l.page) * PerPage
                        => r.id \in screen'.rows
       /\ \A i \in screen'.rows :
            \E r \in W2 : /\ r.id = i
                          /\ (PageNo(l.page) - 1) * PerPage <= Rank(W2, b.tp, r)
                          /\ Rank(W2, b.tp, r) < PageNo(l.page) * PerPage
  BY <1>1, <1>5, <1>9, PageOfWalk DEF b, RowsInv
<1>11. /\ W = {r \in table : InPeriod(r, a, now) /\ InFilter(r, a, db)}
       /\ W2 = {r \in table : InPeriod(r, b, now) /\ InFilter(r, b, db)}
  BY RowByRow
<1>12. Listed = W /\ Numbered(W)
  BY <1>2, <1>4, ListedNumbered DEF Listed
<1> HIDE DEF W, W2
<1>13. W \subseteq W2 /\ (Filters(l) = Filters(q) => W2 = W)
  BY <1>6, <1>11
<1>14. PageNo(l.page) \in {P, P + 1} /\ (l.page = P + 1 => PageNo(l.page) = P + 1)
  <2>1. l.page = P + 1 => PageNo(l.page) = P + 1
    <3>1. P + 1 \in Nat \ {0} /\ P + 1 \in Int
      BY <1>3
    <3> QED
      BY <3>1, PageNumbers
  <2>2. l.page = q.page => PageNo(l.page) = P
    BY DEF P
  <2> QED
    BY <1>5, <2>1, <2>2
<1>15. ASSUME screen.filters = Filters(l)
       PROVE  Filters(q) = screen.filters /\ PageNo(l.page) = P + 1 /\ W2 = W
  <2>1. \A k \in 1..3 : Filters(q)[k] \in {screen.filters[k], {}}
    BY <1>1 DEF WalkInv, q
  <2>2. ~ \E k \in 1..3 : Filters(q)[k] # {} /\ Filters(l)[k] = {}
    BY <1>15, <2>1
  <2>3. Filters(l) = Filters(q) /\ l.page = P + 1
    BY <1>5, <2>2
  <2> QED
    BY <1>13, <1>14, <1>15, <2>3
<1>16. \A r : InFilter(r, a, db) => InFilter(r, b, db')
  BY <1>6, <1>7
<1>17. /\ screen.kind = "walk" /\ screen.a.sort = 1 /\ screen'.a.tp = screen.a.tp
       /\ b.tp = screen.a.tp
  BY <1>1, <1>2, <1>6, <1>8, <1>9
<1> QED
  BY <1>2, <1>3, <1>6, <1>7, <1>8, <1>10, <1>12, <1>13, <1>14, <1>15, <1>16, <1>17 DEF q, P

\* The second query counts the rows the page is about and makes a link to each page.
LEMMA CountOfWalk ==
  ASSUME IInv, RowsInv, WalkInv, ReadCount, screen'.kind = "walk"
  PROVE  /\ screen.kind = "walk"
         /\ screen'.links = CeilDiv(Cardinality(Listed), PerPage)
         /\ screen'.q = screen.q /\ screen'.a = screen.a /\ screen'.filters = screen.filters
         /\ screen'.start = screen.start /\ screen'.before = screen.before
         /\ screen'.rows = screen.rows /\ Seen' = Seen
         /\ Listed' = Listed /\ Numbered(Listed) /\ UNCHANGED <<table, now>>
         /\ \A r, x : InFilter(r, x, db') = InFilter(r, x, db)
<1>1. PICK ans \in get_full_text_info_count(table, screen.a, db, now) :
        screen' = IF ans.err \/ ans.rows = <<>> \/ ans.rows = <<0>> THEN Blank
                  ELSE [screen EXCEPT !.links = show_row2(ans.rows[1])]
  BY DEF ReadCount
<1>2. screen' = [screen EXCEPT !.links = show_row2(ans.rows[1])] /\ ~ans.err /\ ans.rows # <<>>
  BY <1>1 DEF Blank
<1>3. ans.rows = <<Cardinality(Listed)>>
  BY <1>1, <1>2, WholeAnswer DEF get_full_text_info_count, Listed
<1>4. /\ screen.kind = "walk" /\ UNCHANGED <<table, now>> /\ db' = Reconnected(db, "read")
      /\ screen = OfWalk(screen)
  BY DEF ReadCount, WalkInv
<1>5. /\ screen'.links = show_row2(ans.rows[1])
      /\ screen'.q = screen.q /\ screen'.a = screen.a /\ screen'.filters = screen.filters
      /\ screen'.start = screen.start /\ screen'.before = screen.before
      /\ screen'.rows = screen.rows
  BY <1>2, <1>4 DEF OfWalk
<1>6. screen'.links = CeilDiv(Cardinality(Listed), PerPage)
  BY <1>3, <1>5 DEF show_row2
<1>7. \A r, x : InFilter(r, x, db') = InFilter(r, x, db)
  BY <1>4, SameFilter, TypeParts
<1>8. Numbered(Listed)
  BY ListedNumbered DEF Listed, RowsInv, InOrderSaved
<1>9. Listed' = Listed
  <2>1. Listed' = Where(table, screen.a, db', now)
    BY <1>4, <1>5 DEF Listed
  <2>2. Listed = {r \in table : InPeriod(r, screen.a, now) /\ InFilter(r, screen.a, db)}
    BY RowByRow DEF Listed
  <2>3. Where(table, screen.a, db', now) =
          {r \in table : InPeriod(r, screen.a, now) /\ InFilter(r, screen.a, db')}
    BY RowByRow
  <2> QED
    BY <1>7, <2>1, <2>2, <2>3
<1> QED
  BY <1>4, <1>5, <1>6, <1>7, <1>8, <1>9 DEF Seen

\* The first page of a walk.
LEMMA ListOfWalk ==
  ASSUME IInv, RowsInv, NEW q \in PageQueries, List(q), screen'.kind = "walk", screen'.a.sort = 1
  PROVE  LET P == PageNo(screen'.q.page)
         IN /\ screen'.before = {} /\ Seen' = screen'.rows /\ screen'.links = 0
            /\ screen'.filters = Filters(screen'.q)
            /\ P \in Nat \ {0}
            /\ \A i \in screen'.start : P = 1 /\ \E r \in Listed' : r.id = i
            /\ UNCHANGED <<table, now>>
            /\ Numbered(Listed')
            /\ Listed' = {r \in table : InPeriod(r, screen'.a, now') /\ InFilter(r, screen'.a, db')}
            /\ \A r \in Listed' :
                 /\ (P - 1) * PerPage <= Rank(Listed', screen'.a.tp, r)
                 /\ Rank(Listed', screen'.a.tp, r) < P * PerPage
                 => r.id \in screen'.rows
            /\ \A i \in screen'.rows :
                 \E r \in Listed' : /\ r.id = i
                                    /\ (P - 1) * PerPage <= Rank(Listed', screen'.a.tp, r)
                                    /\ Rank(Listed', screen'.a.tp, r) < P * PerPage
<1> DEFINE a == common_report_part(q)
           W == Where(table, a, db, now)
           start == IF q.page <= 1 THEN {r.id : r \in W} ELSE {}
<1>1. q \in Query
  BY ReportsAssumption DEF ReportsAssumption
<1>2. ReadRows(q, Filters(q), start, {})
  BY DEF List
<1>3. Numbered(table)
  BY DEF RowsInv, InOrderSaved
<1>4. q.page \in Int
  BY <1>1, Arguments
<1>5. PageNo(q.page) \in Nat \ {0} /\ (q.page <= 1 => PageNo(q.page) = 1)
  BY <1>4, PageNumbers
<1>6. \A i \in start : PageNo(q.page) = 1 /\ \E r \in W : r.id = i
  BY <1>5
<1> HIDE DEF start
<1>7. /\ screen' = [kind |-> "walk", q |-> q, a |-> a, filters |-> Filters(q),
                    start |-> start, before |-> {}, rows |-> screen'.rows, links |-> 0]
      /\ UNCHANGED <<table, nextId, now>>
  BY <1>1, <1>2, <1>3, PageShown
<1> HIDE DEF a, W
<1>8. /\ screen'.q = q /\ screen'.a = a /\ screen'.filters = Filters(q)
      /\ screen'.start = start /\ screen'.before = {} /\ screen'.links = 0
      /\ Seen' = screen'.rows
  BY <1>7 DEF Seen
<1>9. a.sort = 1
  BY <1>8
<1>10. /\ Numbered(W) /\ Listed' = W
       /\ \A r \in W : /\ (PageNo(q.page) - 1) * PerPage <= Rank(W, a.tp, r)
                       /\ Rank(W, a.tp, r) < PageNo(q.page) * PerPage
                       => r.id \in screen'.rows
       /\ \A i \in screen'.rows :
            \E r \in W : /\ r.id = i
                         /\ (PageNo(q.page) - 1) * PerPage <= Rank(W, a.tp, r)
                         /\ Rank(W, a.tp, r) < PageNo(q.page) * PerPage
  BY <1>1, <1>2, <1>9, PageOfWalk DEF a, W, RowsInv
<1>11. Listed' = {r \in table : InPeriod(r, screen'.a, now') /\ InFilter(r, screen'.a, db')}
  <2>1. Listed' = Where(table', screen'.a, db', now')
    BY DEF Listed
  <2> QED
    BY <1>7, <2>1, RowByRow
<1> QED
  BY <1>5, <1>6, <1>7, <1>8, <1>10, <1>11

\* What is around a walk leaves of the rows it is about.
LEMMA AroundOfWalk ==
  ASSUME IInv, RowsInv, WalkInv, Around, UNCHANGED screen, screen.kind = "walk"
  PROVE  /\ Numbered(Listed) /\ Numbered(Listed')
         /\ \A r \in table' : r.id < nextId => r \in table
         /\ Listed = {r \in table : InPeriod(r, screen.a, now) /\ InFilter(r, screen.a, db)}
         /\ Listed' = {r \in table' : InPeriod(r, screen.a, now') /\ InFilter(r, screen.a, db')}
         /\ \A r : InFilter(r, screen.a, db') = InFilter(r, screen.a, db)
         /\ \A r \in table' \cap table : InPeriod(r, screen.a, now') =>
              /\ InPeriod(r, screen.a, now)
              /\ \A s \in table : InPeriod(s, screen.a, now) /\ r.id < s.id =>
                   s \in table' /\ InPeriod(s, screen.a, now')
         /\ \A i \in screen.start : i < nextId
         /\ screen.a.sort = 1 => \A i \in Seen : i < nextId
<1>1. /\ screen.q \in Query /\ screen.a = common_report_part(screen.q)
      /\ screen.start \subseteq 1..(nextId - 1)
      /\ screen.a.sort = 1 => Seen \subseteq 1..(nextId - 1)
  BY DEF WalkInv, Seen
<1>2. screen.a.prd \in Int
  BY <1>1, Arguments
<1>3. Survive(screen.a)
  BY <1>2, AroundSurvive DEF RowsInv
<1>4. Numbered(table) /\ Numbered(table')
  BY <1>3 DEF Survive, RowsInv, InOrderSaved
<1>5. Listed' = Where(table', screen.a, db', now')
  BY DEF Listed
<1>6. Numbered(Listed) /\ Numbered(Listed')
  BY <1>4, <1>5, ListedNumbered DEF Listed
<1>7. /\ Listed = {r \in table : InPeriod(r, screen.a, now) /\ InFilter(r, screen.a, db)}
      /\ Listed' = {r \in table' : InPeriod(r, screen.a, now') /\ InFilter(r, screen.a, db')}
  BY <1>5, RowByRow DEF Listed
<1>8. nextId \in Nat
  BY TypeParts, ReportsAssumption DEF ReportsAssumption
<1>9. \A i \in 1..(nextId - 1) : i < nextId
  BY <1>8
<1> QED
  BY <1>1, <1>3, <1>6, <1>7, <1>9 DEF Survive

-----------------------------------------------------------------------------
(* Newest first.                                                           *)

\* Where a row is that a walk has yet to come to.
LEMMA DescAround ==
  ASSUME IInv, RowsInv, WalkInv, DescInv, Around, UNCHANGED screen
  PROVE  DescInv'
<1> SUFFICES ASSUME Walking(1, 0),
                    NEW r \in table', r.id \in screen.start, InPeriod(r, screen.a, now')
             PROVE  /\ InFilter(r, screen.a, db')
                    /\ r.id \notin Seen =>
                         /\ Rank(Listed', 0, r) >= PageNo(screen.q.page) * PerPage
                         /\ ~(screen.links # 0 /\ PageNo(screen.q.page) >= screen.links)
  BY DEF DescInv, Walking, Seen
<1>1. screen.kind = "walk" /\ screen.a.sort = 1 /\ screen.a.tp = 0
  BY DEF Walking
<1>2. r \in table /\ InPeriod(r, screen.a, now)
  BY <1>1, AroundOfWalk
<1>3. /\ InFilter(r, screen.a, db)
      /\ r.id \notin Seen => /\ Rank(Listed, 0, r) >= PageNo(screen.q.page) * PerPage
                             /\ ~(screen.links # 0 /\ PageNo(screen.q.page) >= screen.links)
  BY <1>2 DEF DescInv
<1>4. InFilter(r, screen.a, db')
  BY <1>1, <1>3, AroundOfWalk
<1>5. r \in Listed \cap Listed'
  BY <1>1, <1>2, <1>3, <1>4, AroundOfWalk
<1>6. \A s \in Listed : r.id < s.id => s \in Listed'
  BY <1>1, <1>2, AroundOfWalk
<1>7. /\ Rank(Listed, 0, r) <= Rank(Listed', 0, r)
      /\ Rank(Listed, 0, r) \in Nat /\ Rank(Listed', 0, r) \in Nat
  BY <1>1, <1>5, <1>6, AroundOfWalk, RankGrows
<1>8. PageNo(screen.q.page) * PerPage \in Nat
  <2>1. screen.q.page \in Int
    BY <1>1, Arguments DEF WalkInv
  <2>2. PageNo(screen.q.page) \in Nat
    BY <2>1, PageNumbers
  <2> QED
    BY <2>2, Product, QueriesAssumption DEF QueriesAssumption
<1> QED
  BY <1>3, <1>4, <1>7, <1>8

\* The page a walk is at.
LEMMA PageOfQuery ==
  ASSUME WalkInv, screen.kind = "walk"
  PROVE  PageNo(screen.q.page) \in Nat \ {0} /\ PageNo(screen.q.page) * PerPage \in Nat
<1>1. screen.q.page \in Int
  BY Arguments DEF WalkInv
<1>2. PageNo(screen.q.page) \in Nat \ {0}
  BY <1>1, PageNumbers
<1> QED
  BY <1>2, Product, QueriesAssumption DEF QueriesAssumption

\* Newest first: the walk begins,
LEMMA DescList ==
  ASSUME IInv, RowsInv, NEW q \in PageQueries, List(q), screen'.kind = "walk"
  PROVE  DescInv'
<1> SUFFICES ASSUME screen'.a.sort = 1, screen'.a.tp = 0,
                    NEW r \in table', r.id \in screen'.start
             PROVE  /\ InFilter(r, screen'.a, db')
                    /\ r.id \notin Seen' => Rank(Listed', 0, r) >= PageNo(screen'.q.page) * PerPage
                    /\ screen'.links = 0
  BY DEF DescInv, Walking
<1> DEFINE P == PageNo(screen'.q.page)
<1>1. /\ P = 1 /\ screen'.links = 0 /\ table' = table /\ Seen' = screen'.rows
      /\ Numbered(Listed')
      /\ Listed' = {x \in table : InPeriod(x, screen'.a, now') /\ InFilter(x, screen'.a, db')}
  BY ListOfWalk
<1>2. PICK x \in Listed' : x.id = r.id
  BY ListOfWalk
<1>3. x = r
  BY <1>1, <1>2 DEF RowsInv, InOrderSaved, Numbered
<1>4. r \in Listed' /\ InFilter(r, screen'.a, db')
  BY <1>1, <1>2, <1>3
<1>5. (P - 1) * PerPage <= Rank(Listed', 0, r) /\ Rank(Listed', 0, r) < P * PerPage => r.id \in screen'.rows
  BY <1>4, ListOfWalk
<1>6. Rank(Listed', 0, r) \in Nat
  BY <1>1, <1>4, RankType
<1>7. (P - 1) * PerPage = 0 /\ P * PerPage \in Nat
  BY <1>1, QueriesAssumption DEF QueriesAssumption
<1> QED
  BY <1>1, <1>4, <1>5, <1>6, <1>7

\* its links are made,
LEMMA DescCount ==
  ASSUME IInv, RowsInv, WalkInv, DescInv, ReadCount, screen'.kind = "walk"
  PROVE  DescInv'
<1> DEFINE P == PageNo(screen.q.page)
<1>1. /\ screen.kind = "walk" /\ screen'.links = CeilDiv(Cardinality(Listed), PerPage)
      /\ screen'.q = screen.q /\ screen'.a = screen.a /\ screen'.start = screen.start
      /\ Seen' = Seen /\ Listed' = Listed /\ Numbered(Listed) /\ UNCHANGED <<table, now>>
      /\ \A r, x : InFilter(r, x, db') = InFilter(r, x, db)
  BY CountOfWalk
<1>2. P \in Nat /\ P * PerPage \in Nat /\ PerPage \in Nat \ {0}
  BY <1>1, PageOfQuery, QueriesAssumption DEF QueriesAssumption
<1> SUFFICES ASSUME screen.a.sort = 1, screen.a.tp = 0,
                    NEW r \in table, r.id \in screen.start, InPeriod(r, screen.a, now)
             PROVE  /\ InFilter(r, screen.a, db)
                    /\ r.id \notin Seen =>
                         /\ Rank(Listed, 0, r) >= P * PerPage
                         /\ ~(screen'.links # 0 /\ P >= screen'.links)
  BY <1>1 DEF DescInv, Walking
<1>3. /\ InFilter(r, screen.a, db)
      /\ r.id \notin Seen => Rank(Listed, 0, r) >= P * PerPage
  BY <1>1 DEF DescInv, Walking
<1>4. r \in Listed
  <2>1. Listed = {x \in table : InPeriod(x, screen.a, now) /\ InFilter(x, screen.a, db)}
    BY RowByRow DEF Listed
  <2> QED
    BY <1>3, <2>1
<1>5. Rank(Listed, 0, r) \in Nat /\ Rank(Listed, 0, r) < Cardinality(Listed) /\ Cardinality(Listed) \in Nat
  BY <1>1, <1>4, RankType
<1> HIDE DEF P
<1>6. ASSUME r.id \notin Seen PROVE ~(P >= screen'.links)
  <2>1. P * PerPage < Cardinality(Listed)
    BY <1>2, <1>3, <1>5, <1>6
  <2>2. CeilDiv(Cardinality(Listed), PerPage) > P
    BY <1>2, <1>5, <2>1, CeilAbove
  <2>3. CeilDiv(Cardinality(Listed), PerPage) \in Int
    BY <1>2, <1>5 DEF CeilDiv
  <2> QED
    BY <1>1, <1>2, <2>2, <2>3
<1> QED
  BY <1>3, <1>6

\* and a link is followed.
LEMMA DescLink ==
  ASSUME IInv, RowsInv, WalkInv, DescInv, FollowLink, screen'.kind = "walk"
  PROVE  DescInv'
<1> SUFFICES ASSUME screen'.a.sort = 1, screen'.a.tp = 0,
                    NEW r \in table', r.id \in screen'.start, InPeriod(r, screen'.a, now')
             PROVE  /\ InFilter(r, screen'.a, db')
                    /\ r.id \notin Seen' => Rank(Listed', 0, r) >= PageNo(screen'.q.page) * PerPage
                    /\ screen'.links = 0
  BY DEF DescInv, Walking
<1> DEFINE P  == PageNo(screen.q.page)
           P2 == PageNo(screen'.q.page)
<1>1. /\ screen.kind = "walk" /\ screen.a.sort = 1 /\ screen.a.tp = 0
      /\ Seen' = screen'.rows \cup Seen /\ screen'.start = screen.start
      /\ screen'.links = 0 /\ table' = table /\ now' = now
      /\ Numbered(Listed) /\ Numbered(Listed') /\ Listed \subseteq Listed'
      /\ P \in Nat /\ P2 \in {P, P + 1}
  BY LinkOfWalk
<1>2. InPeriod(r, screen.a, now) /\ r \in table
  BY <1>1, LinkOfWalk
<1>3. /\ InFilter(r, screen.a, db)
      /\ r.id \notin Seen => Rank(Listed, 0, r) >= P * PerPage
  BY <1>1, <1>2 DEF DescInv, Walking
<1>4. InFilter(r, screen'.a, db')
  BY <1>3, LinkOfWalk
<1>5. r \in Listed
  <2>1. Listed = {x \in table : InPeriod(x, screen.a, now) /\ InFilter(x, screen.a, db)}
    BY RowByRow DEF Listed
  <2> QED
    BY <1>2, <1>3, <2>1
<1>6. /\ Rank(Listed, 0, r) <= Rank(Listed', 0, r)
      /\ Rank(Listed, 0, r) \in Nat /\ Rank(Listed', 0, r) \in Nat
  BY <1>1, <1>5, RankGrows
<1>7. (P2 - 1) * PerPage <= Rank(Listed', 0, r) /\ Rank(Listed', 0, r) < P2 * PerPage => r.id \in screen'.rows
  BY <1>1, <1>5, LinkOfWalk
<1>8. P * PerPage \in Nat /\ P2 * PerPage \in Nat
  BY <1>1, QueriesAssumption DEF QueriesAssumption
<1> HIDE DEF P, P2
<1>9. ASSUME r.id \notin Seen' PROVE Rank(Listed', 0, r) >= P2 * PerPage
  <2>1. Rank(Listed', 0, r) >= P * PerPage
    BY <1>1, <1>3, <1>6, <1>8, <1>9
  <2>2. CASE P2 = P
    BY <2>1, <2>2
  <2>3. CASE P2 = P + 1
    <3>1. P2 - 1 = P
      BY <1>1, <2>3
    <3> QED
      BY <1>1, <1>6, <1>7, <1>8, <1>9, <2>1, <3>1
  <2> QED
    BY <1>1, <2>2, <2>3
<1> QED
  BY <1>1, <1>4, <1>9 DEF P2

\* Every step keeps what is said of a walk newest first.
LEMMA DescInvNext == IInv /\ RowsInv /\ WalkInv /\ DescInv /\ [Next]_vars => DescInv'
<1> SUFFICES ASSUME IInv, RowsInv, WalkInv, DescInv, [Next]_vars, screen'.kind = "walk"
             PROVE  DescInv'
  BY DEF DescInv, Walking
<1> QED
  BY StepsOfWalk, DescAround, DescList, DescCount, DescLink

-----------------------------------------------------------------------------
(* Oldest first.                                                           *)

\* Oldest first: rows come and go,
LEMMA AscAround ==
  ASSUME IInv, RowsInv, WalkInv, AscInv, Around, UNCHANGED screen
  PROVE  AscInv'
<1> DEFINE P == PageNo(screen.q.page)
<1> SUFFICES ASSUME Walking(1, 1), screen.filters = Filters(screen.q)
             PROVE  /\ screen.rows \cap screen.before = {}
                    /\ \A r \in Listed' : r.id \in Seen => Rank(Listed', 1, r) < P * PerPage
  BY DEF AscInv, Walking, Seen, Filters
<1>1. screen.kind = "walk" /\ screen.a.sort = 1 /\ screen.a.tp = 1
  BY DEF Walking
<1>2. /\ screen.rows \cap screen.before = {}
      /\ \A r \in Listed : r.id \in Seen => Rank(Listed, 1, r) < P * PerPage
  BY DEF AscInv
<1>3. P * PerPage \in Nat
  BY <1>1, PageOfQuery
<1> HIDE DEF P
<1>4. nextId \in Nat
  BY TypeParts, ReportsAssumption DEF ReportsAssumption
<1>5. ASSUME NEW s \in Listed', s.id < nextId PROVE s \in Listed
  BY <1>1, <1>5, AroundOfWalk
<1>6. ASSUME NEW r \in Listed', r.id \in Seen PROVE Rank(Listed', 1, r) < P * PerPage
  <2>1. Numbered(Listed) /\ Numbered(Listed') /\ r.id < nextId
    BY <1>1, <1>6, AroundOfWalk
  <2>2. r \in Listed
    BY <1>5, <2>1
  <2>3. ASSUME NEW s \in Listed', s.id < r.id PROVE s \in Listed
    <3>1. s.id \in Nat /\ r.id \in Nat
      BY <2>1 DEF Numbered
    <3>2. s.id < nextId
      BY <1>4, <2>1, <2>3, <3>1
    <3> QED
      BY <1>5, <3>2
  <2>4. /\ Rank(Listed', 1, r) <= Rank(Listed, 1, r)
        /\ Rank(Listed, 1, r) \in Nat /\ Rank(Listed', 1, r) \in Nat
    BY <2>1, <2>2, <2>3, RankGrows
  <2> QED
    BY <1>2, <1>3, <1>6, <2>2, <2>4
<1> QED
  BY <1>2, <1>6

\* the walk begins,
LEMMA AscList ==
  ASSUME IInv, RowsInv, NEW q \in PageQueries, List(q), screen'.kind = "walk"
  PROVE  AscInv'
<1> DEFINE P == PageNo(screen'.q.page)
<1> SUFFICES ASSUME screen'.a.sort = 1, screen'.a.tp = 1
             PROVE  /\ screen'.rows \cap screen'.before = {}
                    /\ \A r \in Listed' : r.id \in Seen' => Rank(Listed', 1, r) < P * PerPage
  BY DEF AscInv, Walking
<1>1. screen'.before = {} /\ Seen' = screen'.rows /\ Numbered(Listed')
  BY ListOfWalk
<1>2. ASSUME NEW r \in Listed', r.id \in screen'.rows PROVE Rank(Listed', 1, r) < P * PerPage
  <2>1. PICK x \in Listed' : x.id = r.id /\ Rank(Listed', 1, x) < P * PerPage
    BY <1>2, ListOfWalk
  <2>2. x = r
    BY <1>1, <2>1 DEF Numbered
  <2> QED
    BY <2>1, <2>2
<1> QED
  BY <1>1, <1>2

\* its links are made,
LEMMA AscCount ==
  ASSUME IInv, RowsInv, WalkInv, AscInv, ReadCount, screen'.kind = "walk"
  PROVE  AscInv'
BY CountOfWalk DEF AscInv, Walking, Filters

\* and a link is followed.
LEMMA AscLink ==
  ASSUME IInv, RowsInv, WalkInv, AscInv, FollowLink, screen'.kind = "walk"
  PROVE  AscInv'
<1> DEFINE P  == PageNo(screen.q.page)
           P2 == PageNo(screen'.q.page)
<1> SUFFICES ASSUME screen'.a.sort = 1, screen'.a.tp = 1, screen'.filters = Filters(screen'.q)
             PROVE  /\ screen'.rows \cap screen'.before = {}
                    /\ \A r \in Listed' : r.id \in Seen' => Rank(Listed', 1, r) < P2 * PerPage
  BY DEF AscInv, Walking, Filters
<1>1. /\ screen.kind = "walk" /\ screen.a.sort = 1 /\ screen.a.tp = 1
      /\ Seen' = screen'.rows \cup Seen /\ screen'.before = Seen
      /\ screen'.filters = screen.filters
      /\ Numbered(Listed) /\ P \in Nat
  BY LinkOfWalk
<1>2. Filters(screen.q) = screen.filters /\ P2 = P + 1 /\ Listed' = Listed
  BY <1>1, LinkOfWalk
<1>3. \A i \in screen'.rows :
        \E r \in Listed : /\ r.id = i /\ (P2 - 1) * PerPage <= Rank(Listed, 1, r)
                          /\ Rank(Listed, 1, r) < P2 * PerPage
  BY <1>1, <1>2, LinkOfWalk
<1>4. \A r \in Listed : r.id \in Seen => Rank(Listed, 1, r) < P * PerPage
  BY <1>1, <1>2 DEF AscInv, Walking
<1>5. P * PerPage \in Nat /\ P2 * PerPage = P * PerPage + PerPage /\ PerPage \in Nat /\ P2 - 1 = P
  BY <1>1, <1>2, Product, QueriesAssumption DEF QueriesAssumption
<1>6. \A r \in Listed : Rank(Listed, 1, r) \in Nat
  BY <1>1, RankType
<1> HIDE DEF P, P2
<1>7. ASSUME NEW i \in screen'.rows, i \in Seen PROVE FALSE
  <2>1. PICK r \in Listed : r.id = i /\ P * PerPage <= Rank(Listed, 1, r)
    BY <1>3, <1>5
  <2>2. Rank(Listed, 1, r) < P * PerPage
    BY <1>4, <1>7, <2>1
  <2> QED
    BY <1>5, <1>6, <2>1, <2>2
<1>8. ASSUME NEW r \in Listed, r.id \in Seen' PROVE Rank(Listed, 1, r) < P2 * PerPage
  <2>1. CASE r.id \in Seen
    <3>1. Rank(Listed, 1, r) < P * PerPage
      BY <1>4, <2>1
    <3> QED
      BY <1>5, <1>6, <3>1
  <2>2. CASE r.id \in screen'.rows
    <3>1. PICK x \in Listed : x.id = r.id /\ Rank(Listed, 1, x) < P2 * PerPage
      BY <1>3, <2>2
    <3>2. x = r
      BY <1>1, <3>1 DEF Numbered
    <3> QED
      BY <3>1, <3>2
  <2> QED
    BY <1>1, <1>8, <2>1, <2>2
<1> QED
  BY <1>1, <1>2, <1>7, <1>8 DEF P2

\* Every step keeps what is said of a walk oldest first.
LEMMA AscInvNext == IInv /\ RowsInv /\ WalkInv /\ AscInv /\ [Next]_vars => AscInv'
<1> SUFFICES ASSUME IInv, RowsInv, WalkInv, AscInv, [Next]_vars, screen'.kind = "walk"
             PROVE  AscInv'
  BY DEF AscInv, Walking
<1> QED
  BY StepsOfWalk, AscAround, AscList, AscCount, AscLink

\* There is no walk at the start.
LEMMA WalkInit == Init => RowsInv /\ WalkInv /\ DescInv /\ AscInv
<1> SUFFICES ASSUME Init PROVE RowsInv /\ WalkInv /\ DescInv /\ AscInv
  OBVIOUS
<1>1. table = {} /\ screen.kind = "blank"
  BY DEF Init, Blank
<1>2. RowsInv
  BY <1>1, FS_EmptySet DEF RowsInv, InOrderSaved, Numbered
<1> QED
  BY <1>1, <1>2 DEF WalkInv, DescInv, AscInv, Walking

\* The invariant of the listing: the order rows are saved in, what a walk is, and
\* how far it has come (reports.c, show_row2; sql_adapter.c, get_limit).
THEOREM WalkInvariant == Spec => [](RowsInv /\ WalkInv /\ DescInv /\ AscInv)
<1> DEFINE I == RowsInv /\ WalkInv /\ DescInv /\ AscInv
<1>1. Init => I
  BY WalkInit
<1>2. IInv /\ I /\ [Next]_vars => I'
  BY RowsInvNext, WalkInvNext, DescInvNext, AscInvNext
<1> QED
  BY <1>1, <1>2, Invariant, PTL DEF Spec

\* Newest first, who follows the links to the last page has seen every row that
\* was there when he began and that a page could still show, however many are
\* saved and deleted meanwhile (Reports.tla, DescNeverSkips).
THEOREM NeverSkips == Spec => []DescNeverSkips
<1>1. DescInv => DescNeverSkips
  <2> SUFFICES ASSUME DescInv, Walking(1, 0), screen.links # 0, AtPage >= screen.links,
                      NEW i \in screen.start, i \in {r.id : r \in get_date_period(table, screen.a, now)}
               PROVE  i \in screen.before \cup screen.rows
    BY DEF DescNeverSkips
  <2>1. PICK r \in get_date_period(table, screen.a, now) : r.id = i
    OBVIOUS
  <2>2. r \in table /\ InPeriod(r, screen.a, now)
    BY PeriodByRow
  <2>3. AtPage = PageNo(screen.q.page)
    BY DEF AtPage, PageNo
  <2>4. PageNo(screen.q.page) >= screen.links
    BY <2>3
  <2>5. r.id \notin Seen => ~(screen.links # 0 /\ PageNo(screen.q.page) >= screen.links)
    BY <2>1, <2>2, Zenon DEF DescInv
  <2> QED
    BY <2>1, <2>4, <2>5 DEF Seen
<1> QED
  BY <1>1, WalkInvariant, PTL

\* Oldest first, he sees no row twice while the links keep his filters, whatever is
\* saved and deleted meanwhile (Reports.tla, AscNeverRepeats).
THEOREM NeverRepeats == Spec => []AscNeverRepeats
<1>1. AscInv => AscNeverRepeats
  BY DEF AscInv, AscNeverRepeats
<1> QED
  BY <1>1, WalkInvariant, PTL

-----------------------------------------------------------------------------
(* Largest figures.                                                        *)

\* A finite set of numbers has a largest one, and a smallest.
LEMMA Extremes ==
  ASSUME NEW S \in SUBSET Int, IsFiniteSet(S), S # {}
  PROVE  /\ Max(S) \in S /\ \A x \in S : x <= Max(S)
         /\ Min(S) \in S /\ \A x \in S : Min(S) <= x
<1>1. ASSUME NEW f, Injective(S, f)
      PROVE  \E r \in S : \A s \in S : f[s] <= f[r]
  <2>1. Cardinality(S) \in Nat /\ Cardinality(S) # 0
    BY FS_CardinalityType, FS_EmptySet, Zenon
  <2> DEFINE n == Cardinality(S)
  <2> HIDE DEF n
  <2>2. n \in 1..n
    <3>1. n \in Nat /\ n # 0
      BY <2>1 DEF n
    <3>2. \A m \in Nat : m # 0 => m \in 1..m
      OBVIOUS
    <3> QED
      BY <3>1, <3>2
  <2>3. PICK r \in S : Cardinality(Below(S, f, r)) = n - 1
    <3>1. PICK k \in 1..Cardinality(S) : k = n
      BY <2>2 DEF n
    <3>2. \E r \in S : Cardinality(Below(S, f, r)) = k - 1
      BY <1>1, EveryPlace
    <3> QED
      BY <3>1, <3>2
  <2>4. ASSUME NEW s \in S, f[r] < f[s] PROVE FALSE
    <3>1. Cardinality(Below(S, f, r)) < Cardinality(Below(S, f, s))
      BY <1>1, <2>4, BelowGrows
    <3>2. Cardinality(Below(S, f, s)) \in 0..(n - 1)
      BY <1>1, BelowGrows DEF n
    <3> QED
      BY <2>1, <2>3, <3>1, <3>2 DEF n
  <2>5. \A s \in S : f[s] \in Int
    BY <1>1 DEF Injective
  <2> QED
    BY <2>4, <2>5
<1>2. \E r \in S : \A s \in S : s <= r
  <2> DEFINE f == [x \in S |-> x]
  <2>1. Injective(S, f)
    BY DEF Injective
  <2>2. \E r \in S : \A s \in S : f[s] <= f[r]
    BY <1>1, <2>1
  <2> QED
    BY <2>2
<1>3. \E r \in S : \A s \in S : r <= s
  <2> DEFINE f == [x \in S |-> -x]
  <2>1. Injective(S, f)
    BY DEF Injective
  <2>2. \E r \in S : \A s \in S : f[s] <= f[r]
    BY <1>1, <2>1
  <2> QED
    BY <2>2
<1>4. Max(S) \in S /\ \A x \in S : x <= Max(S)
  BY <1>2 DEF Max
<1>5. Min(S) \in S /\ \A x \in S : Min(S) <= x
  BY <1>3 DEF Min
<1> QED
  BY <1>4, <1>5

\* The figures of finitely many rows are finitely many.
LEMMA ImageFinite ==
  ASSUME NEW S, IsFiniteSet(S), NEW f, DOMAIN f = S, f = [x \in S |-> f[x]]
  PROVE  IsFiniteSet({f[x] : x \in S})
<1> DEFINE T == {f[x] : x \in S}
<1>1. f \in Surjection(S, T)
  BY DEF Surjection
<1> QED
  BY <1>1, FS_Surjection

\* The largest of a column is that of a row, and no row is above it.
LEMMA MostOf ==
  ASSUME NEW S, IsFiniteSet(S), S # {}, NEW col, \A r \in S : r[col] \in Int
  PROVE  /\ \E r \in S : r[col] = Most(S, col)
         /\ \A r \in S : r[col] <= Most(S, col)
<1> DEFINE f == [r \in S |-> r[col]]
           T == {r[col] : r \in S}
<1>1. T = {f[x] : x \in S}
  OBVIOUS
<1>2. IsFiniteSet(T)
  <2>1. DOMAIN f = S /\ f = [x \in S |-> f[x]]
    OBVIOUS
  <2> HIDE DEF f
  <2> QED
    BY <1>1, <2>1, ImageFinite
<1>3. T \in SUBSET Int /\ T # {}
  OBVIOUS
<1>4. Max(T) \in T /\ \A x \in T : x <= Max(T)
  BY <1>2, <1>3, Extremes
<1> QED
  BY <1>4 DEF Most

\* What the rows of maxima are: of all, and of each host, the first of equals.
LEMMA MaximaOf ==
  ASSUME NEW W, IsFiniteSet(W), NEW col, \A r \in W : r[col] \in Int
  PROVE  \A r \in W : r \in Maxima(W, col) <=> \A s \in W : s[col] <= r[col]
<1> SUFFICES ASSUME NEW r \in W
             PROVE  r[col] = Most(W, col) <=> \A s \in W : s[col] <= r[col]
  BY DEF Maxima
<1>1. PICK x \in W : x[col] = Most(W, col)
  BY MostOf
<1>2. \A s \in W : s[col] <= Most(W, col)
  BY MostOf
<1> QED
  BY <1>1, <1>2

\* HostMaxima is one row of each host, and none of that host is above it.
LEMMA HostMaximaOf ==
  ASSUME NEW W, Numbered(W), NEW col, \A r \in W : r[col] \in Int
  PROVE  /\ HostMaxima(W, col) \subseteq W
         /\ \A r \in HostMaxima(W, col), s \in W : r.host = s.host => s[col] <= r[col]
         /\ \A r, s \in HostMaxima(W, col) : r.host = s.host => r = s
         /\ \A s \in W : \E r \in HostMaxima(W, col) : r.host = s.host
<1> DEFINE Of(h) == {s \in W : s.host = h}
           tops == {r \in W : r[col] = Most(Of(r.host), col)}
           Upto(r) == {s \in tops : s.host = r.host /\ r.id >= s.id}
           M == {r \in tops : Cardinality(Upto(r)) <= 1}
<1>1. HostMaxima(W, col) = M
  BY DEF HostMaxima
<1>2. IsFiniteSet(W) /\ (\A r \in W : r.id \in Nat) /\ \A r, s \in W : r.id = s.id => r = s
  BY DEF Numbered
<1>3. ASSUME NEW h PROVE IsFiniteSet(Of(h))
  <2>1. Of(h) \in SUBSET W
    OBVIOUS
  <2> QED
    BY <1>2, <2>1, FS_Subset
<1>4. \A r \in tops, s \in W : r.host = s.host => s[col] <= r[col]
  <2> SUFFICES ASSUME NEW r \in tops, NEW s \in W, r.host = s.host PROVE s[col] <= r[col]
    OBVIOUS
  <2>1. s \in Of(r.host) /\ r[col] = Most(Of(r.host), col)
    OBVIOUS
  <2>2. \A x \in Of(r.host) : x[col] \in Int
    OBVIOUS
  <2> HIDE DEF Of
  <2>3. \A x \in Of(r.host) : x[col] <= Most(Of(r.host), col)
    BY <1>3, <2>1, <2>2, MostOf
  <2> QED
    BY <2>1, <2>3
<1>5. \A s \in W : \E r \in tops : r.host = s.host
  <2> SUFFICES ASSUME NEW s \in W PROVE \E r \in tops : r.host = s.host
    OBVIOUS
  <2>1. s \in Of(s.host) /\ \A x \in Of(s.host) : x[col] \in Int
    OBVIOUS
  <2>2. \E r \in Of(s.host) : r[col] = Most(Of(s.host), col)
    <3> HIDE DEF Of
    <3> QED
      BY <1>3, <2>1, MostOf
  <2> QED
    BY <2>2
<1>6. tops \in SUBSET W
  OBVIOUS
<1> HIDE DEF tops
<1>7. ASSUME NEW r \in tops PROVE IsFiniteSet(Upto(r)) /\ r \in Upto(r)
  <2>1. Upto(r) \in SUBSET W
    BY <1>6
  <2>2. IsFiniteSet(Upto(r))
    BY <1>2, <2>1, FS_Subset
  <2>3. r.id >= r.id
    BY <1>2, <1>6
  <2> QED
    BY <2>2, <2>3
<1>8. ASSUME NEW r \in M, NEW s \in tops, r.host = s.host PROVE r.id <= s.id
  <2>1. CASE s \in Upto(r)
    <3>1. IsFiniteSet(Upto(r)) /\ r \in Upto(r) /\ Cardinality(Upto(r)) <= 1
      BY <1>7
    <3>2. {r, s} \in SUBSET Upto(r)
      BY <2>1, <3>1
    <3>3. r = s
      <4> SUFFICES ASSUME r # s PROVE FALSE
        OBVIOUS
      <4>1. IsFiniteSet({r}) /\ Cardinality({r}) = 1
        BY FS_Singleton
      <4>2. Cardinality({r} \cup {s}) = 2
        <5>1. s \notin {r}
          OBVIOUS
        <5>2. Cardinality({r} \cup {s}) = Cardinality({r}) + 1
          BY <4>1, <5>1, FS_AddElement, Zenon
        <5> QED
          BY <4>1, <5>2
      <4>3. {r} \cup {s} = {r, s}
        OBVIOUS
      <4>4. Cardinality({r, s}) <= Cardinality(Upto(r))
        BY <3>1, <3>2, FS_Subset, Zenon
      <4>5. Cardinality(Upto(r)) \in Nat
        BY <3>1, FS_CardinalityType
      <4> DEFINE n == Cardinality(Upto(r))
      <4>6. n \in Nat /\ n <= 1 /\ Cardinality({r, s}) <= n
        BY <3>1, <4>4, <4>5
      <4> HIDE DEF n, M, Upto
      <4>7. Cardinality({r, s}) = 2
        BY <4>2, <4>3, Zenon
      <4> QED
        BY <4>6, <4>7
    <3> QED
      BY <1>2, <1>6, <3>3
  <2>2. CASE s \notin Upto(r)
    <3>1. r.id \in Nat /\ s.id \in Nat
      BY <1>2, <1>6
    <3> QED
      BY <1>8, <2>2, <3>1
  <2> QED
    BY <2>1, <2>2
<1>9. ASSUME NEW r \in M, NEW s \in M, r.host = s.host PROVE r = s
  <2>1. r.id <= s.id /\ s.id <= r.id
    BY <1>8, <1>9
  <2> QED
    BY <1>2, <1>6, <2>1
<1>10. ASSUME NEW s \in W PROVE \E r \in M : r.host = s.host
  <2> DEFINE C == {r \in tops : r.host = s.host}
             f == [r \in C |-> r.id]
             I == {r.id : r \in C}
  <2>1. C # {} /\ C \in SUBSET W
    BY <1>5, <1>6
  <2>2. IsFiniteSet(C)
    BY <1>2, <2>1, FS_Subset
  <2>3. IsFiniteSet(I)
    <3>1. DOMAIN f = C /\ f = [x \in C |-> f[x]] /\ I = {f[x] : x \in C}
      OBVIOUS
    <3> HIDE DEF f, I, C
    <3> QED
      BY <2>2, <3>1, ImageFinite
  <2>4. I \in SUBSET Int /\ I # {}
    BY <1>2, <2>1
  <2>5. Min(I) \in I /\ \A x \in I : Min(I) <= x
    BY <2>3, <2>4, Extremes
  <2>6. PICK r \in C : \A x \in C : r.id <= x.id
    BY <2>5
  <2>7. Upto(r) = {r}
    <3>1. \A x \in Upto(r) : x \in C /\ r.id >= x.id
      OBVIOUS
    <3>2. \A x \in Upto(r) : x.id = r.id
      BY <1>2, <1>6, <2>6, <3>1
    <3> QED
      BY <1>2, <1>6, <1>7, <3>2
  <2>8. Cardinality(Upto(r)) <= 1
    <3>1. Cardinality({r}) = 1
      BY FS_Singleton
    <3> QED
      BY <2>7, <3>1
  <2> QED
    BY <2>8
<1> QED
  BY <1>1, <1>4, <1>6, <1>9, <1>10

\* Every figure of a row is a number, and only the time may be negative; the name
\* of its host has a place in the order of texts.
Figured(r) ==
  /\ r.cpu \in Nat /\ r.memory \in Nat /\ r.exc_time \in Int
  /\ r.bytes_read \in Nat /\ r.bytes_write \in Nat
  /\ r.host \in Range(Collation)

FiguresInv == \A r \in table : Figured(r)

\* A share of the processors is a number (math_get_pcpu).
LEMMA PcpuType ==
  ASSUME NEW used \in Nat, NEW total \in Int, NEW time \in Int
  PROVE  math_get_pcpu(Top, Cpus, used, total, time) \in Nat
<1>1. Cpus \in Nat \ {0}
  BY ReportsAssumption DEF ReportsAssumption
<1>2. MaxPCPU(Top, Cpus) \in Nat
  BY <1>1 DEF MaxPCPU
<1>3. total > 0 => (used * 100) \div total \in Nat
  OBVIOUS
<1> DEFINE n == IF Top = 2 THEN Cpus ELSE 1
<1>4. n \in Nat \ {0}
  BY <1>1
<1> HIDE DEF n
<1>5. ASSUME time > 0 PROVE (used * Second) \div (time * n) \in Nat
  <2>1. time * n \in Int /\ time * n > 0
    BY <1>4, <1>5
  <2>2. used * Second \in Nat
    BY DEF Second
  <2> DEFINE x == used * Second
             d == time * n
  <2> HIDE DEF x, d
  <2>3. x \in Nat /\ d \in Int /\ d > 0
    BY <2>1, <2>2 DEF x, d
  <2>4. x \div d \in Nat
    BY <2>3
  <2> QED
    BY <2>4 DEF x, d
<1> DEFINE own == CASE Top = 0 /\ total > 0 -> (used * 100) \div total
                    [] Top # 0 /\ time > 0  -> (used * Second) \div (time * n)
                    [] OTHER -> 0
<1>6. own \in Nat
  <2>1. CASE Top = 0 /\ total > 0
    BY <1>3, <2>1
  <2>2. CASE Top # 0 /\ time > 0
    BY <1>5, <2>2
  <2>3. CASE ~(Top = 0 /\ total > 0) /\ ~(Top # 0 /\ time > 0)
    BY <2>3
  <2> QED
    BY <2>1, <2>2, <2>3
<1>7. math_get_pcpu(Top, Cpus, used, total, time) = Min({own, MaxPCPU(Top, Cpus)})
  BY DEF math_get_pcpu, n
<1> HIDE DEF own
<1>8. Min({own, MaxPCPU(Top, Cpus)}) \in Nat
  <2> DEFINE m == MaxPCPU(Top, Cpus)
  <2>1. m \in Nat
    BY <1>2
  <2> HIDE DEF m
  <2>2. Min({own, m}) = IF own <= m THEN own ELSE m
    BY <1>6, <2>1, MaxOfTwo
  <2> QED
    BY <1>6, <2>1, <2>2 DEF m
<1> QED
  BY <1>7, <1>8

\* So are the differences of two readings.
LEMMA CountersType ==
  ASSUME NEW s \in Request, s.begin.ticks <= s.end.ticks
  PROVE  LET c == save_counters(Top, Cpus, s.begin, s.end, s.max_mem)
         IN /\ c.cpu \in Nat /\ c.memory \in Nat /\ c.time \in Int
            /\ c.io["read"] \in Nat /\ c.io["write"] \in Nat
<1> DEFINE c == save_counters(Top, Cpus, s.begin, s.end, s.max_mem)
           rate(m) == math_get_mem(m.total_mem, m.resident).rate
<1>1. /\ s.begin \in Reading /\ s.end \in Reading /\ s.max_mem.rate \in Nat
  BY DEF Request
<1>2. \A m \in Reading : /\ m.at \in Nat /\ m.ticks \in Nat /\ m.total \in Nat
                         /\ m.total_mem \in Nat /\ m.resident \in Nat
  BY DEF Reading
<1>3. c.time = ReqTime(s.begin.at, s.end.at) /\ c.time \in Int
  <2>1. c.time = ReqTime(s.begin.at, s.end.at)
    BY DEF save_counters
  <2>2. \A t \in Nat : Stamp(t) \in Int
    BY DEF Stamp, Second
  <2>3. s.begin.at \in Nat /\ s.end.at \in Nat
    BY <1>1, <1>2
  <2> QED
    BY <2>1, <2>2, <2>3 DEF ReqTime
<1>4. c.cpu \in Nat
  <2>1. c.cpu = math_get_pcpu(Top, Cpus, s.end.ticks - s.begin.ticks, s.end.total - s.begin.total,
                              ReqTime(s.begin.at, s.end.at))
    BY DEF save_counters
  <2>2. s.end.ticks - s.begin.ticks \in Nat /\ s.end.total - s.begin.total \in Int
    BY <1>1, <1>2
  <2> QED
    BY <1>3, <2>1, <2>2, PcpuType
<1>5. \A m \in Reading : rate(m) \in Nat
  <2> SUFFICES ASSUME NEW m \in Reading PROVE rate(m) \in Nat
    OBVIOUS
  <2>1. m.total_mem \in Nat /\ m.resident \in Nat
    BY <1>2
  <2>2. m.total_mem # 0 => (100 * m.resident) \div m.total_mem \in Nat
    BY <2>1
  <2> QED
    BY <2>2 DEF math_get_mem
<1>6. c.memory \in Nat
  <2> DEFINE S == {rate(s.begin), rate(s.end), s.max_mem.rate}
  <2>1. c.memory = Max({m.rate : m \in {math_get_mem(m.total_mem, m.resident) : m \in {s.begin, s.end}}
                                         \cup {s.max_mem}})
    BY DEF save_counters
  <2>2. {m.rate : m \in {math_get_mem(m.total_mem, m.resident) : m \in {s.begin, s.end}}
                          \cup {s.max_mem}} = S
    OBVIOUS
  <2>3. S \in SUBSET Nat
    BY <1>1, <1>5
  <2>4. IsFiniteSet(S)
    <3> DEFINE x == rate(s.begin)  y == rate(s.end)  z == s.max_mem.rate
    <3>1. S = ({x} \cup {y}) \cup {z}
      OBVIOUS
    <3> HIDE DEF x, y, z, S
    <3>2. IsFiniteSet({x})
      BY FS_Singleton
    <3>3. IsFiniteSet({x} \cup {y})
      BY <3>2, FS_AddElement
    <3>4. IsFiniteSet(({x} \cup {y}) \cup {z})
      BY <3>3, FS_AddElement
    <3> QED
      BY <3>1, <3>4
  <2>5. S # {}
    OBVIOUS
  <2> HIDE DEF S
  <2>6. Max(S) \in S
    BY <2>3, <2>4, <2>5, Extremes
  <2> QED
    BY <2>1, <2>2, <2>3, <2>6
<1>7. c.io["read"] \in Nat /\ c.io["write"] \in Nat
  <2>1. c.io = math_get_io(s.begin.io, s.end.io)
    BY DEF save_counters
  <2>2. \A m \in Reading : m.io["read"] \in Nat /\ m.io["write"] \in Nat
    BY DEF Reading
  <2>3. \A x, y \in Nat : y > x => (y - x) \div 1024 \in Nat
    OBVIOUS
  <2> QED
    BY <1>1, <2>1, <2>2, <2>3 DEF math_get_io
<1> QED
  BY <1>3, <1>4, <1>6, <1>7

\* And so are the figures a request leaves.
LEMMA RowType ==
  ASSUME NEW s \in Request, s.begin.ticks <= s.end.ticks, s.host \in Range(Collation), NEW limit, NEW external, NEW hostnm
  PROVE  LET c == save_counters(Top, Cpus, s.begin, s.end, s.max_mem)
             w == save_to_db(c, limit, 100, MaxPCPU(Top, Cpus), external, s.host)
             r == Row(s, c, w, hostnm)
         IN Figured(r)
<1> DEFINE c == save_counters(Top, Cpus, s.begin, s.end, s.max_mem)
           w == save_to_db(c, limit, 100, MaxPCPU(Top, Cpus), external, s.host)
           r == Row(s, c, w, hostnm)
<1>1. /\ c.cpu \in Nat /\ c.memory \in Nat /\ c.time \in Int
      /\ c.io["read"] \in Nat /\ c.io["write"] \in Nat
  BY CountersType
<1> HIDE DEF c
<1>2. w.time = c.time /\ w.cpu \in {0, c.cpu}
  BY DEF save_to_db
<1> HIDE DEF w
<1>3. /\ r.cpu = w.cpu /\ r.memory = c.memory /\ r.exc_time = w.time
      /\ r.bytes_read = c.io["read"] /\ r.bytes_write = c.io["write"] /\ r.host = s.host
  BY DEF Row
<1> QED
  BY <1>1, <1>2, <1>3 DEF c, w, Figured

\* The table is empty at the start.
LEMMA FiguresInit == Init => FiguresInv
BY DEF Init, FiguresInv

\* Every step keeps the figures numbers.
LEMMA FiguresNext == IInv /\ FiguresInv /\ [Next]_vars => FiguresInv'
<1> SUFFICES ASSUME IInv, FiguresInv, [Next]_vars PROVE FiguresInv'
  OBVIOUS
<1>1. ASSUME NEW r \in table', r \notin table PROVE Figured(r)
  <2>1. ASSUME NEW s \in Samples, Serve(s) PROVE Figured(r)
    <3> DEFINE c == save_counters(Top, Cpus, s.begin, s.end, s.max_mem)
               w == save_to_db(c, Limit, 100, MaxPCPU(Top, Cpus), External, s.host)
    <3>1. Insert(Row(s, c, w, InsertedHostName(db))) \/ UNCHANGED <<table, nextId>>
      BY <2>1 DEF Serve
    <3>2. s \in Request /\ s.begin.ticks <= s.end.ticks /\ s.host \in Range(Collation)
      BY ReportsAssumption DEF ReportsAssumption
    <3> DEFINE x == Row(s, c, w, InsertedHostName(db))
    <3>3. Figured(x)
      BY <3>2, RowType
    <3> HIDE DEF c, w, x
    <3>4. r = x
      BY <1>1, <3>1 DEF Insert, x
    <3> QED
      BY <3>3, <3>4
  <2>2. ASSUME NEW s \in Others, OtherServer(s) PROVE Figured(r)
    <3> DEFINE c == save_counters(Top, Cpus, s.begin, s.end, s.max_mem)
               w == save_to_db(c, NoLimit, 100, MaxPCPU(Top, Cpus), {}, s.host)
    <3>1. Insert(Row(s, c, w, "other"))
      BY <2>2 DEF OtherServer
    <3>2. s \in Request /\ s.begin.ticks <= s.end.ticks /\ s.host \in Range(Collation)
      BY ReportsAssumption DEF ReportsAssumption
    <3> DEFINE x == Row(s, c, w, "other")
    <3>3. Figured(x)
      BY <3>2, RowType
    <3> HIDE DEF c, w, x
    <3>4. r = x
      BY <1>1, <3>1 DEF Insert, x
    <3> QED
      BY <3>3, <3>4
  <2>3. ASSUME Alarm \/ Tick \/ ServerFails \/ ServerReturns \/ UNCHANGED vars PROVE FALSE
    BY <1>1, <2>3 DEF Alarm, Tick, ServerFails, ServerReturns, vars
  <2> QED
    BY <1>1, <2>1, <2>2, <2>3, StepsOfWalk DEF Around
<1> QED
  BY <1>1 DEF FiguresInv

\* Sorted by id, each row is there once and no other.
LEMMA SortedOnce ==
  ASSUME NEW S, Numbered(S), NEW tp
  PROVE  LET b == By(S, "id", "id", tp)
         IN /\ Range(b) = S
            /\ \A k, j \in DOMAIN b : b[k] = b[j] => k = j
<1> DEFINE b == By(S, "id", "id", tp)
           n == Cardinality(S)
<1>1. b \in [1..n -> S] /\ \A k \in 1..n : Rank(S, tp, b[k]) = k - 1
  BY ByIds DEF Rank
<1>2. \A r \in S : /\ Rank(S, tp, r) \in Nat /\ Rank(S, tp, r) < n /\ n \in Nat
                   /\ b[Rank(S, tp, r) + 1] = r
  BY RankType, RankIsPlace
<1> HIDE DEF b, n
<1>3. \A r \in S : \E k \in DOMAIN b : b[k] = r
  <2> SUFFICES ASSUME NEW r \in S PROVE \E k \in DOMAIN b : b[k] = r
    OBVIOUS
  <2>1. Rank(S, tp, r) + 1 \in 1..n
    BY <1>2
  <2> QED
    BY <1>1, <1>2, <2>1
<1>4. Range(b) = S
  BY <1>1, <1>3 DEF Range
<1>5. ASSUME NEW k \in 1..n, NEW j \in 1..n, b[k] = b[j] PROVE k = j
  <2>1. k - 1 = j - 1 /\ k \in Int /\ j \in Int
    BY <1>1, <1>5
  <2> QED
    BY <2>1
<1> QED
  BY <1>1, <1>4, <1>5 DEF b

\* One of a kind is at one place.
LEMMA OnePlace ==
  ASSUME NEW b, \A k, j \in DOMAIN b : b[k] = b[j] => k = j,
         NEW h, NEW x \in Range(b), x.host = h, \A y \in Range(b) : y.host = h => y = x
  PROVE  Cardinality({k \in DOMAIN b : b[k].host = h}) = 1
<1>1. PICK k \in DOMAIN b : b[k] = x
  BY DEF Range
<1>2. {j \in DOMAIN b : b[j].host = h} = {k}
  BY <1>1 DEF Range
<1> QED
  BY <1>2, FS_Singleton

\* The query of each page of maxima.
LEMMA PageOfMaxima ==
  ASSUME NEW q, NEW a
  PROVE  LET W == Where(table, a, db, now)
             col == MaximumOf(q.info)
         IN /\ q.info \in {1, 3, 4, 30, 31, 32} => col \in {"cpu", "memory", "exc_time"}
            /\ q.info \in {1, 3, 4} => Page(q, a) = Answers(By(HostMaxima(W, col), "id", "id", 1), db)
            /\ q.info \in {30, 31, 32} => Page(q, a) = Answers(By(Maxima(W, col), "id", "id", 0), db)
<1>1. ASSUME q.info = 1
      PROVE  /\ MaximumOf(q.info) = "cpu"
             /\ Page(q, a) = Answers(By(HostMaxima(Where(table, a, db, now), "cpu"), "id", "id", 1), db)
  BY <1>1 DEF Page, MaximumOf, show_max_no_graph_page, get_cpu_max_text_info
<1>2. ASSUME q.info = 3
      PROVE  /\ MaximumOf(q.info) = "memory"
             /\ Page(q, a) = Answers(By(HostMaxima(Where(table, a, db, now), "memory"), "id", "id", 1), db)
  BY <1>2 DEF Page, MaximumOf, show_max_mem_no_graph_page, get_mem_max_text_info
<1>3. ASSUME q.info = 4
      PROVE  /\ MaximumOf(q.info) = "exc_time"
             /\ Page(q, a) = Answers(By(HostMaxima(Where(table, a, db, now), "exc_time"), "id", "id", 1), db)
  BY <1>3 DEF Page, MaximumOf, show_max_time_no_graph_page, get_time_max_text_info
<1>4. ASSUME q.info = 30
      PROVE  /\ MaximumOf(q.info) = "cpu"
             /\ Page(q, a) = Answers(By(Maxima(Where(table, a, db, now), "cpu"), "id", "id", 0), db)
  BY <1>4 DEF Page, MaximumOf, show_max_no_graph_page_no_hard, get_cpu_max_text_info_no_hard
<1>5. ASSUME q.info = 31
      PROVE  /\ MaximumOf(q.info) = "memory"
             /\ Page(q, a) = Answers(By(Maxima(Where(table, a, db, now), "memory"), "id", "id", 0), db)
  BY <1>5 DEF Page, MaximumOf, show_max_mem_no_graph_page_no_hard, get_mem_max_text_info_no_hard
<1>6. ASSUME q.info = 32
      PROVE  /\ MaximumOf(q.info) = "exc_time"
             /\ Page(q, a) = Answers(By(Maxima(Where(table, a, db, now), "exc_time"), "id", "id", 0), db)
  BY <1>6 DEF Page, MaximumOf, show_max_time_no_graph_page_no_hard, get_time_max_text_info_no_hard
<1> QED
  BY <1>1, <1>2, <1>3, <1>4, <1>5, <1>6

\* What leaves a whole page on the screen, and none that was cut by an error.
LEMMA StepsToPage ==
  ASSUME [Next]_vars, NEW infos, Whole(infos)'
  PROVE  UNCHANGED vars \/ \E q \in PageQueries : Open(q)
<1>1. screen'.kind = "page" /\ ~screen'.err /\ screen'.rows # <<>>
  BY DEF Whole
<1>2. CASE screen.kind \in {"blank", "walk"} /\ Steps
  <2>1. ASSUME NEW s \in Samples, Serve(s) PROVE FALSE
    BY <1>1, <1>2, <2>1 DEF Serve
  <2>2. ASSUME NEW s \in Others, OtherServer(s) PROVE FALSE
    BY <1>1, <1>2, <2>2 DEF OtherServer
  <2>3. ASSUME Alarm \/ Tick \/ ServerFails \/ ServerReturns PROVE FALSE
    BY <1>1, <1>2, <2>3 DEF Alarm, Tick, ServerFails, ServerReturns
  <2>4. ASSUME NEW q, NEW filters, NEW start, NEW before, ReadRows(q, filters, start, before)
        PROVE  FALSE
    BY <1>1, <2>4 DEF ReadRows, Shown
  <2>5. ASSUME NEW q \in PageQueries, List(q) PROVE FALSE
    BY <2>4, <2>5 DEF List
  <2>6. ASSUME NEW q \in PageQueries, Look(q) PROVE FALSE
    BY <1>1, <2>6 DEF Look, Shown
  <2>7. ASSUME ReadCount PROVE FALSE
    <3>1. PICK ans : screen' = IF ans.err \/ ans.rows = <<>> \/ ans.rows = <<0>> THEN Blank
                               ELSE [screen EXCEPT !.links = show_row2(ans.rows[1])]
      BY <2>7 DEF ReadCount
    <3>2. screen'.kind = "blank" \/ screen'.kind = screen.kind
      BY <3>1 DEF Blank
    <3> QED
      BY <1>1, <1>2, <3>2
  <2>8. ASSUME FollowLink PROVE FALSE
    BY <2>4, <2>8 DEF FollowLink
  <2> QED
    BY <1>2, <2>1, <2>2, <2>3, <2>5, <2>6, <2>7, <2>8 DEF Steps
<1>3. CASE Close
  BY <1>1, <1>3 DEF Close, Blank
<1> QED
  BY <1>2, <1>3 DEF Next

\* A page that is opened shows the rows of the query, and the table stays as it was.
LEMMA OpenShows ==
  ASSUME IInv, NEW q \in PageQueries, Open(q)
  PROVE  LET a == common_report_part(q)
         IN /\ Where(table, screen.a, db, now)' = Where(table, a, db, now)
            /\ \E ans \in Page(q, a) :
                 /\ screen'.rows = ans.rows
                 /\ \A infos : Whole(infos)' => q.info \in infos /\ ~ans.err /\ ans.rows # <<>>
            /\ screen'.q = q
<1> DEFINE a == common_report_part(q)
           W == Where(table, a, db, now)
<1>1. PICK ans \in Page(q, a) : screen' = Shown(q, a, ans)
  BY DEF Open
<1>2. screen'.q = q /\ screen'.a = a /\ screen'.rows = ans.rows /\ screen'.err = ans.err
  BY <1>1 DEF Shown
<1>3. Where(table, screen.a, db, now)' = W
  <2>1. table' = table /\ now' = now /\ (db' = db \/ db' = Reconnected(db, "read"))
    BY DEF Open
  <2>2. \A r : InFilter(r, a, db') = InFilter(r, a, db)
    BY <2>1, SameFilter, TypeParts
  <2>3. /\ W = {r \in table : InPeriod(r, a, now) /\ InFilter(r, a, db)}
        /\ Where(table, a, db', now) = {r \in table : InPeriod(r, a, now) /\ InFilter(r, a, db')}
    BY RowByRow
  <2> QED
    BY <1>2, <2>1, <2>2, <2>3
<1>4. \A infos : Whole(infos)' => q.info \in infos /\ ~ans.err /\ ans.rows # <<>>
  BY <1>2 DEF Whole
<1> QED
  BY <1>2, <1>3, <1>4

\* A page of maxima just opened.
LEMMA MaximaShown ==
  ASSUME IInv, RowsInv, FiguresInv, NEW q \in PageQueries, Open(q)
  PROVE  MaximaPerHost'
<1> DEFINE a == common_report_part(q)
           W == Where(table, a, db, now)
           col == MaximumOf(q.info)
<1>1. PICK ans \in Page(q, a) :
        /\ screen'.rows = ans.rows
        /\ \A infos : Whole(infos)' => q.info \in infos /\ ~ans.err /\ ans.rows # <<>>
  BY OpenShows
<1>2. screen'.q = q /\ screen'.rows = ans.rows
  BY <1>1, OpenShows
<1>3. Where(table, screen.a, db, now)' = W
  BY OpenShows
<1>4. Numbered(W) /\ W \subseteq table
  BY ListedNumbered, RowByRow DEF RowsInv, InOrderSaved
<1> HIDE DEF W, a
<1>5. ASSUME q.info \in {1, 3, 4}, ~ans.err, ans.rows # <<>>
      PROVE  /\ Range(ans.rows) \subseteq W
             /\ \A h \in {r.host : r \in W} :
                  /\ Cardinality({k \in DOMAIN ans.rows : ans.rows[k].host = h}) = 1
                  /\ \A r \in Range(ans.rows), s \in W :
                       r.host = h /\ s.host = h => s[col] <= r[col]
  <2> DEFINE M == HostMaxima(W, col)
  <2>1. col \in {"cpu", "memory", "exc_time"}
    BY <1>5, PageOfMaxima
  <2>2. Page(q, a) = Answers(By(M, "id", "id", 1), db)
    BY <1>5, PageOfMaxima DEF W
  <2>3. \A r \in W : r[col] \in Int
    BY <1>4, <2>1 DEF FiguresInv, Figured
  <2> HIDE DEF col
  <2>4. /\ M \subseteq W
        /\ \A r \in M, s \in W : r.host = s.host => s[col] <= r[col]
        /\ \A r, s \in M : r.host = s.host => r = s
        /\ \A s \in W : \E r \in M : r.host = s.host
    BY <1>4, <2>3, HostMaximaOf
  <2> HIDE DEF M
  <2>5. Numbered(M)
    <3>1. M \in SUBSET W
      BY <2>4
    <3> QED
      BY <1>4, <3>1, FS_Subset DEF Numbered
  <2>6. ans.rows = By(M, "id", "id", 1)
    BY <1>5, <2>2, WholeAnswer
  <2>7. Range(ans.rows) = M /\ \A k, j \in DOMAIN ans.rows : ans.rows[k] = ans.rows[j] => k = j
    BY <2>5, <2>6, SortedOnce
  <2>8. ASSUME NEW h \in {r.host : r \in W}
        PROVE  Cardinality({k \in DOMAIN ans.rows : ans.rows[k].host = h}) = 1
    <3>1. PICK x \in M : x.host = h
      BY <2>4
    <3>2. \A y \in M : y.host = h => y = x
      BY <2>4, <3>1
    <3> QED
      BY <2>7, <3>1, <3>2, OnePlace
  <2> QED
    BY <2>4, <2>7, <2>8
<1>6. ASSUME q.info \in {30, 31, 32}, ~ans.err, ans.rows # <<>>
      PROVE  \A r \in W : r \in Range(ans.rows) <=> \A s \in W : s[col] <= r[col]
  <2> DEFINE M == Maxima(W, col)
  <2>1. col \in {"cpu", "memory", "exc_time"}
    BY <1>6, PageOfMaxima
  <2>2. Page(q, a) = Answers(By(M, "id", "id", 0), db)
    BY <1>6, PageOfMaxima DEF W
  <2>3. \A r \in W : r[col] \in Int
    BY <1>4, <2>1 DEF FiguresInv, Figured
  <2> HIDE DEF col
  <2>4. \A r \in W : r \in M <=> \A s \in W : s[col] <= r[col]
    BY <1>4, <2>3, MaximaOf DEF Numbered
  <2>5. Numbered(M)
    <3>1. M \in SUBSET W
      BY DEF Maxima
    <3> HIDE DEF M
    <3> QED
      BY <1>4, <3>1, FS_Subset DEF Numbered
  <2> HIDE DEF M
  <2>6. ans.rows = By(M, "id", "id", 0)
    BY <1>6, <2>2, WholeAnswer
  <2>7. Range(ans.rows) = M
    BY <2>5, <2>6, SortedOnce
  <2> QED
    BY <2>4, <2>7
<1>7. \A infos : Whole(infos)' => q.info \in infos /\ ~ans.err /\ ans.rows # <<>>
  BY <1>1
<1>8. MaximumOf(screen.q.info)' = col
  BY <1>2 DEF MaximumOf
<1> HIDE DEF col
<1> QED
  BY <1>2, <1>3, <1>5, <1>6, <1>7, <1>8 DEF MaximaPerHost

\* The pages of maxima have one row for each host, and it is the largest of that
\* host's; or all the rows that none is above (sql_adapter.c,
\* sql_adapter_get_cpu_max_text_info and the five like it).
THEOREM MaximaRight == Spec => []MaximaPerHost
<1>1. Init => MaximaPerHost
  BY DEF Init, Blank, MaximaPerHost, Whole
<1>2. IInv /\ RowsInv /\ FiguresInv /\ MaximaPerHost /\ [Next]_vars => MaximaPerHost'
  <2> SUFFICES ASSUME IInv, RowsInv, FiguresInv, MaximaPerHost, [Next]_vars PROVE MaximaPerHost'
    OBVIOUS
  <2>1. CASE UNCHANGED vars
    <3> DEFINE W == Where(table, screen.a, db, now)
               col == MaximumOf(screen.q.info)
               rows == screen.rows
    <3>1. screen' = screen /\ table' = table /\ db' = db /\ now' = now
      BY <2>1 DEF vars
    <3>2. \A infos : Whole(infos)' => Whole(infos)
      BY <3>1 DEF Whole
    <3>3. Where(table, screen.a, db, now)' = W
      BY <3>1
    <3>4. MaximumOf(screen.q.info)' = col
      BY <3>1
    <3>5. ASSUME Whole({1, 3, 4})
          PROVE  /\ Range(rows) \subseteq W
                 /\ \A h \in {r.host : r \in W} :
                      /\ Cardinality({k \in DOMAIN rows : rows[k].host = h}) = 1
                      /\ \A r \in Range(rows), s \in W :
                           r.host = h /\ s.host = h => s[col] <= r[col]
      BY <3>5 DEF MaximaPerHost
    <3>6. ASSUME Whole({30, 31, 32})
          PROVE  \A r \in W : r \in Range(rows) <=> \A s \in W : s[col] <= r[col]
      BY <3>6 DEF MaximaPerHost
    <3>7. screen'.rows = rows
      BY <3>1
    <3> HIDE DEF W, col, rows
    <3> QED
      BY <3>2, <3>3, <3>4, <3>5, <3>6, <3>7 DEF MaximaPerHost
  <2>2. ASSUME NEW q \in PageQueries, Open(q) PROVE MaximaPerHost'
    BY <2>2, MaximaShown
  <2>3. CASE ~ \E infos : Whole(infos)'
    BY <2>3 DEF MaximaPerHost
  <2> QED
    BY <2>1, <2>2, <2>3, StepsToPage
<1>3. IInv /\ FiguresInv /\ [Next]_vars => FiguresInv'
  BY FiguresNext
<1> QED
  BY <1>1, <1>2, <1>3, FiguresInit, Invariant, WalkInvariant, PTL DEF Spec

-----------------------------------------------------------------------------
(* Bar graphs: sums, columns, and a sort by an order.                      *)

\* Some number is the least of those in a set.
LEMMA LeastNumber ==
  ASSUME NEW S \in SUBSET Nat, S # {}
  PROVE  \E n \in S : \A m \in S : n <= m
<1>1. PICK x \in S : TRUE
  OBVIOUS
<1> DEFINE T == S \cap 0..x
<1>2. IsFiniteSet(T)
  <2>1. x \in Int /\ IsFiniteSet(0..x)
    BY <1>1, FS_Interval
  <2> QED
    BY <2>1, FS_Subset, T \in SUBSET (0..x)
<1>3. T \in SUBSET Int /\ T # {}
  BY <1>1
<1>4. Min(T) \in T /\ \A m \in T : Min(T) <= m
  BY <1>2, <1>3, Extremes
<1> QED
  BY <1>1, <1>4

\* Induction over the numbers in a set.
LEMMA NumberInduction ==
  ASSUME NEW P, 0 \in P, \A n \in Nat : n \in P => n + 1 \in P
  PROVE  Nat \subseteq P
<1> SUFFICES ASSUME Nat \ P # {} PROVE FALSE
  OBVIOUS
<1>1. PICK n \in Nat \ P : \A m \in Nat \ P : n <= m
  BY LeastNumber, Nat \ P \in SUBSET Nat
<1>2. n # 0 /\ n - 1 \in Nat /\ n - 1 \notin Nat \ P
  BY <1>1
<1> QED
  BY <1>1, <1>2

\* Induction over the subsets of a finite set.
LEMMA SubsetInduction ==
  ASSUME NEW S, IsFiniteSet(S), NEW P, {} \in P,
         \A s \in SUBSET S : s # {} /\ (\A x \in s : s \ {x} \in P) => s \in P
  PROVE  SUBSET S \subseteq P
<1> DEFINE Q == {n \in Nat : \A s \in SUBSET S : Cardinality(s) = n => s \in P}
<1>1. \A s \in SUBSET S : IsFiniteSet(s) /\ Cardinality(s) \in Nat
  BY FS_Subset, FS_CardinalityType
<1>2. 0 \in Q
  BY <1>1, FS_EmptySet
<1>3. ASSUME NEW n \in Nat, n \in Q PROVE n + 1 \in Q
  <2>1. ASSUME NEW s \in SUBSET S, Cardinality(s) = n + 1 PROVE s \in P
    <3>1. s # {}
      BY <2>1, FS_EmptySet
    <3>2. ASSUME NEW x \in s PROVE s \ {x} \in P
      <4>1. Cardinality(s \ {x}) = n
        BY <1>1, <2>1, FS_RemoveElement
      <4> QED
        BY <1>3, <4>1
    <3> QED
      BY <3>1, <3>2
  <2> QED
    BY <2>1
<1> HIDE DEF Q
<1>4. Nat \subseteq Q
  BY <1>2, <1>3, NumberInduction
<1> QED
  BY <1>1, <1>4 DEF Q

\* What a fold over sets is defined by: a value for each of them, from that of
\* the set without the element chosen.
FoldsBy(iter, S, base, g, c) ==
  iter = [s \in SUBSET S |-> IF s = {} THEN base ELSE g[<<c[s], iter[s \ {c[s]}]>>]]

\* There is such a function.
LEMMA FoldExists ==
  ASSUME NEW S, IsFiniteSet(S), NEW V, NEW base \in V, NEW g \in [S \X V -> V],
         NEW c, \A s \in SUBSET S : s # {} => c[s] \in s
  PROVE  \E iter \in [SUBSET S -> V] : FoldsBy(iter, S, base, g, c)
<1> DEFINE Part(n) == {s \in SUBSET S : Cardinality(s) <= n}
           Q == {n \in Nat : \E h \in [Part(n) -> V] : \A s \in Part(n) :
                   h[s] = IF s = {} THEN base ELSE g[<<c[s], h[s \ {c[s]}]>>]}
<1>1. \A s \in SUBSET S : IsFiniteSet(s) /\ Cardinality(s) \in Nat /\ (Cardinality(s) = 0 <=> s = {})
  BY FS_Subset, FS_CardinalityType, FS_EmptySet
<1>2. \A s \in SUBSET S : s # {} => s \ {c[s]} \in SUBSET S /\ Cardinality(s \ {c[s]}) = Cardinality(s) - 1
  BY <1>1, FS_RemoveElement
<1>3. 0 \in Q
  <2>1. Part(0) = {{}}
    BY <1>1, FS_EmptySet
  <2> DEFINE h == [s \in Part(0) |-> base]
  <2>2. h \in [Part(0) -> V]
    OBVIOUS
  <2>3. \A s \in Part(0) : s = {} /\ h[s] = base
    BY <2>1
  <2> QED
    BY <2>2, <2>3
<1>4. ASSUME NEW n \in Nat, n \in Q PROVE n + 1 \in Q
  <2>1. PICK h \in [Part(n) -> V] : \A s \in Part(n) :
                   h[s] = IF s = {} THEN base ELSE g[<<c[s], h[s \ {c[s]}]>>]
    BY <1>4
  <2> DEFINE k == [s \in Part(n + 1) |->
                     IF s \in Part(n) THEN h[s] ELSE g[<<c[s], h[s \ {c[s]}]>>]]
  <2>2. ASSUME NEW s \in Part(n + 1)
        PROVE  /\ s # {} => s \ {c[s]} \in Part(n) /\ s \ {c[s]} \in Part(n + 1) /\ c[s] \in S
               /\ s \notin Part(n) => s # {}
               /\ s \in Part(n) => s \in Part(n + 1)
    BY <1>1, <1>2
  <2>3. k \in [Part(n + 1) -> V]
    <3>1. ASSUME NEW s \in Part(n + 1) PROVE k[s] \in V
      <4>1. CASE s \in Part(n)
        BY <4>1
      <4>2. CASE s \notin Part(n)
        <5> HIDE DEF Part
        <5>1. h[s \ {c[s]}] \in V /\ c[s] \in S
          BY <2>2, <4>2
        <5> QED
          BY <4>2, <5>1
      <4> QED
        BY <4>1, <4>2
    <3> HIDE DEF Part
    <3> QED
      BY <3>1
  <2>4. ASSUME NEW s \in Part(n + 1)
        PROVE  k[s] = IF s = {} THEN base ELSE g[<<c[s], k[s \ {c[s]}]>>]
    <3> HIDE DEF Part
    <3>1. s # {} => k[s \ {c[s]}] = h[s \ {c[s]}]
      BY <2>2
    <3>2. CASE s \in Part(n)
      <4>1. k[s] = h[s]
        BY <3>2
      <4>2. h[s] = IF s = {} THEN base ELSE g[<<c[s], h[s \ {c[s]}]>>]
        BY <2>1, <3>2
      <4> QED
        BY <3>1, <4>1, <4>2, Zenon
    <3>3. CASE s \notin Part(n)
      <4>1. k[s] = g[<<c[s], h[s \ {c[s]}]>>] /\ s # {}
        BY <2>2, <3>3
      <4> QED
        BY <3>1, <4>1, Zenon
    <3> QED
      BY <3>2, <3>3
  <2> HIDE DEF k, Part
  <2>5. \E hh \in [Part(n + 1) -> V] : \A s \in Part(n + 1) :
          hh[s] = IF s = {} THEN base ELSE g[<<c[s], hh[s \ {c[s]}]>>]
    BY <2>3, <2>4, Zenon
  <2>6. n + 1 \in Nat
    OBVIOUS
  <2> QED
    BY <2>5, <2>6, Zenon
<1> DEFINE N == Cardinality(S)
<1>5. N \in Nat /\ N \in Q
  <2> HIDE DEF Q
  <2> QED
    BY <1>1, <1>3, <1>4, NumberInduction
<1>6. Part(N) = SUBSET S
  BY <1>1, <1>5, FS_Subset
<1>7. PICK h \in [Part(N) -> V] : \A s \in Part(N) :
                   h[s] = IF s = {} THEN base ELSE g[<<c[s], h[s \ {c[s]}]>>]
  BY <1>5
<1>8. h \in [SUBSET S -> V] /\ h = [s \in SUBSET S |-> h[s]]
  BY <1>6, <1>7
<1>9. h = [s \in SUBSET S |-> IF s = {} THEN base ELSE g[<<c[s], h[s \ {c[s]}]>>]]
  <2>1. \A s \in SUBSET S : h[s] = IF s = {} THEN base ELSE g[<<c[s], h[s \ {c[s]}]>>]
    BY <1>6, <1>7, Zenon
  <2> QED
    BY <1>8, <2>1, Zenon
<1> QED
  BY <1>8, <1>9, Zenon DEF FoldsBy

\* What adds up the values of f over the subsets of S, in whatever order.
Adds(iter, f, S) ==
  /\ iter \in [SUBSET S -> Int]
  /\ iter[{}] = 0
  /\ \A s \in SUBSET S : s # {} => \E x \in s : iter[s] = f[x] + iter[s \ {x}]

\* The order makes no difference.
LEMMA AnyOrder ==
  ASSUME NEW S, IsFiniteSet(S), NEW f, \A x \in S : f[x] \in Int, NEW iter, Adds(iter, f, S)
  PROVE  \A s \in SUBSET S : \A x \in s : iter[s] = f[x] + iter[s \ {x}]
<1> DEFINE P == {s \in SUBSET S : \A x \in s : iter[s] = f[x] + iter[s \ {x}]}
<1>1. \A s \in SUBSET S : iter[s] \in Int
  BY DEF Adds
<1>2. {} \in P
  OBVIOUS
<1>3. ASSUME NEW s \in SUBSET S, s # {}, \A x \in s : s \ {x} \in P PROVE s \in P
  <2>1. PICK y \in s : iter[s] = f[y] + iter[s \ {y}]
    BY <1>3 DEF Adds
  <2>2. ASSUME NEW x \in s PROVE iter[s] = f[x] + iter[s \ {x}]
    <3>1. CASE x = y
      BY <2>1, <3>1
    <3>2. CASE x # y
      <4>1. x \in s \ {y} /\ y \in s \ {x} /\ (s \ {y}) \ {x} = (s \ {x}) \ {y}
        BY <3>2
      <4>2. iter[s \ {y}] = f[x] + iter[(s \ {y}) \ {x}]
        BY <1>3, <4>1
      <4>3. iter[s \ {x}] = f[y] + iter[(s \ {x}) \ {y}]
        BY <1>3, <4>1
      <4>4. f[x] \in Int /\ f[y] \in Int /\ iter[(s \ {x}) \ {y}] \in Int
        BY <1>1
      <4> DEFINE r == iter[(s \ {x}) \ {y}]
      <4>5. iter[s \ {y}] = f[x] + r /\ iter[s \ {x}] = f[y] + r
        BY <4>1, <4>2, <4>3
      <4> HIDE DEF r
      <4>6. r \in Int
        BY <4>4 DEF r
      <4> QED
        BY <2>1, <4>4, <4>5, <4>6
    <3> QED
      BY <3>1, <3>2
  <2> QED
    BY <2>2
<1> HIDE DEF P
<1>4. SUBSET S \subseteq P
  BY <1>2, <1>3, SubsetInduction
<1> QED
  BY <1>4 DEF P

\* What is not negative adds up to no less than any of it.
LEMMA SumAbove ==
  ASSUME NEW S, IsFiniteSet(S), NEW f, \A x \in S : f[x] \in Nat, NEW iter, Adds(iter, f, S)
  PROVE  \A s \in SUBSET S : iter[s] \in Nat /\ \A x \in s : f[x] <= iter[s]
<1> DEFINE P == {s \in SUBSET S : iter[s] \in Nat /\ \A x \in s : f[x] <= iter[s]}
<1>1. {} \in P
  BY DEF Adds
<1>2. ASSUME NEW s \in SUBSET S, s # {}, \A x \in s : s \ {x} \in P PROVE s \in P
  <2>1. ASSUME NEW x \in s PROVE iter[s] \in Nat /\ f[x] <= iter[s]
    <3>1. iter[s] = f[x] + iter[s \ {x}]
      BY AnyOrder, \A y \in S : f[y] \in Int
    <3>2. iter[s \ {x}] \in Nat /\ f[x] \in Nat
      BY <1>2
    <3> QED
      BY <3>1, <3>2
  <2> QED
    BY <1>2, <2>1
<1> HIDE DEF P
<1>3. SUBSET S \subseteq P
  BY <1>1, <1>2, SubsetInduction
<1> QED
  BY <1>3 DEF P

\* Such a sum, by a choice of an element from each set; it comes before the rest
\* or behind.
SumsBy(iter, S, f, c) ==
  iter = [s \in SUBSET S |-> IF s = {} THEN 0 ELSE f[c[s]] + iter[s \ {c[s]}]]
\* Its sum is found so.
SumsUp(iter, S, f, c) ==
  iter = [s \in SUBSET S |-> IF s = {} THEN 0 ELSE iter[s \ {c[s]}] + f[c[s]]]

\* Either way it adds up.
LEMMA SumIsSum ==
  ASSUME NEW S, IsFiniteSet(S), NEW f, \A x \in S : f[x] \in Int,
         NEW c, \A s \in SUBSET S : s # {} => c[s] \in s,
         NEW iter, iter = [s \in SUBSET S |-> iter[s]],
         iter[{}] = 0,
         \A s \in SUBSET S : s # {} => \/ iter[s] = f[c[s]] + iter[s \ {c[s]}]
                                       \/ iter[s] = iter[s \ {c[s]}] + f[c[s]]
  PROVE  Adds(iter, f, S)
<1> DEFINE P == {s \in SUBSET S : iter[s] \in Int}
<1>1. {} \in P
  OBVIOUS
<1>2. ASSUME NEW s \in SUBSET S, s # {}, \A x \in s : s \ {x} \in P PROVE s \in P
  <2>1. c[s] \in s /\ f[c[s]] \in Int /\ iter[s \ {c[s]}] \in Int
    BY <1>2
  <2> DEFINE u == f[c[s]]
             v == iter[s \ {c[s]}]
  <2>2. iter[s] = u + v \/ iter[s] = v + u
    BY <1>2
  <2>3. u \in Int /\ v \in Int
    BY <2>1
  <2> HIDE DEF u, v
  <2>4. iter[s] \in Int
    BY <2>2, <2>3
  <2> QED
    BY <2>4
<1> HIDE DEF P
<1>3. SUBSET S \subseteq P
  BY <1>1, <1>2, SubsetInduction
<1>4. \A s \in SUBSET S : iter[s] \in Int
  BY <1>3 DEF P
<1>5. iter \in [SUBSET S -> Int]
  BY <1>4
<1>6. ASSUME NEW s \in SUBSET S, s # {} PROVE \E x \in s : iter[s] = f[x] + iter[s \ {x}]
  <2>1. c[s] \in s /\ f[c[s]] \in Int /\ iter[s \ {c[s]}] \in Int
    BY <1>4, <1>6
  <2> DEFINE u == f[c[s]]
             v == iter[s \ {c[s]}]
  <2>2. iter[s] = u + v \/ iter[s] = v + u
    BY <1>6
  <2>3. u \in Int /\ v \in Int
    BY <2>1
  <2>4. iter[s] = u + v
    <3> HIDE DEF u, v
    <3> QED
      BY <2>2, <2>3
  <2> QED
    BY <2>1, <2>4
<1> QED
  BY <1>5, <1>6 DEF Adds

\* There is one.
LEMMA SumExists ==
  ASSUME NEW S, IsFiniteSet(S), NEW f, \A x \in S : f[x] \in Int,
         NEW c, \A s \in SUBSET S : s # {} => c[s] \in s
  PROVE  /\ \E iter : SumsBy(iter, S, f, c)
         /\ \E iter : SumsUp(iter, S, f, c)
         /\ \A iter : SumsBy(iter, S, f, c) => Adds(iter, f, S)
         /\ \A iter : SumsUp(iter, S, f, c) => Adds(iter, f, S)
<1> DEFINE g == [p \in S \X Int |-> f[p[1]] + p[2]]
<1>1. g \in [S \X Int -> Int] /\ \A x \in S, n \in Int : g[<<x, n>>] = f[x] + n
  OBVIOUS
<1> HIDE DEF g
<1>2. PICK iter \in [SUBSET S -> Int] : FoldsBy(iter, S, 0, g, c)
  BY <1>1, FoldExists, 0 \in Int
<1>3. \A s \in SUBSET S : iter[s] = IF s = {} THEN 0 ELSE g[<<c[s], iter[s \ {c[s]}]>>]
  BY <1>2, Zenon DEF FoldsBy
<1>4. \A s \in SUBSET S : s # {} => /\ c[s] \in S /\ f[c[s]] \in Int
                                    /\ iter[s \ {c[s]}] \in Int
  BY <1>2
<1>5. \A s \in SUBSET S : s # {} => /\ iter[s] = f[c[s]] + iter[s \ {c[s]}]
                                    /\ iter[s] = iter[s \ {c[s]}] + f[c[s]]
  <2> TAKE s \in SUBSET S
  <2> HAVE s # {}
  <2> DEFINE v == iter[s \ {c[s]}]
  <2>1. iter[s] = g[<<c[s], v>>] /\ c[s] \in S /\ f[c[s]] \in Int /\ v \in Int
    BY <1>3, <1>4
  <2> HIDE DEF v
  <2>2. iter[s] = f[c[s]] + v
    BY <1>1, <2>1
  <2>3. iter[s] = v + f[c[s]]
    BY <2>1, <2>2
  <2> QED
    BY <2>2, <2>3 DEF v
<1>6. iter[{}] = 0
  BY <1>3
<1>7. iter = [s \in SUBSET S |-> iter[s]]
  BY <1>2
<1>8. SumsBy(iter, S, f, c)
  <2>1. \A s \in SUBSET S : iter[s] = IF s = {} THEN 0 ELSE f[c[s]] + iter[s \ {c[s]}]
    BY <1>5, <1>6, Zenon
  <2> QED
    BY <1>7, <2>1, Zenon DEF SumsBy
<1>9. SumsUp(iter, S, f, c)
  <2>1. \A s \in SUBSET S : iter[s] = IF s = {} THEN 0 ELSE iter[s \ {c[s]}] + f[c[s]]
    BY <1>5, <1>6, Zenon
  <2> QED
    BY <1>7, <2>1, Zenon DEF SumsUp
<1>10. ASSUME NEW i, SumsBy(i, S, f, c) \/ SumsUp(i, S, f, c) PROVE Adds(i, f, S)
  <2>1. i = [s \in SUBSET S |-> i[s]]
    BY <1>10, Zenon DEF SumsBy, SumsUp
  <2>2. \A s \in SUBSET S : s # {} => \/ i[s] = f[c[s]] + i[s \ {c[s]}]
                                       \/ i[s] = i[s \ {c[s]}] + f[c[s]]
    BY <1>10, Zenon DEF SumsBy, SumsUp
  <2>3. i[{}] = 0
    <3>1. {} \in SUBSET S
      OBVIOUS
    <3> QED
      BY <1>10, <3>1, Zenon DEF SumsBy, SumsUp
  <2> QED
    BY <2>1, <2>2, <2>3, SumIsSum
<1> QED
  BY <1>8, <1>9, <1>10

\* SumFunctionOnSet is such a sum,
LEMMA SumOfSet ==
  ASSUME NEW S, IsFiniteSet(S), NEW f, \A x \in S : f[x] \in Int
  PROVE  \E iter : Adds(iter, f, S) /\ SumFunctionOnSet(f, S) = iter[S]
<1> DEFINE Q(iter) == iter = [s \in SUBSET S |->
                        IF s = {} THEN 0
                        ELSE f[CHOOSE x \in s : TRUE] + iter[s \ {CHOOSE x \in s : TRUE}]]
           c == [s \in SUBSET S |-> CHOOSE x \in s : TRUE]
<1>1. SumFunctionOnSet(f, S) = (CHOOSE iter : Q(iter))[S]
  BY Zenon DEF SumFunctionOnSet, FoldFunctionOnSet, MapThenFoldSet
<1>2. \A s \in SUBSET S : s # {} => c[s] \in s
  OBVIOUS
<1>3. \A s \in SUBSET S : c[s] = CHOOSE x \in s : TRUE
  OBVIOUS
<1> HIDE DEF c
<1>4. \A iter : SumsBy(iter, S, f, c) <=> Q(iter)
  BY <1>3, Zenon DEF SumsBy
<1> HIDE DEF Q
<1>5. Q(CHOOSE iter : Q(iter))
  BY <1>2, <1>4, SumExists
<1> QED
  BY <1>1, <1>2, <1>4, <1>5, SumExists

\* and so is the sum of the values of a sequence.
LEMMA SumOfSlices ==
  ASSUME NEW n \in Nat, NEW q, DOMAIN q = 1..n, \A k \in 1..n : q[k].value \in Int
  PROVE  \E iter : /\ Adds(iter, [k \in 1..n |-> q[k].value], 1..n)
                   /\ Sum(q) = iter[1..n]
<1> DEFINE S == 1..n
           f == [k \in S |-> q[k].value]
           Q(iter) == iter = [s \in SUBSET S |->
                        IF s = {} THEN 0 ELSE iter[s \ {Max(s)}] + q[Max(s)].value]
           c == [s \in SUBSET S |-> Max(s)]
<1>1. Sum(q) = (CHOOSE iter : Q(iter))[S]
  BY Zenon DEF Sum, FoldLeft, MapThenFoldSet
<1>2. IsFiniteSet(S) /\ \A s \in SUBSET S : s # {} => Max(s) \in s
  <2>1. IsFiniteSet(S)
    BY FS_Interval
  <2>2. ASSUME NEW s \in SUBSET S, s # {} PROVE Max(s) \in s
    <3>1. IsFiniteSet(s)
      BY <2>1, FS_Subset
    <3> QED
      BY <2>2, <3>1, Extremes
  <2> QED
    BY <2>1, <2>2
<1>3. \A s \in SUBSET S : c[s] = Max(s)
  OBVIOUS
<1> HIDE DEF c
<1>4. \A iter : SumsUp(iter, S, f, c) <=> Q(iter)
  <2>1. \A s \in SUBSET S : s # {} => f[Max(s)] = q[Max(s)].value
    BY <1>2
  <2> HIDE DEF f, S
  <2>2. ASSUME NEW iter
        PROVE  [s \in SUBSET S |-> IF s = {} THEN 0 ELSE iter[s \ {c[s]}] + f[c[s]]]
                 = [s \in SUBSET S |-> IF s = {} THEN 0 ELSE iter[s \ {Max(s)}] + q[Max(s)].value]
    BY <1>3, <2>1
  <2> QED
    BY <2>2 DEF SumsUp
<1> HIDE DEF Q
<1>5. \A x \in S : f[x] \in Int
  OBVIOUS
<1> HIDE DEF f, S
<1>6. Q(CHOOSE iter : Q(iter))
  BY <1>2, <1>3, <1>4, <1>5, SumExists
<1> QED
  BY <1>1, <1>2, <1>3, <1>4, <1>5, <1>6, SumExists DEF f, S

-----------------------------------------------------------------------------
(* The columns of a bar graph.                                             *)

\* A quotient rounded up is the least number whose product reaches what is divided.
LEMMA CeilBounds ==
  ASSUME NEW c \in Nat, NEW d \in Nat \ {0}
  PROVE  /\ CeilDiv(c, d) \in Nat
         /\ c <= CeilDiv(c, d) * d /\ CeilDiv(c, d) * d < c + d
<1> DEFINE f == (-c) \div d
<1>1. f \in Int
  OBVIOUS
<1>2. f * d <= -c /\ -c < f * d + d
  OBVIOUS
<1> HIDE DEF f
<1>3. (-f) * d = -(f * d) /\ f * d \in Int
  BY <1>1
<1>4. c <= (-f) * d /\ (-f) * d < c + d
  BY <1>2, <1>3
<1>5. ASSUME f > 0 PROVE FALSE
  <2>1. f \in Nat /\ f - 1 \in Nat
    BY <1>1, <1>5
  <2>2. f * d = (f - 1) * d + d /\ (f - 1) * d \in Nat
    BY <2>1, Product
  <2> QED
    BY <1>2, <2>2
<1>6. -f \in Nat
  BY <1>1, <1>5
<1> QED
  BY <1>4, <1>6 DEF f, CeilDiv

\* Of more it is no less.
LEMMA CeilGrows ==
  ASSUME NEW b \in Nat, NEW c \in Nat, b <= c, NEW d \in Nat \ {0}
  PROVE  CeilDiv(b, d) <= CeilDiv(c, d)
<1> DEFINE p == CeilDiv(b, d)
           q == CeilDiv(c, d)
<1>1. p \in Nat /\ q \in Nat /\ p * d < b + d /\ c <= q * d
  BY CeilBounds
<1> HIDE DEF p, q
<1> SUFFICES ASSUME q < p PROVE FALSE
  BY <1>1 DEF p, q
<1>2. p - 1 \in Nat /\ p - 1 >= q
  BY <1>1
<1>3. p * d = (p - 1) * d + d /\ (p - 1) * d \in Nat /\ q * d \in Nat
  BY <1>1, <1>2, Product
<1>4. q * d <= (p - 1) * d
  <2>1. PICK e \in Nat : p - 1 = q + e
    BY <1>1, <1>2, p - 1 = q + (p - 1 - q), p - 1 - q \in Nat
  <2>2. (q + e) * d = q * d + e * d /\ e * d \in Nat
    BY <1>1, <2>1
  <2> QED
    BY <1>3, <2>1, <2>2
<1> QED
  BY <1>1, <1>3, <1>4

\* Where a column begins.
At(first, last, k) == first + CeilDiv(k * (last - first), PlotWidth)

\* Columns begin at the first second, in order, and they reach beyond the last.
LEMMA ColumnsGrow ==
  ASSUME NEW first \in Int, NEW last \in Int, first + PlotWidth <= last
  PROVE  /\ \A k \in Nat : At(first, last, k) \in Int
         /\ \A j, k \in Nat : j <= k => At(first, last, j) <= At(first, last, k)
         /\ At(first, last, 0) = first
         /\ last < At(first, last, PlotWidth + 1)
<1> DEFINE L == last - first
<1>0. PlotWidth \in Nat \ {0}
  BY ChartsAssumption DEF ChartsAssumption
<1>1. L \in Nat \ {0}
  BY <1>0
<1> HIDE DEF L
<1>2. \A k \in Nat : k * L \in Nat /\ CeilDiv(k * L, PlotWidth) \in Nat
  BY <1>0, <1>1, Product, CeilBounds
<1>3. ASSUME NEW j \in Nat, NEW k \in Nat, j <= k
      PROVE  CeilDiv(j * L, PlotWidth) <= CeilDiv(k * L, PlotWidth)
  <2>1. PICK e \in Nat : k = j + e
    BY <1>3, k = j + (k - j), k - j \in Nat
  <2>2. (j + e) * L = j * L + e * L /\ e * L \in Nat /\ j * L \in Nat
    BY <1>1
  <2>3. j * L <= k * L
    BY <2>1, <2>2
  <2> QED
    BY <1>0, <1>2, <2>3, CeilGrows
<1>4. CeilDiv(0 * L, PlotWidth) = 0
  <2>1. 0 * L = 0
    BY <1>1
  <2>2. CeilDiv(0, PlotWidth) \in Nat /\ CeilDiv(0, PlotWidth) * PlotWidth < PlotWidth
    BY <1>0, CeilBounds
  <2> DEFINE q == CeilDiv(0, PlotWidth)
  <2> HIDE DEF q
  <2>3. ASSUME q \in Nat, q * PlotWidth < PlotWidth, q # 0 PROVE FALSE
    <3>1. q - 1 \in Nat
      BY <2>3
    <3>2. q * PlotWidth = (q - 1) * PlotWidth + PlotWidth /\ (q - 1) * PlotWidth \in Nat
      <4>1. ((q - 1) + 1) * PlotWidth = (q - 1) * PlotWidth + PlotWidth /\ (q - 1) * PlotWidth \in Nat
        BY <1>0, <3>1, Product
      <4>2. (q - 1) + 1 = q
        BY <2>3
      <4> QED
        BY <4>1, <4>2
    <3> QED
      BY <1>0, <2>3, <3>2
  <2> QED
    BY <2>1, <2>2, <2>3 DEF q
<1>5. CeilDiv((PlotWidth + 1) * L, PlotWidth) > L
  <2>1. (PlotWidth + 1) * L = PlotWidth * L + L /\ PlotWidth * L \in Nat /\ PlotWidth * L = L * PlotWidth
    BY <1>0, <1>1
  <2>2. L * PlotWidth < (PlotWidth + 1) * L /\ (PlotWidth + 1) * L \in Nat
    BY <1>1, <2>1
  <2> QED
    BY <1>0, <1>1, <2>2, CeilAbove
<1> DEFINE C(k) == CeilDiv(k * L, PlotWidth)
<1>6. \A k \in Nat : At(first, last, k) = first + C(k)
  BY DEF At, L
<1>7. C(PlotWidth + 1) > L /\ PlotWidth + 1 \in Nat
  BY <1>0, <1>5
<1>8. C(0) = 0
  BY <1>4
<1>9. \A k \in Nat : C(k) \in Nat
  BY <1>2
<1>10. \A j, k \in Nat : j <= k => C(j) <= C(k)
  BY <1>3
<1> HIDE DEF C
<1>11. last = first + L
  BY DEF L
<1> QED
  BY <1>1, <1>6, <1>7, <1>8, <1>9, <1>10, <1>11

\* A second behind the first column is in just one.
LEMMA OneColumn ==
  ASSUME NEW first \in Int, NEW last \in Int, first + PlotWidth <= last,
         NEW d \in first..last, Column(first, last, 0).to <= d
  PROVE  \E i \in 1..(PlotWidth - 1) :
           /\ Column(first, last, i).from <= d /\ d < Column(first, last, i).to
           /\ \A j \in 1..(PlotWidth - 1) :
                Column(first, last, j).from <= d /\ d < Column(first, last, j).to => j = i
<1> DEFINE A(k) == At(first, last, k)
           W == PlotWidth
<1>1. W \in Nat \ {0}
  BY ChartsAssumption DEF ChartsAssumption
<1>2. /\ \A k \in Nat : A(k) \in Int
      /\ \A j, k \in Nat : j <= k => A(j) <= A(k)
      /\ A(0) = first /\ last < A(W + 1)
  BY ColumnsGrow
<1>3. \A i : /\ Column(first, last, i).from = A(i)
             /\ Column(first, last, i).to = A(IF i = W - 1 THEN i + 2 ELSE i + 1)
  BY DEF Column, At
<1> HIDE DEF A, W
<1>4. \A i \in 0..(W - 1) : Column(first, last, i).to = (IF i = W - 1 THEN A(W + 1) ELSE A(i + 1))
  BY <1>1, <1>3
<1>5. W - 1 \in Nat /\ W - 1 # 0 /\ A(1) <= d
  <2>1. CASE W = 1
    <3>1. Column(first, last, 0).to = A(W + 1)
      BY <1>1, <1>4, <2>1
    <3>2. A(W + 1) \in Int
      BY <1>1, <1>2
    <3> QED
      BY <1>2, <3>1, <3>2
  <2>2. CASE W # 1
    BY <1>1, <1>4, <2>2
  <2> QED
    BY <2>1, <2>2
<1> DEFINE K == {k \in 1..(W - 1) : A(k) <= d}
<1>6. IsFiniteSet(K) /\ K \in SUBSET Int /\ 1 \in K
  <2>1. IsFiniteSet(1..(W - 1))
    BY <1>5, FS_Interval
  <2>2. K \in SUBSET (1..(W - 1))
    OBVIOUS
  <2>3. IsFiniteSet(K)
    BY <2>1, <2>2, FS_Subset
  <2> QED
    BY <1>1, <1>5, <2>3
<1> DEFINE i == Max(K)
<1>7. i \in K /\ \A k \in K : k <= i
  BY <1>6, Extremes
<1> HIDE DEF i
<1>8. i \in 1..(W - 1) /\ A(i) <= d /\ \A k \in 1..(W - 1) : A(k) <= d => k <= i
  BY <1>7
<1> HIDE DEF K
<1>9. d < Column(first, last, i).to
  <2>1. CASE i = W - 1
    <3>1. Column(first, last, i).to = A(W + 1) /\ A(W + 1) \in Int
      BY <1>1, <1>2, <1>4, <1>8, <2>1
    <3> QED
      BY <1>2, <3>1
  <2>2. CASE i # W - 1
    <3>1. i + 1 \in 1..(W - 1) /\ A(i + 1) \in Int
      BY <1>1, <1>2, <1>8, <2>2
    <3>2. ~ A(i + 1) <= d
      BY <1>1, <1>8, <3>1
    <3>3. Column(first, last, i).to = A(i + 1)
      BY <1>1, <1>4, <1>8, <2>2
    <3> QED
      BY <3>1, <3>2, <3>3
  <2> QED
    BY <2>1, <2>2
<1>10. ASSUME NEW j \in 1..(W - 1), A(j) <= d, d < Column(first, last, j).to PROVE j = i
  <2> SUFFICES ASSUME j # i PROVE FALSE
    OBVIOUS
  <2>1. j <= i /\ j \in Nat /\ i \in Nat
    BY <1>1, <1>8, <1>10
  <2>2. j < i /\ j # W - 1 /\ j + 1 \in Nat /\ j + 1 <= i
    BY <1>1, <1>8, <2>1
  <2>3. Column(first, last, j).to = A(j + 1)
    BY <1>1, <1>4, <2>2
  <2>4. A(j + 1) <= A(i) /\ A(j + 1) \in Int /\ A(i) \in Int
    BY <1>2, <2>1, <2>2
  <2> QED
    BY <1>8, <1>10, <2>3, <2>4
<1> QED
  BY <1>3, <1>8, <1>9, <1>10 DEF W

\* The sum of a column's seconds is no less than the figure of any.
LEMMA ColumnSum ==
  ASSUME NEW first \in Int, NEW last \in Int, NEW filled, DOMAIN filled = first..last,
         \A d \in first..last : filled[d] \in Nat, NEW from, NEW to
  PROVE  LET v == get_average(filled, from, to)
         IN /\ v[1] \in Nat /\ v[2] \in Nat
            /\ v[1] > 0 => v[2] > 0
            /\ \A d \in first..last : from <= d /\ d < to => filled[d] <= v[1]
<1> DEFINE in == {d \in DOMAIN filled : from <= d /\ d < to}
           v == get_average(filled, from, to)
<1>1. v = <<SumFunctionOnSet(filled, in), Cardinality(in)>>
  BY DEF get_average
<1>2. IsFiniteSet(in) /\ Cardinality(in) \in Nat /\ (Cardinality(in) = 0 <=> in = {})
  <2>1. in \in SUBSET (first..last)
    OBVIOUS
  <2>2. IsFiniteSet(in)
    BY <2>1, FS_Interval, FS_Subset
  <2> QED
    BY <2>2, FS_CardinalityType, FS_EmptySet
<1>3. \A d \in in : filled[d] \in Nat
  OBVIOUS
<1>4. \A d \in first..last : from <= d /\ d < to <=> d \in in
  OBVIOUS
<1> HIDE DEF in, v
<1>5. PICK iter : Adds(iter, filled, in) /\ SumFunctionOnSet(filled, in) = iter[in]
  BY <1>2, <1>3, SumOfSet
<1>6. iter[in] \in Nat /\ \A d \in in : filled[d] <= iter[in]
  BY <1>2, <1>3, <1>5, SumAbove
<1>7. in = {} => iter[in] = 0
  BY <1>5 DEF Adds
<1> QED
  BY <1>1, <1>2, <1>4, <1>5, <1>6, <1>7 DEF v

\* The array of a bar graph: figures, none negative, at some seconds.
IsBarData(data) ==
  /\ IsFiniteSet(DOMAIN data) /\ DOMAIN data \subseteq Int
  /\ \A d \in DOMAIN data : data[d] \in Nat

\* What chart_approximate_data makes of it.
LEMMA ColumnsOf ==
  ASSUME NEW data, IsBarData(data)
  PROVE  \E first, last \in Int :
           LET columns == approximate_data(data)
           IN /\ first + PlotWidth <= last
              /\ DOMAIN data \subseteq first..last
              /\ DOMAIN columns = 0..(PlotWidth - 1)
              /\ \A i \in 0..(PlotWidth - 1) :
                   /\ columns[i].from = Column(first, last, i).from
                   /\ columns[i].to = Column(first, last, i).to
                   /\ columns[i].value[1] \in Nat /\ columns[i].value[2] \in Nat
                   /\ columns[i].value[1] > 0 => columns[i].value[2] > 0
                   /\ \A d \in DOMAIN data :
                        columns[i].from <= d /\ d < columns[i].to => data[d] <= columns[i].value[1]
<1> DEFINE first == get_min(data)
           top   == get_max(data)
           last  == IF top - first < PlotWidth THEN first + PlotWidth ELSE top
           filled == fill_data(data, first, last)
           columns == approximate_data(data)
           D == DOMAIN data
<1>1. PlotWidth \in Nat \ {0}
  BY ChartsAssumption DEF ChartsAssumption
<1>2. first \in Int /\ top \in Int /\ \A d \in D : first <= d /\ d <= top
  <2>1. CASE D = {}
    BY <2>1 DEF get_min, get_max
  <2>2. CASE D # {}
    <3>1. /\ Max(D) \in D /\ \A x \in D : x <= Max(D)
          /\ Min(D) \in D /\ \A x \in D : Min(D) <= x
      BY <2>2, Extremes DEF IsBarData
    <3> QED
      BY <2>2, <3>1 DEF get_min, get_max, IsBarData
  <2> QED
    BY <2>1, <2>2
<1> HIDE DEF first, top
<1>3. last \in Int /\ first + PlotWidth <= last /\ D \subseteq first..last
  BY <1>1, <1>2 DEF IsBarData
<1>4. columns = [i \in 0..(PlotWidth - 1) |->
        LET c == Column(first, last, i)
        IN [from |-> c.from, to |-> c.to, value |-> get_average(filled, c.from, c.to)]]
  BY DEF approximate_data, first, top
<1> HIDE DEF last
<1>5. DOMAIN filled = first..last /\ \A d \in first..last : filled[d] \in Nat
  BY DEF fill_data, IsBarData
<1>6. \A d \in D : filled[d] = data[d]
  BY <1>3 DEF fill_data
<1> HIDE DEF filled, columns
<1>7. ASSUME NEW i \in 0..(PlotWidth - 1)
      PROVE  /\ columns[i].from = Column(first, last, i).from
             /\ columns[i].to = Column(first, last, i).to
             /\ columns[i].value = get_average(filled, columns[i].from, columns[i].to)
  BY <1>4
<1>8. ASSUME NEW i \in 0..(PlotWidth - 1)
      PROVE  /\ columns[i].value[1] \in Nat /\ columns[i].value[2] \in Nat
             /\ columns[i].value[1] > 0 => columns[i].value[2] > 0
             /\ \A d \in D :
                  columns[i].from <= d /\ d < columns[i].to => data[d] <= columns[i].value[1]
  <2> DEFINE from == columns[i].from
             to == columns[i].to
             v == get_average(filled, from, to)
  <2> HIDE DEF from, to
  <2>1. /\ v[1] \in Nat /\ v[2] \in Nat
        /\ v[1] > 0 => v[2] > 0
        /\ \A d \in first..last : from <= d /\ d < to => filled[d] <= v[1]
    <3> HIDE DEF v
    <3> QED
      BY <1>2, <1>3, <1>5, ColumnSum DEF v
  <2>2. columns[i].value = v
    BY <1>7 DEF from, to
  <2> HIDE DEF v
  <2>3. \A d \in D : d \in first..last /\ filled[d] = data[d]
    BY <1>3, <1>6
  <2> QED
    BY <2>1, <2>2, <2>3 DEF from, to
<1>9. DOMAIN columns = 0..(PlotWidth - 1)
  BY <1>4
<1> QED
  BY <1>2, <1>3, <1>7, <1>8, <1>9 DEF columns

\* A share of the plot is no higher than the plot.
LEMMA ShareOfPlot ==
  ASSUME NEW v \in Nat, NEW n \in Nat \ {0}, v > 0, NEW most \in Nat, CeilDiv(v, n) <= most
  PROVE  (v * PlotHeight) \div (n * most) \in 0..PlotHeight
<1> DEFINE q == CeilDiv(v, n)
           d == n * most
           h == PlotHeight
<1>0. h \in Nat
  BY ChartsAssumption DEF ChartsAssumption
<1>1. q \in Nat /\ v <= q * n
  BY CeilBounds
<1> HIDE DEF q
<1>2. PICK e \in Nat : most = q + e
  <2>1. q <= most
    BY DEF q
  <2>2. most - q \in Nat /\ most = q + (most - q)
    BY <1>1, <2>1
  <2> QED
    BY <2>2
<1>3. n * most = q * n + e * n /\ q * n \in Nat /\ e * n \in Nat
  <2>1. n * (q + e) = q * n + e * n /\ q * n \in Nat /\ e * n \in Nat
    BY <1>1, <1>2
  <2> QED
    BY <1>2, <2>1
<1>4. d \in Nat \ {0} /\ v <= d
  BY <1>1, <1>3
<1> HIDE DEF d
<1>5. v * h \in Nat /\ h * d \in Nat /\ v * h <= h * d
  <2>1. PICK f \in Nat : d = v + f
    <3>1. d - v \in Nat /\ d = v + (d - v)
      BY <1>4
    <3> QED
      BY <3>1
  <2>2. h * (v + f) = v * h + f * h /\ v * h \in Nat /\ f * h \in Nat
    BY <1>0, <2>1
  <2> QED
    BY <2>1, <2>2
<1> HIDE DEF h
<1> DEFINE x == v * h
           s == x \div d
<1>6. x \in Nat /\ x <= h * d
  BY <1>5
<1> HIDE DEF x
<1>7. s \in Nat /\ s * d <= x
  BY <1>4, <1>6, QuotientBounds
<1> HIDE DEF s
<1>8. s <= h
  <2> SUFFICES ASSUME h + 1 <= s PROVE FALSE
    BY <1>0, <1>7
  <2>1. PICK f \in Nat : s = (h + 1) + f
    <3>1. s - (h + 1) \in Nat /\ s = (h + 1) + (s - (h + 1))
      BY <1>0, <1>7
    <3> QED
      BY <3>1
  <2>2. ((h + 1) + f) * d = h * d + d + f * d /\ h * d \in Nat /\ f * d \in Nat
    BY <1>0, <1>4, <2>1
  <2> QED
    BY <1>4, <1>6, <1>7, <2>1, <2>2
<1> QED
  BY <1>0, <1>7, <1>8 DEF s, x, d, h

\* The highest column is at least as high as each.
LEMMA HighestColumn ==
  ASSUME NEW n \in Nat \ {0}, NEW columns, DOMAIN columns = 0..(n - 1),
         \A i \in 0..(n - 1) : columns[i].value[1] \in Nat /\ columns[i].value[2] \in Nat
  PROVE  /\ get_max_value(columns) \in Nat
         /\ \A i \in 0..(n - 1) : columns[i].value[2] # 0 =>
              CeilDiv(columns[i].value[1], columns[i].value[2]) <= get_max_value(columns)
<1> DEFINE I == 0..(n - 1)
           h == [i \in I |-> IF columns[i].value[2] = 0 THEN 0
                             ELSE CeilDiv(columns[i].value[1], columns[i].value[2])]
           H == {h[i] : i \in I}
<1>1. \A i \in I : h[i] \in Nat
  <2>1. ASSUME NEW i \in I, columns[i].value[2] # 0
        PROVE  CeilDiv(columns[i].value[1], columns[i].value[2]) \in Nat
    BY <2>1, CeilBounds
  <2> QED
    BY <2>1
<1>2. {IF c.value[2] = 0 THEN 0 ELSE CeilDiv(c.value[1], c.value[2]) : c \in Range(columns)} = H
  BY DEF Range
<1>3. get_max_value(columns) = Max(H)
  BY <1>2 DEF get_max_value
<1>4. \A i \in I : columns[i].value[2] # 0 =>
         h[i] = CeilDiv(columns[i].value[1], columns[i].value[2])
  OBVIOUS
<1>5. DOMAIN h = I /\ h = [i \in I |-> h[i]]
  OBVIOUS
<1>6. IsFiniteSet(I) /\ 0 \in I
  BY FS_Interval
<1> HIDE DEF h, I
<1>7. IsFiniteSet(H)
  BY <1>5, <1>6, ImageFinite
<1>8. H \in SUBSET Int /\ H # {}
  BY <1>1, <1>6
<1>9. Max(H) \in H /\ \A x \in H : x <= Max(H)
  <2> HIDE DEF H
  <2> QED
    BY <1>7, <1>8, Extremes
<1> QED
  BY <1>1, <1>3, <1>4, <1>9 DEF I

\* What chart_create_bars draws of figures that are not negative.
LEMMA BarsDrawn ==
  ASSUME NEW data, IsBarData(data)
  PROVE  /\ \A d \in DOMAIN data :
              data[d] > 0 /\ d >= approximate_data(data)[0].to =>
                Cardinality({b \in create_bars(data) : b.from <= d /\ d < b.to}) = 1
         /\ \A b \in create_bars(data) : b.high \in 0..PlotHeight
<1> DEFINE columns == approximate_data(data)
           most == get_max_value(columns)
           W == PlotWidth
           bar(i) == [from |-> columns[i].from, to |-> columns[i].to,
                      high |-> (columns[i].value[1] * PlotHeight) \div (columns[i].value[2] * most)]
           J == {j \in 1..(W - 1) : columns[j].value[1] > 0}
<1>1. create_bars(data) = {bar(i) : i \in J}
  BY DEF create_bars
<1>2. PICK first, last \in Int :
        /\ first + W <= last
        /\ DOMAIN data \subseteq first..last
        /\ DOMAIN columns = 0..(W - 1)
        /\ \A i \in 0..(W - 1) :
             /\ columns[i].from = Column(first, last, i).from
             /\ columns[i].to = Column(first, last, i).to
             /\ columns[i].value[1] \in Nat /\ columns[i].value[2] \in Nat
             /\ columns[i].value[1] > 0 => columns[i].value[2] > 0
             /\ \A d \in DOMAIN data :
                  columns[i].from <= d /\ d < columns[i].to => data[d] <= columns[i].value[1]
  BY ColumnsOf
<1>3. W \in Nat \ {0} /\ PlotHeight \in Nat
  BY ChartsAssumption DEF ChartsAssumption
<1> HIDE DEF columns
<1>4. /\ most \in Nat
      /\ \A i \in 0..(W - 1) : columns[i].value[2] # 0 =>
           CeilDiv(columns[i].value[1], columns[i].value[2]) <= most
  BY <1>2, <1>3, HighestColumn
<1> HIDE DEF most
<1>5. ASSUME NEW i \in J PROVE bar(i).high \in 0..PlotHeight
  <2>1. i \in 0..(W - 1) /\ columns[i].value[1] > 0
    BY <1>3
  <2>2. columns[i].value[1] \in Nat /\ columns[i].value[2] \in Nat \ {0}
    BY <1>2, <2>1
  <2>3. CeilDiv(columns[i].value[1], columns[i].value[2]) <= most
    BY <1>4, <2>1, <2>2
  <2> QED
    BY <1>4, <2>1, <2>2, <2>3, ShareOfPlot
<1>6. ASSUME NEW d \in DOMAIN data, data[d] > 0, d >= columns[0].to
      PROVE  Cardinality({b \in create_bars(data) : b.from <= d /\ d < b.to}) = 1
  <2>1. 0 \in 0..(W - 1) /\ d \in first..last /\ columns[0].to = Column(first, last, 0).to
    BY <1>2, <1>3
  <2>2. Column(first, last, 0).to <= d
    BY <1>6, <2>1
  <2>3. PICK i \in 1..(W - 1) :
           /\ Column(first, last, i).from <= d /\ d < Column(first, last, i).to
           /\ \A j \in 1..(W - 1) :
                Column(first, last, j).from <= d /\ d < Column(first, last, j).to => j = i
    BY <1>2, <2>1, <2>2, OneColumn
  <2>4. \A j \in 1..(W - 1) : /\ j \in 0..(W - 1)
                              /\ columns[j].from = Column(first, last, j).from
                              /\ columns[j].to = Column(first, last, j).to
    BY <1>2, <1>3
  <2>5. i \in J
    <3>1. data[d] <= columns[i].value[1] /\ columns[i].value[1] \in Nat
      BY <1>2, <2>3, <2>4
    <3>2. data[d] \in Nat
      BY DEF IsBarData
    <3> QED
      BY <1>6, <3>1, <3>2
  <2>6. bar(i).from <= d /\ d < bar(i).to
    BY <2>3, <2>4
  <2>7. ASSUME NEW j \in J, bar(j).from <= d, d < bar(j).to PROVE j = i
    BY <2>3, <2>4, <2>7
  <2> HIDE DEF bar, J
  <2>8. {b \in create_bars(data) : b.from <= d /\ d < b.to} = {bar(i)}
    BY <1>1, <2>5, <2>6, <2>7
  <2> QED
    BY <2>8, FS_Singleton
<1> QED
  BY <1>1, <1>5, <1>6 DEF columns

-----------------------------------------------------------------------------
(* Sorting by any order.                                                   *)

\* L is the order of S: what comes before what.
Orders(L, S) ==
  /\ L \subseteq S \X S
  /\ \A r \in S : <<r, r>> \notin L
  /\ \A r, s \in S : r = s \/ <<r, s>> \in L \/ <<s, r>> \in L
  /\ \A r, s, t \in S : <<r, s>> \in L /\ <<s, t>> \in L => <<r, t>> \in L

\* What comes before an element.
Before(L, S, r) == {s \in S : <<s, r>> \in L}

\* How many come before one sorts them the same way.
LEMMA RankSorts ==
  ASSUME NEW S, IsFiniteSet(S), NEW L, Orders(L, S)
  PROVE  LET f == [r \in S |-> Cardinality(Before(L, S, r))]
         IN /\ Injective(S, f)
            /\ \A r \in S : Below(S, f, r) = Before(L, S, r)
            /\ \A r \in S : f[r] \in Nat
<1> DEFINE f == [r \in S |-> Cardinality(Before(L, S, r))]
<1>1. \A r \in S : /\ Before(L, S, r) \in SUBSET S /\ IsFiniteSet(Before(L, S, r))
                   /\ f[r] = Cardinality(Before(L, S, r)) /\ f[r] \in Nat
  <2> TAKE r \in S
  <2>1. Before(L, S, r) \in SUBSET S
    BY DEF Before
  <2>2. IsFiniteSet(Before(L, S, r))
    BY <2>1, FS_Subset
  <2> QED
    BY <2>1, <2>2, FS_CardinalityType
<1>2. ASSUME NEW r \in S, NEW s \in S, <<s, r>> \in L PROVE f[s] < f[r]
  <2>1. Before(L, S, s) \in SUBSET Before(L, S, r)
    BY <1>2 DEF Before, Orders
  <2>2. s \in Before(L, S, r) /\ s \notin Before(L, S, s)
    BY <1>2 DEF Before, Orders
  <2>3. f[s] <= f[r] /\ f[s] # f[r]
    BY <1>1, <2>1, <2>2, FS_Subset
  <2> QED
    BY <1>1, <2>3
<1> HIDE DEF f
<1>3. ASSUME NEW r \in S, NEW s \in S, f[s] < f[r] PROVE <<s, r>> \in L
  <2>1. ~ f[r] < f[s] /\ r # s
    BY <1>1, <1>3
  <2> QED
    BY <1>2, <2>1 DEF Orders
<1>4. ASSUME NEW r \in S, NEW s \in S, f[s] = f[r] PROVE s = r
  <2>1. ~ f[r] < f[s] /\ ~ f[s] < f[r]
    BY <1>1, <1>4
  <2> QED
    BY <1>2, <2>1 DEF Orders
<1>5. f \in [S -> Int]
  <2>1. f = [r \in S |-> f[r]]
    BY DEF f
  <2> QED
    BY <1>1, <2>1
<1>6. \A r \in S : Below(S, f, r) = Before(L, S, r)
  BY <1>2, <1>3 DEF Below, Before
<1>7. Injective(S, f)
  BY <1>4, <1>5 DEF Injective
<1> QED
  BY <1>1, <1>6, <1>7 DEF f

\* A sequence that has the elements of S, each once and in their order.
Sorts(b, L, S) ==
  /\ b \in [1..Cardinality(S) -> S]
  /\ \A r \in S : \E k \in 1..Cardinality(S) : b[k] = r
  /\ \A j, k \in 1..Cardinality(S) : b[j] = b[k] => j = k
  /\ \A j, k \in 1..Cardinality(S) : j < k <=> <<b[j], b[k]>> \in L

\* The sequence in which each element is behind as many as come before it has
\* all of them, each once and in their order.
LEMMA Sorted ==
  ASSUME NEW S, IsFiniteSet(S), NEW L, Orders(L, S),
         NEW b, b = [k \in 1..Cardinality(S) |->
                       CHOOSE r \in S : Cardinality(Before(L, S, r)) = k - 1]
  PROVE  Sorts(b, L, S)
<1> DEFINE f == [r \in S |-> Cardinality(Before(L, S, r))]
           n == Cardinality(S)
<1>1. /\ Injective(S, f)
      /\ \A r \in S : Below(S, f, r) = Before(L, S, r)
      /\ \A r \in S : f[r] \in Nat
  BY RankSorts
<1>2. \A r \in S : f[r] = Cardinality(Before(L, S, r))
  OBVIOUS
<1> HIDE DEF f
<1>3. n \in Nat
  BY FS_CardinalityType
<1>4. \A k \in 1..n : b[k] \in S /\ f[b[k]] = k - 1
  <2> TAKE k \in 1..n
  <2>1. \E r \in S : Cardinality(Below(S, f, r)) = k - 1
    BY <1>1, EveryPlace
  <2>2. \E r \in S : Cardinality(Before(L, S, r)) = k - 1
    BY <1>1, <2>1
  <2>3. b[k] = CHOOSE r \in S : Cardinality(Before(L, S, r)) = k - 1
    OBVIOUS
  <2> QED
    BY <1>2, <2>2, <2>3
<1>5. b \in [1..n -> S]
  <2>1. b = [k \in 1..n |-> b[k]]
    OBVIOUS
  <2> QED
    BY <1>4, <2>1
<1>6. ASSUME NEW r \in S PROVE \E k \in 1..n : b[k] = r
  <2>1. f[r] < n
    <3>1. Before(L, S, r) \in SUBSET S /\ r \notin Before(L, S, r)
      BY DEF Before, Orders
    <3>2. Cardinality(Before(L, S, r)) <= n /\ Cardinality(Before(L, S, r)) # n
      BY <3>1, FS_Subset
    <3> QED
      BY <1>1, <1>2, <1>3, <3>2
  <2>2. f[r] + 1 \in 1..n
    BY <1>1, <1>3, <2>1
  <2>3. f[b[f[r] + 1]] = f[r] /\ b[f[r] + 1] \in S
    BY <1>1, <1>4, <2>2
  <2>4. b[f[r] + 1] = r
    BY <1>1, <2>3 DEF Injective
  <2> QED
    BY <2>2, <2>4
<1> HIDE DEF n
<1>9. \A k \in 1..n : k \in Int /\ f[b[k]] = k - 1
  <2> TAKE k \in 1..n
  <2>1. k \in Int
    BY <1>3
  <2>2. f[b[k]] = k - 1
    BY <1>4, Zenon
  <2> QED
    BY <2>1, <2>2
<1>7. ASSUME NEW j \in 1..n, NEW k \in 1..n, b[j] = b[k] PROVE j = k
  <2>1. f[b[j]] = j - 1 /\ f[b[k]] = k - 1 /\ j \in Int /\ k \in Int
    BY <1>9, Zenon
  <2> QED
    BY <1>7, <2>1
<1>8. ASSUME NEW j \in 1..n, NEW k \in 1..n PROVE j < k <=> <<b[j], b[k]>> \in L
  <2>1. j < k <=> f[b[j]] < f[b[k]]
    <3>1. f[b[j]] = j - 1 /\ f[b[k]] = k - 1 /\ j \in Int /\ k \in Int
      BY <1>9, Zenon
    <3> QED
      BY <3>1
  <2>2. f[b[j]] < f[b[k]] <=> b[j] \in Below(S, f, b[k])
    BY <1>4 DEF Below
  <2>3. b[j] \in Below(S, f, b[k]) <=> <<b[j], b[k]>> \in L
    BY <1>1, <1>4 DEF Before
  <2> QED
    BY <2>1, <2>2, <2>3
<1> QED
  BY <1>5, <1>6, <1>7, <1>8 DEF n, Sorts

\* The largest figures of each second (sql_adapter_get_full_text_info_picture).
PeaksOf(W) ==
  {[dt |-> (CHOOSE r \in G : TRUE).dateadd, cpu |-> Most(G, "cpu"),
    memory |-> Most(G, "memory"), bytes_read |-> Most(G, "bytes_read"),
    bytes_write |-> Most(G, "bytes_write")] : G \in Groups(W, LAMBDA r : r.dateadd)}

\* The answer has those, in the order of the seconds, or it is empty.
LEMMA PeaksAnswered ==
  ASSUME NEW a, NEW ans \in get_full_text_info_picture(table, a, db, now), ~ans.err
  PROVE  ans.rows = <<>> \/ ans.rows = By(PeaksOf(Where(table, a, db, now)), "dt", "dt", 1)
<1>1. get_full_text_info_picture(table, a, db, now)
        = Answers(By(PeaksOf(Where(table, a, db, now)), "dt", "dt", 1), db)
  BY DEF get_full_text_info_picture, PeaksOf
<1> QED
  BY <1>1, WholeAnswer

\* There are finitely many, one of each second, and none is negative.
LEMMA PeaksType ==
  ASSUME NEW W, IsFiniteSet(W), \A r \in W : Figured(r) /\ r.dateadd \in Nat
  PROVE  /\ IsFiniteSet(PeaksOf(W))
         /\ \A p \in PeaksOf(W) : /\ p.dt \in Nat /\ p.cpu \in Nat /\ p.memory \in Nat
                                  /\ p.bytes_read \in Nat /\ p.bytes_write \in Nat
         /\ \A p, q \in PeaksOf(W) : p.dt = q.dt => p = q
<1> DEFINE Of(d) == {s \in W : s.dateadd = d}
           P(r) == [dt |-> r.dateadd, cpu |-> Most(Of(r.dateadd), "cpu"),
                    memory |-> Most(Of(r.dateadd), "memory"),
                    bytes_read |-> Most(Of(r.dateadd), "bytes_read"),
                    bytes_write |-> Most(Of(r.dateadd), "bytes_write")]
           f == [r \in W |-> P(r)]
<1>1. Groups(W, LAMBDA r : r.dateadd) = {Of(r.dateadd) : r \in W}
  BY DEF Groups
<1>2. ASSUME NEW r \in W PROVE (CHOOSE s \in Of(r.dateadd) : TRUE).dateadd = r.dateadd
  <2>1. r \in Of(r.dateadd)
    OBVIOUS
  <2>2. (CHOOSE s \in Of(r.dateadd) : TRUE) \in Of(r.dateadd)
    BY <2>1
  <2> QED
    BY <2>2
<1>3. PeaksOf(W) = {P(r) : r \in W}
  <2> DEFINE p(G) == [dt |-> (CHOOSE r \in G : TRUE).dateadd, cpu |-> Most(G, "cpu"),
                memory |-> Most(G, "memory"), bytes_read |-> Most(G, "bytes_read"),
                bytes_write |-> Most(G, "bytes_write")]
  <2>1. PeaksOf(W) = {p(G) : G \in {Of(r.dateadd) : r \in W}}
    BY <1>1, Zenon DEF PeaksOf
  <2>2. \A r \in W : p(Of(r.dateadd)) = P(r)
    BY <1>2
  <2> HIDE DEF p, P, Of
  <2> QED
    BY <2>1, <2>2
<1>4. IsFiniteSet(PeaksOf(W))
  <2>1. DOMAIN f = W /\ f = [r \in W |-> f[r]] /\ {P(r) : r \in W} = {f[r] : r \in W}
    OBVIOUS
  <2> HIDE DEF f, P
  <2> QED
    BY <1>3, <2>1, ImageFinite
<1>5. ASSUME NEW r \in W, NEW col \in {"cpu", "memory", "bytes_read", "bytes_write"}
      PROVE  Most(Of(r.dateadd), col) \in Nat
  <2> DEFINE G == Of(r.dateadd)
  <2>1. IsFiniteSet(G) /\ r \in G /\ \A s \in G : s[col] \in Nat
    <3>1. G \in SUBSET W /\ r \in G
      OBVIOUS
    <3>2. IsFiniteSet(G)
      BY <3>1, FS_Subset
    <3> QED
      BY <3>1, <3>2 DEF Figured
  <2> HIDE DEF G
  <2>2. \E s \in G : s[col] = Most(G, col)
    BY <2>1, MostOf
  <2> QED
    BY <2>1, <2>2 DEF G
<1>6. ASSUME NEW r \in W
      PROVE  /\ P(r).dt \in Nat /\ P(r).cpu \in Nat /\ P(r).memory \in Nat
             /\ P(r).bytes_read \in Nat /\ P(r).bytes_write \in Nat
  BY <1>5
<1>7. \A r, s \in W : P(r).dt = P(s).dt => P(r) = P(s)
  <2> HIDE DEF Of
  <2> QED
    OBVIOUS
<1> HIDE DEF P
<1> QED
  BY <1>3, <1>4, <1>6, <1>7

\* Sorted by the second, they are the rows of the answer.
LEMMA PeaksSorted ==
  ASSUME NEW S, IsFiniteSet(S), \A p \in S : p.dt \in Nat, \A p, q \in S : p.dt = q.dt => p = q
  PROVE  By(S, "dt", "dt", 1) \in [1..Cardinality(S) -> S]
<1> DEFINE L == {p \in S \X S : p[1].dt < p[2].dt}
           b == By(S, "dt", "dt", 1)
<1>1. Orders(L, S)
  BY DEF Orders
<1>2. ASSUME NEW r \in S
      PROVE  {s \in S : s.dt < r.dt \/ (s.dt = r.dt /\ s.dt < r.dt)} = Before(L, S, r)
  BY DEF Before
<1> HIDE DEF L
<1>3. b = [k \in 1..Cardinality(S) |->
             CHOOSE r \in S :
               Cardinality({s \in S : s.dt < r.dt \/ (s.dt = r.dt /\ s.dt < r.dt)}) = k - 1]
  BY DEF By, Ordered, Key
<1>4. \A k : (CHOOSE r \in S :
                Cardinality({s \in S : s.dt < r.dt \/ (s.dt = r.dt /\ s.dt < r.dt)}) = k - 1)
               = CHOOSE r \in S : Cardinality(Before(L, S, r)) = k - 1
  BY <1>2
<1>5. b = [k \in 1..Cardinality(S) |-> CHOOSE r \in S : Cardinality(Before(L, S, r)) = k - 1]
  BY <1>3, <1>4, Zenon
<1> HIDE DEF b
<1> QED
  BY <1>1, <1>5, Sorted DEF b, Sorts

\* The array of a bar graph made of peaks has figures that are not negative (show_row3).
LEMMA BarDataOf ==
  ASSUME NEW S, IsFiniteSet(S),
         \A p \in S : /\ p.dt \in Nat /\ p.cpu \in Nat /\ p.memory \in Nat
                      /\ p.bytes_read \in Nat /\ p.bytes_write \in Nat,
         NEW rows, Range(rows) \subseteq S, NEW number \in 0..3
  PROVE  IsBarData(show_row3(rows, number))
<1> DEFINE R == Range(rows)
           col == Figures[number + 1]
           D == {r.dt : r \in R}
           data == show_row3(rows, number)
           f == [p \in S |-> p.dt]
<1>1. col \in {"cpu", "memory", "bytes_read", "bytes_write"}
  BY DEF Figures
<1>2. data = [d \in D |-> (CHOOSE r \in R : r.dt = d)[col]]
  BY DEF show_row3
<1> HIDE DEF R, col, data
<1>3. IsFiniteSet(D)
  <2>1. DOMAIN f = S /\ f = [p \in S |-> f[p]]
    OBVIOUS
  <2>2. D \in SUBSET {f[p] : p \in S}
    BY DEF R
  <2> HIDE DEF f, D
  <2>3. IsFiniteSet({f[p] : p \in S})
    BY <2>1, ImageFinite
  <2> QED
    BY <2>2, <2>3, FS_Subset
<1>4. \A d \in D : (CHOOSE r \in R : r.dt = d)[col] \in Nat
  <2> TAKE d \in D
  <2>1. \E r \in R : r.dt = d
    OBVIOUS
  <2>2. (CHOOSE r \in R : r.dt = d) \in S
    BY <2>1 DEF R
  <2> QED
    BY <1>1, <2>2
<1>5. D \subseteq Int
  BY DEF R
<1> HIDE DEF D
<1> QED
  BY <1>2, <1>3, <1>4, <1>5 DEF IsBarData, data

\* The pictures that are bar graphs, and what they are made of (form_page_content).
LEMMA PictureOfBars ==
  ASSUME NEW q, q.info \in {8, 9, 10, 17}, NEW a, NEW ans
  PROVE  /\ PictureQuery(q, a) = get_full_text_info_picture(table, a, db, now)
         /\ \E number \in 0..3 :
              /\ Picture(q, ans).data = show_row3(ans.rows, number)
              /\ Picture(q, ans).drawn = create_bars(show_row3(ans.rows, number))
<1> DEFINE B(n) == Bars(ans, n)
<1>1. \A n : B(n).data = show_row3(ans.rows, n) /\ B(n).drawn = create_bars(show_row3(ans.rows, n))
  BY DEF Bars
<1>2. PictureQuery(q, a) = get_full_text_info_picture(table, a, db, now)
  BY DEF PictureQuery
<1> HIDE DEF B
<1>3. CASE q.info = 8
  <2>1. Picture(q, ans) = B(0)
    BY <1>3 DEF Picture, show_graph_page_cpu, B
  <2> QED
    BY <1>1, <1>2, <2>1
<1>4. CASE q.info = 9
  <2>1. Picture(q, ans) = B(1)
    BY <1>4 DEF Picture, show_graph_page_memory, B
  <2> QED
    BY <1>1, <1>2, <2>1
<1>5. CASE q.info = 10
  <2>1. Picture(q, ans) = B(2)
    BY <1>5 DEF Picture, show_graph_page_ioread, B
  <2> QED
    BY <1>1, <1>2, <2>1
<1>6. CASE q.info = 17
  <2>1. Picture(q, ans) = B(3)
    BY <1>6 DEF Picture, show_graph_page_iowrite, B
  <2> QED
    BY <1>1, <1>2, <2>1
<1> QED
  BY <1>3, <1>4, <1>5, <1>6

\* A bar graph on the screen is drawn of such an array.
BarsInv ==
  Pictured({8, 9, 10, 17}) =>
    IsBarData(screen.pic.data) /\ screen.pic.drawn = create_bars(screen.pic.data)

\* A picture is drawn by Look alone.
LEMMA StepsToPicture ==
  ASSUME [Next]_vars, screen'.kind = "picture"
  PROVE  UNCHANGED screen \/ \E q \in PageQueries : Look(q)
<1>1. CASE Steps
  <2>1. ASSUME NEW s \in Samples, Serve(s) PROVE UNCHANGED screen
    BY <2>1 DEF Serve
  <2>2. ASSUME NEW s \in Others, OtherServer(s) PROVE UNCHANGED screen
    BY <2>2 DEF OtherServer
  <2>3. ASSUME Alarm \/ Tick \/ ServerFails \/ ServerReturns PROVE UNCHANGED screen
    BY <2>3 DEF Alarm, Tick, ServerFails, ServerReturns
  <2>4. ASSUME NEW q, NEW filters, NEW start, NEW before, ReadRows(q, filters, start, before)
        PROVE  FALSE
    BY <2>4 DEF ReadRows, Shown
  <2>5. ASSUME NEW q \in PageQueries, List(q) PROVE FALSE
    BY <2>4, <2>5 DEF List
  <2>6. ASSUME NEW q \in PageQueries, Open(q) PROVE FALSE
    BY <2>6 DEF Open, Shown
  <2>7. ASSUME ReadCount PROVE FALSE
    <3>1. PICK ans : screen' = IF ans.err \/ ans.rows = <<>> \/ ans.rows = <<0>> THEN Blank
                               ELSE [screen EXCEPT !.links = show_row2(ans.rows[1])]
      BY <2>7 DEF ReadCount
    <3>2. screen'.kind = "blank" \/ screen'.kind = screen.kind
      BY <3>1 DEF Blank
    <3> QED
      BY <2>7, <3>2 DEF ReadCount
  <2>8. ASSUME FollowLink PROVE FALSE
    BY <2>4, <2>8 DEF FollowLink
  <2> QED
    BY <1>1, <2>1, <2>2, <2>3, <2>5, <2>6, <2>7, <2>8 DEF Steps
<1>2. CASE Close
  BY <1>2 DEF Close, Blank
<1>3. CASE UNCHANGED vars
  BY <1>3 DEF vars
<1> QED
  BY <1>1, <1>2, <1>3 DEF Next

\* Drawing a picture makes it so.
LEMMA BarsLook ==
  ASSUME IInv, RowsInv, FiguresInv, NEW q \in PageQueries, Look(q)
  PROVE  BarsInv'
<1> DEFINE a == common_report_part_no_show(q)
           W == Where(table, a, db, now)
           S == PeaksOf(W)
<1>1. PICK ans \in PictureQuery(q, a) :
        screen' = IF ans.err THEN Shown(q, a, ans)
                  ELSE [kind |-> "picture", q |-> q, a |-> a, pic |-> Picture(q, ans)]
  BY DEF Look
<1>2. CASE ans.err
  BY <1>1, <1>2 DEF Shown, BarsInv, Pictured
<1>3. CASE q.info \notin {8, 9, 10, 17}
  <2>1. screen'.kind = "picture" => screen'.q = q
    BY <1>1 DEF Shown
  <2> QED
    BY <1>3, <2>1 DEF BarsInv, Pictured
<1>4. CASE ~ans.err /\ q.info \in {8, 9, 10, 17}
  <2>1. ans \in get_full_text_info_picture(table, a, db, now)
    BY <1>1, <1>4, PictureOfBars
  <2>2. ans.rows = <<>> \/ ans.rows = By(S, "dt", "dt", 1)
    BY <1>4, <2>1, PeaksAnswered
  <2>3. IsFiniteSet(W) /\ \A r \in W : Figured(r) /\ r.dateadd \in Nat
    <3>1. W \subseteq table
      BY RowByRow
    <3>2. IsFiniteSet(W)
      BY <3>1, FS_Subset DEF RowsInv, InOrderSaved, Numbered
    <3>3. \A r \in table : r.dateadd \in Nat
      BY TypeParts
    <3> HIDE DEF W
    <3> QED
      BY <3>1, <3>2, <3>3 DEF FiguresInv
  <2> HIDE DEF W
  <2>4. /\ IsFiniteSet(S)
        /\ \A p \in S : /\ p.dt \in Nat /\ p.cpu \in Nat /\ p.memory \in Nat
                        /\ p.bytes_read \in Nat /\ p.bytes_write \in Nat
        /\ \A p, r \in S : p.dt = r.dt => p = r
    BY <2>3, PeaksType
  <2> HIDE DEF S
  <2>5. Range(ans.rows) \subseteq S
    <3>1. By(S, "dt", "dt", 1) \in [1..Cardinality(S) -> S]
      BY <2>4, PeaksSorted
    <3>2. CASE ans.rows = <<>>
      BY <3>2 DEF Range
    <3>3. CASE ans.rows = By(S, "dt", "dt", 1)
      <4> DEFINE b == By(S, "dt", "dt", 1)
      <4> HIDE DEF b
      <4>1. DOMAIN b = 1..Cardinality(S) /\ \A k \in DOMAIN b : b[k] \in S
        BY <3>1 DEF b
      <4> QED
        BY <3>3, <4>1 DEF Range, b
    <3> QED
      BY <2>2, <3>2, <3>3
  <2>6. PICK number \in 0..3 :
          /\ Picture(q, ans).data = show_row3(ans.rows, number)
          /\ Picture(q, ans).drawn = create_bars(show_row3(ans.rows, number))
    BY <1>4, PictureOfBars
  <2>7. IsBarData(show_row3(ans.rows, number))
    BY <2>4, <2>5, BarDataOf
  <2>8. screen'.pic = Picture(q, ans)
    BY <1>1, <1>4
  <2> QED
    BY <2>6, <2>7, <2>8 DEF BarsInv
<1> QED
  BY <1>2, <1>3, <1>4

\* No other step changes what is drawn.
LEMMA BarsInvNext == IInv /\ RowsInv /\ FiguresInv /\ BarsInv /\ [Next]_vars => BarsInv'
<1> SUFFICES ASSUME IInv, RowsInv, FiguresInv, BarsInv, [Next]_vars PROVE BarsInv'
  OBVIOUS
<1>1. CASE screen'.kind # "picture"
  BY <1>1 DEF BarsInv, Pictured
<1>2. CASE UNCHANGED screen
  BY <1>2 DEF BarsInv, Pictured
<1> QED
  BY <1>1, <1>2, StepsToPicture, BarsLook

\* Every second with a figure is in one bar, but for those of the first column,
\* and no bar is higher than the plot (chart_approximate_data, chart_create_bars).
THEOREM BarsRight == Spec => []BarsShowPoints
<1>1. Init => BarsInv
  BY DEF Init, Blank, BarsInv, Pictured
<1>2. BarsInv => BarsShowPoints
  <2> SUFFICES ASSUME BarsInv, Pictured({8, 9, 10, 17})
               PROVE  LET data  == screen.pic.data
                          drawn == screen.pic.drawn
                      IN /\ \A d \in DOMAIN data :
                              data[d] > 0 /\ d >= approximate_data(data)[0].to =>
                                Cardinality({b \in drawn : b.from <= d /\ d < b.to}) = 1
                         /\ \A b \in drawn : b.high \in 0..PlotHeight
    BY DEF BarsShowPoints
  <2>1. IsBarData(screen.pic.data) /\ screen.pic.drawn = create_bars(screen.pic.data)
    BY DEF BarsInv
  <2> QED
    BY <2>1, BarsDrawn
<1>3. IInv /\ FiguresInv /\ [Next]_vars => FiguresInv'
  BY FiguresNext
<1> QED
  BY <1>1, <1>2, <1>3, BarsInvNext, FiguresInit, Invariant, WalkInvariant, PTL DEF Spec

-----------------------------------------------------------------------------
(* Pies: sums of slices, in any order and in parts.                        *)

\* A finite sum of numbers.
Totals(iter, f, S) ==
  IsFiniteSet(S) /\ (\A x \in S : f[x] \in Int) /\ Adds(iter, f, S)

\* h calls what has the values of f over S differently: R, with the values of g.
Renames(h, S, f, R, g) ==
  /\ \A x \in S : h[x] \in R /\ g[h[x]] = f[x] /\ \A y \in S : h[x] = h[y] => x = y
  /\ \A y \in R : \E x \in S : h[x] = y

\* Two sums are equal if a renaming of what is added makes them the same.
LEMMA SumMoved ==
  ASSUME NEW S, NEW f, NEW iter, Totals(iter, f, S), NEW T, NEW g, NEW jter, Totals(jter, g, T),
         NEW R \in SUBSET T, NEW h, Renames(h, S, f, R, g)
  PROVE  iter[S] = jter[R]
<1> DEFINE Im(t) == {h[x] : x \in t}
           P == {t \in SUBSET S : iter[t] = jter[Im(t)]}
<1>1. {} \in P
  <2>1. Im({}) = {}
    OBVIOUS
  <2> QED
    BY <2>1 DEF Adds, Totals
<1>2. ASSUME NEW t \in SUBSET S, NEW x \in t PROVE iter[t] = f[x] + iter[t \ {x}]
  BY AnyOrder DEF Totals
<1>3. ASSUME NEW t \in SUBSET T, NEW y \in t PROVE jter[t] = g[y] + jter[t \ {y}]
  BY AnyOrder DEF Totals
<1>4. ASSUME NEW t \in SUBSET S, t # {}, \A x \in t : t \ {x} \in P PROVE t \in P
  <2>1. PICK x \in t : TRUE
    BY <1>4
  <2>2. Im(t \ {x}) = Im(t) \ {h[x]} /\ h[x] \in Im(t) /\ Im(t) \in SUBSET T
    BY DEF Renames
  <2>3. iter[t] = f[x] + iter[t \ {x}]
    BY <1>2
  <2>4. iter[t \ {x}] = jter[Im(t \ {x})]
    BY <1>4
  <2> HIDE DEF Im
  <2>5. jter[Im(t)] = g[h[x]] + jter[Im(t) \ {h[x]}]
    BY <1>3, <2>2
  <2>6. g[h[x]] = f[x]
    BY DEF Renames
  <2>7. iter[t] = jter[Im(t)]
    BY <2>2, <2>3, <2>4, <2>5, <2>6
  <2> QED
    BY <2>7
<1> HIDE DEF P
<1>5. SUBSET S \subseteq P
  BY <1>1, <1>4, SubsetInduction DEF Totals
<1>6. iter[S] = jter[Im(S)]
  BY <1>5 DEF P
<1>7. Im(S) = R
  BY DEF Renames
<1> QED
  BY <1>6, <1>7

\* What is added in two parts.
LEMMA SumInParts ==
  ASSUME NEW S, NEW f, NEW iter, Totals(iter, f, S),
         NEW s \in SUBSET S, NEW t \in SUBSET S, s \cap t = {}
  PROVE  iter[s \cup t] = iter[s] + iter[t]
<1> DEFINE P == {u \in SUBSET t : iter[s \cup u] = iter[s] + iter[u]}
<1>0. \A u \in SUBSET S : iter[u] \in Int
  BY DEF Adds, Totals
<1>1. {} \in P
  <2>1. s \cup {} = s /\ iter[{}] = 0 /\ iter[s] \in Int
    BY <1>0 DEF Adds, Totals
  <2> QED
    BY <2>1
<1>2. ASSUME NEW u \in SUBSET t, u # {}, \A x \in u : u \ {x} \in P PROVE u \in P
  <2>1. PICK x \in u : TRUE
    BY <1>2
  <2>2. /\ (s \cup u) \ {x} = s \cup (u \ {x}) /\ x \in s \cup u
        /\ s \cup u \in SUBSET S /\ u \in SUBSET S /\ u \ {x} \in SUBSET S /\ x \in S
    OBVIOUS
  <2>3. iter[u] = f[x] + iter[u \ {x}] /\ iter[s \cup u] = f[x] + iter[s \cup (u \ {x})]
    BY <2>2, AnyOrder DEF Totals
  <2>4. iter[s \cup (u \ {x})] = iter[s] + iter[u \ {x}]
    BY <1>2, <2>1
  <2>5. iter[s] \in Int /\ iter[u \ {x}] \in Int /\ f[x] \in Int
    BY <1>0, <2>2 DEF Totals
  <2> DEFINE a == iter[s]  b == iter[u \ {x}]  e == f[x]
  <2>6. e + (a + b) = a + (e + b)
    <3>1. a \in Int /\ b \in Int /\ e \in Int
      BY <2>5
    <3> HIDE DEF a, b, e
    <3> QED
      BY <3>1
  <2> QED
    BY <2>3, <2>4, <2>6
<1>3. IsFiniteSet(t)
  BY FS_Subset DEF Totals
<1> HIDE DEF P
<1>4. SUBSET t \subseteq P
  BY <1>1, <1>2, <1>3, SubsetInduction
<1> QED
  BY <1>4 DEF P

\* A sequence of n slices with values.
Slices(q, n) ==
  n \in Nat /\ DOMAIN q = 1..n /\ \A k \in 1..n : q[k].value \in Int

\* p has the values of q from the one behind m.
ValuesOf(p, n, q, m) == \A k \in 1..n : p[k].value = q[m + k].value

\* h is the order in which q has the values of p.
Reorders(h, q, p, n) ==
  /\ \A k \in 1..n : h[k] \in 1..n /\ p[h[k]].value = q[k].value
  /\ \A j, k \in 1..n : h[j] = h[k] => j = k
  /\ \A i \in 1..n : \E k \in 1..n : h[k] = i

\* Sum is such a total.
LEMMA SumTotals ==
  ASSUME NEW n, NEW q, Slices(q, n)
  PROVE  \E iter : Totals(iter, [k \in 1..n |-> q[k].value], 1..n) /\ Sum(q) = iter[1..n]
<1>1. PICK iter : Adds(iter, [k \in 1..n |-> q[k].value], 1..n) /\ Sum(q) = iter[1..n]
  BY SumOfSlices DEF Slices
<1>2. IsFiniteSet(1..n)
  BY FS_Interval DEF Slices
<1>3. \A k \in 1..n : [i \in 1..n |-> q[i].value][k] \in Int
  BY DEF Slices
<1> QED
  BY <1>1, <1>2, <1>3, Zenon DEF Totals

\* The order of slices and what else they say make no difference.
LEMMA SumReordered ==
  ASSUME NEW n, NEW q, Slices(q, n), NEW p, Slices(p, n), NEW h, Reorders(h, q, p, n)
  PROVE  Sum(q) = Sum(p)
<1> DEFINE S == 1..n
           f == [k \in S |-> q[k].value]
           g == [k \in S |-> p[k].value]
<1>1. PICK iter : Totals(iter, f, S) /\ Sum(q) = iter[S]
  BY SumTotals
<1>2. PICK jter : Totals(jter, g, S) /\ Sum(p) = jter[S]
  BY SumTotals
<1>3. Renames(h, S, f, S, g)
  BY DEF Renames, Reorders
<1> HIDE DEF S, f, g
<1> QED
  BY <1>1, <1>2, <1>3, SumMoved

\* The first slices and the rest.
LEMMA SumOfBoth ==
  ASSUME NEW n, NEW q, Slices(q, n), NEW m \in 0..n, NEW p, Slices(p, m), ValuesOf(p, m, q, 0),
         NEW r, Slices(r, n - m), ValuesOf(r, n - m, q, m)
  PROVE  Sum(q) = Sum(p) + Sum(r)
<1> DEFINE S == 1..n
           A == 1..m
           C == (m + 1)..n
           B == 1..(n - m)
           f == [k \in S |-> q[k].value]
           fa == [k \in A |-> p[k].value]
           fb == [k \in B |-> r[k].value]
           h == [k \in B |-> m + k]
           i == [k \in A |-> k]
<1>1. PICK iter : Totals(iter, f, S) /\ Sum(q) = iter[S]
  BY SumTotals
<1>2. PICK jter : Totals(jter, fa, A) /\ Sum(p) = jter[A]
  BY SumTotals
<1>3. PICK kter : Totals(kter, fb, B) /\ Sum(r) = kter[B]
  BY SumTotals
<1>0. n \in Nat /\ m \in 0..n
  BY DEF Slices
<1>4. A \in SUBSET S /\ C \in SUBSET S /\ A \cap C = {} /\ A \cup C = S
  BY <1>0
<1>5. Renames(i, A, fa, A, f)
  <2>1. \A x \in A : i[x] = x /\ x \in S /\ f[x] = fa[x]
    <3>1. \A x \in 1..m : x \in 1..n /\ 0 + x = x
      BY <1>0
    <3> QED
      BY <3>1 DEF ValuesOf
  <2> HIDE DEF S, A, f, fa, i
  <2> QED
    BY <2>1 DEF Renames
<1>6. Renames(h, B, fb, C, f)
  <2>1. \A x \in B : h[x] = m + x /\ m + x \in S /\ m + x \in C /\ x \in Int
    BY <1>0
  <2>2. \A y \in C : y - m \in B /\ h[y - m] = y
    BY <1>0
  <2>3. \A x \in B : f[m + x] = fb[x]
    BY <2>1 DEF ValuesOf
  <2> HIDE DEF h, B, C, f, fb, S
  <2>4. \A x, y \in B : m + x = m + y => x = y
    BY <1>0, <2>1
  <2> QED
    BY <2>1, <2>2, <2>3, <2>4 DEF Renames
<1> HIDE DEF S, A, B, C, f, fa, fb, h, i
<1>8. jter[A] = iter[A]
  BY <1>1, <1>2, <1>4, <1>5, SumMoved
<1>9. kter[B] = iter[C]
  BY <1>1, <1>3, <1>4, <1>6, SumMoved
<1>10. iter[A \cup C] = iter[A] + iter[C]
  BY <1>1, <1>4, SumInParts
<1> QED
  BY <1>1, <1>2, <1>3, <1>4, <1>8, <1>9, <1>10

\* One slice, and none.
LEMMA SumOfFew ==
  /\ Sum(<<>>) = 0
  /\ \A x : x.value \in Int => Sum(<<x>>) = x.value
<1>1. Sum(<<>>) = 0
  <2>1. PICK iter : /\ Totals(iter, [k \in 1..0 |-> <<>>[k].value], 1..0)
                    /\ Sum(<<>>) = iter[1..0]
    <3>1. Slices(<<>>, 0)
      BY DEF Slices
    <3> QED
      BY <3>1, SumTotals
  <2>2. 1..0 = {}
    OBVIOUS
  <2> QED
    BY <2>1, <2>2 DEF Adds, Totals
<1>2. ASSUME NEW x, x.value \in Int PROVE Sum(<<x>>) = x.value
  <2> DEFINE q == <<x>>
             S == 1..1
             f == [k \in S |-> q[k].value]
  <2>1. DOMAIN q = S /\ 1 \in Nat /\ \A k \in S : q[k] = x
    OBVIOUS
  <2>2. S = {1} /\ IsFiniteSet(S)
    <3>1. IsFiniteSet(S)
      BY FS_Interval, 1 \in Int, Zenon
    <3> QED
      BY <3>1
  <2> HIDE DEF q
  <2>3. PICK iter : Totals(iter, f, S) /\ Sum(q) = iter[S]
    <3>1. Slices(q, 1)
      BY <1>2, <2>1 DEF Slices
    <3> QED
      BY <3>1, SumTotals
  <2>4. \A k \in S : f[k] = x.value
    BY <2>1
  <2> HIDE DEF f, S
  <2>5. 1 \in S /\ S \in SUBSET S /\ S \ {1} = {}
    BY <2>2
  <2>6. iter[S] = f[1] + iter[S \ {1}]
    BY <2>3, <2>5, AnyOrder DEF Totals
  <2>7. iter[{}] = 0
    BY <2>3 DEF Adds, Totals
  <2>8. Sum(q) = x.value + 0
    BY <2>3, <2>4, <2>5, <2>6, <2>7
  <2> QED
    BY <1>2, <2>8 DEF q
<1> QED
  BY <1>1, <1>2

\* A function over 1..n is a sequence.
LEMMA SequenceOf ==
  ASSUME NEW n \in Nat, NEW X, NEW q \in [1..n -> X]
  PROVE  q \in Seq(X) /\ Len(q) = n
OBVIOUS

\* The array of a pie of n slices, none of them negative.
IsPieData(data, n) ==
  n \in Nat /\ DOMAIN data = 1..n /\ data = [k \in 1..n |-> data[k]]
    /\ \A k \in 1..n : data[k].value \in Nat

\* Sorting it keeps the slices and puts the larger first (chart_sort_pie_array).
LEMMA PieSorted ==
  ASSUME NEW n, NEW data, IsPieData(data, n)
  PROVE  LET b == sort_pie_array(data)
         IN /\ IsPieData(b, n)
            /\ \A j, k \in 1..n : j < k => b[k].value <= b[j].value
            /\ \A k \in 1..n : \E i \in 1..n : b[i] = data[k]
            /\ Sum(b) = Sum(data)
<1> DEFINE S == 1..n
           After(i, j) == data[i].value > data[j].value
                            \/ (data[i].value = data[j].value /\ i > j)
           L == {p \in S \X S : After(p[1], p[2])}
           c == [k \in 1..Cardinality(S) |->
                   CHOOSE r \in S : Cardinality(Before(L, S, r)) = k - 1]
           b == sort_pie_array(data)
<1>1. n \in Nat /\ DOMAIN data = S /\ \A k \in S : data[k].value \in Nat
  BY DEF IsPieData
<1>2. IsFiniteSet(S) /\ Cardinality(S) = n
  BY <1>1, FS_Interval
<1>3. Orders(L, S)
  <2>1. \A i \in S : i \in Int /\ data[i].value \in Int
    BY <1>1
  <2>2. \A i, j, k \in S : /\ ~After(i, i)
                           /\ i = j \/ After(i, j) \/ After(j, i)
                           /\ After(i, j) /\ After(j, k) => After(i, k)
    <3> HIDE DEF S
    <3> QED
      BY <2>1
  <2> HIDE DEF After, S
  <2>3. \A i, j \in S : <<i, j>> \in L <=> After(i, j)
    OBVIOUS
  <2>4. L \subseteq S \X S
    OBVIOUS
  <2> HIDE DEF L
  <2> QED
    BY <2>2, <2>3, <2>4 DEF Orders
<1>4. \A j, i \in S : <<j, i>> \in L <=> After(j, i)
  <2> HIDE DEF After, S
  <2> QED
    OBVIOUS
<1>5. \A i \in S : {j \in S : After(j, i)} = Before(L, S, i)
  <2> HIDE DEF After, S, L
  <2> QED
    BY <1>4 DEF Before
<1>6. b = [k \in S |-> data[CHOOSE i \in S : Cardinality({j \in S : After(j, i)}) = k - 1]]
  BY <1>1 DEF sort_pie_array
<1> DEFINE Next1(k) == CHOOSE i \in S : Cardinality({j \in S : After(j, i)}) = k - 1
           Next2(k) == CHOOSE r \in S : Cardinality(Before(L, S, r)) = k - 1
<1>7. \A k \in S : Next1(k) = Next2(k)
  <2> HIDE DEF After, S, L
  <2> QED
    BY <1>5
<1>8. DOMAIN b = S /\ b = [k \in S |-> b[k]] /\ \A k \in S : b[k] = data[Next1(k)]
  <2> HIDE DEF After, L, S
  <2>1. b = [k \in S |-> data[Next1(k)]]
    BY <1>6
  <2> HIDE DEF b, Next1, Next2
  <2> QED
    BY <2>1
<1>9. \A k \in S : b[k] = data[c[k]]
  <2>1. \A k \in S : c[k] = Next2(k)
    BY <1>2
  <2> HIDE DEF b, c, S, After, L, Next1, Next2
  <2> QED
    BY <1>7, <1>8, <2>1
<1> HIDE DEF After, L, b, Next1, Next2
<1>10. c = [k \in 1..Cardinality(S) |->
              CHOOSE r \in S : Cardinality(Before(L, S, r)) = k - 1]
  OBVIOUS
<1> HIDE DEF c
<1>11. /\ \A k \in S : c[k] \in S
       /\ \A r \in S : \E k \in S : c[k] = r
       /\ \A j, k \in S : c[j] = c[k] => j = k
       /\ \A j, k \in S : j < k <=> <<c[j], c[k]>> \in L
  <2>1. Sorts(c, L, S)
    <3> HIDE DEF S
    <3> QED
      BY <1>2, <1>3, <1>10, Sorted
  <2> QED
    BY <1>2, <2>1 DEF Sorts
<1>12. DOMAIN b = S /\ b = [k \in S |-> b[k]]
  BY <1>8
<1>13. IsPieData(b, n)
  <2>1. \A k \in S : b[k].value \in Nat
    BY <1>1, <1>9, <1>11
  <2> QED
    BY <1>1, <1>12, <2>1 DEF IsPieData
<1>14. ASSUME NEW j \in S, NEW k \in S, j < k PROVE b[k].value <= b[j].value
  <2>1. After(c[j], c[k])
    BY <1>4, <1>11, <1>14
  <2>2. data[c[j]].value \in Nat /\ data[c[k]].value \in Nat
    BY <1>1, <1>11
  <2> QED
    BY <1>9, <2>1, <2>2 DEF After
<1>15. \A k \in S : \E i \in S : b[i] = data[k]
  BY <1>9, <1>11
<1>16. Sum(b) = Sum(data)
  <2>1. Slices(b, n) /\ Slices(data, n)
    BY <1>13 DEF IsPieData, Slices
  <2>2. Reorders(c, b, data, n)
    BY <1>9, <1>11 DEF Reorders
  <2> QED
    BY <2>1, <2>2, SumReordered
<1> QED
  BY <1>13, <1>14, <1>15, <1>16 DEF b

\* As many slices as there are colours, the last for the rest (chart_norm_pie_array).
LEMMA PieNormed ==
  ASSUME NEW n, NEW b, IsPieData(b, n)
  PROVE  \E max \in 0..n, m \in 0..MaxColor :
           LET q == norm_pie_array(b)
           IN /\ IsPieData(q, m) /\ Len(q) = m /\ q \in Seq(Range(q))
              /\ max <= m /\ m <= max + 1
              /\ \A k \in 1..max : q[k] = b[k]
              /\ m > max => q[m].name = "other"
              /\ max < n => max + 1 >= MaxColor
              /\ Sum(q) = Sum(b)
<1> DEFINE max == Min({MaxColor - 1, Len(b)})
           low == SubSeq(b, 1, max)
           high == SubSeq(b, max + 1, Len(b))
           rest == Sum(high)
           other == [name |-> "other", value |-> rest]
           tail == IF rest # 0 THEN <<other>> ELSE <<>>
           q == norm_pie_array(b)
           X == Range(b) \cup {other}
<1>1. /\ n \in Nat /\ DOMAIN b = 1..n /\ b \in [1..n -> X] /\ Len(b) = n
      /\ \A k \in 1..n : b[k] \in X /\ b[k].value \in Nat
  <2>1. n \in Nat /\ DOMAIN b = 1..n /\ b = [k \in 1..n |-> b[k]]
        /\ \A k \in 1..n : b[k].value \in Nat
    BY DEF IsPieData
  <2>2. \A k \in 1..n : b[k] \in X
    BY <2>1 DEF Range
  <2> HIDE DEF X
  <2>3. b \in [1..n -> X]
    BY <2>1, <2>2
  <2> QED
    BY <2>1, <2>2, <2>3, SequenceOf
<1>2. max \in 0..n /\ max < MaxColor /\ (max < n => max + 1 >= MaxColor)
  <2>1. MaxColor - 1 \in Int /\ n \in Int
    BY <1>1, ChartsAssumption DEF ChartsAssumption
  <2>2. max = Min({MaxColor - 1, n})
    BY <1>1
  <2>3. Min({MaxColor - 1, n}) = IF MaxColor - 1 <= n THEN MaxColor - 1 ELSE n
    BY <2>1, MaxOfTwo
  <2> HIDE DEF max
  <2> QED
    BY <1>1, <2>2, <2>3, ChartsAssumption DEF ChartsAssumption
<1> HIDE DEF max
<1>3. /\ low \in Seq(X) /\ Len(low) = max /\ DOMAIN low = 1..max
      /\ \A k \in 1..max : low[k] = b[k]
  <2>1. max \in Int /\ \A k \in 1..max : k \in 1..n
    BY <1>1, <1>2
  <2>2. \A k \in 1..max : b[k] \in X
    BY <1>1, <2>1
  <2> HIDE DEF X
  <2>3. low \in Seq(X) /\ Len(low) = (IF 1 <= max THEN max - 1 + 1 ELSE 0)
        /\ \A k \in 1..(max - 1 + 1) : low[k] = b[1 + k - 1]
    BY <2>1, <2>2, SubSeqProperties
  <2>4. max - 1 + 1 = max /\ \A k \in 1..max : 1 + k - 1 = k
    BY <2>1
  <2>5. Len(low) = max /\ \A k \in 1..max : low[k] = b[k]
    BY <1>2, <2>3, <2>4
  <2> QED
    BY <2>3, <2>5, LenProperties
<1>4. /\ Len(high) = n - max /\ DOMAIN high = 1..(n - max)
      /\ \A k \in 1..(n - max) : high[k] = b[max + k]
  <2>1. max + 1 \in Int /\ n \in Int /\ \A k \in (max + 1)..n : k \in 1..n
    BY <1>1, <1>2
  <2>2. \A k \in (max + 1)..n : b[k] \in X
    BY <1>1, <2>1
  <2> HIDE DEF X
  <2>3. high \in Seq(X) /\ Len(high) = (IF max + 1 <= n THEN n - (max + 1) + 1 ELSE 0)
        /\ \A k \in 1..(n - (max + 1) + 1) : high[k] = b[(max + 1) + k - 1]
    BY <1>1, <2>1, <2>2, SubSeqProperties
  <2>4. n - (max + 1) + 1 = n - max /\ \A k \in 1..(n - max) : (max + 1) + k - 1 = max + k
    BY <1>1, <1>2
  <2>5. Len(high) = n - max /\ \A k \in 1..(n - max) : high[k] = b[max + k]
    BY <1>1, <1>2, <2>3, <2>4
  <2> QED
    BY <2>3, <2>5, LenProperties
<1>5. \A k \in 1..max : low[k].value = b[k].value /\ b[k].value \in Nat
  BY <1>1, <1>2, <1>3
<1> HIDE DEF low, high
<1>6. Sum(b) = Sum(low) + rest
  <2>1. Slices(b, n)
    BY <1>1 DEF Slices
  <2>2. Slices(low, max) /\ ValuesOf(low, max, b, 0)
    <3>1. \A k \in 1..max : 0 + k = k
      OBVIOUS
    <3> QED
      BY <1>2, <1>3, <1>5, <3>1 DEF Slices, ValuesOf
  <2>3. Slices(high, n - max) /\ ValuesOf(high, n - max, b, max)
    <3>1. n - max \in Nat /\ \A k \in 1..(n - max) : max + k \in 1..n
      BY <1>1, <1>2
    <3>2. \A k \in 1..(n - max) : high[k].value \in Int
      BY <1>1, <1>4, <3>1
    <3> QED
      BY <1>4, <3>1, <3>2 DEF Slices, ValuesOf
  <2> QED
    BY <1>2, <2>1, <2>2, <2>3, SumOfBoth DEF rest
<1>7. rest \in Nat /\ Sum(low) \in Int
  <2>1. ASSUME NEW l \in Nat, NEW s, DOMAIN s = 1..l, \A k \in 1..l : s[k].value \in Nat
        PROVE  Sum(s) \in Nat
    <3> DEFINE f == [k \in 1..l |-> s[k].value]
               S == 1..l
    <3>0. Slices(s, l)
      BY <2>1 DEF Slices
    <3>1. PICK iter : Totals(iter, f, S) /\ Sum(s) = iter[S]
      BY <3>0, SumTotals
    <3>2. \A k \in S : f[k] \in Nat
      BY <2>1
    <3> HIDE DEF f, S
    <3> QED
      BY <3>1, <3>2, SumAbove DEF Totals
  <2>2. n - max \in Nat /\ \A k \in 1..(n - max) : max + k \in 1..n
    BY <1>1, <1>2
  <2>3. \A k \in 1..(n - max) : high[k].value \in Nat
    BY <1>1, <1>4, <2>2
  <2> QED
    BY <1>2, <1>3, <1>4, <1>5, <2>1, <2>2, <2>3
<1> HIDE DEF rest
<1>8. q = low \o tail
  BY <1>1 DEF norm_pie_array, max, low, high, rest
<1> HIDE DEF q
<1>9. CASE rest = 0
  <2>1. q = low
    BY <1>3, <1>8, <1>9, ConcatEmptySeq
  <2>2. q \in Seq(Range(q)) /\ q = [k \in 1..max |-> q[k]]
    <3>1. q \in [1..max -> X] /\ DOMAIN q = 1..max /\ max \in Nat
      BY <1>2, <1>3, <2>1, LenProperties
    <3>2. q \in [1..max -> Range(q)]
      BY <3>1 DEF Range
    <3> QED
      BY <3>1, <3>2, SequenceOf
  <2>3. IsPieData(q, max)
    <3>1. max \in Nat /\ \A k \in 1..max : low[k].value \in Nat
      BY <1>2, <1>5
    <3> HIDE DEF X
    <3> QED
      BY <1>3, <2>1, <2>2, <3>1 DEF IsPieData
  <2>4. max \in 0..MaxColor
    BY <1>1, <1>2, ChartsAssumption DEF ChartsAssumption
  <2>5. Sum(q) = Sum(b)
    BY <1>6, <1>7, <1>9, <2>1
  <2>6. max <= max /\ max <= max + 1 /\ ~ max > max
    BY <1>2
  <2> HIDE DEF X
  <2> QED
    BY <1>2, <1>3, <2>1, <2>2, <2>3, <2>4, <2>5, <2>6 DEF q
<1>10. CASE rest # 0
  <2> DEFINE m == max + 1
  <2>1. tail = <<other>> /\ tail \in Seq(X) /\ Len(tail) = 1 /\ tail[1] = other
    BY <1>10
  <2> HIDE DEF X, tail, other
  <2>2. /\ q \in Seq(X) /\ Len(q) = m
        /\ \A k \in 1..m : q[k] = IF k <= max THEN low[k] ELSE tail[k - max]
    BY <1>3, <1>8, <2>1, ConcatProperties
  <2>3. m \in 0..MaxColor /\ m \in Nat /\ m \in 1..m /\ max \in Nat /\ \A k \in 1..max : k \in 1..m
    BY <1>1, <1>2, ChartsAssumption DEF ChartsAssumption
  <2>4. \A k \in 1..max : q[k] = b[k]
    BY <1>3, <2>2, <2>3
  <2>5. q[m] = other
    <3>1. q[m] = tail[m - max] /\ m - max = 1
      BY <2>2, <2>3
    <3> QED
      BY <2>1, <3>1
  <2>6. other.name = "other" /\ other.value = rest
    BY DEF other
  <2>7. q \in Seq(Range(q)) /\ q = [k \in 1..m |-> q[k]] /\ DOMAIN q = 1..m
    <3>1. q \in [1..m -> X] /\ DOMAIN q = 1..m
      BY <2>2, LenProperties
    <3>2. q \in [1..m -> Range(q)]
      BY <3>1 DEF Range
    <3> QED
      BY <2>3, <3>1, <3>2, SequenceOf
  <2>8. \A k \in 1..m : q[k].value \in Nat
    <3>1. \A k \in 1..m : k = m \/ k \in 1..max
      BY <2>3
    <3> QED
      BY <1>5, <1>7, <2>4, <2>5, <2>6, <3>1
  <2>9. IsPieData(q, m)
    BY <2>3, <2>7, <2>8 DEF IsPieData
  <2>10. Sum(q) = Sum(b)
    <3>1. Sum(q) = Sum(low) + Sum(tail)
      <4>1. Slices(q, m)
        BY <2>3, <2>7, <2>8 DEF Slices
      <4>2. max \in 0..m /\ m - max = 1
        BY <2>3
      <4>3. Slices(low, max) /\ ValuesOf(low, max, q, 0)
        <5>1. \A k \in 1..max : 0 + k = k
          OBVIOUS
        <5> HIDE DEF m
        <5> QED
          BY <1>3, <1>5, <2>3, <2>4, <5>1 DEF Slices, ValuesOf
      <4>4. Slices(tail, 1) /\ ValuesOf(tail, 1, q, max)
        <5>1. DOMAIN tail = 1..1
          BY <2>1
        <5>2. \A k \in 1..1 : tail[k] = other /\ q[max + k] = other
          BY <2>1, <2>5
        <5> QED
          BY <1>7, <2>6, <5>1, <5>2 DEF Slices, ValuesOf
      <4> HIDE DEF m
      <4> QED
        BY <4>1, <4>2, <4>3, <4>4, SumOfBoth
    <3>2. Sum(tail) = rest
      BY <1>7, <2>1, <2>6, SumOfFew
    <3> QED
      BY <1>6, <3>1, <3>2
  <2>11. max <= m /\ m <= max + 1
    BY <2>3
  <2> HIDE DEF m
  <2> QED
    BY <1>2, <2>2, <2>3, <2>4, <2>5, <2>6, <2>7, <2>9, <2>10, <2>11 DEF q
<1> QED
  BY <1>9, <1>10

-----------------------------------------------------------------------------
(* Pies: what is drawn.                                                    *)

\* What is not negative has a sum that is not.
LEMMA SumIsNumber ==
  ASSUME NEW n, NEW q, IsPieData(q, n)
  PROVE  Slices(q, n) /\ Sum(q) \in Nat
<1> DEFINE f == [k \in 1..n |-> q[k].value]
           S == 1..n
<1>1. Slices(q, n)
  BY DEF IsPieData, Slices
<1>2. PICK iter : Totals(iter, f, S) /\ Sum(q) = iter[S]
  BY <1>1, SumTotals
<1>3. \A k \in S : f[k] \in Nat
  BY DEF IsPieData
<1> HIDE DEF f, S
<1> QED
  BY <1>1, <1>2, <1>3, SumAbove DEF Totals

\* The first k slices.
First(q, k) == Sum(SubSeq(q, 1, k))

\* One slice more adds what it is worth.
LEMMA OneSliceMore ==
  ASSUME NEW m, NEW q, IsPieData(q, m), q \in Seq(Range(q)), Len(q) = m, NEW k \in 1..m
  PROVE  /\ First(q, k - 1) \in Nat /\ First(q, k) \in Nat
         /\ First(q, k) = First(q, k - 1) + q[k].value
<1>0. m \in Nat /\ k \in Nat /\ k - 1 \in Nat /\ k - 1 \in 0..k /\ k - (k - 1) = 1 /\ 1 + 1 - 1 = 1
  BY DEF IsPieData
<1>1. ASSUME NEW j \in 0..m
      PROVE  LET s == SubSeq(q, 1, j)
             IN IsPieData(s, j) /\ \A i \in 1..j : s[i] = q[i]
  <2> DEFINE s == SubSeq(q, 1, j)
  <2>1. j \in Nat /\ \A i \in 1..j : i \in 1..m /\ q[i].value \in Nat
    BY <1>0 DEF IsPieData
  <2>2. s = [i \in 1..j |-> q[i]]
    BY <1>0, <2>1
  <2> HIDE DEF s
  <2> QED
    BY <2>1, <2>2 DEF IsPieData, s
<1> DEFINE a == SubSeq(q, 1, k)
           b == SubSeq(q, 1, k - 1)
           c == <<q[k]>>
<1>2. IsPieData(a, k) /\ \A i \in 1..k : a[i] = q[i]
  BY <1>0, <1>1
<1>3. IsPieData(b, k - 1) /\ \A i \in 1..(k - 1) : b[i] = q[i]
  BY <1>0, <1>1
<1>4. DOMAIN c = 1..1 /\ c[1] = q[k] /\ q[k].value \in Nat
  BY DEF IsPieData
<1> HIDE DEF a, b, c
<1>5. Slices(a, k) /\ Sum(a) \in Nat /\ Slices(b, k - 1) /\ Sum(b) \in Nat
  BY <1>2, <1>3, SumIsNumber
<1>6. ValuesOf(b, k - 1, a, 0)
  <2>1. \A i \in 1..(k - 1) : i \in 1..k /\ 0 + i = i
    BY <1>0
  <2> QED
    BY <1>2, <1>3, <2>1 DEF ValuesOf
<1>7. Slices(c, k - (k - 1)) /\ ValuesOf(c, k - (k - 1), a, k - 1)
  <2>1. k \in 1..k /\ \A i \in 1..1 : i = 1 /\ (k - 1) + i = k
    BY <1>0
  <2> QED
    BY <1>0, <1>2, <1>4, <2>1 DEF Slices, ValuesOf
<1>8. Sum(a) = Sum(b) + Sum(c)
  BY <1>0, <1>5, <1>6, <1>7, SumOfBoth
<1>9. Sum(c) = q[k].value
  BY <1>4, SumOfFew DEF c
<1> QED
  BY <1>5, <1>8, <1>9 DEF First, a, b

\* An angle is at most a degree beyond the exact one, whatever the doubles make of
\* it: none of nothing, and all around or one degree more of all (chart_create_pie).
LEMMA DegreesBounds ==
  ASSUME NEW part \in Nat, NEW all \in Nat \ {0}
  PROVE  LET d == degrees(part, all)
         IN /\ d \in Nat
            /\ 360 * part <= d * all /\ d * all <= 360 * part + all
            /\ part = 0 => d = 0
            /\ part = all => d \in {360, 361}
<1> DEFINE e == CeilDiv(360 * part, all)
           d == degrees(part, all)
<1>0. 360 * part \in Nat
  OBVIOUS
<1>1. e \in Nat /\ 360 * part <= e * all /\ e * all < 360 * part + all
  BY <1>0, CeilBounds
<1>2. d = e \/ (d = e + 1 /\ e * all = 360 * part /\ <<part, all>> \in RoundsUp)
  BY DEF degrees
<1> HIDE DEF e, d
<1>3. e * all \in Nat /\ (e + 1) * all = e * all + all
  BY <1>1, Product
<1>4. d \in Nat /\ 360 * part <= d * all /\ d * all <= 360 * part + all
  BY <1>0, <1>1, <1>2, <1>3
<1>5. ASSUME part = 0 PROVE d = 0
  <2>1. ASSUME e # 0 PROVE FALSE
    <3>1. e - 1 \in Nat /\ (e - 1 + 1) * all = (e - 1) * all + all /\ (e - 1) * all \in Nat
      BY <1>1, <2>1, Product
    <3>2. e - 1 + 1 = e
      BY <1>1
    <3> QED
      BY <1>1, <1>5, <3>1, <3>2
  <2>2. <<part, all>> \notin RoundsUp
    BY <1>5, ChartsAssumption DEF ChartsAssumption
  <2> QED
    BY <1>2, <2>1, <2>2
<1>6. ASSUME part = all PROVE d \in {360, 361}
  <2>0. 360 * all \in Nat /\ 360 * all <= e * all /\ e * all < 360 * all + all
    BY <1>1, <1>6
  <2>1. ASSUME e < 360 PROVE FALSE
    <3>1. PICK f \in Nat : 360 = e + 1 + f
      BY <1>1, <2>1, 360 = e + 1 + (359 - e), 359 - e \in Nat
    <3>2. (e + 1 + f) * all = (e + 1) * all + f * all /\ f * all \in Nat
      BY <1>1
    <3> DEFINE x == e * all
               y == f * all
    <3>3. (e + 1 + f) * all = x + all + y /\ x \in Nat /\ y \in Nat
      BY <1>3, <3>2
    <3>4. 360 * all = x + all + y /\ 360 * all <= x
      BY <2>0, <3>1, <3>3
    <3> HIDE DEF x, y
    <3> QED
      BY <3>3, <3>4
  <2>2. ASSUME e > 360 PROVE FALSE
    <3>1. PICK f \in Nat : e = 361 + f
      BY <1>1, <2>2, e = 361 + (e - 361), e - 361 \in Nat
    <3>2. (361 + f) * all = 360 * all + all + f * all /\ f * all \in Nat
      OBVIOUS
    <3> QED
      BY <2>0, <3>1, <3>2
  <2> QED
    BY <1>1, <1>2, <2>1, <2>2
<1> QED
  BY <1>4, <1>5, <1>6 DEF d

\* The slices that are drawn share the circle, to a degree.
SharesCircle(pie, m, all) ==
  /\ pie[1].arc[1] = 0 /\ pie[m].arc[2] \in {360, 361}
  /\ \A k \in 1..m :
       (pie[k].arc[2] - pie[k].arc[1]) * all - 360 * pie[k].value \in -all..all
  /\ \A k \in 2..m : pie[k].arc[1] = pie[k - 1].arc[2]

\* Each is drawn between the angles of the slices before it and of itself too.
Angled(pie, q, m) ==
  /\ m \in Nat \ {0} /\ IsPieData(q, m) /\ q \in Seq(Range(q)) /\ Len(q) = m
  /\ Sum(q) \in Nat \ {0}
  /\ \A k \in 1..m :
       /\ pie[k].value = q[k].value
       /\ pie[k].arc = <<degrees(First(q, k - 1), Sum(q)), degrees(First(q, k), Sum(q))>>

\* The angles go from none to all of it, each from where the last ended
\* (chart_create_pie).
LEMMA PieAngles ==
  ASSUME NEW pie, NEW q, NEW m, Angled(pie, q, m)
  PROVE  SharesCircle(pie, m, Sum(q))
<1> DEFINE all == Sum(q)
           angle(k) == degrees(First(q, k), all)
<1>0. /\ m \in Nat \ {0} /\ IsPieData(q, m) /\ q \in Seq(Range(q)) /\ Len(q) = m
      /\ all \in Nat \ {0}
      /\ \A k \in 1..m : pie[k].value = q[k].value /\ pie[k].arc = <<angle(k - 1), angle(k)>>
  BY DEF Angled
<1> HIDE DEF all
<1>1. \A k \in 1..m : pie[k].arc[1] = angle(k - 1) /\ pie[k].arc[2] = angle(k)
  BY <1>0
<1>2. angle(0) = 0
  <2>1. SubSeq(q, 1, 0) = <<>>
    BY SubSeqEmpty, 1 \in Int, 0 \in Int
  <2>2. First(q, 0) = 0
    BY <2>1, SumOfFew DEF First
  <2> QED
    BY <1>0, <2>2, DegreesBounds
<1>3. angle(m) \in {360, 361}
  <2>1. SubSeq(q, 1, m) = q
    BY <1>0, SubSeqFull
  <2>2. First(q, m) = all
    BY <2>1 DEF First, all
  <2> QED
    BY <1>0, <2>2, DegreesBounds
<1>4. ASSUME NEW k \in 1..m
      PROVE  (pie[k].arc[2] - pie[k].arc[1]) * all - 360 * pie[k].value \in -all..all
  <2> DEFINE f == First(q, k - 1)
             g == First(q, k)
             v == q[k].value
             d == angle(k - 1)
             e == angle(k)
  <2>1. f \in Nat /\ g \in Nat /\ g = f + v /\ v \in Nat
    BY <1>0, OneSliceMore DEF IsPieData
  <2>2. d = degrees(f, all) /\ e = degrees(g, all)
    OBVIOUS
  <2> HIDE DEF d, e, f, g, v
  <2>3. /\ d \in Nat /\ 360 * f <= d * all /\ d * all <= 360 * f + all
        /\ e \in Nat /\ 360 * g <= e * all /\ e * all <= 360 * g + all
    <3>1. all \in Nat \ {0} /\ f \in Nat /\ g \in Nat
      BY <1>0, <2>1
    <3>2. /\ degrees(f, all) \in Nat
          /\ 360 * f <= degrees(f, all) * all /\ degrees(f, all) * all <= 360 * f + all
      BY <3>1, DegreesBounds
    <3>3. /\ degrees(g, all) \in Nat
          /\ 360 * g <= degrees(g, all) * all /\ degrees(g, all) * all <= 360 * g + all
      BY <3>1, DegreesBounds
    <3> QED
      BY <2>2, <3>2, <3>3, Zenon
  <2>4. pie[k].arc[1] = d /\ pie[k].arc[2] = e /\ pie[k].value = v
    BY <1>0, <1>1 DEF d, e, v
  <2> DEFINE x == d * all
             y == e * all
  <2>5. (e - d) * all = y - x /\ x \in Nat /\ y \in Nat
    <3>1. d \in Nat /\ e \in Nat /\ all \in Nat
      BY <1>0, <2>3
    <3> QED
      BY <3>1, SMTT(30)
  <2>6. 360 * f <= x /\ x <= 360 * f + all /\ 360 * g <= y /\ y <= 360 * g + all
    BY <2>3
  <2> HIDE DEF x, y
  <2>7. (y - x) - 360 * v \in -all..all
    <3>1. all \in Nat /\ x \in Nat /\ y \in Nat
      BY <1>0, <2>5
    <3>2. 360 * g = 360 * f + 360 * v
      BY <2>1
    <3> QED
      BY <2>1, <2>6, <3>1, <3>2
  <2> QED
    BY <2>4, <2>5, <2>7
<1> HIDE DEF angle
<1>5. ASSUME NEW k \in 2..m PROVE pie[k].arc[1] = pie[k - 1].arc[2]
  <2>1. k \in 1..m /\ k - 1 \in 1..m
    BY <1>0
  <2> QED
    BY <1>1, <2>1
<1>6. 1 \in 1..m /\ m \in 1..m
  BY <1>0
<1>7. pie[1].arc[1] = angle(1 - 1) /\ pie[m].arc[2] = angle(m) /\ 1 - 1 = 0
  BY <1>1, <1>6
<1> QED
  BY <1>2, <1>3, <1>4, <1>5, <1>7 DEF SharesCircle, all

\* The slices of a pie go round the circle, the largest first, and what does not get
\* one of its own is in the last.
WholePie(data, pie) ==
  /\ Len(pie) \in 1..MaxColor
  /\ SharesCircle(pie, Len(pie), Sum(data))
  /\ \A k \in 2..Len(pie) : pie[k].name # "other" => pie[k].value <= pie[k - 1].value
  /\ \A s \in Range(data), p \in Range(pie) :
       p.name # "other" /\ s.name \notin {x.name : x \in Range(pie)} => s.value <= p.value
  /\ Sum(pie) = Sum(data)

\* What chart_create_pie draws is such a pie, if there is anything to share.
LEMMA PieDrawn ==
  ASSUME NEW n, NEW data, IsPieData(data, n), Sum(data) > 0
  PROVE  WholePie(data, create_pie(data))
<1> DEFINE b == sort_pie_array(data)
           q == norm_pie_array(b)
           all == Sum(q)
           angle(k) == degrees(First(q, k), all)
           pie == create_pie(data)
<1>1. /\ IsPieData(b, n)
      /\ \A j, k \in 1..n : j < k => b[k].value <= b[j].value
      /\ \A k \in 1..n : \E i \in 1..n : b[i] = data[k]
      /\ Sum(b) = Sum(data)
  BY PieSorted
<1> HIDE DEF b
<1>2. PICK max \in 0..n, m \in 0..MaxColor :
        /\ IsPieData(q, m) /\ Len(q) = m /\ q \in Seq(Range(q))
        /\ max <= m /\ m <= max + 1
        /\ \A k \in 1..max : q[k] = b[k]
        /\ m > max => q[m].name = "other"
        /\ max < n => max + 1 >= MaxColor
        /\ Sum(q) = Sum(b)
  BY <1>1, PieNormed
<1>3. pie = [k \in DOMAIN q |->
               [name |-> q[k].name, value |-> q[k].value, color |-> k - 1,
                arc |-> IF all = 0 THEN <<>> ELSE <<angle(k - 1), angle(k)>>]]
  BY DEF create_pie, b, First
<1> HIDE DEF q
<1>4. n \in Nat /\ m \in Nat /\ max \in Nat /\ DOMAIN q = 1..m /\ DOMAIN data = 1..n
  BY <1>2 DEF IsPieData
<1>5. all \in Nat \ {0} /\ all = Sum(data)
  <2>1. all \in Nat
    BY <1>2, SumIsNumber
  <2> HIDE DEF all
  <2> QED
    BY <1>1, <1>2, <2>1 DEF all
<1>6. m # 0
  <2> SUFFICES ASSUME m = 0 PROVE FALSE
    OBVIOUS
  <2>1. q = <<>>
    BY <1>2, EmptySeq
  <2> QED
    BY <1>5, <2>1, SumOfFew
<1>7. /\ DOMAIN pie = 1..m
      /\ \A k \in 1..m : /\ pie[k].name = q[k].name /\ pie[k].value = q[k].value
                         /\ pie[k].arc = <<angle(k - 1), angle(k)>>
  <2> HIDE DEF all, angle, pie
  <2> QED
    BY <1>3, <1>4, <1>5
<1>8. Len(pie) = m
  <2> DEFINE R == Range(pie)
  <2>1. pie = [k \in 1..m |-> pie[k]]
    BY <1>3, <1>4
  <2> HIDE DEF pie
  <2>2. pie \in [1..m -> R]
    BY <1>7, <2>1 DEF Range
  <2> HIDE DEF R
  <2> QED
    BY <1>4, <2>2, SequenceOf
<1>9. SharesCircle(pie, m, Sum(data))
  <2> HIDE DEF pie
  <2>1. \A k \in 1..m :
          /\ pie[k].value = q[k].value
          /\ pie[k].arc = <<degrees(First(q, k - 1), Sum(q)), degrees(First(q, k), Sum(q))>>
    BY <1>7
  <2>2. m \in Nat \ {0} /\ Sum(q) \in Nat \ {0}
    BY <1>4, <1>5, <1>6
  <2>3. Angled(pie, q, m)
    BY <1>2, <2>1, <2>2 DEF Angled
  <2>4. SharesCircle(pie, m, Sum(q)) /\ Sum(q) = Sum(data)
    BY <1>5, <2>3, PieAngles
  <2> QED
    BY <2>4
<1> HIDE DEF pie, all, angle
<1>10. \A k \in 1..m : (k = m /\ m > max) \/ k \in 1..max
  BY <1>2, <1>4
<1>11. \A k \in 1..m : pie[k].name # "other" => k \in 1..max
  BY <1>2, <1>7, <1>10
<1>12. \A k \in 1..max : /\ k \in 1..m /\ k \in 1..n /\ pie[k].name = b[k].name
                         /\ pie[k].value = b[k].value
  <2>1. \A k \in 1..max : k \in 1..m /\ k \in 1..n
    BY <1>2, <1>4
  <2> QED
    BY <1>2, <1>7, <2>1
<1>13. ASSUME NEW k \in 2..m, pie[k].name # "other" PROVE pie[k].value <= pie[k - 1].value
  <2>1. k \in 1..m /\ k \in Int
    BY <1>4
  <2>2. k \in 1..max /\ k - 1 \in 1..max /\ k - 1 < k
    BY <1>4, <1>11, <1>13, <2>1
  <2>3. k \in 1..n /\ k - 1 \in 1..n /\ b[k].value <= b[k - 1].value
    BY <1>1, <1>12, <2>2
  <2> QED
    BY <1>12, <2>2, <2>3
<1>14. ASSUME NEW s \in Range(data), NEW p \in Range(pie), p.name # "other",
              s.name \notin {x.name : x \in Range(pie)}
       PROVE  s.value <= p.value
  <2>1. PICK i \in 1..n : b[i] = s
    BY <1>1, <1>4 DEF Range
  <2>2. PICK j \in 1..m : p = pie[j]
    BY <1>7 DEF Range
  <2>3. j \in 1..max /\ p.value = b[j].value /\ j \in 1..n
    BY <1>11, <1>12, <1>14, <2>2
  <2>4. i \notin 1..max
    <3> SUFFICES ASSUME i \in 1..max PROVE FALSE
      OBVIOUS
    <3>1. pie[i].name = s.name /\ pie[i] \in Range(pie)
      BY <1>7, <1>12, <2>1 DEF Range
    <3> QED
      BY <1>14, <3>1
  <2>5. j < i
    BY <1>4, <2>3, <2>4
  <2> QED
    BY <1>1, <2>1, <2>3, <2>5
<1>15. Sum(pie) = Sum(data)
  <2> DEFINE h == [k \in 1..m |-> k]
  <2>1. Reorders(h, pie, q, m)
    BY <1>7 DEF Reorders
  <2>2. Slices(q, m)
    BY <1>2, SumIsNumber
  <2>3. Slices(pie, m)
    BY <1>7, <2>2 DEF Slices
  <2> HIDE DEF h
  <2> QED
    BY <1>5, <2>1, <2>2, <2>3, SumReordered DEF all
<1>16. m \in 1..MaxColor
  BY <1>2, <1>4, <1>6
<1>17. WholePie(data, pie)
  BY <1>8, <1>9, <1>13, <1>14, <1>15, <1>16 DEF WholePie
<1> QED
  BY <1>17 DEF pie

-----------------------------------------------------------------------------
(* Pies: what is asked.                                                    *)

\* Texts that are sorted have a place each.
LEMMA PlacesDiffer ==
  ASSUME NEW x \in Range(Collation), NEW y \in Range(Collation)
  PROVE  Place(x) \in Int /\ (Place(x) = Place(y) => x = y)
<1>1. DOMAIN Collation = 1..Len(Collation)
  BY QueriesAssumption, LenProperties DEF QueriesAssumption
<1>2. ASSUME NEW z \in Range(Collation) PROVE Place(z) \in Int /\ Collation[Place(z)] = z
  <2>1. \E k \in DOMAIN Collation : Collation[k] = z
    BY DEF Range
  <2>2. Place(z) \in DOMAIN Collation /\ Collation[Place(z)] = z
    BY <2>1 DEF Place
  <2> QED
    BY <1>1, <2>2
<1> QED
  BY <1>2

\* Records of hosts, one for each, with a figure.
Hosts(S, col) ==
  /\ IsFiniteSet(S)
  /\ \A r \in S : r[col] \in Nat /\ r.host \in Range(Collation)
  /\ \A r, s \in S : r.host = s.host => r = s

\* Sorted by the figure and the host, they are the rows of the answer.
LEMMA HostsSorted ==
  ASSUME NEW S, NEW col, col \notin {"host", "uri", "script"}, Hosts(S, col), NEW tp
  PROVE  By(S, col, "host", tp) \in [1..Cardinality(S) -> S]
<1> DEFINE Lt(r, s) == r[col] < s[col] \/ (r[col] = s[col] /\ Place(r.host) < Place(s.host))
           Bf(r, s) == IF tp = 1 THEN Lt(r, s) ELSE Lt(s, r)
           L == {p \in S \X S : Bf(p[1], p[2])}
           b == By(S, col, "host", tp)
<1>1. \A r \in S : r[col] \in Int /\ Place(r.host) \in Int
  BY PlacesDiffer DEF Hosts
<1>2. \A r, s \in S : Place(r.host) = Place(s.host) => r = s
  BY PlacesDiffer DEF Hosts
<1>3. \A r, s, t \in S : /\ ~Lt(r, r)
                         /\ r = s \/ Lt(r, s) \/ Lt(s, r)
                         /\ Lt(r, s) /\ Lt(s, t) => Lt(r, t)
  BY <1>1, <1>2
<1> HIDE DEF Lt
<1>4. \A r, s, t \in S : /\ ~Bf(r, r)
                         /\ r = s \/ Bf(r, s) \/ Bf(s, r)
                         /\ Bf(r, s) /\ Bf(s, t) => Bf(r, t)
  BY <1>3
<1> HIDE DEF Bf
<1>5. L \subseteq S \X S /\ \A r, s \in S : <<r, s>> \in L <=> Bf(r, s)
  OBVIOUS
<1> HIDE DEF L
<1>6. Orders(L, S)
  BY <1>4, <1>5 DEF Orders
<1>7. \A r \in S : {s \in S : Bf(s, r)} = Before(L, S, r)
  BY <1>5 DEF Before
<1>8. b = [k \in 1..Cardinality(S) |->
             CHOOSE r \in S : Cardinality({s \in S : Bf(s, r)}) = k - 1]
  <2> DEFINE key(r) == <<Key(col, r[col]), Key("host", r["host"])>>
             Less(x, y) == x[1] < y[1] \/ (x[1] = y[1] /\ x[2] < y[2])
             In(r, s) == IF tp = 1 THEN Less(key(r), key(s)) ELSE Less(key(s), key(r))
  <2>1. b = [k \in 1..Cardinality(S) |->
               CHOOSE r \in S : Cardinality({s \in S : In(s, r)}) = k - 1]
    BY Zenon DEF By, Ordered
  <2>2. \A r : key(r)[1] = r[col] /\ key(r)[2] = Place(r.host)
    BY DEF Key
  <2> HIDE DEF key
  <2>3. \A r, s : In(r, s) <=> Bf(r, s)
    BY <2>2 DEF Bf, Lt
  <2> HIDE DEF In
  <2>4. \A r : {s \in S : In(s, r)} = {s \in S : Bf(s, r)}
    BY <2>3
  <2> QED
    BY <2>1, <2>4, Zenon
<1>9. \A k : (CHOOSE r \in S : Cardinality({s \in S : Bf(s, r)}) = k - 1)
               = CHOOSE r \in S : Cardinality(Before(L, S, r)) = k - 1
  BY <1>7
<1>10. b = [k \in 1..Cardinality(S) |-> CHOOSE r \in S : Cardinality(Before(L, S, r)) = k - 1]
  BY <1>8, <1>9, Zenon
<1>11. IsFiniteSet(S)
  BY DEF Hosts
<1> HIDE DEF b
<1>12. Sorts(b, L, S)
  BY <1>6, <1>10, <1>11, Sorted
<1> QED
  BY <1>12 DEF b, Sorts

\* A total of what is not negative is not negative.
LEMMA TotalIsNumber ==
  ASSUME NEW G, IsFiniteSet(G), NEW col, \A r \in G : r[col] \in Nat
  PROVE  Total(G, col) \in Nat
<1> DEFINE f == [r \in G |-> r[col]]
           Q(iter) == iter = [s \in SUBSET G |->
                        IF s = {} THEN 0
                        ELSE (CHOOSE x \in s : TRUE)[col] + iter[s \ {CHOOSE x \in s : TRUE}]]
           c == [s \in SUBSET G |-> CHOOSE x \in s : TRUE]
<1>1. Total(G, col) = (CHOOSE iter : Q(iter))[G]
  BY Zenon DEF Total, MapThenSumSet, MapThenFoldSet
<1>2. \A s \in SUBSET G : s # {} => c[s] \in s
  OBVIOUS
<1>3. \A s \in SUBSET G : c[s] = CHOOSE x \in s : TRUE
  OBVIOUS
<1> HIDE DEF c
<1>4. \A s \in SUBSET G : s # {} => f[c[s]] = (CHOOSE x \in s : TRUE)[col]
  BY <1>2, <1>3
<1>5. \A x \in G : f[x] \in Nat
  OBVIOUS
<1> HIDE DEF f
<1>6. \A iter : SumsBy(iter, G, f, c) <=> Q(iter)
  <2>1. ASSUME NEW iter
        PROVE  [s \in SUBSET G |-> IF s = {} THEN 0 ELSE f[c[s]] + iter[s \ {c[s]}]]
                 = [s \in SUBSET G |->
                      IF s = {} THEN 0
                      ELSE (CHOOSE x \in s : TRUE)[col] + iter[s \ {CHOOSE x \in s : TRUE}]]
    BY <1>3, <1>4
  <2> QED
    BY <2>1 DEF SumsBy
<1> HIDE DEF Q
<1>7. \A x \in G : f[x] \in Int
  BY <1>5
<1>8. Q(CHOOSE iter : Q(iter))
  BY <1>2, <1>6, <1>7, SumExists
<1> DEFINE iter == CHOOSE iter : Q(iter)
<1>9. Adds(iter, f, G)
  <2>1. SumsBy(iter, G, f, c)
    BY <1>6, <1>8
  <2> HIDE DEF iter
  <2> QED
    BY <1>2, <1>7, <2>1, SumExists
<1> HIDE DEF iter
<1>10. iter[G] \in Nat
  BY <1>5, <1>9, SumAbove
<1> QED
  BY <1>1, <1>10 DEF iter

\* The rows of W that have the host of r.
HostRows(W, r) == {s \in W : s.host = r.host}

\* The groups are those.
LEMMA GroupsOfHosts ==
  ASSUME NEW W, IsFiniteSet(W)
  PROVE  /\ HostGroups(W) = {HostRows(W, r) : r \in W}
         /\ \A r \in W : LET G == HostRows(W, r)
                         IN /\ HostOf(G) = r.host /\ IsFiniteSet(G) /\ G \subseteq W
                            /\ Cardinality(G) \in Nat \ {0}
<1>1. HostGroups(W) = {HostRows(W, r) : r \in W}
  BY DEF HostGroups, Groups, HostRows
<1>2. ASSUME NEW r \in W
      PROVE  LET G == HostRows(W, r)
             IN /\ HostOf(G) = r.host /\ IsFiniteSet(G) /\ G \subseteq W
                /\ Cardinality(G) \in Nat \ {0}
  <2> DEFINE G == HostRows(W, r)
  <2>1. r \in G /\ G \in SUBSET W /\ \A s \in G : s.host = r.host
    BY DEF HostRows
  <2> HIDE DEF G
  <2>2. IsFiniteSet(G)
    BY <2>1, FS_Subset
  <2>3. Cardinality(G) \in Nat /\ Cardinality(G) # 0
    BY <2>1, <2>2, FS_CardinalityType, FS_EmptySet
  <2>4. (CHOOSE s \in G : TRUE) \in G
    BY <2>1
  <2>5. HostOf(G) = r.host
    BY <2>1, <2>4 DEF HostOf
  <2> QED
    BY <2>1, <2>2, <2>3, <2>5 DEF G
<1> QED
  BY <1>1, <1>2

\* What is made of each group is one record for each host.
LEMMA OneForEachHost ==
  ASSUME NEW W, IsFiniteSet(W), NEW f, NEW col, DOMAIN f = W, f = [r \in W |-> f[r]],
         \A r \in W : /\ f[r].host = r.host /\ r.host \in Range(Collation) /\ f[r][col] \in Nat
                      /\ \A s \in W : s.host = r.host => f[s] = f[r]
  PROVE  Hosts({f[r] : r \in W}, col)
<1> DEFINE S == {f[r] : r \in W}
<1>1. IsFiniteSet(S)
  BY ImageFinite
<1>2. \A x \in S : x[col] \in Nat /\ x.host \in Range(Collation)
  OBVIOUS
<1>3. \A x, y \in S : x.host = y.host => x = y
  OBVIOUS
<1> QED
  BY <1>1, <1>2, <1>3, Zenon DEF Hosts

\* The shares of the hosts are numbers (sql_adapter_get_host_text_info_picture).
LEMMA SharesType ==
  ASSUME NEW W, IsFiniteSet(W), \A r \in W : Figured(r)
  PROVE  Hosts(HostShares(W), "prc")
<1> DEFINE P(G) == [host |-> HostOf(G), prc |-> (Units * 100 * Cardinality(G)) \div Cardinality(W),
                    count |-> Cardinality(G)]
           f == [r \in W |-> P(HostRows(W, r))]
<1>1. HostShares(W) = {P(G) : G \in HostGroups(W)}
  BY DEF HostShares
<1>2. ASSUME NEW r \in W PROVE P(HostRows(W, r)).prc \in Nat
  <2> DEFINE c == Cardinality(HostRows(W, r))
             n == Cardinality(W)
             x == Units * 100 * c
  <2>1. c \in Nat
    BY GroupsOfHosts
  <2>2. n \in Nat \ {0}
    BY FS_CardinalityType, FS_EmptySet
  <2> HIDE DEF c, n
  <2>3. x \in Nat
    BY <2>1 DEF Units
  <2> HIDE DEF x
  <2>4. x \div n \in Nat
    BY <2>2, <2>3, QuotientBounds
  <2> QED
    BY <2>4 DEF x, n, c
<1>3. \A r \in W : P(HostRows(W, r)).host = r.host
  BY GroupsOfHosts
<1> HIDE DEF P
<1>4. DOMAIN f = W /\ f = [r \in W |-> f[r]] /\ \A r \in W : f[r] = P(HostRows(W, r))
  OBVIOUS
<1>5. {f[r] : r \in W} = HostShares(W)
  BY <1>1, GroupsOfHosts
<1> HIDE DEF f
<1>6. \A r, s \in W : s.host = r.host => HostRows(W, s) = HostRows(W, r)
  BY DEF HostRows
<1>7. \A r \in W : /\ f[r].host = r.host /\ r.host \in Range(Collation) /\ f[r]["prc"] \in Nat
                   /\ \A s \in W : s.host = r.host => f[s] = f[r]
  BY <1>2, <1>3, <1>4, <1>6 DEF Figured
<1>8. Hosts({f[r] : r \in W}, "prc")
  BY <1>4, <1>7, OneForEachHost
<1> QED
  BY <1>5, <1>8

\* An average of what is not negative is not negative.
LEMMA AverageIsNumber ==
  ASSUME NEW G, IsFiniteSet(G), Cardinality(G) \in Nat \ {0}, NEW col,
         \A r \in G : r[col] \in Nat
  PROVE  Average(G, col) \in Nat
<1> DEFINE x == Units * Total(G, col)
<1>1. x \in Nat
  BY TotalIsNumber DEF Units
<1> HIDE DEF x
<1>2. x \div Cardinality(G) \in Nat
  BY <1>1, QuotientBounds
<1> QED
  BY <1>2 DEF Average, x

\* So are the averages of the hosts (sql_adapter_get_avg_text_info_picture).
LEMMA AveragesType ==
  ASSUME NEW W, IsFiniteSet(W), \A r \in W : Figured(r),
         NEW col \in {"cpu", "memory", "bytes_read", "bytes_write"}
  PROVE  Hosts(HostAverages(W), col)
<1> DEFINE P(G) == [k \in Range(Averages) |-> IF k = "host" THEN HostOf(G) ELSE Average(G, k)]
           f == [r \in W |-> P(HostRows(W, r))]
<1>1. HostAverages(W) = {P(G) : G \in HostGroups(W)}
  BY DEF HostAverages
<1>0. "host" \in Range(Averages) /\ col \in Range(Averages)
  <2>1. DOMAIN Averages = 1..6
    BY DEF Averages
  <2>2. /\ Averages[1] = "host" /\ Averages[2] = "cpu" /\ Averages[3] = "memory"
        /\ Averages[5] = "bytes_read" /\ Averages[6] = "bytes_write"
    BY DEF Averages
  <2>3. 1 \in 1..6 /\ 2 \in 1..6 /\ 3 \in 1..6 /\ 5 \in 1..6 /\ 6 \in 1..6
    OBVIOUS
  <2> QED
    BY <2>1, <2>2, <2>3 DEF Range
<1>2. ASSUME NEW r \in W PROVE P(HostRows(W, r))[col] \in Nat
  <2> DEFINE G == HostRows(W, r)
  <2>1. IsFiniteSet(G) /\ G \subseteq W /\ Cardinality(G) \in Nat \ {0}
    BY GroupsOfHosts
  <2> HIDE DEF G
  <2>2. \A s \in G : s[col] \in Nat
    BY <2>1 DEF Figured
  <2>3. Average(G, col) \in Nat
    BY <2>1, <2>2, AverageIsNumber
  <2>4. P(G)[col] = Average(G, col)
    BY <1>0
  <2> QED
    BY <2>3, <2>4 DEF G
<1>3. \A r \in W : P(HostRows(W, r)).host = r.host
  BY <1>0, GroupsOfHosts
<1> HIDE DEF P
<1>4. DOMAIN f = W /\ f = [r \in W |-> f[r]] /\ \A r \in W : f[r] = P(HostRows(W, r))
  OBVIOUS
<1>5. {f[r] : r \in W} = HostAverages(W)
  BY <1>1, GroupsOfHosts
<1> HIDE DEF f
<1>6. \A r, s \in W : s.host = r.host => HostRows(W, s) = HostRows(W, r)
  BY DEF HostRows
<1>7. \A r \in W : /\ f[r].host = r.host /\ r.host \in Range(Collation) /\ f[r][col] \in Nat
                   /\ \A s \in W : s.host = r.host => f[s] = f[r]
  BY <1>2, <1>3, <1>4, <1>6 DEF Figured
<1>8. Hosts({f[r] : r \in W}, col)
  BY <1>4, <1>7, OneForEachHost
<1> QED
  BY <1>5, <1>8

\* The array of a pie, of one figure of each row (show_row3_data, show_row4_data).
SlicesOf(rows, col) == [k \in DOMAIN rows |-> [name |-> rows[k].host, value |-> rows[k][col]]]

\* An answer with records of hosts, or with nothing, makes an array for a pie.
LEMMA PieDataOf ==
  ASSUME NEW S, NEW col, Hosts(S, col),
         NEW rows, rows = <<>> \/ rows \in [1..Cardinality(S) -> S]
  PROVE  \E n : IsPieData(SlicesOf(rows, col), n)
<1> DEFINE data == SlicesOf(rows, col)
<1>1. PICK n \in Nat : DOMAIN rows = 1..n /\ \A k \in 1..n : rows[k] \in S
  <2>1. CASE rows = <<>>
    <3>1. DOMAIN rows = 1..0 /\ 1..0 = {}
      BY <2>1
    <3> QED
      BY <3>1
  <2>2. CASE rows \in [1..Cardinality(S) -> S]
    <3>1. Cardinality(S) \in Nat
      BY FS_CardinalityType DEF Hosts
    <3> QED
      BY <2>2, <3>1
  <2> QED
    BY <2>1, <2>2
<1>2. DOMAIN data = 1..n /\ \A k \in 1..n : data[k].value = rows[k][col]
  BY <1>1 DEF SlicesOf
<1>3. data = [k \in 1..n |-> data[k]]
  BY <1>1 DEF SlicesOf
<1>4. \A k \in 1..n : data[k].value \in Nat
  BY <1>1, <1>2 DEF Hosts
<1> HIDE DEF data
<1>5. IsPieData(data, n)
  BY <1>2, <1>3, <1>4 DEF IsPieData
<1> QED
  BY <1>5 DEF data

\* By which average the answer for a pie is sorted.
PieSort(info) == CASE info = 13 -> 2 [] info = 14 -> 3 [] info = 15 -> 5 [] OTHER -> 6

\* The pictures that are pies, and what they are made of (form_page_content).
LEMMA PictureOfPie ==
  ASSUME NEW q, q.info \in {11, 13, 14, 15, 16}, NEW a, NEW ans
  PROVE  LET p == Picture(q, ans)
             W == Where(table, a, db, now)
         IN /\ p.drawn = create_pie(p.data)
            /\ q.info = 11 =>
                 /\ p.data = SlicesOf(ans.rows, "prc")
                 /\ PictureQuery(q, a) = Answers(By(HostShares(W), "prc", "host", 0), db)
            /\ q.info # 11 =>
                 /\ p.data = SlicesOf(ans.rows, "cpu")
                 /\ PictureQuery(q, a)
                      = Answers(By(HostAverages(W), Averages[PieSort(q.info)], "host", 1), db)
<1> DEFINE p == Picture(q, ans)
           W == Where(table, a, db, now)
           average == Answers(By(HostAverages(W), Averages[PieSort(q.info)], "host", 1), db)
           D(col) == SlicesOf(ans.rows, col)
<1>1. show_row3_data(ans.rows) = D("prc") /\ show_row4_data(ans.rows, 0) = D("cpu")
  <2>1. Figures[0 + 1] = "cpu"
    BY DEF Figures
  <2> QED
    BY <2>1 DEF show_row3_data, show_row4_data, SlicesOf
<1>2. \A w, data : Pie(w, data).data = data /\ Pie(w, data).drawn = create_pie(data)
  BY DEF Pie
<1>3. CASE q.info = 11
  <2>1. p = Pie("requests", D("prc"))
    BY <1>1, <1>3 DEF Picture, show_host_graph_page
  <2>2. PictureQuery(q, a) = Answers(By(HostShares(W), "prc", "host", 0), db)
    BY <1>3 DEF PictureQuery, get_host_text_info_picture
  <2> HIDE DEF p, D
  <2>3. p.data = D("prc") /\ p.drawn = create_pie(p.data)
    BY <1>2, <2>1
  <2> QED
    BY <1>3, <2>2, <2>3 DEF p, D
<1>4. CASE q.info \in {13, 14, 15, 16}
  <2>1. \E w : p = Pie(w, D("cpu"))
    BY <1>1, <1>4 DEF Picture, show_host_average_graph_cpu, show_host_average_graph_mem,
                      show_host_average_graph_ioread, show_host_average_graph_iowrite
  <2>2. PictureQuery(q, a) = average
    BY <1>4 DEF PictureQuery, PieSort, get_avg_text_info_picture
  <2> HIDE DEF p, D
  <2>3. p.data = D("cpu") /\ p.drawn = create_pie(p.data)
    BY <1>2, <2>1
  <2> QED
    BY <1>4, <2>2, <2>3 DEF p, D
<1> QED
  BY <1>3, <1>4

\* A pie on the screen is drawn of such an array.
PieInv ==
  Pictured({11, 13, 14, 15, 16}) =>
    /\ \E n : IsPieData(screen.pic.data, n)
    /\ screen.pic.drawn = create_pie(screen.pic.data)

\* Drawing a picture makes it so.
LEMMA PieLook ==
  ASSUME IInv, RowsInv, FiguresInv, NEW q \in PageQueries, Look(q)
  PROVE  PieInv'
<1> DEFINE a == common_report_part_no_show(q)
           W == Where(table, a, db, now)
           Pies == {11, 13, 14, 15, 16}
<1>1. PICK ans \in PictureQuery(q, a) :
        screen' = IF ans.err THEN Shown(q, a, ans)
                  ELSE [kind |-> "picture", q |-> q, a |-> a, pic |-> Picture(q, ans)]
  BY DEF Look
<1>2. CASE ans.err
  BY <1>1, <1>2 DEF Shown, PieInv, Pictured
<1>3. CASE q.info \notin Pies
  <2>1. screen'.kind = "picture" => screen'.q = q
    BY <1>1 DEF Shown
  <2> QED
    BY <1>3, <2>1 DEF PieInv, Pictured
<1>4. CASE ~ans.err /\ q.info \in Pies
  <2> DEFINE p == Picture(q, ans)
  <2>1. IsFiniteSet(W) /\ \A r \in W : Figured(r)
    <3>1. W \subseteq table
      BY RowByRow
    <3>2. IsFiniteSet(W)
      BY <3>1, FS_Subset DEF RowsInv, InOrderSaved, Numbered
    <3> HIDE DEF W
    <3> QED
      BY <3>1, <3>2 DEF FiguresInv
  <2>2. p.drawn = create_pie(p.data)
    BY <1>4, PictureOfPie
  <2>3. \E n : IsPieData(p.data, n)
    <3>1. CASE q.info = 11
      <4> DEFINE S == HostShares(W)
                 b == By(S, "prc", "host", 0)
      <4>1. p.data = SlicesOf(ans.rows, "prc") /\ ans \in Answers(b, db)
        BY <1>1, <3>1, PictureOfPie
      <4>2. Hosts(S, "prc")
        BY <2>1, SharesType
      <4> HIDE DEF S
      <4>3. b \in [1..Cardinality(S) -> S]
        BY <4>2, HostsSorted
      <4> HIDE DEF b, p
      <4>4. ans.rows = <<>> \/ ans.rows = b
        BY <1>4, <4>1, WholeAnswer
      <4> QED
        BY <4>1, <4>2, <4>3, <4>4, PieDataOf
    <3>2. CASE q.info # 11
      <4> DEFINE S == HostAverages(W)
                 col == Averages[PieSort(q.info)]
                 b == By(S, col, "host", 1)
      <4>1. p.data = SlicesOf(ans.rows, "cpu") /\ ans \in Answers(b, db)
        BY <1>1, <1>4, <3>2, PictureOfPie
      <4>2. col \in {"cpu", "memory", "bytes_read", "bytes_write"}
        BY <1>4, <3>2 DEF PieSort, Averages
      <4> HIDE DEF col
      <4>3. Hosts(S, col) /\ Hosts(S, "cpu")
        BY <2>1, <4>2, AveragesType
      <4> HIDE DEF S
      <4>4. b \in [1..Cardinality(S) -> S]
        BY <4>2, <4>3, HostsSorted
      <4> HIDE DEF b, p
      <4>5. ans.rows = <<>> \/ ans.rows = b
        BY <1>4, <4>1, WholeAnswer
      <4> QED
        BY <4>1, <4>3, <4>4, <4>5, PieDataOf
    <3> QED
      BY <3>1, <3>2
  <2> HIDE DEF p
  <2>4. screen'.pic = p
    BY <1>1, <1>4 DEF p
  <2> QED
    BY <2>2, <2>3, <2>4 DEF PieInv
<1> QED
  BY <1>2, <1>3, <1>4

\* No other step changes what is drawn.
LEMMA PieInvNext == IInv /\ RowsInv /\ FiguresInv /\ PieInv /\ [Next]_vars => PieInv'
<1> SUFFICES ASSUME IInv, RowsInv, FiguresInv, PieInv, [Next]_vars PROVE PieInv'
  OBVIOUS
<1>1. CASE screen'.kind # "picture"
  BY <1>1 DEF PieInv, Pictured
<1>2. CASE UNCHANGED screen
  BY <1>2 DEF PieInv, Pictured
<1> QED
  BY <1>1, <1>2, StepsToPicture, PieLook

\* The slices of a pie go round the circle once, to a degree, whatever the doubles
\* make of its angles: each begins where the last one ended and is as wide as its
\* share, the largest first, no two in one colour, and what does not get one of its
\* own is in the last (chart_norm_pie_array, chart_create_pie).
THEOREM PieRight == Spec => []PieIsWhole
<1>1. Init => PieInv
  BY DEF Init, Blank, PieInv, Pictured
<1>2. PieInv => PieIsWhole
  <2> DEFINE data == screen.pic.data
             pie == screen.pic.drawn
  <2> SUFFICES ASSUME PieInv, Pictured({11, 13, 14, 15, 16}), Sum(data) > 0
               PROVE  WholePie(data, pie)
    BY DEF PieIsWhole, WholePie, SharesCircle
  <2>1. PICK n : IsPieData(data, n)
    BY DEF PieInv
  <2>2. pie = create_pie(data)
    BY DEF PieInv
  <2> HIDE DEF data, pie
  <2> QED
    BY <2>1, <2>2, PieDrawn
<1>3. IInv /\ FiguresInv /\ [Next]_vars => FiguresInv'
  BY FiguresNext
<1> QED
  BY <1>1, <1>2, <1>3, PieInvNext, FiguresInit, Invariant, WalkInvariant, PTL DEF Spec

-----------------------------------------------------------------------------
(* Execution times: what is counted once.                                  *)

\* Each of W is counted in one of the records R, the one that rec says.
Counts(R, W, rec) ==
  /\ IsFiniteSet(R) /\ IsFiniteSet(W)
  /\ \A w \in W : rec[w] \in R
  /\ \A x \in R : x.count = Cardinality({w \in W : rec[w] = x})

\* The counts add up to all of W.
LEMMA CountsAll ==
  ASSUME NEW R, NEW W, NEW rec, Counts(R, W, rec),
         NEW f, \A x \in R : f[x] = x.count, NEW iter, Totals(iter, f, R)
  PROVE  iter[R] = Cardinality(W)
<1> DEFINE Part(t) == {w \in W : rec[w] \in t}
           P == {t \in SUBSET R : iter[t] = Cardinality(Part(t))}
<1>1. \A t \in SUBSET R : IsFiniteSet(Part(t)) /\ Cardinality(Part(t)) \in Nat
  <2> TAKE t \in SUBSET R
  <2>1. Part(t) \in SUBSET W
    OBVIOUS
  <2> HIDE DEF Part
  <2> QED
    BY <2>1, FS_Subset, FS_CardinalityType DEF Counts
<1>2. {} \in P
  <2>1. Part({}) = {}
    OBVIOUS
  <2> QED
    BY <2>1, FS_EmptySet DEF Totals, Adds
<1>3. ASSUME NEW t \in SUBSET R, t # {}, \A x \in t : t \ {x} \in P PROVE t \in P
  <2>1. PICK x \in t : TRUE
    BY <1>3
  <2>2. iter[t] = f[x] + iter[t \ {x}]
    BY AnyOrder DEF Totals
  <2>3. f[x] = Cardinality(Part({x}))
    <3>1. Part({x}) = {w \in W : rec[w] = x}
      OBVIOUS
    <3> QED
      BY <3>1 DEF Counts
  <2>4. iter[t \ {x}] = Cardinality(Part(t \ {x}))
    BY <1>3
  <2>5. Part(t) = Part({x}) \cup Part(t \ {x}) /\ Part({x}) \cap Part(t \ {x}) = {}
    OBVIOUS
  <2>6. {x} \in SUBSET R /\ t \ {x} \in SUBSET R
    OBVIOUS
  <2> HIDE DEF Part
  <2>7. Cardinality(Part(t)) = Cardinality(Part({x})) + Cardinality(Part(t \ {x})) - Cardinality({})
    BY <1>1, <2>5, <2>6, FS_Union
  <2> QED
    BY <1>1, <2>2, <2>3, <2>4, <2>6, <2>7, FS_EmptySet
<1>4. IsFiniteSet(R)
  BY DEF Counts
<1> HIDE DEF P
<1>5. SUBSET R \subseteq P
  BY <1>2, <1>3, <1>4, SubsetInduction
<1>6. iter[R] = Cardinality(Part(R))
  BY <1>5 DEF P
<1>7. Part(R) = W
  BY DEF Counts
<1> QED
  BY <1>6, <1>7

\* The sum of the counts of some rows.
CountsOf(rows) == FoldLeft(LAMBDA n, r : n + r.count, 0, rows)

\* Sorted in whatever way, the records count all of W.
LEMMA RowsCountAll ==
  ASSUME NEW R, NEW W, NEW rec, Counts(R, W, rec), NEW L, NEW rows, Sorts(rows, L, R)
  PROVE  CountsOf(rows) = Cardinality(W)
<1> DEFINE n == Cardinality(R)
           S == 1..n
           data == [k \in S |-> [value |-> rows[k].count]]
           f == [k \in S |-> data[k].value]
           g == [x \in R |-> x.count]
           c == [s \in SUBSET R |-> CHOOSE x \in s : TRUE]
<1>1. IsFiniteSet(R) /\ n \in Nat /\ \A x \in R : x.count \in Nat
  <2>1. ASSUME NEW x \in R PROVE Cardinality({w \in W : rec[w] = x}) \in Nat
    <3>1. {w \in W : rec[w] = x} \in SUBSET W
      OBVIOUS
    <3> QED
      BY <3>1, FS_Subset, FS_CardinalityType DEF Counts
  <2> QED
    BY <2>1, FS_CardinalityType DEF Counts
<1>2. rows \in [S -> R] /\ DOMAIN rows = S
  BY DEF Sorts
<1> HIDE DEF n
<1>3. Slices(data, n)
  BY <1>1, <1>2 DEF Slices
<1>4. CountsOf(rows) = Sum(data)
  <2>1. DOMAIN data = S /\ \A k \in S : data[k].value = rows[k].count
    OBVIOUS
  <2> HIDE DEF data
  <2> DEFINE A(iter) == iter = [s \in SUBSET S |->
                          IF s = {} THEN 0 ELSE iter[s \ {Max(s)}] + rows[Max(s)].count]
             B(iter) == iter = [s \in SUBSET S |->
                          IF s = {} THEN 0 ELSE iter[s \ {Max(s)}] + data[Max(s)].value]
  <2>2. CountsOf(rows) = (CHOOSE iter : A(iter))[S]
    BY <1>2, Zenon DEF CountsOf, FoldLeft, MapThenFoldSet
  <2>3. Sum(data) = (CHOOSE iter : B(iter))[S]
    BY <2>1, Zenon DEF Sum, FoldLeft, MapThenFoldSet
  <2>4. \A s \in SUBSET S : s # {} => Max(s) \in S
    <3>1. IsFiniteSet(S)
      BY <1>1, FS_Interval, 1 \in Int, n \in Int
    <3>2. S \subseteq Int
      BY <1>1
    <3> HIDE DEF S
    <3>3. ASSUME NEW s \in SUBSET S, s # {} PROVE Max(s) \in S
      <4>1. IsFiniteSet(s) /\ s \subseteq Int
        BY <3>1, <3>2, FS_Subset
      <4>2. Max(s) \in s
        BY <3>3, <4>1, Extremes
      <4> QED
        BY <4>2
    <3> QED
      BY <3>3
  <2> HIDE DEF S
  <2>5. \A iter : A(iter) <=> B(iter)
    <3>1. \A s \in SUBSET S : s # {} => data[Max(s)].value = rows[Max(s)].count
      BY <2>1, <2>4
    <3>2. ASSUME NEW iter
          PROVE  [s \in SUBSET S |-> IF s = {} THEN 0 ELSE iter[s \ {Max(s)}] + rows[Max(s)].count]
                   = [s \in SUBSET S |-> IF s = {} THEN 0 ELSE iter[s \ {Max(s)}] + data[Max(s)].value]
      BY <3>1
    <3> QED
      BY <3>2
  <2> HIDE DEF A, B
  <2>6. (CHOOSE iter : A(iter)) = (CHOOSE iter : B(iter))
    BY <2>5
  <2> QED
    BY <2>2, <2>3, <2>6
<1>5. PICK iter : Totals(iter, f, S) /\ Sum(data) = iter[S]
  BY <1>3, SumTotals
<1>6. /\ \A x \in R : g[x] \in Int /\ g[x] = x.count
      /\ \A s \in SUBSET R : s # {} => c[s] \in s
  BY <1>1
<1>7. \A k \in S : f[k] = g[rows[k]]
  BY <1>2
<1> HIDE DEF f, g, c, data
<1>8. PICK jter : Totals(jter, g, R)
  BY <1>1, <1>6, SumExists DEF Totals
<1>9. Renames(rows, S, f, R, g)
  <2>1. \A k \in S : rows[k] \in R /\ \A j \in S : rows[k] = rows[j] => k = j
    BY <1>2 DEF Sorts, n
  <2>2. \A x \in R : \E k \in S : rows[k] = x
    BY DEF Sorts, n
  <2> QED
    BY <1>7, <2>1, <2>2 DEF Renames
<1>10. iter[S] = jter[R]
  BY <1>5, <1>8, <1>9, SumMoved
<1>11. jter[R] = Cardinality(W)
  BY <1>6, <1>8, CountsAll
<1> QED
  BY <1>4, <1>5, <1>10, <1>11

-----------------------------------------------------------------------------
(* Execution times: the pages.                                             *)

\* What a time may be labelled with.
Marks == Labels \cup {Null}

\* The label of a time is one of them.
LEMMA LabelType ==
  ASSUME NEW time
  PROVE  Label(time) \in Marks
BY DEF Label, Marks, Labels

\* A row for some requests counts them.
LEMMA RangeOf ==
  ASSUME NEW G, NEW host, NEW w \in G, \A s \in G : Label(s.exc_time) = Label(w.exc_time)
  PROVE  LET r == Range10(G, host)
         IN r.host = host /\ r.b1 = Label(w.exc_time) /\ r.count = Cardinality(G)
<1>1. (CHOOSE r \in G : TRUE) \in G
  OBVIOUS
<1> QED
  BY <1>1 DEF Range10

\* The requests of a host with the label of a request's time.
AlikeOfHost(W, r) == {s \in W : s.host = r.host /\ Label(s.exc_time) = Label(r.exc_time)}

\* The row that is made of them.
RangeOfHost(W, r) == Range10(AlikeOfHost(W, r), r.host)

\* The rows of the page by host: those of the requests and the headings.
TimesOf(W) == {RangeOfHost(W, r) : r \in W} \cup {Heading(r.host) : r \in W}

\* They are what the query selects (sql_adapter_get_exec_tm).
LEMMA TimesSelected ==
  ASSUME NEW W
  PROVE  {Range10(G, HostOf(G)) : G \in Groups(W, LAMBDA r : <<r.host, Label(r.exc_time)>>)}
           \cup {Heading(r.host) : r \in W}
         = TimesOf(W)
<1> DEFINE In(r) == {s \in W : <<s.host, Label(s.exc_time)>> = <<r.host, Label(r.exc_time)>>}
           p(G) == Range10(G, HostOf(G))
<1>1. Groups(W, LAMBDA r : <<r.host, Label(r.exc_time)>>) = {In(r) : r \in W}
  BY DEF Groups
<1>2. \A r \in W : In(r) = AlikeOfHost(W, r)
  BY DEF AlikeOfHost
<1> HIDE DEF In
<1>3. \A r \in W : p(In(r)) = RangeOfHost(W, r)
  <2> TAKE r \in W
  <2>1. HostOf(AlikeOfHost(W, r)) = r.host
    <3> DEFINE G == AlikeOfHost(W, r)
    <3>1. r \in G /\ \A s \in G : s.host = r.host
      BY DEF AlikeOfHost
    <3> HIDE DEF G
    <3>2. (CHOOSE s \in G : TRUE) \in G
      BY <3>1
    <3>3. HostOf(G) = r.host
      BY <3>1, <3>2 DEF HostOf
    <3> QED
      BY <3>3 DEF G
  <2> QED
    BY <1>2, <2>1 DEF RangeOfHost
<1> HIDE DEF p
<1>4. {p(G) : G \in {In(r) : r \in W}} = {RangeOfHost(W, r) : r \in W}
  BY <1>3
<1> QED
  BY <1>1, <1>4, Zenon DEF p, TimesOf

\* The rows that are made of requests.
LEMMA RangesOfHosts ==
  ASSUME NEW W, IsFiniteSet(W), NEW r \in W
  PROVE  LET x == RangeOfHost(W, r)
         IN /\ x.host = r.host /\ x.b1 = Label(r.exc_time)
            /\ x.count = Cardinality(AlikeOfHost(W, r)) /\ x.count \in Nat \ {0}
<1> DEFINE G == AlikeOfHost(W, r)
<1>1. r \in G /\ G \in SUBSET W /\ \A s \in G : Label(s.exc_time) = Label(r.exc_time)
  BY DEF AlikeOfHost
<1> HIDE DEF G
<1>2. IsFiniteSet(G)
  BY <1>1, FS_Subset
<1>3. Cardinality(G) \in Nat \ {0}
  BY <1>1, <1>2, FS_CardinalityType, FS_EmptySet
<1>4. LET x == Range10(G, r.host)
      IN x.host = r.host /\ x.b1 = Label(r.exc_time) /\ x.count = Cardinality(G)
  BY <1>1, RangeOf
<1> QED
  BY <1>3, <1>4 DEF RangeOfHost, G

\* A row has a host and a label, or it is the heading of a host; it counts what it
\* is made of; no two are alike in host, label and count.
LEMMA TimesType ==
  ASSUME NEW W, IsFiniteSet(W), \A r \in W : Figured(r)
  PROVE  /\ \A x \in TimesOf(W) : /\ x.host \in Range(Collation) /\ x.b1 \in Range(Collation)
                                  /\ x.count \in Nat /\ Heading(x.host) \in TimesOf(W)
                                  /\ x = Heading(x.host) \/ x.b1 \in Marks
         /\ \A x, y \in TimesOf(W) : x.host = y.host /\ x.b1 = y.b1 /\ x.count = y.count => x = y
         /\ Counts(TimesOf(W), W, [r \in W |-> RangeOfHost(W, r)])
<1> DEFINE R == TimesOf(W)
           f == [r \in W |-> RangeOfHost(W, r)]
           g == [r \in W |-> Heading(r.host)]
<1>1. \A h : Heading(h).host = h /\ Heading(h).b1 = h /\ Heading(h).count = 0
  BY DEF Heading
<1>2. \A r \in W : /\ f[r].host = r.host /\ f[r].b1 = Label(r.exc_time)
                   /\ f[r].count = Cardinality(AlikeOfHost(W, r)) /\ f[r].count \in Nat \ {0}
  BY RangesOfHosts
<1>3. /\ DOMAIN f = W /\ f = [r \in W |-> f[r]] /\ DOMAIN g = W /\ g = [r \in W |-> g[r]]
      /\ \A r \in W : g[r] = Heading(r.host)
      /\ R = {f[r] : r \in W} \cup {g[r] : r \in W}
  BY DEF TimesOf
<1>4. \A r, s \in W : s \in AlikeOfHost(W, r) <=> s.host = r.host /\ Label(s.exc_time) = Label(r.exc_time)
  BY DEF AlikeOfHost
<1>5. \A r, s \in W : r.host = s.host /\ Label(r.exc_time) = Label(s.exc_time) => f[r] = f[s]
  BY DEF RangeOfHost, AlikeOfHost
<1> HIDE DEF f, g, R
<1>6. IsFiniteSet(R)
  <2>1. IsFiniteSet({f[r] : r \in W}) /\ IsFiniteSet({g[r] : r \in W})
    BY <1>3, ImageFinite
  <2> QED
    BY <1>3, <2>1, FS_Union
<1>7. ASSUME NEW x \in R
      PROVE  (\E r \in W : x = f[r]) \/ (\E r \in W : x = Heading(r.host))
  BY <1>3
<1>8. \A r \in W : /\ r.host \in Range(Collation) /\ Heading(r.host) \in R /\ f[r] \in R
                   /\ Label(r.exc_time) \in Marks
  BY <1>3, LabelType DEF Figured
<1>9. Marks \subseteq Range(Collation)
  BY QueriesAssumption DEF QueriesAssumption, Marks
<1>10. ASSUME NEW x \in R
       PROVE  /\ x.host \in Range(Collation) /\ x.b1 \in Range(Collation)
              /\ x.count \in Nat /\ Heading(x.host) \in R
              /\ x = Heading(x.host) \/ x.b1 \in Marks
  <2>1. CASE \E r \in W : x = f[r]
    BY <1>2, <1>8, <1>9, <2>1
  <2>2. CASE \E r \in W : x = Heading(r.host)
    BY <1>1, <1>8, <2>2
  <2> QED
    BY <1>7, <2>1, <2>2
<1>11. ASSUME NEW x \in R, NEW y \in R, x.host = y.host, x.b1 = y.b1, x.count = y.count
       PROVE  x = y
  <2>1. CASE x.count = 0
    <3>1. (\E r \in W : x = Heading(r.host)) /\ \E r \in W : y = Heading(r.host)
      BY <1>2, <1>7, <1>11, <2>1
    <3> QED
      BY <1>1, <1>11, <3>1
  <2>2. CASE x.count # 0
    <3>1. (\E r \in W : x = f[r]) /\ \E r \in W : y = f[r]
      BY <1>1, <1>7, <1>11, <2>2
    <3> QED
      BY <1>2, <1>5, <1>11, <3>1
  <2> QED
    BY <2>1, <2>2
<1>12. ASSUME NEW x \in R PROVE x.count = Cardinality({w \in W : f[w] = x})
  <2>1. CASE \E r \in W : x = f[r]
    <3>1. PICK r \in W : x = f[r]
      BY <2>1
    <3>2. \A w \in W : f[w] = x <=> w \in AlikeOfHost(W, r)
      BY <1>2, <1>4, <1>5, <3>1
    <3>3. AlikeOfHost(W, r) \subseteq W
      BY DEF AlikeOfHost
    <3>4. {w \in W : f[w] = x} = AlikeOfHost(W, r)
      BY <3>2, <3>3
    <3> QED
      BY <1>2, <3>1, <3>4
  <2>2. CASE \E r \in W : x = Heading(r.host)
    <3>1. x.count = 0
      BY <1>1, <2>2
    <3>2. {w \in W : f[w] = x} = {}
      BY <1>2, <3>1
    <3> QED
      BY <3>1, <3>2, FS_EmptySet
  <2> QED
    BY <1>7, <2>1, <2>2
<1>13. Counts(R, W, f)
  BY <1>6, <1>8, <1>12 DEF Counts
<1> QED
  BY <1>10, <1>11, <1>13 DEF R, f

\* The requests with the label of a request's time, for the page of all hosts.
Alike(W, r) == {s \in W : Label(s.exc_time) = Label(r.exc_time)}

\* The row that is made of those.
RangeOfAll(W, r) == Range10(Alike(W, r), Null)

\* The rows of that page.
CommonTimes(W) == {RangeOfAll(W, r) : r \in W}

\* They are what the query selects (sql_adapter_get_exec_tm_common).
LEMMA CommonSelected ==
  ASSUME NEW W
  PROVE  {Range10(G, Null) : G \in Groups(W, LAMBDA r : Label(r.exc_time))} = CommonTimes(W)
<1>1. Groups(W, LAMBDA r : Label(r.exc_time)) = {Alike(W, r) : r \in W}
  BY DEF Groups, Alike
<1> QED
  BY <1>1 DEF CommonTimes, RangeOfAll

\* There is one row for a label, and it counts what it is made of.
LEMMA CommonType ==
  ASSUME NEW W, IsFiniteSet(W)
  PROVE  /\ \A x \in CommonTimes(W) : x.b1 \in Range(Collation)
         /\ \A x, y \in CommonTimes(W) : x.b1 = y.b1 => x = y
         /\ Counts(CommonTimes(W), W, [r \in W |-> RangeOfAll(W, r)])
<1> DEFINE R == CommonTimes(W)
           f == [r \in W |-> RangeOfAll(W, r)]
<1>1. \A r \in W : f[r].b1 = Label(r.exc_time) /\ f[r].count = Cardinality(Alike(W, r))
  <2> TAKE r \in W
  <2> DEFINE G == Alike(W, r)
  <2>1. r \in G /\ \A s \in G : Label(s.exc_time) = Label(r.exc_time)
    BY DEF Alike
  <2> HIDE DEF G
  <2>2. Range10(G, Null).b1 = Label(r.exc_time) /\ Range10(G, Null).count = Cardinality(G)
    BY <2>1, RangeOf
  <2> QED
    BY <2>2 DEF RangeOfAll, G
<1>2. DOMAIN f = W /\ f = [r \in W |-> f[r]] /\ R = {f[r] : r \in W}
  BY DEF CommonTimes
<1>3. \A r, s \in W : Label(r.exc_time) = Label(s.exc_time) => f[r] = f[s]
  BY DEF RangeOfAll, Alike
<1> HIDE DEF f, R
<1>4. IsFiniteSet(R)
  BY <1>2, ImageFinite
<1>5. \A x \in R : x.b1 \in Range(Collation)
  BY <1>1, <1>2, LabelType, QueriesAssumption DEF QueriesAssumption, Marks
<1>6. \A x, y \in R : x.b1 = y.b1 => x = y
  BY <1>1, <1>2, <1>3
<1>7. ASSUME NEW x \in R PROVE x.count = Cardinality({w \in W : f[w] = x})
  <2>1. PICK r \in W : x = f[r]
    BY <1>2
  <2>2. {w \in W : f[w] = x} = Alike(W, r)
    BY <1>1, <1>3, <2>1 DEF Alike
  <2> QED
    BY <1>1, <2>1, <2>2
<1>8. Counts(R, W, f)
  BY <1>2, <1>4, <1>7 DEF Counts
<1> QED
  BY <1>5, <1>6, <1>8 DEF R, f

\* The order of the page by host.
ByHostThenLabel(S) == {p \in S \X S : HostThenLabel(p[1], p[2])}

\* The page by host is sorted so.
LEMMA TimesSorted ==
  ASSUME NEW W, IsFiniteSet(W), \A r \in W : Figured(r)
  PROVE  Sorts(Ordered(TimesOf(W), HostThenLabel), ByHostThenLabel(TimesOf(W)), TimesOf(W))
<1> DEFINE S == TimesOf(W)
           L == ByHostThenLabel(S)
           b == Ordered(S, HostThenLabel)
<1>1. /\ \A x \in S : Place(x.host) \in Int /\ Place(x.b1) \in Int /\ x.count \in Int
      /\ \A x, y \in S : Place(x.host) = Place(y.host) => x.host = y.host
      /\ \A x, y \in S : Place(x.b1) = Place(y.b1) => x.b1 = y.b1
      /\ \A x, y \in S : x.host = y.host /\ x.b1 = y.b1 /\ x.count = y.count => x = y
  <2>1. /\ \A x \in S : /\ x.host \in Range(Collation) /\ x.b1 \in Range(Collation)
                         /\ x.count \in Nat
        /\ \A x, y \in S : x.host = y.host /\ x.b1 = y.b1 /\ x.count = y.count => x = y
    BY TimesType
  <2> HIDE DEF S
  <2> QED
    BY <2>1, PlacesDiffer
<1>2. IsFiniteSet(S)
  BY TimesType DEF Counts
<1>3. \A x, y \in S : <<x, y>> \in L <=> HostThenLabel(x, y)
  BY DEF ByHostThenLabel
<1>4. L \subseteq S \X S
  BY DEF ByHostThenLabel
<1> HIDE DEF S, L
<1>5. \A x, y, z \in S : /\ ~HostThenLabel(x, x)
                         /\ x = y \/ HostThenLabel(x, y) \/ HostThenLabel(y, x)
                         /\ HostThenLabel(x, y) /\ HostThenLabel(y, z) => HostThenLabel(x, z)
  BY <1>1 DEF HostThenLabel
<1>6. Orders(L, S)
  BY <1>3, <1>4, <1>5 DEF Orders
<1>7. b = [k \in 1..Cardinality(S) |->
             CHOOSE r \in S : Cardinality({s \in S : HostThenLabel(s, r)}) = k - 1]
  BY Zenon DEF Ordered
<1>8. \A k : (CHOOSE r \in S : Cardinality({s \in S : HostThenLabel(s, r)}) = k - 1)
               = CHOOSE r \in S : Cardinality(Before(L, S, r)) = k - 1
  <2>1. \A r \in S : {s \in S : HostThenLabel(s, r)} = Before(L, S, r)
    BY <1>3 DEF Before
  <2> QED
    BY <2>1
<1>9. b = [k \in 1..Cardinality(S) |-> CHOOSE r \in S : Cardinality(Before(L, S, r)) = k - 1]
  BY <1>7, <1>8, Zenon
<1> HIDE DEF b
<1>10. Sorts(b, L, S)
  BY <1>2, <1>6, <1>9, Sorted
<1> QED
  BY <1>10 DEF b, L, S

\* The order of the page of all hosts.
ByLabel(S) == {p \in S \X S : Place(p[1].b1) < Place(p[2].b1)}

\* The page of all hosts is sorted so.
LEMMA CommonSorted ==
  ASSUME NEW W, IsFiniteSet(W)
  PROVE  Sorts(Ordered(CommonTimes(W), LAMBDA r, s : Place(r.b1) < Place(s.b1)),
               ByLabel(CommonTimes(W)), CommonTimes(W))
<1> DEFINE S == CommonTimes(W)
           L == ByLabel(S)
           b == Ordered(S, LAMBDA r, s : Place(r.b1) < Place(s.b1))
<1>1. /\ \A x \in S : Place(x.b1) \in Int
      /\ \A x, y \in S : Place(x.b1) = Place(y.b1) => x = y
  BY CommonType, PlacesDiffer
<1>2. IsFiniteSet(S)
  BY CommonType DEF Counts
<1>3. L \subseteq S \X S /\ \A x, y \in S : <<x, y>> \in L <=> Place(x.b1) < Place(y.b1)
  BY DEF ByLabel
<1> HIDE DEF S, L
<1>4. Orders(L, S)
  BY <1>1, <1>3 DEF Orders
<1>5. b = [k \in 1..Cardinality(S) |->
             CHOOSE r \in S : Cardinality({s \in S : Place(s.b1) < Place(r.b1)}) = k - 1]
  BY Zenon DEF Ordered
<1>6. \A k : (CHOOSE r \in S : Cardinality({s \in S : Place(s.b1) < Place(r.b1)}) = k - 1)
               = CHOOSE r \in S : Cardinality(Before(L, S, r)) = k - 1
  <2>1. \A r \in S : {s \in S : Place(s.b1) < Place(r.b1)} = Before(L, S, r)
    BY <1>3 DEF Before
  <2> QED
    BY <2>1
<1>7. b = [k \in 1..Cardinality(S) |-> CHOOSE r \in S : Cardinality(Before(L, S, r)) = k - 1]
  BY <1>5, <1>6, Zenon
<1> HIDE DEF b
<1>8. Sorts(b, L, S)
  BY <1>2, <1>4, <1>7, Sorted
<1> QED
  BY <1>8 DEF b, L, S

\* Below the last heading at or before it, each row has its own host, if the host
\* sorts behind the labels.
UnderHeading(rows) ==
  \A k \in DOMAIN rows :
    (\A l \in Marks : Place(rows[k].host) > Place(l)) =>
      LET heads == {j \in 1..k : rows[j].b1 = rows[j].host}
      IN heads # {} /\ rows[Max(heads)].host = rows[k].host

\* The page by host is like that.
LEMMA TimesUnderHeading ==
  ASSUME NEW W, IsFiniteSet(W), \A r \in W : Figured(r),
         NEW rows, Sorts(rows, ByHostThenLabel(TimesOf(W)), TimesOf(W))
  PROVE  UnderHeading(rows)
<1> DEFINE S == TimesOf(W)
           n == Cardinality(S)
           hosts(k) == rows[k].host
<1>1. /\ rows \in [1..n -> S]
      /\ \A x \in S : \E k \in 1..n : rows[k] = x
      /\ \A j, k \in 1..n : j < k <=> HostThenLabel(rows[j], rows[k])
  <2>1. \A x, y \in S : <<x, y>> \in ByHostThenLabel(S) <=> HostThenLabel(x, y)
    BY DEF ByHostThenLabel
  <2>2. /\ rows \in [1..n -> S]
        /\ \A x \in S : \E k \in 1..n : rows[k] = x
        /\ \A j, k \in 1..n : j < k <=> <<rows[j], rows[k]>> \in ByHostThenLabel(S)
    BY DEF Sorts
  <2> HIDE DEF S, n
  <2> QED
    BY <2>1, <2>2
<1>2. /\ \A x \in S : /\ Place(x.host) \in Int /\ Place(x.b1) \in Int
                      /\ Heading(x.host) \in S /\ (x = Heading(x.host) \/ x.b1 \in Marks)
      /\ \A x, y \in S : Place(x.host) = Place(y.host) => x.host = y.host
  BY TimesType, PlacesDiffer
<1>3. IsFiniteSet(S) /\ n \in Nat
  BY TimesType, FS_CardinalityType DEF Counts
<1> HIDE DEF S, n
<1>4. ASSUME NEW k \in 1..n, \A l \in Marks : Place(rows[k].host) > Place(l)
      PROVE  LET heads == {j \in 1..k : rows[j].b1 = rows[j].host}
             IN heads # {} /\ rows[Max(heads)].host = rows[k].host
  <2> DEFINE h == rows[k].host
             heads == {j \in 1..k : rows[j].b1 = rows[j].host}
             m == Max(heads)
  <2>1. rows[k] \in S /\ Heading(h) \in S
    BY <1>1, <1>2
  <2>2. PICK j \in 1..n : rows[j] = Heading(h)
    BY <1>1, <2>1
  <2>3. rows[j].host = h /\ rows[j].b1 = h
    BY <2>2 DEF Heading
  <2>4. j <= k
    <3>1. CASE rows[k] = Heading(h)
      <4>1. ~HostThenLabel(rows[k], rows[j])
        <5>1. j < j <=> HostThenLabel(rows[j], rows[j])
          BY <1>1
        <5> QED
          BY <1>3, <2>2, <3>1, <5>1
      <4> QED
        BY <1>1, <1>3, <4>1
    <3>2. CASE rows[k].b1 \in Marks
      <4>1. Place(rows[j].b1) > Place(rows[k].b1)
        BY <1>4, <2>3, <3>2
      <4>2. HostThenLabel(rows[j], rows[k])
        BY <2>3, <4>1 DEF HostThenLabel
      <4> QED
        BY <1>1, <1>3, <4>2
    <3> QED
      BY <1>2, <2>1, <3>1, <3>2
  <2>5. j \in heads
    BY <1>3, <2>3, <2>4
  <2>6. m \in heads /\ j <= m
    <3>1. heads \in SUBSET Int /\ IsFiniteSet(heads)
      <4>1. k \in Int /\ 1 \in Int
        BY <1>3
      <4>2. IsFiniteSet(1..k)
        BY <4>1, FS_Interval
      <4>3. heads \in SUBSET (1..k)
        OBVIOUS
      <4>4. heads \in SUBSET Int
        BY <4>1, <4>3
      <4> HIDE DEF heads
      <4> QED
        BY <4>2, <4>3, <4>4, FS_Subset
    <3> HIDE DEF heads
    <3> QED
      BY <2>5, <3>1, Extremes DEF m
  <2>7. m \in 1..n /\ m <= k
    BY <1>3, <2>6
  <2> HIDE DEF m, heads
  <2>8. \A x, y \in 1..n : x < y => Place(rows[x].host) <= Place(rows[y].host)
    <3> TAKE x, y \in 1..n
    <3>1. rows[x] \in S /\ rows[y] \in S
      BY <1>1
    <3>2. x < y => HostThenLabel(rows[x], rows[y])
      BY <1>1
    <3> QED
      BY <1>2, <3>1, <3>2 DEF HostThenLabel
  <2>9. \A x, y \in 1..n : x <= y => Place(rows[x].host) <= Place(rows[y].host)
    <3> TAKE x, y \in 1..n
    <3>1. x < y => Place(rows[x].host) <= Place(rows[y].host)
      BY <2>8
    <3>2. Place(rows[x].host) \in Int /\ Place(rows[y].host) \in Int
      BY <1>1, <1>2
    <3> QED
      BY <1>3, <3>1, <3>2
  <2>10. Place(rows[j].host) <= Place(rows[m].host) /\ Place(rows[m].host) <= Place(h)
    BY <2>6, <2>7, <2>9
  <2>11. rows[m].host = h
    <3>1. rows[m] \in S /\ rows[k] \in S
      BY <1>1, <2>7
    <3>2. Place(rows[m].host) = Place(h)
      BY <1>2, <2>1, <2>3, <2>10, <3>1
    <3> QED
      BY <1>2, <3>1, <3>2
  <2> QED
    BY <2>5, <2>11 DEF m, heads
<1>5. DOMAIN rows = 1..n
  BY <1>1
<1> QED
  BY <1>4, <1>5 DEF UnderHeading

\* The query of each page of execution times.
LEMMA PageOfTimes ==
  ASSUME NEW q, NEW a
  PROVE  LET W == Where(table, a, db, now)
         IN /\ q.info = 20 => Page(q, a) = Answers(Ordered(TimesOf(W), HostThenLabel), db)
            /\ q.info = 33 =>
                 Page(q, a) = Answers(Ordered(CommonTimes(W),
                                        LAMBDA r, s : Place(r.b1) < Place(s.b1)), db)
<1> DEFINE W == Where(table, a, db, now)
           T == {Range10(G, HostOf(G)) : G \in Groups(W, LAMBDA r : <<r.host, Label(r.exc_time)>>)}
                  \cup {Heading(r.host) : r \in W}
           C == {Range10(G, Null) : G \in Groups(W, LAMBDA r : Label(r.exc_time))}
<1>1. T = TimesOf(W)
  BY TimesSelected
<1>2. C = CommonTimes(W)
  BY CommonSelected
<1>3. get_exec_tm(table, a, db, now) = Answers(Ordered(T, HostThenLabel), db)
  BY Zenon DEF get_exec_tm
<1>4. get_exec_tm_common(table, a, db, now)
        = Answers(Ordered(C, LAMBDA r, s : Place(r.b1) < Place(s.b1)), db)
  BY Zenon DEF get_exec_tm_common
<1>5. q.info = 20 => Page(q, a) = get_exec_tm(table, a, db, now)
  BY DEF Page, show_exec_range_no_graph_page
<1>6. q.info = 33 => Page(q, a) = get_exec_tm_common(table, a, db, now)
  BY DEF Page, show_exec_range_no_graph_page_common
<1> HIDE DEF T, C
<1>7. Ordered(T, HostThenLabel) = Ordered(TimesOf(W), HostThenLabel)
  BY <1>1, Zenon
<1>8. Ordered(C, LAMBDA r, s : Place(r.b1) < Place(s.b1))
        = Ordered(CommonTimes(W), LAMBDA r, s : Place(r.b1) < Place(s.b1))
  BY <1>2, Zenon
<1> HIDE DEF W
<1> QED
  BY <1>3, <1>4, <1>5, <1>6, <1>7, <1>8, Zenon DEF W

\* What the property says of a whole page of execution times.
CountedPage(info, rows, W) ==
  CountsOf(rows) = Cardinality(W) /\ (info = 20 => UnderHeading(rows))

\* A page of execution times just opened.
LEMMA TimesShown ==
  ASSUME IInv, RowsInv, FiguresInv, NEW q \in PageQueries, Open(q), Whole({20, 33})'
  PROVE  CountedPage(screen.q.info, screen.rows, Where(table, screen.a, db, now))'
<1> DEFINE a == common_report_part(q)
           W == Where(table, a, db, now)
<1>1. Where(table, screen.a, db, now)' = W /\ screen'.q = q
  BY OpenShows
<1>2. PICK ans \in Page(q, a) :
        /\ screen'.rows = ans.rows
        /\ \A infos : Whole(infos)' => q.info \in infos /\ ~ans.err /\ ans.rows # <<>>
  BY OpenShows
<1>3. q.info \in {20, 33} /\ ~ans.err /\ ans.rows # <<>>
  BY <1>2
<1>4. IsFiniteSet(W) /\ \A r \in W : Figured(r)
  <2>1. W \subseteq table
    BY RowByRow
  <2>2. IsFiniteSet(W)
    BY <2>1, FS_Subset DEF RowsInv, InOrderSaved, Numbered
  <2> HIDE DEF W
  <2> QED
    BY <2>1, <2>2 DEF FiguresInv
<1> DEFINE rows == ans.rows
           B == Ordered(TimesOf(W), HostThenLabel)
           C == Ordered(CommonTimes(W), LAMBDA r, s : Place(r.b1) < Place(s.b1))
<1>5. CASE q.info = 20
  <2>1. ans \in Answers(B, db)
    BY <1>5, PageOfTimes
  <2>2. Sorts(B, ByHostThenLabel(TimesOf(W)), TimesOf(W))
    BY <1>4, TimesSorted
  <2> HIDE DEF W, B
  <2>3. rows = B
    BY <1>3, <2>1, WholeAnswer
  <2>4. UnderHeading(B)
    BY <1>4, <2>2, TimesUnderHeading
  <2>5. Counts(TimesOf(W), W, [r \in W |-> RangeOfHost(W, r)])
    BY <1>4, TimesType
  <2>6. CountsOf(B) = Cardinality(W)
    BY <2>2, <2>5, RowsCountAll
  <2> QED
    BY <1>1, <1>2, <2>3, <2>4, <2>6 DEF CountedPage
<1>6. CASE q.info = 33
  <2>1. ans \in Answers(C, db)
    BY <1>6, PageOfTimes
  <2>2. Sorts(C, ByLabel(CommonTimes(W)), CommonTimes(W))
    BY <1>4, CommonSorted
  <2> HIDE DEF W, C
  <2>3. rows = C
    BY <1>3, <2>1, WholeAnswer
  <2>4. Counts(CommonTimes(W), W, [r \in W |-> RangeOfAll(W, r)])
    BY <1>4, CommonType
  <2>5. CountsOf(C) = Cardinality(W)
    BY <2>2, <2>4, RowsCountAll
  <2> QED
    BY <1>1, <1>2, <1>6, <2>3, <2>5 DEF CountedPage
<1> QED
  BY <1>3, <1>5, <1>6

\* What such a page shows stays true of it.
TimesInv ==
  Whole({20, 33}) => CountedPage(screen.q.info, screen.rows, Where(table, screen.a, db, now))

\* That is what the property says.
LEMMA TimesMeans == TimesInv => CountedUnderOwnHost
<1> SUFFICES ASSUME TimesInv, Whole({20, 33})
             PROVE  CountedUnderOwnHost
  BY DEF CountedUnderOwnHost
<1> DEFINE rows == screen.rows
           W == Where(table, screen.a, db, now)
           Heads(k) == rows[k].b1 = rows[k].host
           heads(k) == {j \in 1..k : Heads(j)}
<1>1. FoldLeft(LAMBDA n, r : n + r.count, 0, rows) = Cardinality(W)
  BY Zenon DEF TimesInv, CountedPage, CountsOf
<1>2. ASSUME screen.q.info = 20, NEW k \in DOMAIN rows,
             \A l \in Labels \cup {Null} : Place(rows[k].host) > Place(l)
      PROVE  heads(k) # {} /\ rows[Max(heads(k))].host = rows[k].host
  BY <1>2 DEF TimesInv, CountedPage, UnderHeading, Marks
<1> HIDE DEF heads, W
<1> QED
  BY <1>1, <1>2, Zenon DEF CountedUnderOwnHost, heads, W

\* On the pages of execution times every request is counted once, and on the page by
\* host it is below the heading of its own host, if the host sorts behind the labels
\* and NULL (sql_adapter_get_exec_tm, sql_adapter_get_exec_tm_common).
THEOREM CountedRight == Spec => []CountedUnderOwnHost
<1>1. Init => TimesInv
  BY DEF Init, Blank, TimesInv, Whole
<1>2. IInv /\ RowsInv /\ FiguresInv /\ TimesInv /\ [Next]_vars => TimesInv'
  <2> SUFFICES ASSUME IInv, RowsInv, FiguresInv, TimesInv, [Next]_vars, Whole({20, 33})'
               PROVE  CountedPage(screen.q.info, screen.rows, Where(table, screen.a, db, now))'
    BY DEF TimesInv
  <2>1. CASE UNCHANGED vars
    <3>1. screen' = screen /\ table' = table /\ db' = db /\ now' = now
      BY <2>1 DEF vars
    <3>2. Whole({20, 33})
      BY <3>1 DEF Whole
    <3>3. Where(table, screen.a, db, now)' = Where(table, screen.a, db, now)
      BY <3>1
    <3>4. CountedPage(screen.q.info, screen.rows, Where(table, screen.a, db, now))
      BY <3>2 DEF TimesInv
    <3> QED
      BY <3>1, <3>3, <3>4
  <2>2. ASSUME NEW q \in PageQueries, Open(q)
        PROVE  CountedPage(screen.q.info, screen.rows, Where(table, screen.a, db, now))'
    BY <2>2, TimesShown
  <2> QED
    BY <2>1, <2>2, StepsToPage
<1>3. IInv /\ FiguresInv /\ [Next]_vars => FiguresInv'
  BY FiguresNext
<1> QED
  BY <1>1, <1>2, <1>3, TimesMeans, FiguresInit, Invariant, WalkInvariant, PTL DEF Spec

\* Of the numbers up to k the largest is k.
LEMMA LastOfAll ==
  ASSUME NEW k \in Nat, k # 0
  PROVE  Max(1..k) = k /\ (1..k) \ {k} = 1..(k - 1)
<1>1. IsFiniteSet(1..k) /\ (1..k) \in SUBSET Int /\ k \in 1..k
  BY FS_Interval, 1 \in Int, k \in Int
<1>2. Max(1..k) \in 1..k /\ \A x \in 1..k : x <= Max(1..k)
  BY <1>1, Extremes
<1> QED
  BY <1>1, <1>2

\* The values of a fold, one element after the other, and the last of them.
FoldsTo(G, V, base, seq, v) ==
  \E h \in [0..Len(seq) -> V] :
    /\ h[0] = base
    /\ \A k \in 1..Len(seq) : h[k] = G[<<h[k - 1], seq[k]>>]
    /\ v = h[Len(seq)]

\* What a fold over the indices of a sequence satisfies.
Reduces(iter, V, base, G, seq) ==
  /\ iter[{}] = base
  /\ \A k \in 1..Len(seq) :
       iter[1..(k - 1)] \in V => iter[1..k] = G[<<iter[1..(k - 1)], seq[k]>>]

\* It folds to its value for all of them.
LEMMA ReducesFolds ==
  ASSUME NEW V, NEW E, NEW base \in V, NEW G \in [V \X E -> V], NEW seq \in Seq(E),
         NEW iter, Reduces(iter, V, base, G, seq)
  PROVE  FoldsTo(G, V, base, seq, iter[DOMAIN seq])
<1> DEFINE n == Len(seq)
           h == [k \in 0..n |-> iter[1..k]]
           P == {k \in Nat : k <= n => iter[1..k] \in V}
<1>1. n \in Nat /\ DOMAIN seq = 1..n /\ \A k \in 1..n : seq[k] \in E
  OBVIOUS
<1>2. 0 \in P
  <2>1. 1..0 = {}
    OBVIOUS
  <2> QED
    BY <2>1 DEF Reduces
<1>3. ASSUME NEW k \in Nat, k \in P PROVE k + 1 \in P
  <2>1. ASSUME k + 1 <= n PROVE iter[1..(k + 1)] \in V
    <3>1. iter[1..k] \in V /\ k + 1 \in 1..n /\ (k + 1) - 1 = k
      BY <1>1, <1>3, <2>1
    <3>2. iter[1..(k + 1)] = G[<<iter[1..k], seq[k + 1]>>]
      BY <3>1 DEF Reduces
    <3> QED
      BY <1>1, <3>1, <3>2
  <2> QED
    BY <2>1
<1> HIDE DEF P
<1>4. \A k \in 0..n : iter[1..k] \in V
  <2>1. Nat \subseteq P
    BY <1>2, <1>3, NumberInduction
  <2> QED
    BY <1>1, <2>1 DEF P
<1>5. h \in [0..n -> V] /\ h[0] = base /\ h[n] = iter[DOMAIN seq]
  <2>1. 1..0 = {}
    OBVIOUS
  <2> QED
    BY <1>1, <1>4, <2>1 DEF Reduces
<1>6. ASSUME NEW k \in 1..n PROVE h[k] = G[<<h[k - 1], seq[k]>>]
  <2>1. k - 1 \in 0..n /\ k \in 0..n
    BY <1>1
  <2>2. h[k] = iter[1..k] /\ h[k - 1] = iter[1..(k - 1)] /\ iter[1..(k - 1)] \in V
    BY <1>4, <2>1
  <2> QED
    BY <2>2 DEF Reduces
<1> HIDE DEF h
<1> QED
  BY <1>5, <1>6 DEF FoldsTo

\* What such a fold is computed by, which takes the last index of a set first.
Iterates(iter, V, E, base, G, seq) ==
  /\ iter \in [SUBSET DOMAIN seq -> V]
  /\ \A s \in SUBSET DOMAIN seq :
       /\ s = {} => iter[s] = base
       /\ s # {} => /\ iter[s] = G[<<iter[s \ {Max(s)}], seq[Max(s)]>>]
                    /\ iter[s \ {Max(s)}] \in V /\ seq[Max(s)] \in E

\* A sequence is folded by a function on the sets of its indices.
LEMMA IterExists ==
  ASSUME NEW V, NEW E, NEW base \in V, NEW G \in [V \X E -> V], NEW seq \in Seq(E)
  PROVE  \E iter : Iterates(iter, V, E, base, G, seq)
<1> DEFINE S == DOMAIN seq
           c == [s \in SUBSET S |-> Max(s)]
           g == [p \in S \X V |-> G[<<p[2], seq[p[1]]>>]]
<1>1. S = 1..Len(seq) /\ Len(seq) \in Nat /\ \A k \in S : seq[k] \in E
  OBVIOUS
<1>2. IsFiniteSet(S) /\ S \in SUBSET Int
  BY <1>1, FS_Interval, 1 \in Int, Len(seq) \in Int
<1> HIDE DEF S
<1>3. \A s \in SUBSET S : s # {} => Max(s) \in s
  BY <1>2, FS_Subset, Extremes
<1>4. \A s \in SUBSET S : s # {} => c[s] \in s
  BY <1>3
<1>5. g \in [S \X V -> V]
  BY <1>1
<1> HIDE DEF g
<1>6. PICK iter \in [SUBSET S -> V] : FoldsBy(iter, S, base, g, c)
  BY <1>2, <1>4, <1>5, FoldExists
<1>7. ASSUME NEW s \in SUBSET S
      PROVE  iter[s] = IF s = {} THEN base ELSE G[<<iter[s \ {Max(s)}], seq[Max(s)]>>]
  <2>1. iter[s] = IF s = {} THEN base ELSE g[<<c[s], iter[s \ {c[s]}]>>]
    BY <1>6 DEF FoldsBy
  <2>2. CASE s # {}
    <3>1. c[s] = Max(s) /\ Max(s) \in S /\ s \ {Max(s)} \in SUBSET S
      BY <1>3, <2>2
    <3>2. iter[s \ {Max(s)}] \in V
      BY <3>1
    <3>3. g[<<Max(s), iter[s \ {Max(s)}]>>] = G[<<iter[s \ {Max(s)}], seq[Max(s)]>>]
      BY <3>1, <3>2 DEF g
    <3> QED
      BY <2>1, <2>2, <3>1, <3>3
  <2> QED
    BY <2>1, <2>2
<1>8. ASSUME NEW s \in SUBSET S, s # {} PROVE iter[s \ {Max(s)}] \in V /\ seq[Max(s)] \in E
  BY <1>1, <1>3, <1>8
<1> QED
  BY <1>7, <1>8 DEF S, Iterates

\* A fold is of one value.
LEMMA FoldUnique ==
  ASSUME NEW V, NEW E, NEW base \in V, NEW G \in [V \X E -> V], NEW seq \in Seq(E),
         NEW v, NEW w, FoldsTo(G, V, base, seq, v), FoldsTo(G, V, base, seq, w)
  PROVE  v = w
<1> DEFINE n == Len(seq)
<1>1. n \in Nat
  OBVIOUS
<1> HIDE DEF n
<1>2. PICK h \in [0..n -> V] :
        h[0] = base /\ (\A k \in 1..n : h[k] = G[<<h[k - 1], seq[k]>>]) /\ v = h[n]
  BY DEF FoldsTo, n
<1>3. PICK j \in [0..n -> V] :
        j[0] = base /\ (\A k \in 1..n : j[k] = G[<<j[k - 1], seq[k]>>]) /\ w = j[n]
  BY DEF FoldsTo, n
<1> DEFINE P == {k \in Nat : k <= n => h[k] = j[k]}
<1>4. 0 \in P
  BY <1>2, <1>3
<1>5. ASSUME NEW k \in Nat, k \in P PROVE k + 1 \in P
  <2>1. ASSUME k + 1 <= n PROVE h[k + 1] = j[k + 1]
    <3>1. h[k] = j[k] /\ k + 1 \in 1..n /\ (k + 1) - 1 = k
      BY <1>1, <1>5, <2>1
    <3> QED
      BY <1>2, <1>3, <3>1
  <2> QED
    BY <2>1
<1> HIDE DEF P
<1>6. n \in P
  BY <1>1, <1>4, <1>5, NumberInduction
<1> QED
  BY <1>1, <1>2, <1>3, <1>6 DEF P

\* A fold over nothing and over one more element.
LEMMA FoldEmpty ==
  ASSUME NEW V, NEW base \in V, NEW G
  PROVE  FoldsTo(G, V, base, <<>>, base)
<1> DEFINE h == [k \in 0..0 |-> base]
<1>1. Len(<<>>) = 0 /\ h \in [0..0 -> V] /\ h[0] = base
  OBVIOUS
<1> HIDE DEF h
<1> QED
  BY <1>1 DEF FoldsTo

\* A fold over one element more applies the function once more.
LEMMA FoldAppend ==
  ASSUME NEW V, NEW E, NEW base \in V, NEW G \in [V \X E -> V], NEW seq \in Seq(E),
         NEW v, FoldsTo(G, V, base, seq, v), NEW x \in E
  PROVE  v \in V /\ FoldsTo(G, V, base, Append(seq, x), G[<<v, x>>])
<1> DEFINE n == Len(seq)
           more == Append(seq, x)
<1>1. n \in Nat /\ Len(more) = n + 1 /\ more[n + 1] = x /\ \A k \in 1..n : more[k] = seq[k]
  OBVIOUS
<1>2. PICK h \in [0..n -> V] :
        h[0] = base /\ (\A k \in 1..n : h[k] = G[<<h[k - 1], seq[k]>>]) /\ v = h[n]
  BY DEF FoldsTo
<1>3. v \in V
  BY <1>1, <1>2
<1> HIDE DEF n, more
<1> DEFINE j == [k \in 0..(n + 1) |-> IF k <= n THEN h[k] ELSE G[<<v, x>>]]
<1>4. j \in [0..(n + 1) -> V]
  <2>1. G[<<v, x>>] \in V
    BY <1>3
  <2> QED
    BY <1>1, <1>2, <2>1
<1>5. j[0] = base /\ j[n + 1] = G[<<v, x>>]
  BY <1>1, <1>2
<1>6. ASSUME NEW k \in 1..(n + 1) PROVE j[k] = G[<<j[k - 1], more[k]>>]
  <2>1. CASE k = n + 1
    <3>1. j[k] = G[<<v, x>>] /\ j[k - 1] = v /\ more[k] = x
      BY <1>1, <1>2, <2>1
    <3> QED
      BY <3>1
  <2>2. CASE k # n + 1
    <3>1. k \in 1..n /\ k - 1 \in 0..n
      BY <1>1, <2>2
    <3>2. j[k] = h[k] /\ j[k - 1] = h[k - 1] /\ more[k] = seq[k]
      BY <1>1, <3>1
    <3> QED
      BY <1>2, <3>1, <3>2
  <2> QED
    BY <2>1, <2>2
<1> HIDE DEF j
<1>7. FoldsTo(G, V, base, more, G[<<v, x>>])
  BY <1>1, <1>4, <1>5, <1>6 DEF FoldsTo
<1> QED
  BY <1>3, <1>7 DEF more

\* A fold over nothing, over some elements and over one more.
Folding(V, E, base, G, seq, x, u, v, w) ==
  /\ base \in V /\ G \in [V \X E -> V] /\ seq \in Seq(E) /\ x \in E
  /\ FoldsTo(G, V, base, <<>>, u) /\ FoldsTo(G, V, base, seq, v)
  /\ FoldsTo(G, V, base, Append(seq, x), w)
\* What the function makes of a value and an element.
Applied(G, v, x, w) == w = G[<<v, x>>]

\* A fold, one element after the other.
LEMMA FoldSteps ==
  ASSUME NEW V, NEW E, NEW base, NEW G, NEW seq, NEW x, NEW u, NEW v, NEW w,
         Folding(V, E, base, G, seq, x, u, v, w)
  PROVE  u = base /\ v \in V /\ Applied(G, v, x, w)
<1>0. /\ base \in V /\ G \in [V \X E -> V] /\ seq \in Seq(E) /\ x \in E
      /\ FoldsTo(G, V, base, <<>>, u) /\ FoldsTo(G, V, base, seq, v)
      /\ FoldsTo(G, V, base, Append(seq, x), w)
  BY DEF Folding
<1>1. FoldsTo(G, V, base, <<>>, base) /\ <<>> \in Seq(E)
  BY <1>0, FoldEmpty
<1>2. u = base
  BY <1>0, <1>1, FoldUnique
<1>3. v \in V /\ FoldsTo(G, V, base, Append(seq, x), G[<<v, x>>])
  BY <1>0, FoldAppend
<1>4. Append(seq, x) \in Seq(E)
  BY <1>0
<1>5. w = G[<<v, x>>]
  BY <1>0, <1>3, <1>4, FoldUnique
<1> QED
  BY <1>2, <1>3, <1>5 DEF Applied

\* The first indices of a sequence.
LEMMA FirstIndices ==
  ASSUME NEW E, NEW seq \in Seq(E), NEW k \in 1..Len(seq)
  PROVE  /\ 1..k \in SUBSET DOMAIN seq /\ 1..k # {} /\ seq[k] \in E
         /\ Max(1..k) = k /\ (1..k) \ {k} = 1..(k - 1)
<1>1. DOMAIN seq = 1..Len(seq) /\ Len(seq) \in Nat /\ k \in Nat /\ k # 0
  OBVIOUS
<1>2. Max(1..k) = k /\ (1..k) \ {k} = 1..(k - 1)
  BY <1>1, LastOfAll
<1> QED
  BY <1>1, <1>2
-----------------------------------------------------------------------------
(* What a file says, one section and one entry after the other.            *)

\* Words, texts and entries.
Special == {"[", "]", "=", ";", NewLine}
\* The words of a text, texts, and the entries of a section.
Word == STRING \cup Special
Words == Seq(Word)
Entry == Word \X Words

\* A word more is a text, and so are two texts in a row.
LEMMA WordsType ==
  /\ <<>> \in Words
  /\ \A c \in Special : c \in Word /\ <<c>> \in Words
  /\ \A c \in Special, d \in Special : <<c, d>> \in Words
  /\ \A t \in Words, w \in Word : Append(t, w) \in Words
  /\ \A t \in Words, u \in Words : t \o u \in Words
<1>1. \A c \in Special : c \in Word
  BY DEF Word
<1> HIDE DEF Word, Special
<1> QED
  BY <1>1, AppendProperties, ConcatProperties DEF Words

\* What is in a section.
LEMMA SectionType ==
  ASSUME NEW sec \in Sections
  PROVE  sec.name \in Words /\ sec.entries \in Seq(Entry)
<1>1. sec.name \in Seq(STRING \ {"[", "]", NewLine})
  BY DEF Sections
<1>2. sec.entries \in Seq((STRING \ {"[", "=", NewLine}) \X Seq(STRING \ {"[", ";", NewLine}))
  BY DEF Sections
<1>3. STRING \ {"[", "]", NewLine} \subseteq Word /\ STRING \ {"[", "=", NewLine} \subseteq Word
      /\ STRING \ {"[", ";", NewLine} \subseteq Word
  BY DEF Word
<1>4. Seq(STRING \ {"[", ";", NewLine}) \subseteq Words
  BY <1>3, SeqMonotonic DEF Words
<1>5. (STRING \ {"[", "=", NewLine}) \X Seq(STRING \ {"[", ";", NewLine}) \subseteq Entry
  BY <1>3, <1>4 DEF Entry
<1>6. sec.name \in Words
  BY <1>1, <1>3, SeqMonotonic DEF Words
<1>7. sec.entries \in Seq(Entry)
  BY <1>2, <1>5, SeqMonotonic
<1> QED
  BY <1>6, <1>7

\* What is in an entry.
LEMMA EntryType ==
  ASSUME NEW e \in Entry
  PROVE  e[1] \in Word /\ e[2] \in Words
BY DEF Entry

\* White space taken out, one word after the other.
StripG ==
  [p \in Words \X Word |-> IF p[2] = NewLine THEN p[1] ELSE Append(p[1], p[2])]

\* stripnlspc folds StripG.
LEMMA StripFold ==
  ASSUME NEW text \in Seq(Word)
  PROVE  /\ StripG \in [Words \X Word -> Words] /\ <<>> \in Words
         /\ FoldsTo(StripG, Words, <<>>, text, stripnlspc(text))
<1> DEFINE A(it) == it = [s \in SUBSET DOMAIN text |->
                        IF s = {} THEN <<>>
                        ELSE IF text[Max(s)] = NewLine THEN it[s \ {Max(s)}]
                            ELSE Append(it[s \ {Max(s)}], text[Max(s)])]
           chosen == CHOOSE it : A(it)
<1>1. stripnlspc(text) = chosen[DOMAIN text]
  BY Zenon DEF stripnlspc, FoldLeft, MapThenFoldSet
<1>2. StripG \in [Words \X Word -> Words] /\ <<>> \in Words
  <2>1. ASSUME NEW v \in Words, NEW x \in Word
        PROVE (IF x = NewLine THEN v ELSE Append(v, x)) \in Words
    BY WordsType
  <2>2. <<>> \in Words
    BY WordsType
  <2> QED
    BY <2>1, <2>2 DEF StripG
<1>3. PICK iter : Iterates(iter, Words, Word, <<>>, StripG, text)
  BY <1>2, IterExists
<1>4. A(iter)
  BY <1>3 DEF StripG, Iterates
<1>5. A(chosen)
  BY <1>4
<1> HIDE DEF chosen
<1>6. Reduces(chosen, Words, <<>>, StripG, text)
  <2>1. chosen[{}] = <<>>
    BY <1>5
  <2>2. ASSUME NEW k \in 1..Len(text), chosen[1..(k - 1)] \in Words
        PROVE  chosen[1..k] = StripG[<<chosen[1..(k - 1)], text[k]>>]
    <3>1. /\ 1..k \in SUBSET DOMAIN text /\ 1..k # {} /\ text[k] \in Word
          /\ Max(1..k) = k /\ (1..k) \ {k} = 1..(k - 1)
      BY FirstIndices
    <3> QED
      BY <1>5, <2>2, <3>1 DEF StripG
  <2> QED
    BY <2>1, <2>2 DEF Reduces
<1>7. FoldsTo(StripG, Words, <<>>, text, chosen[DOMAIN text])
  BY <1>2, <1>6, ReducesFolds
<1> QED
  BY <1>1, <1>2, <1>7

\* White space is skipped, another word is kept (stripnlspc).
LEMMA StripStep ==
  ASSUME NEW text \in Seq(Word), NEW x \in Word
  PROVE  /\ stripnlspc(<<>>) = <<>> /\ stripnlspc(text) \in Words
         /\ stripnlspc(Append(text, x)) =
              IF x = NewLine THEN stripnlspc(text) ELSE Append(stripnlspc(text), x)
<1>1. StripG \in [Words \X Word -> Words] /\ <<>> \in Words
          /\ FoldsTo(StripG, Words, <<>>, text, stripnlspc(text))
  BY StripFold
<1>2. FoldsTo(StripG, Words, <<>>, <<>>, stripnlspc(<<>>))
  BY StripFold, <<>> \in Seq(Word)
<1>3. FoldsTo(StripG, Words, <<>>, Append(text, x), stripnlspc(Append(text, x)))
  BY StripFold, Append(text, x) \in Seq(Word)
<1>4. Folding(Words, Word, <<>>, StripG, text, x, stripnlspc(<<>>), stripnlspc(text),
            stripnlspc(Append(text, x)))
  BY <1>1, <1>2, <1>3 DEF Folding
<1>5. /\ stripnlspc(<<>>) = <<>> /\ stripnlspc(text) \in Words
      /\ Applied(StripG, stripnlspc(text), x, stripnlspc(Append(text, x)))
  BY <1>4, FoldSteps
<1> QED
  BY <1>5 DEF StripG, Applied


\* A text being cut.
Cutting == {c \in [inside : BOOLEAN, pieces : Seq(Words)] : c.inside => c.pieces # <<>>}

\* A text that is cut stays one (custom_report_parse_value).
LEMMA CutType ==
  ASSUME NEW c \in Cutting, NEW w \in Word, NEW sep
  PROVE  Cut(c, w, sep) \in Cutting /\ [inside |-> FALSE, pieces |-> <<>>] \in Cutting
<1>1. c.inside \in BOOLEAN /\ c.pieces \in Seq(Words) /\ <<w>> \in Words
  BY WordsType, AppendProperties DEF Cutting, Words
<1>2. [inside |-> FALSE, pieces |-> <<>>] \in Cutting
  BY DEF Cutting
<1>3. CASE w = sep
  BY <1>2, <1>3 DEF Cutting, Cut
<1>4. CASE w # sep /\ c.inside
  <2> DEFINE n == Len(c.pieces)
             last == Append(c.pieces[n], w)
             more == [c.pieces EXCEPT ![n] = last]
  <2>1. n \in 1..n
    BY <1>1, <1>4, EmptySeq DEF Cutting
  <2>2. c.pieces[n] \in Words
    BY <1>1, <2>1, ElementOfSeq
  <2>3. last \in Words
    BY <2>2, WordsType
  <2> HIDE DEF last
  <2>4. more \in Seq(Words) /\ Len(more) = n
    BY <1>1, <2>1, <2>3, ExceptSeq
  <2>5. more # <<>>
    BY <2>1, <2>4
  <2>6. Cut(c, w, sep) = [c EXCEPT !.pieces = more]
    BY <1>1, <1>4 DEF Cut, Cutting, last
  <2>7. [c EXCEPT !.pieces = more] = [inside |-> c.inside, pieces |-> more]
    BY DEF Cutting
  <2> HIDE DEF more
  <2> QED
    BY <1>1, <1>2, <2>4, <2>5, <2>6, <2>7 DEF Cutting
<1>5. CASE w # sep /\ ~c.inside
  <2>1. Append(c.pieces, <<w>>) \in Seq(Words) /\ Append(c.pieces, <<w>>) # <<>>
    BY <1>1, AppendProperties
  <2> QED
    BY <1>2, <1>5, <2>1 DEF Cut, Cutting
<1> QED
  BY <1>1, <1>3, <1>4, <1>5

\* The cuts made in a text.
Cuts(text, sep) ==
  FoldLeft(LAMBDA cut, w : Cut(cut, w, sep), [inside |-> FALSE, pieces |-> <<>>], text)

\* A text cut into pieces, one word after the other.
PiecesG(sep) ==
  [p \in Cutting \X Word |-> Cut(p[1], p[2], sep)]

\* A text is cut by folding PiecesG.
LEMMA PiecesFold ==
  ASSUME NEW sep, NEW text \in Seq(Word)
  PROVE  /\ PiecesG(sep) \in [Cutting \X Word -> Cutting]
                /\ [inside |-> FALSE, pieces |-> <<>>] \in Cutting
         /\ FoldsTo(PiecesG(sep), Cutting, [inside |-> FALSE, pieces |-> <<>>], text,
                Cuts(text, sep))
<1> DEFINE A(it) == it = [s \in SUBSET DOMAIN text |->
                        IF s = {} THEN [inside |-> FALSE, pieces |-> <<>>]
                        ELSE Cut(it[s \ {Max(s)}], text[Max(s)], sep)]
           chosen == CHOOSE it : A(it)
<1>1. Cuts(text, sep) = chosen[DOMAIN text]
  BY Zenon DEF Cuts, FoldLeft, MapThenFoldSet
<1>2. PiecesG(sep) \in [Cutting \X Word -> Cutting]
          /\ [inside |-> FALSE, pieces |-> <<>>] \in Cutting
  <2>1. ASSUME NEW v \in Cutting, NEW x \in Word PROVE (Cut(v, x, sep)) \in Cutting
    BY CutType
  <2>2. [inside |-> FALSE, pieces |-> <<>>] \in Cutting
    BY DEF Cutting
  <2> QED
    BY <2>1, <2>2 DEF PiecesG
<1>3. PICK iter : Iterates(iter, Cutting, Word, [inside |-> FALSE, pieces |-> <<>>],
          PiecesG(sep), text)
  BY <1>2, IterExists
<1>4. A(iter)
  BY <1>3 DEF PiecesG, Iterates
<1>5. A(chosen)
  BY <1>4
<1> HIDE DEF chosen
<1>6. Reduces(chosen, Cutting, [inside |-> FALSE, pieces |-> <<>>], PiecesG(sep), text)
  <2>1. chosen[{}] = [inside |-> FALSE, pieces |-> <<>>]
    BY <1>5
  <2>2. ASSUME NEW k \in 1..Len(text), chosen[1..(k - 1)] \in Cutting
        PROVE  chosen[1..k] = PiecesG(sep)[<<chosen[1..(k - 1)], text[k]>>]
    <3>1. /\ 1..k \in SUBSET DOMAIN text /\ 1..k # {} /\ text[k] \in Word
          /\ Max(1..k) = k /\ (1..k) \ {k} = 1..(k - 1)
      BY FirstIndices
    <3> QED
      BY <1>5, <2>2, <3>1 DEF PiecesG
  <2> QED
    BY <2>1, <2>2 DEF Reduces
<1>7. FoldsTo(PiecesG(sep), Cutting, [inside |-> FALSE, pieces |-> <<>>], text,
          chosen[DOMAIN text])
  BY <1>2, <1>6, ReducesFolds
<1> QED
  BY <1>1, <1>2, <1>7

\* One word more is cut (custom_report_parse_value).
LEMMA PiecesStep ==
  ASSUME NEW sep, NEW text \in Seq(Word), NEW x \in Word
  PROVE  /\ Cuts(<<>>, sep) = [inside |-> FALSE, pieces |-> <<>>] /\ Cuts(text, sep) \in Cutting
         /\ Cuts(Append(text, x), sep) =
              Cut(Cuts(text, sep), x, sep)
<1>1. PiecesG(sep) \in [Cutting \X Word -> Cutting]
          /\ [inside |-> FALSE, pieces |-> <<>>] \in Cutting
                 /\ FoldsTo(PiecesG(sep), Cutting, [inside |-> FALSE, pieces |-> <<>>], text,
                        Cuts(text, sep))
  BY PiecesFold
<1>2. FoldsTo(PiecesG(sep), Cutting, [inside |-> FALSE, pieces |-> <<>>], <<>>, Cuts(<<>>, sep))
  BY PiecesFold, <<>> \in Seq(Word)
<1>3. FoldsTo(PiecesG(sep), Cutting, [inside |-> FALSE, pieces |-> <<>>], Append(text, x),
          Cuts(Append(text, x), sep))
  BY PiecesFold, Append(text, x) \in Seq(Word)
<1>4. Folding(Cutting, Word, [inside |-> FALSE, pieces |-> <<>>], PiecesG(sep), text, x,
          Cuts(<<>>, sep), Cuts(text, sep),
            Cuts(Append(text, x), sep))
  BY <1>1, <1>2, <1>3 DEF Folding
<1>5. /\ Cuts(<<>>, sep) = [inside |-> FALSE, pieces |-> <<>>] /\ Cuts(text, sep) \in Cutting
      /\ Applied(PiecesG(sep), Cuts(text, sep), x, Cuts(Append(text, x), sep))
  BY <1>4, FoldSteps
<1> QED
  BY <1>5 DEF PiecesG, Applied


\* The pieces of a text are texts.
LEMMA PiecesType ==
  ASSUME NEW text \in Words, NEW sep
  PROVE  Pieces(text, sep) \in Seq(Words)
<1>1. Cuts(text, sep) \in Cutting
  BY PiecesStep, WordsType DEF Words, Special
<1> QED
  BY <1>1 DEF Pieces, Cuts, Cutting

\* All the fields of some headers.
Joined(l) == FoldLeft(LAMBDA t, v : t \o Pieces(v, "|"), <<>>, l)

\* The text of an entry.
LEMMA EntryTextType ==
  ASSUME NEW e \in Entry
  PROVE  EntryText(e) \in Words
<1>1. e[1] \in Word /\ e[2] \in Words /\ NewLine \in Word /\ "=" \in Word
  BY EntryType, WordsType DEF Special
<1>2. <<NewLine, e[1], "=">> \in Words
  BY <1>1 DEF Words
<1> QED
  BY <1>1, <1>2, WordsType DEF EntryText

\* The names of the reports, one section after the other.
NamesG ==
  [p \in Seq(Words) \X Sections |-> IF p[2].name \in Range(p[1]) THEN p[1]
      ELSE Append(p[1], p[2].name)]

\* NamesOf folds NamesG.
LEMMA NamesFold ==
  ASSUME NEW f \in Seq(Sections)
  PROVE  /\ NamesG \in [Seq(Words) \X Sections -> Seq(Words)] /\ <<>> \in Seq(Words)
         /\ FoldsTo(NamesG, Seq(Words), <<>>, f, NamesOf(f))
<1> DEFINE A(it) == it = [s \in SUBSET DOMAIN f |->
                        IF s = {} THEN <<>>
                        ELSE IF f[Max(s)].name \in Range(it[s \ {Max(s)}])
                            THEN it[s \ {Max(s)}] ELSE Append(it[s \ {Max(s)}], f[Max(s)].name)]
           chosen == CHOOSE it : A(it)
<1>1. NamesOf(f) = chosen[DOMAIN f]
  BY Zenon DEF NamesOf, FoldLeft, MapThenFoldSet
<1>2. NamesG \in [Seq(Words) \X Sections -> Seq(Words)] /\ <<>> \in Seq(Words)
  <2>1. ASSUME NEW v \in Seq(Words), NEW x \in Sections
        PROVE (IF x.name \in Range(v) THEN v ELSE Append(v, x.name)) \in Seq(Words)
    BY SectionType
  <2>2. <<>> \in Seq(Words)
    OBVIOUS
  <2> QED
    BY <2>1, <2>2 DEF NamesG
<1>3. PICK iter : Iterates(iter, Seq(Words), Sections, <<>>, NamesG, f)
  BY <1>2, IterExists
<1>4. A(iter)
  BY <1>3 DEF NamesG, Iterates
<1>5. A(chosen)
  BY <1>4
<1> HIDE DEF chosen
<1>6. Reduces(chosen, Seq(Words), <<>>, NamesG, f)
  <2>1. chosen[{}] = <<>>
    BY <1>5
  <2>2. ASSUME NEW k \in 1..Len(f), chosen[1..(k - 1)] \in Seq(Words)
        PROVE  chosen[1..k] = NamesG[<<chosen[1..(k - 1)], f[k]>>]
    <3>1. /\ 1..k \in SUBSET DOMAIN f /\ 1..k # {} /\ f[k] \in Sections
          /\ Max(1..k) = k /\ (1..k) \ {k} = 1..(k - 1)
      BY FirstIndices
    <3> QED
      BY <1>5, <2>2, <3>1 DEF NamesG
  <2> QED
    BY <2>1, <2>2 DEF Reduces
<1>7. FoldsTo(NamesG, Seq(Words), <<>>, f, chosen[DOMAIN f])
  BY <1>2, <1>6, ReducesFolds
<1> QED
  BY <1>1, <1>2, <1>7

\* The name of one section more.
LEMMA NamesStep ==
  ASSUME NEW f \in Seq(Sections), NEW x \in Sections
  PROVE  /\ NamesOf(<<>>) = <<>> /\ NamesOf(f) \in Seq(Words)
         /\ NamesOf(Append(f, x)) =
              IF x.name \in Range(NamesOf(f)) THEN NamesOf(f) ELSE Append(NamesOf(f), x.name)
<1>1. NamesG \in [Seq(Words) \X Sections -> Seq(Words)] /\ <<>> \in Seq(Words)
          /\ FoldsTo(NamesG, Seq(Words), <<>>, f, NamesOf(f))
  BY NamesFold
<1>2. FoldsTo(NamesG, Seq(Words), <<>>, <<>>, NamesOf(<<>>))
  BY NamesFold, <<>> \in Seq(Sections)
<1>3. FoldsTo(NamesG, Seq(Words), <<>>, Append(f, x), NamesOf(Append(f, x)))
  BY NamesFold, Append(f, x) \in Seq(Sections)
<1>4. Folding(Seq(Words), Sections, <<>>, NamesG, f, x, NamesOf(<<>>), NamesOf(f),
            NamesOf(Append(f, x)))
  BY <1>1, <1>2, <1>3 DEF Folding
<1>5. /\ NamesOf(<<>>) = <<>> /\ NamesOf(f) \in Seq(Words)
      /\ Applied(NamesG, NamesOf(f), x, NamesOf(Append(f, x)))
  BY <1>4, FoldSteps
<1> QED
  BY <1>5 DEF NamesG, Applied

\* The entries of a report, one section after the other.
EntriesG(n) ==
  [p \in Seq(Entry) \X Sections |-> IF p[2].name = n THEN p[1] \o p[2].entries ELSE p[1]]

\* EntriesOf folds EntriesG.
LEMMA EntriesFold ==
  ASSUME NEW n, NEW f \in Seq(Sections)
  PROVE  /\ EntriesG(n) \in [Seq(Entry) \X Sections -> Seq(Entry)] /\ <<>> \in Seq(Entry)
         /\ FoldsTo(EntriesG(n), Seq(Entry), <<>>, f, EntriesOf(f, n))
<1> DEFINE A(it) == it = [s \in SUBSET DOMAIN f |->
                        IF s = {} THEN <<>>
                        ELSE IF f[Max(s)].name = n THEN it[s \ {Max(s)}] \o f[Max(s)].entries
                            ELSE it[s \ {Max(s)}]]
           chosen == CHOOSE it : A(it)
<1>1. EntriesOf(f, n) = chosen[DOMAIN f]
  BY Zenon DEF EntriesOf, FoldLeft, MapThenFoldSet
<1>2. EntriesG(n) \in [Seq(Entry) \X Sections -> Seq(Entry)] /\ <<>> \in Seq(Entry)
  <2>1. ASSUME NEW v \in Seq(Entry), NEW x \in Sections
        PROVE (IF x.name = n THEN v \o x.entries ELSE v) \in Seq(Entry)
    BY SectionType
  <2>2. <<>> \in Seq(Entry)
    OBVIOUS
  <2> QED
    BY <2>1, <2>2 DEF EntriesG
<1>3. PICK iter : Iterates(iter, Seq(Entry), Sections, <<>>, EntriesG(n), f)
  BY <1>2, IterExists
<1>4. A(iter)
  BY <1>3 DEF EntriesG, Iterates
<1>5. A(chosen)
  BY <1>4
<1> HIDE DEF chosen
<1>6. Reduces(chosen, Seq(Entry), <<>>, EntriesG(n), f)
  <2>1. chosen[{}] = <<>>
    BY <1>5
  <2>2. ASSUME NEW k \in 1..Len(f), chosen[1..(k - 1)] \in Seq(Entry)
        PROVE  chosen[1..k] = EntriesG(n)[<<chosen[1..(k - 1)], f[k]>>]
    <3>1. /\ 1..k \in SUBSET DOMAIN f /\ 1..k # {} /\ f[k] \in Sections
          /\ Max(1..k) = k /\ (1..k) \ {k} = 1..(k - 1)
      BY FirstIndices
    <3> DEFINE w == chosen[1..(k - 1)]
               e == f[k]
    <3>2. chosen[1..k] = IF e.name = n THEN w \o e.entries ELSE w
      BY <1>5, <3>1
    <3> HIDE DEF w, e
    <3>3. EntriesG(n)[<<w, e>>] = IF e.name = n THEN w \o e.entries ELSE w
      BY <2>2, <3>1 DEF EntriesG, w, e
    <3> QED
      BY <3>2, <3>3 DEF w, e
  <2> QED
    BY <2>1, <2>2 DEF Reduces
<1>7. FoldsTo(EntriesG(n), Seq(Entry), <<>>, f, chosen[DOMAIN f])
  BY <1>2, <1>6, ReducesFolds
<1> QED
  BY <1>1, <1>2, <1>7

\* The entries of one section more.
LEMMA EntriesStep ==
  ASSUME NEW n, NEW f \in Seq(Sections), NEW x \in Sections
  PROVE  /\ EntriesOf(<<>>, n) = <<>> /\ EntriesOf(f, n) \in Seq(Entry)
         /\ EntriesOf(Append(f, x), n) =
              IF x.name = n THEN EntriesOf(f, n) \o x.entries ELSE EntriesOf(f, n)
<1>1. EntriesG(n) \in [Seq(Entry) \X Sections -> Seq(Entry)] /\ <<>> \in Seq(Entry)
          /\ FoldsTo(EntriesG(n), Seq(Entry), <<>>, f, EntriesOf(f, n))
  BY EntriesFold
<1>2. FoldsTo(EntriesG(n), Seq(Entry), <<>>, <<>>, EntriesOf(<<>>, n))
  BY EntriesFold, <<>> \in Seq(Sections)
<1>3. FoldsTo(EntriesG(n), Seq(Entry), <<>>, Append(f, x), EntriesOf(Append(f, x), n))
  BY EntriesFold, Append(f, x) \in Seq(Sections)
<1>4. Folding(Seq(Entry), Sections, <<>>, EntriesG(n), f, x, EntriesOf(<<>>, n),
            EntriesOf(f, n),
            EntriesOf(Append(f, x), n))
  BY <1>1, <1>2, <1>3 DEF Folding
<1>5. /\ EntriesOf(<<>>, n) = <<>> /\ EntriesOf(f, n) \in Seq(Entry)
      /\ Applied(EntriesG(n), EntriesOf(f, n), x, EntriesOf(Append(f, x), n))
  BY <1>4, FoldSteps
<1> QED
  BY <1>5 DEF EntriesG, Applied

\* The values of a key, one entry after the other.
AllG(key) ==
  [p \in Seq(Words) \X Entry |-> IF p[2][1] = key THEN Append(p[1], p[2][2]) ELSE p[1]]

\* AllFor folds AllG.
LEMMA AllFold ==
  ASSUME NEW key, NEW l \in Seq(Entry)
  PROVE  /\ AllG(key) \in [Seq(Words) \X Entry -> Seq(Words)] /\ <<>> \in Seq(Words)
         /\ FoldsTo(AllG(key), Seq(Words), <<>>, l, AllFor(l, key))
<1> DEFINE A(it) == it = [s \in SUBSET DOMAIN l |->
                        IF s = {} THEN <<>>
                        ELSE IF l[Max(s)][1] = key
                            THEN Append(it[s \ {Max(s)}], l[Max(s)][2]) ELSE it[s \ {Max(s)}]]
           chosen == CHOOSE it : A(it)
<1>1. AllFor(l, key) = chosen[DOMAIN l]
  BY Zenon DEF AllFor, FoldLeft, MapThenFoldSet
<1>2. AllG(key) \in [Seq(Words) \X Entry -> Seq(Words)] /\ <<>> \in Seq(Words)
  <2>1. ASSUME NEW v \in Seq(Words), NEW x \in Entry
        PROVE (IF x[1] = key THEN Append(v, x[2]) ELSE v) \in Seq(Words)
    BY EntryType
  <2>2. <<>> \in Seq(Words)
    OBVIOUS
  <2> QED
    BY <2>1, <2>2 DEF AllG
<1>3. PICK iter : Iterates(iter, Seq(Words), Entry, <<>>, AllG(key), l)
  BY <1>2, IterExists
<1>4. A(iter)
  BY <1>3 DEF AllG, Iterates
<1>5. A(chosen)
  BY <1>4
<1> HIDE DEF chosen
<1>6. Reduces(chosen, Seq(Words), <<>>, AllG(key), l)
  <2>1. chosen[{}] = <<>>
    BY <1>5
  <2>2. ASSUME NEW k \in 1..Len(l), chosen[1..(k - 1)] \in Seq(Words)
        PROVE  chosen[1..k] = AllG(key)[<<chosen[1..(k - 1)], l[k]>>]
    <3>1. /\ 1..k \in SUBSET DOMAIN l /\ 1..k # {} /\ l[k] \in Entry
          /\ Max(1..k) = k /\ (1..k) \ {k} = 1..(k - 1)
      BY FirstIndices
    <3> DEFINE w == chosen[1..(k - 1)]
               e == l[k]
    <3>2. chosen[1..k] = IF e[1] = key THEN Append(w, e[2]) ELSE w
      <4> DEFINE s == 1..k
      <4>1. chosen[s] = IF s = {} THEN <<>>
                        ELSE IF l[Max(s)][1] = key
                            THEN Append(chosen[s \ {Max(s)}], l[Max(s)][2]) ELSE chosen[s \ {Max(s)}]
        BY <1>5, <3>1, ZenonT(60)
      <4> QED
        BY <3>1, <4>1, ZenonT(60)
    <3> HIDE DEF w, e
    <3>3. AllG(key)[<<w, e>>] = IF e[1] = key THEN Append(w, e[2]) ELSE w
      BY <2>2, <3>1 DEF AllG, w, e
    <3> QED
      BY <3>2, <3>3 DEF w, e
  <2> QED
    BY <2>1, <2>2 DEF Reduces
<1>7. FoldsTo(AllG(key), Seq(Words), <<>>, l, chosen[DOMAIN l])
  BY <1>2, <1>6, ReducesFolds
<1> QED
  BY <1>1, <1>2, <1>7

\* The values of a key with one entry more.
LEMMA AllStep ==
  ASSUME NEW key, NEW l \in Seq(Entry), NEW x \in Entry
  PROVE  /\ AllFor(<<>>, key) = <<>> /\ AllFor(l, key) \in Seq(Words)
         /\ AllFor(Append(l, x), key) =
              IF x[1] = key THEN Append(AllFor(l, key), x[2]) ELSE AllFor(l, key)
<1>1. AllG(key) \in [Seq(Words) \X Entry -> Seq(Words)] /\ <<>> \in Seq(Words)
          /\ FoldsTo(AllG(key), Seq(Words), <<>>, l, AllFor(l, key))
  BY AllFold
<1>2. FoldsTo(AllG(key), Seq(Words), <<>>, <<>>, AllFor(<<>>, key))
  BY AllFold, <<>> \in Seq(Entry)
<1>3. FoldsTo(AllG(key), Seq(Words), <<>>, Append(l, x), AllFor(Append(l, x), key))
  BY AllFold, Append(l, x) \in Seq(Entry)
<1>4. Folding(Seq(Words), Entry, <<>>, AllG(key), l, x, AllFor(<<>>, key), AllFor(l, key),
            AllFor(Append(l, x), key))
  BY <1>1, <1>2, <1>3 DEF Folding
<1>5. /\ AllFor(<<>>, key) = <<>> /\ AllFor(l, key) \in Seq(Words)
      /\ Applied(AllG(key), AllFor(l, key), x, AllFor(Append(l, x), key))
  BY <1>4, FoldSteps
<1> QED
  BY <1>5 DEF AllG, Applied

\* The fields of a report, one header after the other.
FieldsG ==
  [p \in Seq(Words) \X Words |-> p[1] \o Pieces(p[2], "|")]

\* Joined folds FieldsG.
LEMMA FieldsFold ==
  ASSUME NEW l \in Seq(Words)
  PROVE  /\ FieldsG \in [Seq(Words) \X Words -> Seq(Words)] /\ <<>> \in Seq(Words)
         /\ FoldsTo(FieldsG, Seq(Words), <<>>, l, Joined(l))
<1> DEFINE A(it) == it = [s \in SUBSET DOMAIN l |->
                        IF s = {} THEN <<>>
                        ELSE it[s \ {Max(s)}] \o Pieces(l[Max(s)], "|")]
           chosen == CHOOSE it : A(it)
<1>1. Joined(l) = chosen[DOMAIN l]
  BY Zenon DEF Joined, FoldLeft, MapThenFoldSet
<1>2. FieldsG \in [Seq(Words) \X Words -> Seq(Words)] /\ <<>> \in Seq(Words)
  <2>1. ASSUME NEW v \in Seq(Words), NEW x \in Words PROVE (v \o Pieces(x, "|")) \in Seq(Words)
    BY PiecesType
  <2>2. <<>> \in Seq(Words)
    OBVIOUS
  <2> QED
    BY <2>1, <2>2 DEF FieldsG
<1>3. PICK iter : Iterates(iter, Seq(Words), Words, <<>>, FieldsG, l)
  BY <1>2, IterExists
<1>4. A(iter)
  BY <1>3 DEF FieldsG, Iterates
<1>5. A(chosen)
  BY <1>4
<1> HIDE DEF chosen
<1>6. Reduces(chosen, Seq(Words), <<>>, FieldsG, l)
  <2>1. chosen[{}] = <<>>
    BY <1>5
  <2>2. ASSUME NEW k \in 1..Len(l), chosen[1..(k - 1)] \in Seq(Words)
        PROVE  chosen[1..k] = FieldsG[<<chosen[1..(k - 1)], l[k]>>]
    <3>1. /\ 1..k \in SUBSET DOMAIN l /\ 1..k # {} /\ l[k] \in Words
          /\ Max(1..k) = k /\ (1..k) \ {k} = 1..(k - 1)
      BY FirstIndices
    <3> QED
      BY <1>5, <2>2, <3>1 DEF FieldsG
  <2> QED
    BY <2>1, <2>2 DEF Reduces
<1>7. FoldsTo(FieldsG, Seq(Words), <<>>, l, chosen[DOMAIN l])
  BY <1>2, <1>6, ReducesFolds
<1> QED
  BY <1>1, <1>2, <1>7

\* The fields with one header more.
LEMMA FieldsStep ==
  ASSUME NEW l \in Seq(Words), NEW x \in Words
  PROVE  /\ Joined(<<>>) = <<>> /\ Joined(l) \in Seq(Words)
         /\ Joined(Append(l, x)) =
              Joined(l) \o Pieces(x, "|")
<1>1. FieldsG \in [Seq(Words) \X Words -> Seq(Words)] /\ <<>> \in Seq(Words)
          /\ FoldsTo(FieldsG, Seq(Words), <<>>, l, Joined(l))
  BY FieldsFold
<1>2. FoldsTo(FieldsG, Seq(Words), <<>>, <<>>, Joined(<<>>))
  BY FieldsFold, <<>> \in Seq(Words)
<1>3. FoldsTo(FieldsG, Seq(Words), <<>>, Append(l, x), Joined(Append(l, x)))
  BY FieldsFold, Append(l, x) \in Seq(Words)
<1>4. Folding(Seq(Words), Words, <<>>, FieldsG, l, x, Joined(<<>>), Joined(l),
            Joined(Append(l, x)))
  BY <1>1, <1>2, <1>3 DEF Folding
<1>5. /\ Joined(<<>>) = <<>> /\ Joined(l) \in Seq(Words)
      /\ Applied(FieldsG, Joined(l), x, Joined(Append(l, x)))
  BY <1>4, FoldSteps
<1> QED
  BY <1>5 DEF FieldsG, Applied

\* The text of a section, one entry after the other.
LinesG ==
  [p \in Words \X Entry |-> p[1] \o (IF p[1] = <<>> THEN <<>> ELSE <<";">>) \o EntryText(p[2])]

\* EntriesText folds LinesG.
LEMMA LinesFold ==
  ASSUME NEW l \in Seq(Entry)
  PROVE  /\ LinesG \in [Words \X Entry -> Words] /\ <<>> \in Words
         /\ FoldsTo(LinesG, Words, <<>>, l, EntriesText(l))
<1> DEFINE A(it) == it = [s \in SUBSET DOMAIN l |->
                        IF s = {} THEN <<>>
                        ELSE it[s \ {Max(s)}]
                             \o (IF it[s \ {Max(s)}] = <<>> THEN <<>> ELSE <<";">>)
                             \o EntryText(l[Max(s)])]
           chosen == CHOOSE it : A(it)
<1>1. EntriesText(l) = chosen[DOMAIN l]
  BY Zenon DEF EntriesText, FoldLeft, MapThenFoldSet
<1>2. LinesG \in [Words \X Entry -> Words] /\ <<>> \in Words
  <2>1. ASSUME NEW v \in Words, NEW x \in Entry
        PROVE (v \o (IF v = <<>> THEN <<>> ELSE <<";">>) \o EntryText(x)) \in Words
    BY EntryTextType, WordsType DEF Special
  <2>2. <<>> \in Words
    BY WordsType
  <2> QED
    BY <2>1, <2>2 DEF LinesG
<1>3. PICK iter : Iterates(iter, Words, Entry, <<>>, LinesG, l)
  BY <1>2, IterExists
<1>4. A(iter)
  BY <1>3, ZenonT(60) DEF LinesG, Iterates
<1>5. A(chosen)
  BY <1>4
<1> HIDE DEF chosen
<1>6. Reduces(chosen, Words, <<>>, LinesG, l)
  <2>1. chosen[{}] = <<>>
    BY <1>5
  <2>2. ASSUME NEW k \in 1..Len(l), chosen[1..(k - 1)] \in Words
        PROVE  chosen[1..k] = LinesG[<<chosen[1..(k - 1)], l[k]>>]
    <3>1. /\ 1..k \in SUBSET DOMAIN l /\ 1..k # {} /\ l[k] \in Entry
          /\ Max(1..k) = k /\ (1..k) \ {k} = 1..(k - 1)
      BY FirstIndices
    <3> QED
      BY <1>5, <2>2, <3>1 DEF LinesG
  <2> QED
    BY <2>1, <2>2 DEF Reduces
<1>7. FoldsTo(LinesG, Words, <<>>, l, chosen[DOMAIN l])
  BY <1>2, <1>6, ReducesFolds
<1> QED
  BY <1>1, <1>2, <1>7

\* The text of one entry more.
LEMMA LinesStep ==
  ASSUME NEW l \in Seq(Entry), NEW x \in Entry
  PROVE  /\ EntriesText(<<>>) = <<>> /\ EntriesText(l) \in Words
         /\ EntriesText(Append(l, x)) =
              EntriesText(l)
              \o (IF EntriesText(l) = <<>> THEN <<>> ELSE <<";">>) \o EntryText(x)
<1>1. LinesG \in [Words \X Entry -> Words] /\ <<>> \in Words
          /\ FoldsTo(LinesG, Words, <<>>, l, EntriesText(l))
  BY LinesFold
<1>2. FoldsTo(LinesG, Words, <<>>, <<>>, EntriesText(<<>>))
  BY LinesFold, <<>> \in Seq(Entry)
<1>3. FoldsTo(LinesG, Words, <<>>, Append(l, x), EntriesText(Append(l, x)))
  BY LinesFold, Append(l, x) \in Seq(Entry)
<1>4. Folding(Words, Entry, <<>>, LinesG, l, x, EntriesText(<<>>), EntriesText(l),
            EntriesText(Append(l, x)))
  BY <1>1, <1>2, <1>3 DEF Folding
<1>5. /\ EntriesText(<<>>) = <<>> /\ EntriesText(l) \in Words
      /\ Applied(LinesG, EntriesText(l), x, EntriesText(Append(l, x)))
  BY <1>4, FoldSteps
<1> QED
  BY <1>5 DEF LinesG, Applied


\* The text of a section.
LEMMA SectionTextType ==
  ASSUME NEW sec \in Sections
  PROVE  SectionText(sec) \in Words /\ SectionText(sec) # <<>>
<1>1. sec.name \in Words /\ EntriesText(sec.entries) \in Words
  <2>1. <<NewLine, <<>>>> \in Entry
    <3>1. NewLine \in Word /\ <<>> \in Words
      BY WordsType DEF Special
    <3> QED
      BY <3>1 DEF Entry
  <2> QED
    BY <2>1, SectionType, LinesStep
<1>2. <<"[">> \in Words /\ <<"]">> \in Words
  BY WordsType DEF Special
<1> QED
  BY <1>1, <1>2 DEF SectionText, Words

\* The text of a file, one section after the other.
TextG ==
  [p \in Words \X Sections |->
     p[1] \o (IF p[1] = <<>> THEN <<>> ELSE <<";", NewLine>>) \o SectionText(p[2])]

\* Text folds TextG.
LEMMA TextFold ==
  ASSUME NEW f \in Seq(Sections)
  PROVE  /\ TextG \in [Words \X Sections -> Words] /\ <<>> \in Words
         /\ FoldsTo(TextG, Words, <<>>, f, Text(f))
<1> DEFINE A(it) == it = [s \in SUBSET DOMAIN f |->
                        IF s = {} THEN <<>>
                        ELSE it[s \ {Max(s)}]
                             \o (IF it[s \ {Max(s)}] = <<>> THEN <<>> ELSE <<";", NewLine>>)
                             \o SectionText(f[Max(s)])]
           chosen == CHOOSE it : A(it)
<1>1. Text(f) = chosen[DOMAIN f]
  BY Zenon DEF Text, FoldLeft, MapThenFoldSet
<1>2. TextG \in [Words \X Sections -> Words] /\ <<>> \in Words
  <2>1. ASSUME NEW v \in Words, NEW x \in Sections
        PROVE (v \o (IF v = <<>> THEN <<>> ELSE <<";", NewLine>>) \o SectionText(x)) \in Words
    <3>1. (IF v = <<>> THEN <<>> ELSE <<";", NewLine>>) \in Words
      <4>1. <<";", NewLine>> \in Words
        BY WordsType DEF Special
      <4> QED
        BY <4>1, WordsType
    <3> DEFINE i == IF v = <<>> THEN <<>> ELSE <<";", NewLine>>
    <3>2. SectionText(x) \in Words
      BY SectionTextType
    <3> HIDE DEF i
    <3>3. v \o i \in Words
      BY <3>1, WordsType DEF i
    <3>4. (v \o i) \o SectionText(x) \in Words
      BY <3>2, <3>3, WordsType
    <3> QED
      BY <3>4 DEF i
  <2>2. <<>> \in Words
    BY WordsType
  <2> QED
    BY <2>1, <2>2 DEF TextG
<1>3. PICK iter : Iterates(iter, Words, Sections, <<>>, TextG, f)
  BY <1>2, IterExists
<1>4. A(iter)
  BY <1>3, ZenonT(60) DEF TextG, Iterates
<1>5. A(chosen)
  BY <1>4
<1> HIDE DEF chosen
<1>6. Reduces(chosen, Words, <<>>, TextG, f)
  <2>1. chosen[{}] = <<>>
    BY <1>5
  <2>2. ASSUME NEW k \in 1..Len(f), chosen[1..(k - 1)] \in Words
        PROVE  chosen[1..k] = TextG[<<chosen[1..(k - 1)], f[k]>>]
    <3>1. /\ 1..k \in SUBSET DOMAIN f /\ 1..k # {} /\ f[k] \in Sections
          /\ Max(1..k) = k /\ (1..k) \ {k} = 1..(k - 1)
      BY FirstIndices
    <3> QED
      BY <1>5, <2>2, <3>1 DEF TextG
  <2> QED
    BY <2>1, <2>2 DEF Reduces
<1>7. FoldsTo(TextG, Words, <<>>, f, chosen[DOMAIN f])
  BY <1>2, <1>6, ReducesFolds
<1> QED
  BY <1>1, <1>2, <1>7

\* The text of one section more.
LEMMA TextStep ==
  ASSUME NEW f \in Seq(Sections), NEW x \in Sections
  PROVE  /\ Text(<<>>) = <<>> /\ Text(f) \in Words
         /\ Text(Append(f, x)) =
              Text(f) \o (IF Text(f) = <<>> THEN <<>> ELSE <<";", NewLine>>) \o SectionText(x)
<1>1. TextG \in [Words \X Sections -> Words] /\ <<>> \in Words
          /\ FoldsTo(TextG, Words, <<>>, f, Text(f))
  BY TextFold
<1>2. FoldsTo(TextG, Words, <<>>, <<>>, Text(<<>>))
  BY TextFold, <<>> \in Seq(Sections)
<1>3. FoldsTo(TextG, Words, <<>>, Append(f, x), Text(Append(f, x)))
  BY TextFold, Append(f, x) \in Seq(Sections)
<1>4. Folding(Words, Sections, <<>>, TextG, f, x, Text(<<>>), Text(f),
            Text(Append(f, x)))
  BY <1>1, <1>2, <1>3 DEF Folding
<1>5. /\ Text(<<>>) = <<>> /\ Text(f) \in Words
      /\ Applied(TextG, Text(f), x, Text(Append(f, x)))
  BY <1>4, FoldSteps
<1> QED
  BY <1>5 DEF TextG, Applied


\* The fields to sort by, of all a report has.
Pushed(item, l) == FoldLeft(LAMBDA t, p : Push(item, t, p[1]), <<>>, l)

\* A field that is pushed is one of the report.
LEMMA PushType ==
  ASSUME NEW item, item.fields_list \in Seq(Words), NEW t \in Seq(Words),
         NEW p \in Range(Numbers)
  PROVE  Push(item, t, p[1]) \in Seq(Words) /\ Number[p[1]] \in 1..3
<1>1. p[1] \in {"1", "2", "3"}
  BY DEF Range, Numbers
<1>2. Number[p[1]] \in 1..3
  BY <1>1 DEF Number
<1> QED
  BY <1>2 DEF Push

\* The fields to sort by, one number after the other.
SortedG(item) ==
  [p \in Seq(Words) \X Range(Numbers) |-> Push(item, p[1], p[2][1])]

\* Pushed folds SortedG.
LEMMA SortedFold ==
  ASSUME NEW item, item.fields_list \in Seq(Words), NEW l \in Seq(Range(Numbers))
  PROVE  /\ SortedG(item) \in [Seq(Words) \X Range(Numbers) -> Seq(Words)]
                /\ <<>> \in Seq(Words)
         /\ FoldsTo(SortedG(item), Seq(Words), <<>>, l, Pushed(item, l))
<1> DEFINE A(it) == it = [s \in SUBSET DOMAIN l |->
                        IF s = {} THEN <<>>
                        ELSE Push(item, it[s \ {Max(s)}], l[Max(s)][1])]
           chosen == CHOOSE it : A(it)
<1>1. Pushed(item, l) = chosen[DOMAIN l]
  BY Zenon DEF Pushed, FoldLeft, MapThenFoldSet
<1>2. SortedG(item) \in [Seq(Words) \X Range(Numbers) -> Seq(Words)] /\ <<>> \in Seq(Words)
  <2>1. ASSUME NEW v \in Seq(Words), NEW x \in Range(Numbers)
        PROVE (Push(item, v, x[1])) \in Seq(Words)
    BY PushType
  <2>2. <<>> \in Seq(Words)
    OBVIOUS
  <2> QED
    BY <2>1, <2>2 DEF SortedG
<1>3. PICK iter : Iterates(iter, Seq(Words), Range(Numbers), <<>>, SortedG(item), l)
  BY <1>2, IterExists
<1>4. A(iter)
  BY <1>3 DEF SortedG, Iterates
<1>5. A(chosen)
  BY <1>4
<1> HIDE DEF chosen
<1>6. Reduces(chosen, Seq(Words), <<>>, SortedG(item), l)
  <2>1. chosen[{}] = <<>>
    BY <1>5
  <2>2. ASSUME NEW k \in 1..Len(l), chosen[1..(k - 1)] \in Seq(Words)
        PROVE  chosen[1..k] = SortedG(item)[<<chosen[1..(k - 1)], l[k]>>]
    <3>1. /\ 1..k \in SUBSET DOMAIN l /\ 1..k # {} /\ l[k] \in Range(Numbers)
          /\ Max(1..k) = k /\ (1..k) \ {k} = 1..(k - 1)
      BY FirstIndices
    <3> QED
      BY <1>5, <2>2, <3>1 DEF SortedG
  <2> QED
    BY <2>1, <2>2 DEF Reduces
<1>7. FoldsTo(SortedG(item), Seq(Words), <<>>, l, chosen[DOMAIN l])
  BY <1>2, <1>6, ReducesFolds
<1> QED
  BY <1>1, <1>2, <1>7

\* One number more to sort by (custom_report_post_prcess).
LEMMA SortedStep ==
  ASSUME NEW item, item.fields_list \in Seq(Words), NEW l \in Seq(Range(Numbers)),
         NEW x \in Range(Numbers)
  PROVE  /\ Pushed(item, <<>>) = <<>> /\ Pushed(item, l) \in Seq(Words)
         /\ Pushed(item, Append(l, x)) =
              Push(item, Pushed(item, l), x[1])
<1>1. SortedG(item) \in [Seq(Words) \X Range(Numbers) -> Seq(Words)] /\ <<>> \in Seq(Words)
          /\ FoldsTo(SortedG(item), Seq(Words), <<>>, l, Pushed(item, l))
  BY SortedFold
<1>2. FoldsTo(SortedG(item), Seq(Words), <<>>, <<>>, Pushed(item, <<>>))
  BY SortedFold, <<>> \in Seq(Range(Numbers))
<1>3. FoldsTo(SortedG(item), Seq(Words), <<>>, Append(l, x), Pushed(item, Append(l, x)))
  BY SortedFold, Append(l, x) \in Seq(Range(Numbers))
<1>4. Folding(Seq(Words), Range(Numbers), <<>>, SortedG(item), l, x, Pushed(item, <<>>),
          Pushed(item, l),
            Pushed(item, Append(l, x)))
  BY <1>1, <1>2, <1>3 DEF Folding
<1>5. /\ Pushed(item, <<>>) = <<>> /\ Pushed(item, l) \in Seq(Words)
      /\ Applied(SortedG(item), Pushed(item, l), x, Pushed(item, Append(l, x)))
  BY <1>4, FoldSteps
<1> QED
  BY <1>5 DEF SortedG, Applied

-----------------------------------------------------------------------------
(* Scanning a text, one word after the other.                              *)

\* Induction over sequences.
LEMMA SequenceInduction ==
  ASSUME NEW E, NEW P, <<>> \in P,
         \A seq \in Seq(E), x \in E : seq \in P => Append(seq, x) \in P
  PROVE  Seq(E) \subseteq P
<1> DEFINE N == {n \in Nat : \A seq \in Seq(E) : Len(seq) = n => seq \in P}
<1>1. 0 \in N
  BY EmptySeq
<1>2. ASSUME NEW n \in Nat, n \in N PROVE n + 1 \in N
  <2>1. ASSUME NEW seq \in Seq(E), Len(seq) = n + 1 PROVE seq \in P
    <3> DEFINE front == SubSeq(seq, 1, n)
    <3>1. front \in Seq(E) /\ Len(front) = n /\ \A k \in 1..n : front[k] = seq[k]
      BY <2>1, SubSeqProperties
    <3>2. seq[n + 1] \in E
      BY <2>1
    <3> HIDE DEF front
    <3>3. Append(front, seq[n + 1]) = seq
      <4>1. /\ Append(front, seq[n + 1]) \in Seq(E) /\ Len(Append(front, seq[n + 1])) = n + 1
            /\ \A k \in 1..(n + 1) : Append(front, seq[n + 1])[k] = seq[k]
        BY <3>1, <3>2
      <4> QED
        BY <2>1, <4>1, SeqEqual
    <3> QED
      BY <1>2, <3>1, <3>2, <3>3
  <2> QED
    BY <2>1
<1> HIDE DEF N
<1>3. Nat \subseteq N
  BY <1>1, <1>2, NumberInduction
<1> QED
  BY <1>3 DEF N

\* What the scanner has been in.
Scans(h, t) ==
  /\ h[0] = Start
  /\ \A n \in 1..Len(t) : h[n] = Scan(h[n - 1], t[n], 0)

\* A text is read word for word (custom_report_parse_reports).
LEMMA ScansExist ==
  ASSUME NEW t \in Words
  PROVE  \E h : Scans(h, t)
<1> DEFINE P == {u \in Words : \E h : Scans(h, u)}
<1>1. <<>> \in P
  <2>1. Scans([n \in {0} |-> Start], <<>>)
    BY DEF Scans
  <2> QED
    BY <2>1, WordsType
<1>2. ASSUME NEW u \in Seq(Word), NEW c \in Word, u \in P PROVE Append(u, c) \in P
  <2>1. PICK h : Scans(h, u)
    BY <1>2
  <2> DEFINE n == Len(u)
             s == Scan(h[n], c, 0)
             j == [k \in 0..(n + 1) |-> IF k <= n THEN h[k] ELSE s]
  <2>2. /\ n \in Nat /\ Len(Append(u, c)) = n + 1 /\ Append(u, c)[n + 1] = c
        /\ \A k \in 1..n : Append(u, c)[k] = u[k]
    OBVIOUS
  <2>3. j[0] = Start /\ j[n] = h[n] /\ j[n + 1] = s
    BY <2>1, <2>2 DEF Scans
  <2>4. ASSUME NEW k \in 1..n PROVE j[k] = Scan(j[k - 1], u[k], 0)
    <3>1. h[k] = Scan(h[k - 1], u[k], 0)
      BY <2>1 DEF Scans
    <3>2. j[k] = h[k] /\ j[k - 1] = h[k - 1]
      BY <2>2
    <3> QED
      BY <3>1, <3>2
  <2> HIDE DEF j, n
  <2>5. ASSUME NEW k \in 1..(n + 1) PROVE j[k] = Scan(j[k - 1], Append(u, c)[k], 0)
    <3>1. CASE k = n + 1
      <4>1. k - 1 = n
        BY <2>2, <3>1
      <4> QED
        BY <2>2, <2>3, <3>1, <4>1
    <3>2. CASE k # n + 1
      <4>1. k \in 1..n
        BY <2>2, <3>2
      <4> QED
        BY <2>2, <2>4, <4>1
    <3> QED
      BY <3>1, <3>2
  <2>6. Scans(j, Append(u, c))
    BY <2>2, <2>3, <2>5 DEF Scans
  <2> QED
    BY <2>6, WordsType DEF Words
<1> HIDE DEF P
<1> QED
  BY <1>1, <1>2, SequenceInduction DEF P, Words

\* Scanned is what has been read behind the last word.
LEMMA ScannedLast ==
  ASSUME NEW t \in Words
  PROVE  \E h : Scans(h, t) /\ Scanned(t, 0) = h[Len(t)]
<1> DEFINE A(it) == it = [n \in 0..Len(t) |->
                            IF n = 0 THEN Start ELSE Scan(it[n - 1], t[n], 0)]
           after == CHOOSE it : A(it)
<1>1. Scanned(t, 0) = after[Len(t)]
  BY Zenon DEF Scanned
<1>2. PICK h : Scans(h, t)
  BY ScansExist
<1> DEFINE j == [n \in 0..Len(t) |-> h[n]]
<1>3. Len(t) \in Nat
  BY DEF Words
<1>4. ASSUME NEW n \in 0..Len(t)
      PROVE  h[n] = IF n = 0 THEN Start ELSE Scan(j[n - 1], t[n], 0)
  <2>1. CASE n = 0
    BY <1>2, <2>1 DEF Scans
  <2>2. CASE n # 0
    <3>1. n \in 1..Len(t) /\ n - 1 \in 0..Len(t)
      BY <1>3, <2>2
    <3>2. h[n] = Scan(h[n - 1], t[n], 0)
      BY <1>2, <3>1 DEF Scans
    <3>3. j[n - 1] = h[n - 1]
      BY <3>1
    <3> QED
      BY <2>2, <3>2, <3>3
  <2> QED
    BY <2>1, <2>2
<1>5. A(j)
  BY Zenon, <1>4
<1>6. A(after)
  BY Zenon, <1>5
<1> HIDE DEF after
<1>7. after[0] = Start
  BY <1>3, <1>6
<1>8. ASSUME NEW n \in 1..Len(t) PROVE after[n] = Scan(after[n - 1], t[n], 0)
  <2>1. n \in 0..Len(t) /\ n # 0
    BY <1>3
  <2> QED
    BY <1>6, <2>1
<1> QED
  BY <1>1, <1>7, <1>8 DEF Scans

\* One word more is scanned from where the text before ended.
LEMMA ScannedStep ==
  ASSUME NEW t \in Words, NEW c \in Word
  PROVE  Scanned(<<>>, 0) = Start /\ Scanned(Append(t, c), 0) = Scan(Scanned(t, 0), c, 0)
<1>1. PICK h : Scans(h, t) /\ Scanned(t, 0) = h[Len(t)]
  BY ScannedLast
<1>2. PICK j : Scans(j, Append(t, c)) /\ Scanned(Append(t, c), 0) = j[Len(Append(t, c))]
  BY ScannedLast, WordsType
<1>3. PICK i : Scans(i, <<>>) /\ Scanned(<<>>, 0) = i[Len(<<>>)]
  BY ScannedLast, WordsType
<1> DEFINE n == Len(t)
           P == {k \in Nat : k <= n => j[k] = h[k]}
<1>4. /\ n \in Nat /\ Len(Append(t, c)) = n + 1 /\ Append(t, c)[n + 1] = c
      /\ \A k \in 1..n : Append(t, c)[k] = t[k]
  BY DEF Words
<1>5. 0 \in P
  BY <1>1, <1>2 DEF Scans
<1>6. ASSUME NEW k \in Nat, k \in P PROVE k + 1 \in P
  <2>1. ASSUME k + 1 <= n PROVE j[k + 1] = h[k + 1]
    <3>1. j[k] = h[k] /\ k + 1 \in 1..n /\ k + 1 \in 1..(n + 1) /\ (k + 1) - 1 = k
      BY <1>4, <1>6, <2>1
    <3>2. Append(t, c)[k + 1] = t[k + 1]
      BY <1>4, <3>1
    <3>3. j[k + 1] = Scan(j[k], t[k + 1], 0)
      BY <1>2, <1>4, <3>1, <3>2 DEF Scans
    <3>4. h[k + 1] = Scan(h[k], t[k + 1], 0)
      BY <1>1, <3>1 DEF Scans
    <3> QED
      BY <3>1, <3>3, <3>4
  <2> QED
    BY <2>1
<1> HIDE DEF P
<1>7. n \in P
  BY <1>4, <1>5, <1>6, NumberInduction
<1>8. j[n] = h[n]
  BY <1>4, <1>7 DEF P
<1>9. n + 1 \in 1..(n + 1) /\ (n + 1) - 1 = n
  BY <1>4
<1>10. j[n + 1] = Scan(j[n], c, 0)
  BY <1>2, <1>4, <1>9 DEF Scans
<1>11. i[0] = Start /\ Len(<<>>) = 0
  BY <1>3 DEF Scans
<1> QED
  BY <1>1, <1>2, <1>3, <1>4, <1>8, <1>10, <1>11

-----------------------------------------------------------------------------
(* What the scanner does with the parts of a file.                         *)

\* Texts in a row, and a word more.
LEMMA Rows ==
  ASSUME NEW t \in Words, NEW u \in Words, NEW c \in Word
  PROVE  t \o Append(u, c) = Append(t \o u, c) /\ t \o <<c>> = Append(t, c)
<1>1. u \o <<c>> = Append(u, c) /\ t \o <<c>> = Append(t, c)
  BY AppendIsConcat DEF Words
<1>2. <<c>> \in Seq(Word) /\ t \in Seq(Word) /\ u \in Seq(Word)
  BY DEF Words
<1>3. t \o (u \o <<c>>) = (t \o u) \o <<c>> /\ t \o u \in Seq(Word)
  BY <1>2, ConcatAssociative, ConcatProperties
<1>4. (t \o u) \o <<c>> = Append(t \o u, c)
  BY <1>3, AppendIsConcat
<1> QED
  BY <1>1, <1>3, <1>4

\* Texts of one and of two words.
LEMMA ShortTexts ==
  ASSUME NEW E, NEW c \in E, NEW d \in E
  PROVE  /\ <<c>> \in Seq(E) /\ Append(<<>>, c) = <<c>>
         /\ Append(<<c>>, d) = <<c, d>> /\ Tail(<<c, d>>) = <<d>>
<1>1. <<c>> \in Seq(E) /\ <<d>> \in Seq(E) /\ <<>> \in Seq(E)
  OBVIOUS
<1>2. Append(<<>>, c) = <<>> \o <<c>>
  BY <1>1, AppendIsConcat
<1>3. <<>> \o <<c>> = <<c>>
  BY <1>1, ConcatEmptySeq
<1>4. Append(<<c>>, d) = <<c, d>>
  <2>1. <<c, d>> \in Seq(E) /\ Len(<<c, d>>) = 2 /\ <<c, d>>[1] = c /\ <<c, d>>[2] = d
    OBVIOUS
  <2>2. Len(<<c>>) = 1 /\ <<c>>[1] = c
    OBVIOUS
  <2>3. /\ Append(<<c>>, d) \in Seq(E) /\ Len(Append(<<c>>, d)) = 2
        /\ Append(<<c>>, d)[1] = c /\ Append(<<c>>, d)[2] = d
    BY <1>1, <2>2, AppendProperties
  <2>4. \A k \in 1..2 : k = 1 \/ k = 2
    OBVIOUS
  <2> QED
    BY <2>1, <2>3, <2>4, SeqEqual
<1>5. Tail(<<c, d>>) = <<d>>
  <2>1. /\ <<c, d>> \in Seq(E) /\ <<c, d>> # <<>> /\ Len(<<c, d>>) = 2
        /\ <<c, d>>[2] = d
    OBVIOUS
  <2> DEFINE p == <<c, d>>
  <2>2. Tail(p) \in Seq(E) /\ Len(Tail(p)) = Len(p) - 1
            /\ \A k \in 1..Len(Tail(p)) : Tail(p)[k] = p[k + 1]
    BY <2>1, HeadTailProperties
  <2> HIDE DEF p
  <2>3. p[2] = d /\ Len(p) = 2
    BY <2>1 DEF p
  <2>4. Len(Tail(p)) = 1 /\ Tail(p)[1] = d
    <3>1. Len(Tail(p)) = 1 /\ 1 \in 1..1 /\ 1 + 1 = 2
      BY <2>2, <2>3
    <3> QED
      BY <2>2, <2>3, <3>1
  <2>5. Len(<<d>>) = 1 /\ <<d>>[1] = d
    OBVIOUS
  <2>6. \A k \in 1..1 : k = 1
    OBVIOUS
  <2>7. Tail(p) = <<d>>
    BY <1>1, <2>2, <2>4, <2>5, <2>6, SeqEqual
  <2> QED
    BY <2>7 DEF p
<1> QED
  BY <1>1, <1>2, <1>3, <1>4, <1>5

\* After a text t the scanner is in `reading', has passed `text' of it, and so on.
Stands(t, reading, text, key, sec, its) ==
  /\ t \in Words /\ text \in Words
  /\ Scanned(t, 0) = [reading |-> reading, text |-> text, key |-> key, sec |-> sec,
                      items |-> its]

\* The words that mean something in a name, a value and a key.
Ends(reading) ==
  CASE reading = "section" -> {"[", "]"} [] reading = "value" -> {"[", ";"}
    [] OTHER -> {"[", "="}

\* Any other word is part of it, and so is a text of others.
LEMMA ScanWord ==
  ASSUME NEW t, NEW r \in {"section", "value", "key", "next key"}, NEW u, NEW key, NEW n,
         NEW its, Stands(t, r, u, key, n, its), NEW c \in Word \ Ends(r)
  PROVE  Stands(Append(t, c), r, Append(u, c), key, n, its)
<1> DEFINE s == Scanned(t, 0)
<1>1. s = [reading |-> r, text |-> u, key |-> key, sec |-> n, items |-> its]
  BY DEF Stands
<1>2. Scanned(Append(t, c), 0) = Scan(s, c, 0)
  BY ScannedStep DEF Stands
<1> HIDE DEF s
<1>3. /\ c # "["
      /\ ~(c = "]" /\ s.reading = "section") /\ ~(c = "=" /\ s.reading = "key")
      /\ ~(c = "=" /\ s.reading = "next key")
      /\ ~(c = ";" /\ s.reading \in {"nothing", "value"})
  BY <1>1 DEF Ends
<1>4. Scan(s, c, 0) = [s EXCEPT !.text = Append(@, c)]
  BY <1>3 DEF Scan
<1>5. Scan(s, c, 0) = [reading |-> r, text |-> Append(u, c), key |-> key, sec |-> n,
          items |-> its]
  BY <1>1, <1>4
<1>6. Append(t, c) \in Words /\ Append(u, c) \in Words
  BY WordsType DEF Stands
<1> QED
  BY <1>2, <1>5, <1>6 DEF Stands

\* A text without the words that end it is collected as it stands.
LEMMA ScanText ==
  ASSUME NEW t, NEW r \in {"section", "value", "key", "next key"}, NEW u, NEW key, NEW n,
         NEW its, Stands(t, r, u, key, n, its), NEW v \in Seq(Word \ Ends(r))
  PROVE  Stands(t \o v, r, u \o v, key, n, its)
<1> DEFINE E == Word \ Ends(r)
           P == {w \in Seq(E) : Stands(t \o w, r, u \o w, key, n, its)}
<1>1. t \in Seq(Word) /\ u \in Seq(Word)
  BY DEF Stands, Words
<1>2. <<>> \in P
  <2>1. t \o <<>> = t /\ u \o <<>> = u
    BY <1>1, ConcatEmptySeq
  <2> QED
    BY Zenon, <2>1, EmptySeq
<1> HIDE DEF E
<1>3. ASSUME NEW w \in Seq(E), NEW c \in E, w \in P PROVE Append(w, c) \in P
  <2>1. w \in Seq(Word) /\ c \in Word
    <3>1. E \subseteq Word
      BY DEF E
    <3> QED
      BY <3>1, SeqMonotonic
  <2>2. Stands(Append(t \o w, c), r, Append(u \o w, c), key, n, its)
    BY <1>3, ScanWord DEF E
  <2>3. t \o Append(w, c) = Append(t \o w, c) /\ u \o Append(w, c) = Append(u \o w, c)
    <3>1. t \o Append(w, c) = Append(t \o w, c)
      BY <1>1, <2>1, Rows DEF Words
    <3>2. u \o Append(w, c) = Append(u \o w, c)
      BY <1>1, <2>1, Rows DEF Words
    <3> QED
      BY <3>1, <3>2
  <2>4. Append(w, c) \in Seq(E)
    BY AppendProperties
  <2> QED
    BY Zenon, <2>2, <2>3, <2>4
<1> HIDE DEF P
<1>4. Seq(E) \subseteq P
  BY <1>2, <1>3, SequenceInduction
<1> QED
  BY <1>4 DEF P, E

\* A name begins.
LEMMA ScanName ==
  ASSUME NEW t, NEW r, NEW u, NEW key, NEW n, NEW its, Stands(t, r, u, key, n, its)
  PROVE  Stands(Append(t, "["), "section", <<>>, key, n, its)
<1> DEFINE s == Scanned(t, 0)
<1>1. "[" \in Word
  BY WordsType DEF Special
<1>2. Scanned(Append(t, "["), 0) = Scan(s, "[", 0)
  BY <1>1, ScannedStep DEF Stands
<1>3. s = [reading |-> r, text |-> u, key |-> key, sec |-> n, items |-> its]
  BY DEF Stands
<1> HIDE DEF s
<1>4. Scan(s, "[", 0) = [s EXCEPT !.reading = "section", !.text = <<>>]
  BY DEF Scan
<1>5. Append(t, "[") \in Words /\ <<>> \in Words
  BY <1>1, WordsType DEF Stands
<1> QED
  BY <1>2, <1>3, <1>4, <1>5 DEF Stands

\* A key ends: it is what stands behind the newline.
LEMMA ScanKey ==
  ASSUME NEW t, NEW r \in {"key", "next key"}, NEW w \in Word, w # NewLine, NEW key, NEW n,
         NEW its, Stands(t, r, <<NewLine, w>>, key, n, its)
  PROVE  Stands(Append(t, "="), "value", <<>>, <<w>>, n, its)
<1> DEFINE s == Scanned(t, 0)
           u == <<NewLine, w>>
<1>1. s = [reading |-> r, text |-> u, key |-> key, sec |-> n, items |-> its] /\ "=" \in Word
  BY WordsType DEF Stands, Special
<1>2. Scanned(Append(t, "="), 0) = Scan(s, "=", 0)
  BY <1>1, ScannedStep DEF Stands
<1>3. stripnlspc(<<w>>) = <<w>> /\ stripnlspc(u) = <<w>>
  <2>1. NewLine \in Word /\ <<>> \in Words /\ <<w>> \in Words /\ <<NewLine>> \in Words
    <3>1. NewLine \in Word /\ <<>> \in Words
      BY WordsType DEF Special
    <3> QED
      BY <3>1, ShortTexts DEF Words
  <2>2. stripnlspc(<<>>) = <<>>
    BY <2>1, StripStep DEF Words
  <2>3. stripnlspc(Append(<<>>, w)) = Append(<<>>, w)
    BY <2>1, <2>2, StripStep DEF Words
  <2>4. stripnlspc(Append(<<>>, NewLine)) = <<>>
    BY <2>1, <2>2, StripStep DEF Words
  <2>5. stripnlspc(Append(<<NewLine>>, w)) = Append(<<>>, w)
    <3>1. Append(<<>>, NewLine) = <<NewLine>>
      BY <2>1, ShortTexts
    <3> QED
      BY <2>1, <2>4, <3>1, StripStep DEF Words
  <2>6. Append(<<>>, w) = <<w>> /\ Append(<<NewLine>>, w) = u
    BY <2>1, ShortTexts
  <2> QED
    BY <2>3, <2>5, <2>6
<1>4. Tail(u) = <<w>>
  <2>1. NewLine \in Word
    BY WordsType DEF Special
  <2> QED
    BY <2>1, ShortTexts
<1>5. Append(t, "=") \in Words /\ <<>> \in Words
  BY <1>1, WordsType DEF Stands
<1> HIDE DEF s, u
<1>6. CASE r = "key"
  <2>1. Scan(s, "=", 0) = [s EXCEPT !.reading = "value", !.text = <<>>,
            !.key = stripnlspc(s.text)]
    BY <1>1, <1>6 DEF Scan
  <2> QED
    BY <1>1, <1>2, <1>3, <1>5, <2>1 DEF Stands
<1>7. CASE r = "next key"
  <2>1. Scan(s, "=", 0) =
          [s EXCEPT !.reading = "value", !.text = <<>>, !.key = stripnlspc(Tail(s.text))]
    BY <1>1, <1>7 DEF Scan
  <2> QED
    BY <1>1, <1>2, <1>3, <1>4, <1>5, <2>1 DEF Stands
<1> QED
  BY <1>6, <1>7

\* A value ends, and goes to the report.
Stored(its, n, key, u) == [its EXCEPT ![n] = parse_value(key, stripnlspc(u), @)]

\* The end of a value stores it in the report of the section.
LEMMA StoreAt ==
  ASSUME NEW t, NEW u, NEW key, NEW n, n # 0, NEW its, Stands(t, "value", u, key, n, its)
  PROVE  /\ Store(Scanned(t, 0)) =
              [reading |-> "value", text |-> u, key |-> key, sec |-> n,
               items |-> Stored(its, n, key, u)]
         /\ Stands(Append(t, ";"), "next key", <<>>, key, n, Stored(its, n, key, u))
<1> DEFINE s == Scanned(t, 0)
<1>1. s = [reading |-> "value", text |-> u, key |-> key, sec |-> n, items |-> its]
  BY DEF Stands
<1>2. ";" \in Word
  BY WordsType DEF Special
<1>3. Scanned(Append(t, ";"), 0) = Scan(s, ";", 0)
  BY <1>2, ScannedStep DEF Stands
<1> HIDE DEF s
<1>4. Store(s) = [s EXCEPT !.items[s.sec] = parse_value(s.key, stripnlspc(s.text), @)]
  BY <1>1 DEF Store
<1>5. Store(s) = [s EXCEPT !.items = Stored(its, n, key, u)]
  BY <1>1, <1>4 DEF Stored
<1>6. Store(s) = [reading |-> "value", text |-> u, key |-> key, sec |-> n,
                  items |-> Stored(its, n, key, u)]
  BY <1>1, <1>5
<1>7. Scan(s, ";", 0) = [Store(s) EXCEPT !.reading = "next key", !.text = <<>>]
  BY <1>1 DEF Scan
<1>8. Append(t, ";") \in Words /\ <<>> \in Words
  BY <1>2, WordsType DEF Stands
<1>9. Scanned(Append(t, ";"), 0) =
        [reading |-> "next key", text |-> <<>>, key |-> key, sec |-> n,
         items |-> Stored(its, n, key, u)]
  <2> DEFINE z == Store(s)
             e == Stored(its, n, key, u)
             y == Scan(s, ";", 0)
  <2>1. z = [reading |-> "value", text |-> u, key |-> key, sec |-> n, items |-> e]
    BY <1>6
  <2>2. y = [z EXCEPT !.reading = "next key", !.text = <<>>]
    BY <1>7
  <2> HIDE DEF z, e, y
  <2>3. y = [reading |-> "next key", text |-> <<>>, key |-> key, sec |-> n, items |-> e]
    BY <2>1, <2>2
  <2> QED
    BY <1>3, <2>3 DEF e, y
<1> QED
  BY <1>6, <1>8, <1>9 DEF Stands, s

\* A name ends: it is of a report that is there now.
Reported(its, name) ==
  IF \E k \in DOMAIN its : its[k].name = name THEN its
  ELSE Append(its, NoItem(name, Len(its)))
\* The report with a name.
NumberOf(its, name) == CHOOSE k \in DOMAIN its : its[k].name = name

\* The end of a section finds its report or makes a new one.
LEMMA ScanSection ==
  ASSUME NEW t, NEW u, NEW key, NEW n, NEW its, Len(its) \in Nat,
         Stands(t, "section", u, key, n, its)
  PROVE  Stands(Append(t, "]"), "key", <<>>, key,
            NumberOf(Reported(its, stripnlspc(u)), stripnlspc(u)), Reported(its, stripnlspc(u)))
<1> DEFINE s == Scanned(t, 0)
           name == stripnlspc(u)
<1>1. s = [reading |-> "section", text |-> u, key |-> key, sec |-> n, items |-> its]
  BY DEF Stands
<1>2. "]" \in Word
  BY WordsType DEF Special
<1>3. Scanned(Append(t, "]"), 0) = Scan(s, "]", 0)
  BY <1>2, ScannedStep DEF Stands
<1> HIDE DEF s, name
<1>4. Scan(s, "]", 0) = Section(s, 0)
  BY <1>1 DEF Scan
<1>5. (IF \E k \in DOMAIN s.items : s.items[k].name = stripnlspc(s.text) THEN s.items
       ELSE Append(s.items, NoItem(stripnlspc(s.text), 0 + Len(s.items)))) = Reported(its, name)
  BY <1>1 DEF Reported, name
<1>6. Section(s, 0) = [s EXCEPT !.reading = "key", !.text = <<>>, !.items = Reported(its, name),
                         !.sec = NumberOf(Reported(its, name), name)]
  BY <1>1, <1>5 DEF Section, NumberOf, name
<1>7. Append(t, "]") \in Words /\ <<>> \in Words
  BY <1>2, WordsType DEF Stands
<1>8. Scanned(Append(t, "]"), 0) =
        [reading |-> "key", text |-> <<>>, key |-> key,
         sec |-> NumberOf(Reported(its, name), name), items |-> Reported(its, name)]
  BY <1>1, <1>3, <1>4, <1>6
<1> QED
  BY <1>7, <1>8 DEF Stands, name

\* A text without newlines is all there is of it.
LEMMA StripPlain ==
  ASSUME NEW u \in Seq(Word \ {NewLine})
  PROVE  stripnlspc(u) = u
<1> DEFINE E == Word \ {NewLine}
           P == {w \in Seq(E) : stripnlspc(w) = w}
<1>1. <<>> \in P
  <2>1. <<>> \in Seq(Word) /\ NewLine \in Word /\ <<>> \in Seq(E)
    BY WordsType, EmptySeq DEF Special
  <2> QED
    BY <2>1, StripStep
<1>2. ASSUME NEW w \in Seq(E), NEW c \in E, w \in P PROVE Append(w, c) \in P
  <2>1. w \in Seq(Word) /\ c \in Word /\ c # NewLine
    <3>1. Word \ {NewLine} \subseteq Word
      OBVIOUS
    <3> QED
      BY <3>1, SeqMonotonic
  <2>2. stripnlspc(Append(w, c)) = Append(w, c)
    BY <1>2, <2>1, StripStep
  <2>3. Append(w, c) \in Seq(E)
    BY AppendProperties
  <2> QED
    BY <2>2, <2>3
<1> HIDE DEF P, E
<1>3. Seq(E) \subseteq P
  BY <1>1, <1>2, SequenceInduction
<1> QED
  BY <1>3 DEF P, E

-----------------------------------------------------------------------------
(* The reports of a file.                                                  *)

\* The report that some entries make, before its fields are sorted.
Paged(l) ==
  LET values == AllFor(l, "pagination") IN values # <<>> /\ Last(values) = <<"yes">>
\* The report of so many entries, and the reports of a file, before their fields are sorted.
Item(id, n, l) ==
  [id |-> id, name |-> n, fields_list |-> FieldsOf(l), sorted_fields |-> <<>>,
   ssql |-> SqlOf(l, "ssql"), msql |-> SqlOf(l, "msql"), psql |-> SqlOf(l, "psql"),
   pagination |-> Paged(l), prp_sort |-> SortOf(l)]
Items(f) ==
  [k \in 1..Len(NamesOf(f)) |-> Item(k - 1, NamesOf(f)[k], EntriesOf(f, NamesOf(f)[k]))]

\* The last value of a key is that of the last entry, if it has this key.
LEMMA LastValue ==
  ASSUME NEW l \in Seq(Entry), NEW e \in Entry, NEW key
  PROVE  /\ e[1] = key => /\ AllFor(Append(l, e), key) # <<>>
                          /\ Last(AllFor(Append(l, e), key)) = e[2]
         /\ e[1] # key => AllFor(Append(l, e), key) = AllFor(l, key)
<1>1. /\ AllFor(l, key) \in Seq(Words)
      /\ AllFor(Append(l, e), key) =
           IF e[1] = key THEN Append(AllFor(l, key), e[2]) ELSE AllFor(l, key)
  BY AllStep
<1>2. e[2] \in Words
  BY EntryType
<1> DEFINE a == AllFor(l, key)
           b == Append(a, e[2])
<1>3. b # <<>> /\ Len(b) = Len(a) + 1 /\ b[Len(a) + 1] = e[2]
  BY <1>1, <1>2, AppendProperties
<1> HIDE DEF b
<1>4. Last(b) = e[2]
  BY <1>3 DEF Last
<1> QED
  BY <1>1, <1>3, <1>4 DEF b

\* The texts, the sorting, the pages and the fields of one entry more.
LEMMA SqlMore ==
  ASSUME NEW l \in Seq(Entry), NEW e \in Entry, NEW key
  PROVE  SqlOf(Append(l, e), key) =
           IF e[1] = key THEN pasre_sql_flds(e[2]) ELSE SqlOf(l, key)
BY LastValue DEF SqlOf

\* What is sorted by, and whether there are pages, with one entry more.
LEMMA SortMore ==
  ASSUME NEW l \in Seq(Entry), NEW e \in Entry
  PROVE  /\ SortOf(Append(l, e)) = IF e[1] = "sort" THEN e[2] ELSE SortOf(l)
         /\ Paged(Append(l, e)) =
              IF e[1] = "pagination" THEN e[2] = <<"yes">> ELSE Paged(l)
<1>1. SortOf(Append(l, e)) = IF e[1] = "sort" THEN e[2] ELSE SortOf(l)
  BY LastValue DEF SortOf
<1>2. CASE e[1] = "pagination"
  <2>1. Paged(Append(l, e)) = (e[2] = <<"yes">>)
    BY <1>2, LastValue DEF Paged
  <2> QED
    BY <1>1, <1>2, <2>1
<1>3. CASE e[1] # "pagination"
  <2>1. Paged(Append(l, e)) = Paged(l)
    BY <1>3, LastValue DEF Paged
  <2> QED
    BY <1>1, <1>3, <2>1
<1> QED
  BY <1>2, <1>3

\* The fields of a report with one entry more.
LEMMA FieldsMore ==
  ASSUME NEW l \in Seq(Entry), NEW e \in Entry
  PROVE  FieldsOf(Append(l, e)) =
           IF e[1] = "header" THEN FieldsOf(l) \o Pieces(e[2], "|") ELSE FieldsOf(l)
<1>1. /\ AllFor(l, "header") \in Seq(Words)
      /\ AllFor(Append(l, e), "header") =
           IF e[1] = "header" THEN Append(AllFor(l, "header"), e[2]) ELSE AllFor(l, "header")
  BY AllStep
<1>2. e[2] \in Words
  BY EntryType
<1>3. Joined(Append(AllFor(l, "header"), e[2])) =
        Joined(AllFor(l, "header")) \o Pieces(e[2], "|")
  BY <1>1, <1>2, FieldsStep
<1>4. \A m : FieldsOf(m) = Joined(AllFor(m, "header"))
  BY DEF FieldsOf, Joined
<1> QED
  BY <1>1, <1>3, <1>4

\* No entries make an empty report.
LEMMA ItemStart ==
  ASSUME NEW id, NEW n
  PROVE  Item(id, n, <<>>) = NoItem(n, id)
<1>1. \A key : AllFor(<<>>, key) = <<>>
  <2>1. <<<<>>, <<>>>> \in Seq({<<>>})
    OBVIOUS
  <2>2. <<NewLine, <<>>>> \in Entry
    BY WordsType DEF Entry, Special
  <2>3. <<>> \in Seq(Entry)
    BY EmptySeq
  <2> QED
    BY <2>2, <2>3, AllStep
<1>2. <<>> \in Words
  BY WordsType
<1>3. Joined(<<>>) = <<>>
  BY <1>2, EmptySeq, FieldsStep
<1>4. FieldsOf(<<>>) = <<>>
  BY <1>1, <1>3 DEF FieldsOf, Joined
<1>5. SqlOf(<<>>, "ssql") = <<>> /\ SqlOf(<<>>, "msql") = <<>> /\ SqlOf(<<>>, "psql") = <<>>
  BY <1>1 DEF SqlOf
<1>6. SortOf(<<>>) = <<>> /\ Paged(<<>>) = FALSE
  BY <1>1 DEF SortOf, Paged
<1> QED
  BY <1>4, <1>5, <1>6 DEF Item, NoItem

\* An entry goes to the report it is read for.
LEMMA ItemMore ==
  ASSUME NEW id, NEW n, NEW l \in Seq(Entry), NEW e \in Entry
  PROVE  parse_value(<<e[1]>>, e[2], Item(id, n, l)) = Item(id, n, Append(l, e))
<1> DEFINE i == Item(id, n, l)
           j == Item(id, n, Append(l, e))
           v == parse_value(<<e[1]>>, e[2], i)
<1>1. \A key : (<<e[1]>> = <<key>>) <=> (e[1] = key)
  OBVIOUS
<1>2. i = [id |-> id, name |-> n, fields_list |-> FieldsOf(l), sorted_fields |-> <<>>,
           ssql |-> SqlOf(l, "ssql"), msql |-> SqlOf(l, "msql"), psql |-> SqlOf(l, "psql"),
           pagination |-> Paged(l), prp_sort |-> SortOf(l)]
  BY DEF Item
<1>3. j = [id |-> id, name |-> n,
           fields_list |-> IF e[1] = "header" THEN FieldsOf(l) \o Pieces(e[2], "|")
               ELSE FieldsOf(l),
           sorted_fields |-> <<>>,
           ssql |-> IF e[1] = "ssql" THEN pasre_sql_flds(e[2]) ELSE SqlOf(l, "ssql"),
           msql |-> IF e[1] = "msql" THEN pasre_sql_flds(e[2]) ELSE SqlOf(l, "msql"),
           psql |-> IF e[1] = "psql" THEN pasre_sql_flds(e[2]) ELSE SqlOf(l, "psql"),
           pagination |-> IF e[1] = "pagination" THEN e[2] = <<"yes">> ELSE Paged(l),
           prp_sort |-> IF e[1] = "sort" THEN e[2] ELSE SortOf(l)]
  BY FieldsMore, SqlMore, SortMore DEF Item
<1>4. v = CASE e[1] = "header" -> [i EXCEPT !.fields_list = @ \o Pieces(e[2], "|")]
            [] e[1] = "ssql" -> [i EXCEPT !.ssql = pasre_sql_flds(e[2])]
            [] e[1] = "msql" -> [i EXCEPT !.msql = pasre_sql_flds(e[2])]
            [] e[1] = "psql" -> [i EXCEPT !.psql = pasre_sql_flds(e[2])]
            [] e[1] = "pagination" -> [i EXCEPT !.pagination = (e[2] = <<"yes">>)]
            [] e[1] = "sort" -> [i EXCEPT !.prp_sort = e[2]]
            [] OTHER -> i
  BY Zenon, <1>1 DEF parse_value
<1> HIDE DEF i, j, v
<1>5. CASE e[1] = "header"
  <2>1. v = [i EXCEPT !.fields_list = @ \o Pieces(e[2], "|")]
    BY <1>4, <1>5
  <2> DEFINE t == FieldsOf(l) \o Pieces(e[2], "|")
  <2>2. v = [i EXCEPT !.fields_list = t]
    BY <1>2, <2>1
  <2>3. j = [id |-> id, name |-> n, fields_list |-> t, sorted_fields |-> <<>>,
             ssql |-> SqlOf(l, "ssql"), msql |-> SqlOf(l, "msql"), psql |-> SqlOf(l, "psql"),
             pagination |-> Paged(l), prp_sort |-> SortOf(l)]
    BY <1>3, <1>5
  <2> HIDE DEF t
  <2>4. v = j
    BY <1>2, <2>2, <2>3
  <2> QED
    BY <2>4 DEF i, j, v
<1>6. CASE e[1] = "ssql"
  <2>1. v = [i EXCEPT !.ssql = pasre_sql_flds(e[2])]
    BY <1>4, <1>6
  <2> QED
    BY <1>2, <1>3, <1>6, <2>1 DEF i, j, v
<1>7. CASE e[1] = "msql"
  <2>1. v = [i EXCEPT !.msql = pasre_sql_flds(e[2])]
    BY <1>4, <1>7
  <2> QED
    BY <1>2, <1>3, <1>7, <2>1 DEF i, j, v
<1>8. CASE e[1] = "psql"
  <2>1. v = [i EXCEPT !.psql = pasre_sql_flds(e[2])]
    BY <1>4, <1>8
  <2> QED
    BY <1>2, <1>3, <1>8, <2>1 DEF i, j, v
<1>9. CASE e[1] = "pagination"
  <2>1. v = [i EXCEPT !.pagination = (e[2] = <<"yes">>)]
    BY <1>4, <1>9
  <2> QED
    BY <1>2, <1>3, <1>9, <2>1 DEF i, j, v
<1>10. CASE e[1] = "sort"
  <2>1. v = [i EXCEPT !.prp_sort = e[2]]
    BY <1>4, <1>10
  <2> QED
    BY <1>2, <1>3, <1>10, <2>1 DEF i, j, v
<1>11. CASE e[1] \notin {"header", "ssql", "msql", "psql", "pagination", "sort"}
  <2>1. v = i
    BY <1>4, <1>11
  <2> QED
    BY <1>2, <1>3, <1>11, <2>1 DEF i, j, v
<1> QED
  BY <1>5, <1>6, <1>7, <1>8, <1>9, <1>10, <1>11

\* The names of a file differ, and a report has entries only in sections with its name.
LEMMA NamesDiffer ==
  ASSUME NEW f \in Seq(Sections)
  PROVE  /\ NamesOf(f) \in Seq(Words)
         /\ \A j, k \in 1..Len(NamesOf(f)) : NamesOf(f)[j] = NamesOf(f)[k] => j = k
         /\ \A n : n \notin Range(NamesOf(f)) => EntriesOf(f, n) = <<>>
<1> DEFINE P == {g \in Seq(Sections) :
                   /\ \A j, k \in 1..Len(NamesOf(g)) : NamesOf(g)[j] = NamesOf(g)[k] => j = k
                   /\ \A n : n \notin Range(NamesOf(g)) => EntriesOf(g, n) = <<>>}
<1>1. <<>> \in P
  <2>1. <<>> \in Seq(Sections) /\ [name |-> <<>>, entries |-> <<>>] \in Sections
    BY EmptySeq DEF Sections
  <2>2. NamesOf(<<>>) = <<>> /\ \A n : EntriesOf(<<>>, n) = <<>>
    BY <2>1, NamesStep, EntriesStep
  <2> QED
    BY <2>1, <2>2
<1>2. ASSUME NEW g \in Seq(Sections), NEW x \in Sections, g \in P PROVE Append(g, x) \in P
  <2> DEFINE a == NamesOf(g)
             b == NamesOf(Append(g, x))
  <2>1. /\ a \in Seq(Words) /\ x.name \in Words
        /\ b = IF x.name \in Range(a) THEN a ELSE Append(a, x.name)
    BY NamesStep, SectionType
  <2>2. \A n : EntriesOf(Append(g, x), n) =
                 IF x.name = n THEN EntriesOf(g, n) \o x.entries ELSE EntriesOf(g, n)
    BY EntriesStep
  <2>3. Append(g, x) \in Seq(Sections)
    BY AppendProperties
  <2>4. /\ \A j, k \in 1..Len(a) : a[j] = a[k] => j = k
        /\ \A n : n \notin Range(a) => EntriesOf(g, n) = <<>>
    BY <1>2
  <2> HIDE DEF a, b
  <2>5. CASE x.name \in Range(a)
    <3>1. \A n : n \notin Range(a) => n # x.name
      BY <2>5
    <3> QED
      BY <2>1, <2>2, <2>3, <2>4, <2>5, <3>1 DEF b
  <2>6. CASE x.name \notin Range(a)
    <3>1. /\ b \in Seq(Words) /\ Len(b) = Len(a) + 1 /\ b[Len(a) + 1] = x.name
          /\ \A k \in 1..Len(a) : b[k] = a[k] /\ a[k] # x.name
      BY <2>1, <2>6, AppendProperties DEF Range
    <3>2. Len(a) \in Nat
      BY <2>1
    <3>3. ASSUME NEW j \in 1..Len(b), NEW k \in 1..Len(b), b[j] = b[k] PROVE j = k
      <4>1. CASE j = Len(a) + 1 /\ k = Len(a) + 1
        BY <4>1
      <4>2. CASE j \in 1..Len(a) /\ k \in 1..Len(a)
        BY <2>4, <3>1, <3>3, <4>2
      <4>3. CASE j = Len(a) + 1 /\ k \in 1..Len(a)
        BY <3>1, <3>3, <4>3
      <4>4. CASE j \in 1..Len(a) /\ k = Len(a) + 1
        BY <3>1, <3>3, <4>4
      <4> QED
        BY <3>1, <3>2, <4>1, <4>2, <4>3, <4>4
    <3>4. ASSUME NEW n, n \notin Range(b) PROVE n \notin Range(a) /\ n # x.name
      <4>1. x.name \in Range(b)
        BY <3>1, <3>2 DEF Range
      <4>2. Range(a) \subseteq Range(b)
        BY <2>1, <3>1, <3>2 DEF Range
      <4> QED
        BY <3>4, <4>1, <4>2
    <3> QED
      BY <2>2, <2>3, <2>4, <3>3, <3>4 DEF b
  <2> QED
    BY <2>5, <2>6
<1> HIDE DEF P
<1>3. Seq(Sections) \subseteq P
  BY <1>1, <1>2, SequenceInduction
<1>4. NamesOf(f) \in Seq(Words)
  <2>1. [name |-> <<>>, entries |-> <<>>] \in Sections
    BY EmptySeq DEF Sections
  <2> QED
    BY <2>1, NamesStep
<1> QED
  BY <1>3, <1>4 DEF P

\* The reports of a file are a sequence, as long as that of its names.
LEMMA ItemsType ==
  ASSUME NEW f \in Seq(Sections)
  PROVE  /\ Len(NamesOf(f)) \in Nat /\ Len(Items(f)) = Len(NamesOf(f))
         /\ DOMAIN Items(f) = 1..Len(NamesOf(f)) /\ Items(f) \in Seq(Range(Items(f)))
         /\ \A k \in 1..Len(NamesOf(f)) :
              /\ Items(f)[k] = Item(k - 1, NamesOf(f)[k], EntriesOf(f, NamesOf(f)[k]))
              /\ Items(f)[k].name = NamesOf(f)[k] /\ Items(f)[k].id = k - 1
<1> DEFINE n == Len(NamesOf(f))
           S == Range(Items(f))
<1>1. n \in Nat
  BY NamesDiffer
<1> HIDE DEF n
<1>2. DOMAIN Items(f) = 1..n /\ Items(f) \in [1..n -> S]
  BY DEF Items, n, Range
<1> HIDE DEF S
<1>3. Items(f) \in Seq(S)
  BY <1>1, <1>2, SeqDef
<1>4. Len(Items(f)) = n
  BY <1>1, <1>2, <1>3, LenProperties
<1>5. ASSUME NEW k \in 1..n
      PROVE  /\ Items(f)[k] = Item(k - 1, NamesOf(f)[k], EntriesOf(f, NamesOf(f)[k]))
             /\ Items(f)[k].name = NamesOf(f)[k] /\ Items(f)[k].id = k - 1
  <2>1. Items(f)[k] = Item(k - 1, NamesOf(f)[k], EntriesOf(f, NamesOf(f)[k]))
    BY <1>5 DEF Items, n
  <2> QED
    BY <2>1 DEF Item
<1> QED
  BY <1>1, <1>2, <1>3, <1>4, <1>5 DEF n, S

\* A section begins: its report is there, and the reports before are as they were.
LEMMA ItemsSection ==
  ASSUME NEW f \in Seq(Sections), NEW x \in Sections, x.entries = <<>>
  PROVE  /\ Items(Append(f, x)) = Reported(Items(f), x.name)
         /\ NumberOf(Items(Append(f, x)), x.name) \in 1..Len(NamesOf(Append(f, x)))
         /\ NamesOf(Append(f, x))[NumberOf(Items(Append(f, x)), x.name)] = x.name
<1> DEFINE g == Append(f, x)
           a == NamesOf(f)
           b == NamesOf(g)
<1>1. /\ a \in Seq(Words) /\ x.name \in Words
      /\ b = IF x.name \in Range(a) THEN a ELSE Append(a, x.name)
  BY NamesStep, SectionType
<1>2. \A n : EntriesOf(g, n) = EntriesOf(f, n)
  <2>1. ASSUME NEW n PROVE EntriesOf(g, n) = EntriesOf(f, n)
    <3>1. /\ EntriesOf(f, n) \in Seq(Entry)
          /\ EntriesOf(g, n) = IF x.name = n THEN EntriesOf(f, n) \o x.entries
                 ELSE EntriesOf(f, n)
      BY EntriesStep
    <3>2. EntriesOf(f, n) \o <<>> = EntriesOf(f, n)
      BY <3>1, ConcatEmptySeq
    <3> QED
      BY <3>1, <3>2
  <2> QED
    BY <2>1
<1>3. g \in Seq(Sections)
  BY AppendProperties
<1>4. x.name \notin Range(a) => EntriesOf(f, x.name) = <<>>
  BY NamesDiffer
<1> HIDE DEF g, a, b
<1>5. /\ Len(a) \in Nat /\ Len(Items(f)) = Len(a) /\ DOMAIN Items(f) = 1..Len(a)
      /\ Items(f) \in Seq(Range(Items(f)))
      /\ \A k \in 1..Len(a) : Items(f)[k] = Item(k - 1, a[k], EntriesOf(f, a[k]))
                              /\ Items(f)[k].name = a[k]
  BY ItemsType DEF a
<1>6. /\ Len(b) \in Nat /\ Len(Items(g)) = Len(b) /\ DOMAIN Items(g) = 1..Len(b)
      /\ Items(g) \in Seq(Range(Items(g)))
      /\ \A k \in 1..Len(b) : Items(g)[k] = Item(k - 1, b[k], EntriesOf(g, b[k]))
                              /\ Items(g)[k].name = b[k]
  BY <1>3, ItemsType DEF b
<1>7. (\E k \in DOMAIN Items(f) : Items(f)[k].name = x.name) <=> x.name \in Range(a)
  BY <1>1, <1>5 DEF Range
<1>8. ASSUME x.name \in Range(a) PROVE Items(g) = Reported(Items(f), x.name)
  <2>1. b = a
    BY <1>1, <1>8
  <2>2. \A k \in 1..Len(a) : Items(g)[k] = Items(f)[k]
    BY <1>2, <1>5, <1>6, <2>1
  <2>3. Reported(Items(f), x.name) = Items(f)
    BY <1>7, <1>8 DEF Reported
  <2>4. Items(f) \in [1..Len(a) -> Range(Items(f))]
            /\ Items(g) \in [1..Len(a) -> Range(Items(g))]
    BY <1>5, <1>6, <2>1, LenProperties
  <2>5. Items(g) = Items(f)
    BY <2>2, <2>4
  <2> QED
    BY <2>3, <2>5
<1>9. ASSUME x.name \notin Range(a) PROVE Items(g) = Reported(Items(f), x.name)
  <2>1. /\ b = Append(a, x.name) /\ Len(b) = Len(a) + 1 /\ b[Len(a) + 1] = x.name
        /\ \A k \in 1..Len(a) : b[k] = a[k]
    BY <1>1, <1>9, AppendProperties
  <2> DEFINE new == NoItem(x.name, Len(a))
             S == Range(Items(f)) \cup Range(Items(g)) \cup {new}
             its == Append(Items(f), new)
  <2>2. Reported(Items(f), x.name) = its
    BY <1>5, <1>7, <1>9 DEF Reported
  <2>3. Items(f) \in Seq(S) /\ Items(g) \in Seq(S) /\ new \in S
    <3>1. Range(Items(f)) \subseteq S /\ Range(Items(g)) \subseteq S
      OBVIOUS
    <3> QED
      BY <1>5, <1>6, <3>1, SeqMonotonic
  <2>4. Items(g)[Len(a) + 1] = new
    <3>1. /\ Len(a) + 1 \in 1..Len(b) /\ (Len(a) + 1) - 1 = Len(a)
      BY <1>5, <2>1
    <3>2. Items(g)[Len(a) + 1] = Item(Len(a), x.name, EntriesOf(g, x.name))
      BY <1>6, <2>1, <3>1
    <3>3. EntriesOf(g, x.name) = <<>>
      BY <1>2, <1>4, <1>9
    <3> QED
      BY <3>2, <3>3, ItemStart
  <2>5. \A k \in 1..Len(a) : Items(g)[k] = Items(f)[k]
    <3>1. \A k \in 1..Len(a) : k \in 1..Len(b)
      BY <1>5, <2>1
    <3> QED
      BY <1>2, <1>5, <1>6, <2>1, <3>1
  <2> HIDE DEF new, S
  <2>6. /\ its \in Seq(S) /\ Len(its) = Len(a) + 1 /\ its[Len(a) + 1] = new
        /\ \A k \in 1..Len(a) : its[k] = Items(f)[k]
    BY <1>5, <2>3, AppendProperties
  <2> HIDE DEF its
  <2>7. ASSUME NEW k \in 1..(Len(a) + 1) PROVE its[k] = Items(g)[k]
    <3>1. k = Len(a) + 1 \/ k \in 1..Len(a)
      BY <1>5
    <3> QED
      BY <2>4, <2>5, <2>6, <3>1
  <2>8. its = Items(g)
    BY <1>6, <2>1, <2>3, <2>6, <2>7, SeqEqual
  <2> QED
    BY <2>2, <2>8
<1>10. \E k \in 1..Len(b) : b[k] = x.name
  <2>1. CASE x.name \in Range(a)
    BY <1>1, <2>1 DEF Range
  <2>2. CASE x.name \notin Range(a)
    <3>1. b[Len(a) + 1] = x.name /\ Len(b) = Len(a) + 1
      BY <1>1, <2>2, AppendProperties
    <3> QED
      BY <1>5, <3>1
  <2> QED
    BY <2>1, <2>2
<1>11. \E k \in DOMAIN Items(g) : Items(g)[k].name = x.name
  BY <1>6, <1>10
<1>12. /\ NumberOf(Items(g), x.name) \in DOMAIN Items(g)
       /\ Items(g)[NumberOf(Items(g), x.name)].name = x.name
  BY <1>11 DEF NumberOf
<1>13. NumberOf(Items(g), x.name) \in 1..Len(b) /\ b[NumberOf(Items(g), x.name)] = x.name
  BY <1>6, <1>12
<1> QED
  BY <1>8, <1>9, <1>13 DEF g, b

\* An entry is read: it goes to the report of its section, and to no other.
LEMMA ItemsEntry ==
  ASSUME NEW f \in Seq(Sections), NEW x \in Sections, NEW y \in Sections, NEW e \in Entry,
         y.name = x.name, y.entries = Append(x.entries, e), stripnlspc(e[2]) = e[2],
         NEW k \in 1..Len(NamesOf(Append(f, x))), NamesOf(Append(f, x))[k] = x.name
  PROVE  /\ NamesOf(Append(f, y)) = NamesOf(Append(f, x))
         /\ Stored(Items(Append(f, x)), k, <<e[1]>>, e[2]) = Items(Append(f, y))
<1> DEFINE g == Append(f, x)
           h == Append(f, y)
           a == NamesOf(g)
           i == Items(g)
           j == Items(h)
<1>1. NamesOf(h) = a
  BY NamesStep
<1>2. g \in Seq(Sections) /\ h \in Seq(Sections)
  BY AppendProperties
<1>3. \A m \in 1..Len(a) : \A n \in 1..Len(a) : a[m] = a[n] => m = n
  BY <1>2, NamesDiffer
<1>4. /\ Len(a) \in Nat /\ DOMAIN i = 1..Len(a)
      /\ i \in Seq(Range(i))
      /\ \A m \in 1..Len(a) : i[m] = Item(m - 1, a[m], EntriesOf(g, a[m]))
  BY <1>2, ItemsType
<1>5. /\ DOMAIN j = 1..Len(a)
      /\ j \in Seq(Range(j))
      /\ \A m \in 1..Len(a) : j[m] = Item(m - 1, a[m], EntriesOf(h, a[m]))
  <2> DEFINE b == NamesOf(h)
  <2>1. /\ Len(b) \in Nat /\ DOMAIN j = 1..Len(b)
        /\ j \in Seq(Range(j))
        /\ \A m \in 1..Len(b) : j[m] = Item(m - 1, b[m], EntriesOf(h, b[m]))
    BY <1>2, ItemsType
  <2> QED
    BY <1>1, <2>1
<1>6. EntriesOf(h, x.name) = Append(EntriesOf(g, x.name), e)
          /\ EntriesOf(g, x.name) \in Seq(Entry)
  <2>1. /\ EntriesOf(f, x.name) \in Seq(Entry)
        /\ EntriesOf(g, x.name) = EntriesOf(f, x.name) \o x.entries
        /\ EntriesOf(h, x.name) = EntriesOf(f, x.name) \o y.entries
    BY EntriesStep
  <2>2. x.entries \in Seq(Entry)
    BY SectionType
  <2>3. EntriesOf(f, x.name) \o Append(x.entries, e) =
          Append(EntriesOf(f, x.name) \o x.entries, e)
    <3> DEFINE o == EntriesOf(f, x.name)
               l == x.entries
    <3>1. o \in Seq(Entry) /\ l \in Seq(Entry) /\ <<e>> \in Seq(Entry)
      BY <2>1, <2>2
    <3> HIDE DEF o, l
    <3>2. Append(l, e) = l \o <<e>> /\ Append(o \o l, e) = (o \o l) \o <<e>>
      BY <3>1, AppendIsConcat, ConcatProperties
    <3>3. o \o (l \o <<e>>) = (o \o l) \o <<e>>
      BY <3>1, ConcatAssociative, SMTT(30)
    <3> QED
      BY <3>2, <3>3 DEF o, l
  <2> QED
    BY <2>1, <2>2, <2>3, ConcatProperties
<1>7. ASSUME NEW n, n # x.name PROVE EntriesOf(h, n) = EntriesOf(g, n)
  <2>1. /\ EntriesOf(g, n) =
             IF x.name = n THEN EntriesOf(f, n) \o x.entries ELSE EntriesOf(f, n)
        /\ EntriesOf(h, n) =
             IF y.name = n THEN EntriesOf(f, n) \o y.entries ELSE EntriesOf(f, n)
    BY EntriesStep
  <2> QED
    BY <1>7, <2>1
<1>8. a[k] = x.name /\ k \in 1..Len(a)
  OBVIOUS
<1> HIDE DEF g, h, a, i, j
<1>9. ASSUME NEW m \in 1..Len(a), m # k PROVE j[m] = i[m]
  BY <1>3, <1>4, <1>5, <1>7, <1>8, <1>9
<1>10. j[k] = parse_value(<<e[1]>>, e[2], i[k])
  <2> DEFINE l == EntriesOf(g, x.name)
  <2>1. i[k] = Item(k - 1, x.name, l) /\ j[k] = Item(k - 1, x.name, Append(l, e))
    BY <1>4, <1>5, <1>6, <1>8
  <2>2. parse_value(<<e[1]>>, e[2], Item(k - 1, x.name, l)) = Item(k - 1, x.name, Append(l, e))
    BY <1>6, ItemMore
  <2> QED
    BY <2>1, <2>2
<1> DEFINE s == Stored(i, k, <<e[1]>>, e[2])
<1>11. s = [i EXCEPT ![k] = j[k]]
  BY <1>10 DEF Stored
<1> HIDE DEF s
<1>12. j = s
  <2>1. i \in [1..Len(a) -> Range(i)] /\ j \in [1..Len(a) -> Range(j)]
    <3>1. i = [m \in DOMAIN i |-> i[m]] /\ j = [m \in DOMAIN j |-> j[m]]
      BY <1>4, <1>5, LenProperties
    <3> QED
      BY <1>4, <1>5, <3>1 DEF Range
  <2>2. s = [m \in 1..Len(a) |-> j[m]]
    BY <1>8, <1>9, <1>11, <2>1
  <2> QED
    BY <2>1, <2>2
<1> QED
  BY <1>1, <1>12 DEF s, i, j, g, h, a

-----------------------------------------------------------------------------
(* Reading a file.                                                         *)

\* What the names, the keys and the values are written with.
Written == (STRING \ {"[", "=", NewLine}) \X Seq(STRING \ {"[", ";", NewLine})

\* The names, keys and values of a file end nothing and hold no white space.
LEMMA WrittenType ==
  /\ \A x \in Sections : /\ x.entries \in Seq(Written)
                         /\ x.name \in Seq(Word \ Ends("section"))
                                /\ stripnlspc(x.name) = x.name
  /\ \A e \in Written : /\ e \in Entry /\ e[1] \in Word \ Ends("key") /\ e[1] # NewLine
                        /\ e[2] \in Seq(Word \ Ends("value")) /\ stripnlspc(e[2]) = e[2]
  /\ \A x \in Sections, l \in Seq(Written) : [name |-> x.name, entries |-> l] \in Sections
<1>1. \A x \in Sections : /\ x.entries \in Seq(Written)
                          /\ x.name \in Seq(STRING \ {"[", "]", NewLine})
  BY DEF Sections, Written
<1>2. \A x \in Sections, l \in Seq(Written) : [name |-> x.name, entries |-> l] \in Sections
  BY DEF Sections, Written
<1>3. /\ STRING \ {"[", "]", NewLine} \subseteq Word \ Ends("section")
      /\ STRING \ {"[", "]", NewLine} \subseteq Word \ {NewLine}
      /\ STRING \ {"[", "=", NewLine} \subseteq Word \ Ends("key")
      /\ STRING \ {"[", ";", NewLine} \subseteq Word \ Ends("value")
      /\ STRING \ {"[", ";", NewLine} \subseteq Word \ {NewLine}
      /\ STRING \ {"[", "=", NewLine} \subseteq Word
             /\ STRING \ {"[", ";", NewLine} \subseteq Word
  BY DEF Word, Ends
<1>4. ASSUME NEW x \in Sections
      PROVE  x.name \in Seq(Word \ Ends("section")) /\ stripnlspc(x.name) = x.name
  <2>1. x.name \in Seq(Word \ Ends("section")) /\ x.name \in Seq(Word \ {NewLine})
    BY <1>1, <1>3, SeqMonotonic
  <2> QED
    BY <2>1, StripPlain
<1>5. ASSUME NEW e \in Written
      PROVE  /\ e \in Entry /\ e[1] \in Word \ Ends("key") /\ e[1] # NewLine
             /\ e[2] \in Seq(Word \ Ends("value")) /\ stripnlspc(e[2]) = e[2]
  <2>1. /\ e[1] \in STRING \ {"[", "=", NewLine} /\ e[2] \in Seq(STRING \ {"[", ";", NewLine})
        /\ e \in Entry
    <3>1. /\ e[1] \in STRING \ {"[", "=", NewLine} /\ e[2] \in Seq(STRING \ {"[", ";", NewLine})
      BY DEF Written
    <3>2. Seq(STRING \ {"[", ";", NewLine}) \subseteq Words
      BY <1>3, SeqMonotonic, ZenonT(60) DEF Words
    <3>3. Written \subseteq Entry
      BY <1>3, <3>2 DEF Written, Entry
    <3> QED
      BY <3>1, <3>3
  <2>2. e[2] \in Seq(Word \ Ends("value")) /\ e[2] \in Seq(Word \ {NewLine}) /\ e[2] \in Words
    BY <1>3, <2>1, SeqMonotonic DEF Words
  <2>3. e \in Entry
    BY <2>1
  <2>4. stripnlspc(e[2]) = e[2]
    BY <2>2, StripPlain
  <2> QED
    BY <1>3, <2>1, <2>2, <2>3, <2>4
<1> QED
  BY <1>1, <1>2, <1>4, <1>5

\* Texts in a row.
LEMMA RowOfTexts ==
  ASSUME NEW t \in Words, NEW u \in Words, NEW v \in Words
  PROVE  (t \o u) \o v = t \o (u \o v)
BY ConcatAssociative DEF Words

Regrouped(t, u, v, w) == ((t \o u) \o v) \o w = t \o ((u \o v) \o w)

\* Four texts in a row.
LEMMA RowOfParts ==
  ASSUME NEW t \in Words, NEW u \in Words, NEW v \in Words, NEW w \in Words
  PROVE  Regrouped(t, u, v, w)
<1>1. u \o v \in Words
  BY WordsType
<1>2. (t \o u) \o v = t \o (u \o v)
  BY RowOfTexts
<1>3. (t \o (u \o v)) \o w = t \o ((u \o v) \o w)
  BY <1>1, RowOfTexts, ZenonT(60)
<1> QED
  BY <1>2, <1>3 DEF Regrouped

\* A text and a section without entries.
LEMMA RowOfSection ==
  ASSUME NEW t \in Words, NEW m \in Words
  PROVE  Append(Append(t, "[") \o m, "]") = t \o (<<"[">> \o m \o <<"]">>)
<1> DEFINE a == <<"[">>
           b == <<"]">>
<1>1. a \in Words /\ b \in Words /\ "[" \in Word /\ "]" \in Word
  BY WordsType DEF Special
<1>2. t \o a = Append(t, "[") /\ Append(t, "[") \in Words
  BY <1>1, Rows, WordsType
<1>3. Append(t, "[") \o m \in Words
  BY <1>2, WordsType
<1>4. (Append(t, "[") \o m) \o b = Append(Append(t, "[") \o m, "]")
  BY <1>1, <1>3, Rows
<1> HIDE DEF a, b
<1>5. ((t \o a) \o m) \o b = t \o ((a \o m) \o b)
  <2>1. Regrouped(t, a, m, b)
    BY <1>1, RowOfParts
  <2> QED
    BY <2>1 DEF Regrouped
<1> QED
  BY <1>2, <1>4, <1>5 DEF a, b

\* A text and three words more.
LEMMA RowOfThree ==
  ASSUME NEW t \in Words, NEW c \in Word, NEW d \in Word, NEW g \in Word
  PROVE  <<c, d, g>> \in Words /\ t \o <<c, d, g>> = Append(Append(Append(t, c), d), g)
<1> DEFINE p == <<c, d, g>>
           q == <<c, d>>
<1>1. p \in Seq(Word) /\ Len(p) = 3 /\ p[1] = c /\ p[2] = d /\ p[3] = g
  OBVIOUS
<1>2. q \in Seq(Word) /\ Len(q) = 2 /\ q[1] = c /\ q[2] = d /\ q = Append(<<c>>, d)
  BY ShortTexts
<1>3. <<c>> \in Words /\ <<c>> \in Seq(Word) /\ q \in Words
  BY <1>2, ShortTexts DEF Words
<1> HIDE DEF p, q
<1>4. p = Append(q, g)
  <2>1. Append(q, g) \in Seq(Word) /\ Len(Append(q, g)) = 3
        /\ Append(q, g)[3] = g /\ \A k \in 1..2 : Append(q, g)[k] = q[k]
    BY <1>2, AppendProperties
  <2>2. ASSUME NEW k \in 1..3 PROVE p[k] = Append(q, g)[k]
    <3>1. k = 1 \/ k = 2 \/ k = 3
      OBVIOUS
    <3>2. 1 \in 1..2 /\ 2 \in 1..2
      OBVIOUS
    <3> QED
      BY <1>1, <1>2, <2>1, <3>1, <3>2
  <2> QED
    BY <1>1, <2>1, <2>2, SeqEqual
<1>5. t \o <<c>> = Append(t, c) /\ Append(t, c) \in Words
  BY Rows, WordsType
<1>6. t \o q = Append(t \o <<c>>, d) /\ Append(Append(t, c), d) \in Words
  <2>1. t \o Append(<<c>>, d) = Append(t \o <<c>>, d)
    BY <1>3, Rows
  <2> QED
    BY <1>2, <1>5, <2>1, WordsType
<1>7. t \o p = Append(t \o q, g)
  BY <1>3, <1>4, Rows
<1> QED
  BY <1>1, <1>5, <1>6, <1>7 DEF p, Words

\* An entry is scanned: its value is what was passed last.
LEMMA EntryScanned ==
  ASSUME NEW t, NEW r \in {"key", "next key"}, NEW key, NEW n, NEW its, NEW e \in Written,
         Stands(t, r, <<>>, key, n, its)
  PROVE  Stands(t \o EntryText(e), "value", e[2], <<e[1]>>, n, its)
<1> DEFINE w == e[1]
           v == e[2]
           t1 == Append(t, NewLine)
           t2 == Append(t1, w)
           t3 == Append(t2, "=")
<1>1. /\ w \in Word \ Ends("key") /\ w # NewLine /\ w \in Word
      /\ v \in Seq(Word \ Ends("value")) /\ v \in Words
  BY WrittenType, EntryType
<1>2. /\ NewLine \in Word /\ "=" \in Word /\ NewLine \notin Ends(r) /\ Ends(r) = Ends("key")
      /\ t \in Words /\ <<>> \in Words
  BY WordsType DEF Special, Ends, NewLine, Stands
<1> HIDE DEF w, v
<1>3. Append(<<>>, NewLine) = <<NewLine>> /\ Append(<<NewLine>>, w) = <<NewLine, w>>
  BY <1>1, <1>2, ShortTexts
<1>4. Stands(t1, r, Append(<<>>, NewLine), key, n, its)
  BY <1>2, ScanWord
<1>5. Stands(t2, r, Append(<<NewLine>>, w), key, n, its)
  BY <1>1, <1>2, <1>3, <1>4, ScanWord
<1>6. Stands(t3, "value", <<>>, <<w>>, n, its)
  BY <1>1, <1>3, <1>5, ScanKey
<1>7. Stands(t3 \o v, "value", <<>> \o v, <<w>>, n, its)
  BY <1>1, <1>6, ScanText
<1>8. <<>> \o v = v
  BY <1>1, ConcatEmptySeq DEF Words
<1>9. t3 \o v = t \o EntryText(e)
  <2> DEFINE d == <<NewLine, w, "=">>
  <2>1. t \in Words /\ NewLine \in Word /\ w \in Word /\ "=" \in Word
    BY <1>1, <1>2
  <2>2. d \in Words /\ t \o d = t3
    BY <2>1, RowOfThree
  <2> HIDE DEF d, t3
  <2>3. t \in Words /\ d \in Words /\ v \in Words
    BY <1>1, <1>2, <2>2
  <2>4. (t \o d) \o v = t \o (d \o v)
    BY <2>3, RowOfTexts
  <2> QED
    BY <2>2, <2>4 DEF EntryText, d, w, v
<1> QED
  BY <1>7, <1>8, <1>9 DEF w, v

\* The text up to a section, and the one up to its first entry.
SoFar(f) == Text(f) \o (IF Text(f) = <<>> THEN <<>> ELSE <<";", NewLine>>)

\* The header of a section, read behind the sections before it.
LEMMA SectionScanned ==
  ASSUME NEW f \in Seq(Sections), NEW x \in Sections, x.entries = <<>>,
         NEW r, NEW u, NEW key, NEW n, Stands(SoFar(f), r, u, key, n, Items(f))
  PROVE  Stands(Text(Append(f, x)), "key", <<>>, key,
                NumberOf(Items(Append(f, x)), x.name), Items(Append(f, x)))
<1> DEFINE t == SoFar(f)
           t1 == Append(t, "[")
           t2 == t1 \o x.name
           t3 == Append(t2, "]")
<1>1. /\ x.name \in Seq(Word \ Ends("section")) /\ stripnlspc(x.name) = x.name
      /\ x.name \in Words
  BY WrittenType, SectionType
<1>2. t \in Words /\ "[" \in Word /\ "]" \in Word /\ <<>> \in Words
  BY WordsType DEF Special, Stands
<1>3. Stands(t1, "section", <<>>, key, n, Items(f))
  BY ScanName
<1>4. Stands(t2, "section", <<>> \o x.name, key, n, Items(f))
  BY <1>1, <1>3, ScanText
<1>5. <<>> \o x.name = x.name
  BY <1>1, ConcatEmptySeq DEF Words
<1>6. Len(Items(f)) \in Nat
  BY ItemsType
<1>7. Stands(t3, "key", <<>>, key, NumberOf(Reported(Items(f), x.name), x.name),
             Reported(Items(f), x.name))
  BY <1>1, <1>4, <1>5, <1>6, ScanSection
<1>8. Reported(Items(f), x.name) = Items(Append(f, x))
  BY ItemsSection
<1>9. t3 = Text(Append(f, x))
  <2> DEFINE a == <<"[">>
             b == <<"]">>
             m == x.name
  <2>1. a \in Words /\ b \in Words /\ m \in Words
    BY <1>1, WordsType DEF Special
  <2>2. EntriesText(x.entries) = <<>>
    <3>1. x.entries \in Seq(Entry) /\ <<NewLine, <<>>>> \in Entry
      BY <1>2, SectionType, WordsType DEF Entry, Special
    <3> QED
      BY <3>1, LinesStep
  <2>3. SectionText(x) = a \o m \o b
    <3>1. a \o m \o b \in Seq(Word)
      BY <2>1, WordsType DEF Words
    <3>2. (a \o m \o b) \o <<>> = a \o m \o b
      BY <3>1, ConcatEmptySeq
    <3> QED
      BY <2>2, <3>2 DEF SectionText
  <2>4. Text(Append(f, x)) = t \o SectionText(x)
    BY TextStep DEF SoFar
  <2> HIDE DEF t
  <2>5. t3 = t \o (a \o m \o b)
    BY <1>2, <2>1, RowOfSection
  <2> QED
    BY <2>3, <2>4, <2>5
<1> QED
  BY <1>7, <1>8, <1>9

\* The entries of a section are a text, of nothing if there are none.
LEMMA EntriesFilled ==
  ASSUME NEW l \in Seq(Entry), NEW e \in Entry
  PROVE  /\ EntriesText(l) \in Words
         /\ EntriesText(l) = <<>> <=> l = <<>>
         /\ EntriesText(Append(l, e)) =
              EntriesText(l) \o (IF l = <<>> THEN <<>> ELSE <<";">>) \o EntryText(e)
<1>1. ASSUME NEW m \in Seq(Entry), NEW d \in Entry
      PROVE  EntriesText(Append(m, d)) # <<>>
  <2> DEFINE i == IF EntriesText(m) = <<>> THEN <<>> ELSE <<";">>
             v == EntriesText(m)
             w == EntryText(d)
             a == <<NewLine, d[1], "=">>
  <2>1. v \in Words /\ EntriesText(Append(m, d)) = v \o i \o w
    BY LinesStep
  <2>2. i \in Words /\ d[1] \in Word /\ d[2] \in Words /\ NewLine \in Word /\ "=" \in Word
    BY EntryType, WordsType DEF Special
  <2>3. a \in Words
    BY <2>2, RowOfThree
  <2>4. a # <<>>
    OBVIOUS
  <2>5. w = a \o d[2]
    BY DEF EntryText
  <2> HIDE DEF i, v, w, a
  <2>6. w # <<>> /\ w \in Words
    BY <2>2, <2>3, <2>4, <2>5, ConcatEqualIffEmpty, ConcatProperties DEF Words
  <2>7. v \o i \in Words
    BY <2>1, <2>2, WordsType
  <2>8. (v \o i) \o w # <<>>
    BY <2>6, <2>7, ConcatEqualIffEmpty DEF Words
  <2> QED
    BY <2>1, <2>8
<1>2. EntriesText(<<>>) = <<>> /\ EntriesText(l) \in Words
  BY LinesStep
<1>3. l # <<>> => EntriesText(l) # <<>>
  <2>1. l # <<>> => \E m \in Seq(Entry), d \in Entry : l = Append(m, d)
    BY SequenceEmptyOrAppend
  <2> QED
    BY <1>1, <2>1
<1>4. EntriesText(Append(l, e)) =
        EntriesText(l) \o (IF EntriesText(l) = <<>> THEN <<>> ELSE <<";">>) \o EntryText(e)
  BY LinesStep
<1> QED
  BY <1>2, <1>3, <1>4

\* A file with a section is not empty.
LEMMA TextFilled ==
  ASSUME NEW f \in Seq(Sections), NEW x \in Sections
  PROVE  Text(Append(f, x)) # <<>> /\ Text(Append(f, x)) = SoFar(f) \o SectionText(x)
         /\ SoFar(f) \in Words /\ SectionText(x) \in Words /\ Text(f) \in Words
<1> DEFINE i == IF Text(f) = <<>> THEN <<>> ELSE <<";", NewLine>>
<1>1. Text(f) \in Words /\ Text(Append(f, x)) = SoFar(f) \o SectionText(x)
  BY TextStep DEF SoFar
<1>2. i \in Words
  <2>1. <<";", NewLine>> \in Words /\ <<>> \in Words
    BY WordsType DEF Special
  <2> QED
    BY <2>1
<1>3. SoFar(f) = Text(f) \o i
  BY DEF SoFar
<1> HIDE DEF i
<1>4. SoFar(f) \in Words
  BY <1>1, <1>2, <1>3, WordsType
<1>5. SectionText(x) \in Words /\ SectionText(x) # <<>>
  BY SectionTextType
<1>6. SoFar(f) \o SectionText(x) # <<>>
  BY <1>4, <1>5, ConcatEqualIffEmpty DEF Words
<1> QED
  BY <1>1, <1>4, <1>5, <1>6

\* An entry more in the last section is a piece of text more.
LEMMA TextMore ==
  ASSUME NEW f \in Seq(Sections), NEW x \in Sections, NEW y \in Sections, NEW e \in Written,
         y.name = x.name, y.entries = Append(x.entries, e)
  PROVE  Text(Append(f, y)) =
           (Text(Append(f, x)) \o (IF x.entries = <<>> THEN <<>> ELSE <<";">>)) \o EntryText(e)
<1> DEFINE b == SoFar(f)
           h == <<"[">> \o x.name \o <<"]">>
           l == EntriesText(x.entries)
           i == IF x.entries = <<>> THEN <<>> ELSE <<";">>
           w == EntryText(e)
<1>1. /\ Text(Append(f, x)) = b \o SectionText(x) /\ Text(Append(f, y)) = b \o SectionText(y)
      /\ b \in Words
  BY TextFilled
<1>2. e \in Entry /\ x.entries \in Seq(Entry) /\ x.name \in Words
  BY WrittenType, SectionType
<1>3. l \in Words /\ EntriesText(y.entries) = l \o i \o w
  BY <1>2, EntriesFilled
<1>4. i \in Words /\ w \in Words /\ <<"[">> \in Words /\ <<"]">> \in Words
  BY <1>2, WordsType, EntryTextType DEF Special
<1>5. h \in Words
  BY <1>2, <1>4, WordsType
<1>6. SectionText(x) = h \o l /\ SectionText(y) = h \o (l \o i \o w)
  BY <1>3 DEF SectionText
<1> HIDE DEF b, h, l, i, w
<1>7. h \o ((l \o i) \o w) = ((h \o l) \o i) \o w
  <2>1. l \o i \in Words /\ h \o l \in Words
    BY <1>3, <1>4, <1>5, WordsType
  <2>2. (h \o (l \o i)) \o w = h \o ((l \o i) \o w)
    BY <1>4, <1>5, <2>1, RowOfTexts, ZenonT(60)
  <2>3. (h \o l) \o i = h \o (l \o i)
    BY <1>3, <1>4, <1>5, RowOfTexts
  <2> QED
    BY <2>2, <2>3
<1>8. b \o (((h \o l) \o i) \o w) = ((b \o (h \o l)) \o i) \o w
  <2>1. h \o l \in Words /\ (h \o l) \o i \in Words
    BY <1>3, <1>4, <1>5, WordsType
  <2>2. (b \o ((h \o l) \o i)) \o w = b \o (((h \o l) \o i) \o w)
    BY <1>1, <1>4, <2>1, RowOfTexts
  <2>3. (b \o (h \o l)) \o i = b \o ((h \o l) \o i)
    BY <1>1, <1>4, <2>1, RowOfTexts
  <2> QED
    BY <2>2, <2>3
<1> QED
  BY <1>1, <1>6, <1>7, <1>8 DEF i, w

\* The scanner has read the sections f and then x: it stands behind the name of x or in
\* the value of its last entry, which the report of x is still without.
ReadTo(f, x) ==
  \E k, key :
    /\ k \in 1..Len(NamesOf(Append(f, x))) /\ NamesOf(Append(f, x))[k] = x.name
    /\ \/ /\ x.entries = <<>>
          /\ Stands(Text(Append(f, x)), "key", <<>>, key, k, Items(Append(f, x)))
       \/ /\ x.entries # <<>>
          /\ \E u, its : /\ Stands(Text(Append(f, x)), "value", u, key, k, its)
                         /\ Stored(its, k, key, u) = Items(Append(f, x))

\* It has read all of a file.
ReadAll(f) == f = <<>> \/
    \E g \in Seq(Sections), x \in Sections : f = Append(g, x) /\ ReadTo(g, x)

\* Behind what was read the next section begins.
LEMMA BeforeSection ==
  ASSUME NEW f \in Seq(Sections), ReadAll(f)
  PROVE  \E r, u, key, n : Stands(SoFar(f), r, u, key, n, Items(f))
<1>1. CASE f = <<>>
  <2>1. [name |-> <<>>, entries |-> <<>>] \in Sections
    BY EmptySeq DEF Sections
  <2>2. Text(<<>>) = <<>> /\ NamesOf(<<>>) = <<>>
    BY <2>1, TextStep, NamesStep, EmptySeq
  <2>3. SoFar(<<>>) = <<>>
    <3>1. <<>> \o <<>> = <<>>
      BY EmptySeq, ConcatEmptySeq
    <3> QED
      BY <2>2, <3>1 DEF SoFar
  <2>4. Items(<<>>) = <<>>
    <3>1. Len(Items(<<>>)) = 0 /\ Items(<<>>) \in Seq(Range(Items(<<>>)))
      BY <2>2, EmptySeq, ItemsType
    <3> QED
      BY <3>1, EmptySeq
  <2>5. <<>> \in Words /\ NewLine \in Word
    BY WordsType DEF Special
  <2>6. Scanned(<<>>, 0) = Start
    BY <2>5, ScannedStep
  <2>7. Stands(<<>>, "nothing", <<>>, <<>>, 0, <<>>)
    BY <2>5, <2>6 DEF Stands, Start
  <2> QED
    BY <1>1, <2>3, <2>4, <2>7
<1>2. CASE f # <<>>
  <2>1. PICK g \in Seq(Sections), x \in Sections : f = Append(g, x) /\ ReadTo(g, x)
    BY <1>2 DEF ReadAll
  <2> DEFINE t == Text(f)
  <2>2. t # <<>> /\ t \in Words
    <3>1. f \in Seq(Sections) /\ x \in Sections
      OBVIOUS
    <3> QED
      BY <2>1, <3>1, TextFilled
  <2>3. NewLine \in Word /\ ";" \in Word
    BY WordsType DEF Special
  <2>4. SoFar(f) = Append(Append(t, ";"), NewLine)
    <3>1. <<";">> \in Words /\ <<";", NewLine>> = Append(<<";">>, NewLine)
      BY <2>3, ShortTexts DEF Words
    <3>2. t \o <<";">> = Append(t, ";")
      BY <2>2, <2>3, Rows
    <3>3. t \o Append(<<";">>, NewLine) = Append(t \o <<";">>, NewLine)
      BY <2>2, <2>3, <3>1, Rows
    <3>4. SoFar(f) = t \o <<";", NewLine>>
      BY <2>2 DEF SoFar
    <3> QED
      BY <3>1, <3>2, <3>3, <3>4
  <2>5. PICK k, key :
          /\ k \in 1..Len(NamesOf(f))
          /\ \/ Stands(t, "key", <<>>, key, k, Items(f))
             \/ \E u, its : Stands(t, "value", u, key, k, its)
                 /\ Stored(its, k, key, u) = Items(f)
    BY <2>1 DEF ReadTo
  <2> HIDE DEF t
  <2>6. CASE Stands(t, "key", <<>>, key, k, Items(f))
    <3>1. ";" \in Word \ Ends("key") /\ NewLine \in Word \ Ends("key")
      BY <2>3 DEF Ends, NewLine
    <3>2. Stands(Append(t, ";"), "key", Append(<<>>, ";"), key, k, Items(f))
      BY <2>6, <3>1, ScanWord
    <3>3. Stands(Append(Append(t, ";"), NewLine), "key", Append(Append(<<>>, ";"), NewLine),
                 key, k, Items(f))
      BY <3>1, <3>2, ScanWord
    <3> QED
      BY <2>4, <3>3
  <2>7. ASSUME NEW u, NEW its, Stands(t, "value", u, key, k, its),
               Stored(its, k, key, u) = Items(f)
        PROVE  \E r, v, key1, n : Stands(SoFar(f), r, v, key1, n, Items(f))
    <3>1. NewLine \in Word \ Ends("next key") /\ k # 0
      <4>1. Len(NamesOf(f)) \in Nat
        BY ItemsType
      <4>2. NewLine \in Word \ Ends("next key")
        BY <2>3 DEF Ends, NewLine
      <4>3. k \in 1..Len(NamesOf(f))
        BY <2>5
      <4>4. k # 0
        BY <4>1, <4>3
      <4> QED
        BY <4>2, <4>4
    <3>2. Stands(Append(t, ";"), "next key", <<>>, key, k, Items(f))
      BY <2>7, <3>1, StoreAt
    <3>3. Stands(Append(Append(t, ";"), NewLine), "next key", Append(<<>>, NewLine),
                 key, k, Items(f))
      BY <3>1, <3>2, ScanWord
    <3> QED
      BY <2>4, <3>3
  <2> QED
    BY <2>5, <2>6, <2>7
<1> QED
  BY <1>1, <1>2

\* One entry more is read.
LEMMA ReadMore ==
  ASSUME NEW f \in Seq(Sections), NEW x \in Sections, NEW y \in Sections, NEW e \in Written,
         y.name = x.name, y.entries = Append(x.entries, e), ReadTo(f, x)
  PROVE  ReadTo(f, y)
<1> DEFINE g == Append(f, x)
           h == Append(f, y)
           t == Text(g)
           i == IF x.entries = <<>> THEN <<>> ELSE <<";">>
<1>1. PICK k, key :
        /\ k \in 1..Len(NamesOf(g)) /\ NamesOf(g)[k] = x.name
        /\ \/ x.entries = <<>> /\ Stands(t, "key", <<>>, key, k, Items(g))
           \/ x.entries # <<>> /\ \E u, its : /\ Stands(t, "value", u, key, k, its)
                                              /\ Stored(its, k, key, u) = Items(g)
  BY DEF ReadTo
<1>2. e \in Entry /\ stripnlspc(e[2]) = e[2]
  BY WrittenType
<1>3. NamesOf(h) = NamesOf(g) /\ Stored(Items(g), k, <<e[1]>>, e[2]) = Items(h)
  BY <1>1, <1>2, ItemsEntry
<1>4. Text(h) = (t \o i) \o EntryText(e)
  BY TextMore
<1>5. ";" \in Word
  BY WordsType DEF Special
<1>6. \E r \in {"key", "next key"} : Stands(t \o i, r, <<>>, key, k, Items(g))
  <2>1. CASE x.entries = <<>> /\ Stands(t, "key", <<>>, key, k, Items(g))
    <3>1. t \o <<>> = t
      BY <2>1, ConcatEmptySeq DEF Stands, Words
    <3> QED
      BY <2>1, <3>1
  <2>2. ASSUME x.entries # <<>>, NEW u, NEW its, Stands(t, "value", u, key, k, its),
               Stored(its, k, key, u) = Items(g)
        PROVE  Stands(t \o i, "next key", <<>>, key, k, Items(g))
    <3>1. t \o <<";">> = Append(t, ";")
      BY <1>5, <2>2, Rows DEF Stands
    <3>2. k # 0
      <4>1. Len(NamesOf(g)) \in Nat
        BY AppendProperties, ItemsType
      <4> QED
        BY <1>1, <4>1
    <3>3. Stands(Append(t, ";"), "next key", <<>>, key, k, Items(g))
      BY <2>2, <3>2, StoreAt
    <3> QED
      BY <2>2, <3>1, <3>3
  <2> QED
    BY <1>1, <2>1, <2>2
<1> HIDE DEF g, h, t, i
<1>7. Stands(Text(h), "value", e[2], <<e[1]>>, k, Items(g))
  BY <1>4, <1>6, EntryScanned
<1>8. y.entries # <<>>
  BY WrittenType, AppendProperties, SMTT(30)
<1>9. k \in 1..Len(NamesOf(h)) /\ NamesOf(h)[k] = y.name
  BY <1>1, <1>3
<1> QED
  BY <1>3, <1>7, <1>8, <1>9 DEF ReadTo, h

\* A section more is read, from its name to its last entry.
LEMMA ReadSection ==
  ASSUME NEW f \in Seq(Sections), NEW x \in Sections, ReadAll(f)
  PROVE  ReadTo(f, x)
<1> DEFINE With(l) == [name |-> x.name, entries |-> l]
           P == {l \in Seq(Written) : ReadTo(f, With(l))}
<1>1. <<>> \in P
  <2> DEFINE y == With(<<>>)
  <2>1. y \in Sections /\ y.entries = <<>> /\ y.name = x.name
    BY WrittenType, EmptySeq
  <2> HIDE DEF y
  <2>2. PICK r, u, key, n : Stands(SoFar(f), r, u, key, n, Items(f))
    BY BeforeSection
  <2> DEFINE k == NumberOf(Items(Append(f, y)), y.name)
  <2>3. Stands(Text(Append(f, y)), "key", <<>>, key, k, Items(Append(f, y)))
    BY <2>1, <2>2, SectionScanned
  <2>4. k \in 1..Len(NamesOf(Append(f, y))) /\ NamesOf(Append(f, y))[k] = y.name
    BY <2>1, ItemsSection
  <2> HIDE DEF k
  <2>5. ReadTo(f, y)
    BY <2>1, <2>3, <2>4 DEF ReadTo
  <2> QED
    BY <2>5, EmptySeq DEF y
<1>2. ASSUME NEW l \in Seq(Written), NEW e \in Written, l \in P PROVE Append(l, e) \in P
  <2>1. Append(l, e) \in Seq(Written)
    BY AppendProperties
  <2>2. With(l) \in Sections /\ With(Append(l, e)) \in Sections
    BY <2>1, WrittenType
  <2>3. /\ With(l).entries = l /\ With(Append(l, e)).entries = Append(l, e)
        /\ With(l).name = With(Append(l, e)).name
    OBVIOUS
  <2>4. ReadTo(f, With(l))
    BY <1>2
  <2> HIDE DEF With
  <2>5. ReadTo(f, With(Append(l, e)))
    BY <2>2, <2>3, <2>4, ReadMore
  <2> QED
    BY <2>1, <2>5
<1>3. x.entries \in Seq(Written) /\ With(x.entries) = x
  BY WrittenType DEF Sections
<1> HIDE DEF P
<1>4. Seq(Written) \subseteq P
  BY <1>1, <1>2, SequenceInduction
<1> QED
  BY <1>3, <1>4 DEF P

\* Every file is read to the reports it describes.
LEMMA ReadFile ==
  ASSUME NEW f \in Seq(Sections)
  PROVE  ReadAll(f)
<1> DEFINE P == {g \in Seq(Sections) : ReadAll(g)}
<1>1. <<>> \in P
  BY EmptySeq DEF ReadAll
<1>2. ASSUME NEW g \in Seq(Sections), NEW x \in Sections, g \in P PROVE Append(g, x) \in P
  <2>1. ReadTo(g, x) /\ Append(g, x) \in Seq(Sections)
    BY <1>2, ReadSection, AppendProperties
  <2> QED
    BY <2>1 DEF ReadAll
<1> HIDE DEF P
<1>3. Seq(Sections) \subseteq P
  BY <1>1, <1>2, SequenceInduction
<1> QED
  BY <1>3 DEF P

\* What has been read of a whole file is what the file says.
LEMMA ReadReports ==
  ASSUME NEW f \in Seq(Sections)
  PROVE  Store(Scanned(Text(f), 0)).items = Items(f)
<1>1. CASE f = <<>>
  <2>1. [name |-> <<>>, entries |-> <<>>] \in Sections /\ <<>> \in Words /\ NewLine \in Word
    BY EmptySeq, WordsType DEF Sections, Special
  <2>2. Text(<<>>) = <<>> /\ NamesOf(<<>>) = <<>>
    BY <2>1, TextStep, NamesStep, EmptySeq
  <2>3. Items(<<>>) = <<>>
    <3>1. Len(Items(<<>>)) = 0 /\ Items(<<>>) \in Seq(Range(Items(<<>>)))
      BY <2>2, EmptySeq, ItemsType
    <3> QED
      BY <3>1, EmptySeq
  <2>4. Scanned(<<>>, 0) = Start
    BY <2>1, ScannedStep
  <2>5. Store(Start).items = <<>>
    BY DEF Store, Start
  <2> QED
    BY <1>1, <2>2, <2>3, <2>4, <2>5
<1>2. CASE f # <<>>
  <2>1. PICK g \in Seq(Sections), x \in Sections : f = Append(g, x) /\ ReadTo(g, x)
    BY <1>2, ReadFile DEF ReadAll
  <2>2. PICK k, key :
          /\ k \in 1..Len(NamesOf(f))
          /\ \/ Stands(Text(f), "key", <<>>, key, k, Items(f))
             \/ \E u, its : /\ Stands(Text(f), "value", u, key, k, its)
                            /\ Stored(its, k, key, u) = Items(f)
    BY <2>1 DEF ReadTo
  <2>3. CASE Stands(Text(f), "key", <<>>, key, k, Items(f))
    BY <2>3 DEF Stands, Store
  <2>4. ASSUME NEW u, NEW its, Stands(Text(f), "value", u, key, k, its),
               Stored(its, k, key, u) = Items(f)
        PROVE  Store(Scanned(Text(f), 0)).items = Items(f)
    <3>1. k # 0
      <4>1. Len(NamesOf(f)) \in Nat
        BY ItemsType
      <4> QED
        BY <2>2, <4>1
    <3>2. Store(Scanned(Text(f), 0)) =
            [reading |-> "value", text |-> u, key |-> key, sec |-> k,
             items |-> Stored(its, k, key, u)]
      BY <2>4, <3>1, StoreAt
    <3> QED
      BY <2>4, <3>2
  <2> QED
    BY <2>2, <2>3, <2>4
<1> QED
  BY <1>1, <1>2

-----------------------------------------------------------------------------
(* The fields a report is sorted by.                                       *)

\* A number and the word it is written as.
LEMMA NumbersFacts ==
  /\ DOMAIN Numbers = 1..3
  /\ \A j \in 1..3 : Numbers[j] \in Range(Numbers) /\ Number[Numbers[j][1]] = j
  /\ \A p \in Range(Numbers) : Number[p[1]] \in 1..3 /\ Numbers[Number[p[1]]] = p
<1>1. DOMAIN Numbers = 1..3 /\ Numbers[1] = <<"1">> /\ Numbers[2] = <<"2">>
          /\ Numbers[3] = <<"3">>
  BY DEF Numbers
<1>2. Number["1"] = 1 /\ Number["2"] = 2 /\ Number["3"] = 3
  BY DEF Number
<1>3. \A j \in 1..3 : j = 1 \/ j = 2 \/ j = 3
  OBVIOUS
<1>4. ASSUME NEW j \in 1..3 PROVE Numbers[j] \in Range(Numbers) /\ Number[Numbers[j][1]] = j
  <2>1. Numbers[j] \in Range(Numbers)
    BY <1>1 DEF Range
  <2>2. Number[Numbers[j][1]] = j
    BY <1>1, <1>2, <1>3
  <2> QED
    BY <2>1, <2>2
<1>5. ASSUME NEW p \in Range(Numbers) PROVE Number[p[1]] \in 1..3 /\ Numbers[Number[p[1]]] = p
  <2>1. PICK j \in 1..3 : p = Numbers[j]
    BY <1>1 DEF Range
  <2> QED
    BY <1>4, <2>1
<1> QED
  BY <1>1, <1>4, <1>5

\* What is appended is in the sequence then.
LEMMA AppendedRange ==
  ASSUME NEW E, NEW seq \in Seq(E), NEW x \in E
  PROVE  Range(Append(seq, x)) = Range(seq) \cup {x}
<1> DEFINE y == Append(seq, x)
<1>1. /\ DOMAIN seq = 1..Len(seq) /\ Len(seq) \in Nat
      /\ DOMAIN y = 1..Len(seq) + 1
      /\ \A k \in 1..Len(seq) : y[k] = seq[k]
      /\ y[Len(seq) + 1] = x
  BY AppendProperties
<1> HIDE DEF y
<1>2. \A e \in Range(y) : e \in Range(seq) \/ e = x
  BY <1>1 DEF Range
<1>3. \A e \in Range(seq) : e \in Range(y)
  BY <1>1 DEF Range
<1>4. x \in Range(y)
  <2>1. Len(seq) + 1 \in DOMAIN y
    BY <1>1
  <2> QED
    BY <1>1, <2>1 DEF Range
<1>5. Range(y) = Range(seq) \cup {x}
  BY <1>2, <1>3, <1>4
<1> QED
  BY <1>5 DEF y

\* The fields that are sorted by are those with the numbers given.
LEMMA PushedFields ==
  ASSUME NEW item, item.fields_list \in Seq(Words), NEW l \in Seq(Range(Numbers))
  PROVE  \A fld : fld \in Range(Pushed(item, l)) <=>
                    \E p \in Range(l) : /\ Number[p[1]] <= Len(item.fields_list)
                                        /\ fld = item.fields_list[Number[p[1]]]
<1> DEFINE F == item.fields_list
           Is(fld, m) == \E p \in Range(m) : Number[p[1]] <= Len(F) /\ fld = F[Number[p[1]]]
           P == {m \in Seq(Range(Numbers)) : \A fld : fld \in Range(Pushed(item, m))
               <=> Is(fld, m)}
<1>1. <<>> \in P
  <2>1. Pushed(item, <<>>) = <<>>
    <3>1. <<"1">> \in Range(Numbers)
      BY NumbersFacts DEF Numbers, Range
    <3> QED
      BY <3>1, SortedStep
  <2>2. Range(<<>>) = {}
    BY DEF Range
  <2> QED
    BY <2>1, <2>2
<1>2. ASSUME NEW m \in Seq(Range(Numbers)), NEW x \in Range(Numbers), m \in P
      PROVE  Append(m, x) \in P
  <2> DEFINE t == Pushed(item, m)
             n == Number[x[1]]
  <2>1. t \in Seq(Words) /\ Pushed(item, Append(m, x)) = Push(item, t, x[1])
    BY SortedStep
  <2>2. n \in 1..3
    BY NumbersFacts
  <2>3. Range(Append(m, x)) = Range(m) \cup {x}
    BY AppendedRange
  <2>4. \A fld : fld \in Range(t) <=> Is(fld, m)
    BY <1>2
  <2>5. \A fld : fld \in Range(Push(item, t, x[1])) <=>
                   Is(fld, m) \/ (n <= Len(F) /\ fld = F[n])
    <3>1. CASE n <= Len(F)
      <4>1. F[n] \in Words
        BY <2>2, <3>1, ElementOfSeq
      <4>2. Range(Append(t, F[n])) = Range(t) \cup {F[n]}
        BY <2>1, <4>1, AppendedRange
      <4>3. Push(item, t, x[1]) = Append(t, F[n])
        BY <3>1 DEF Push
      <4> QED
        BY <2>4, <3>1, <4>2, <4>3
    <3>2. CASE ~(n <= Len(F))
      BY <2>4, <3>2 DEF Push
    <3> QED
      BY <3>1, <3>2
  <2>6. \A fld : Is(fld, Append(m, x)) <=> Is(fld, m) \/ (n <= Len(F) /\ fld = F[n])
    BY <2>3
  <2>7. Append(m, x) \in Seq(Range(Numbers))
    BY AppendProperties
  <2> HIDE DEF Is
  <2> QED
    BY <2>1, <2>5, <2>6, <2>7
<1> HIDE DEF P
<1>3. Seq(Range(Numbers)) \subseteq P
  BY <1>1, <1>2, SequenceInduction
<1>4. l \in P
  BY <1>3
<1> QED
  BY <1>4 DEF P

\* A field of a report is sorted by if its number is given.
LEMMA SortedByNumber ==
  ASSUME NEW item, item.fields_list \in Seq(Words), IsInjective(item.fields_list),
         NEW l \in Seq(Range(Numbers)), NEW j \in DOMAIN item.fields_list
  PROVE  item.fields_list[j] \in Range(Pushed(item, l)) <=>
           j \in DOMAIN Numbers /\ Numbers[j] \in Range(l)
<1> DEFINE F == item.fields_list
<1>1. /\ DOMAIN F = 1..Len(F) /\ Len(F) \in Nat
      /\ \A a, b \in DOMAIN F : F[a] = F[b] => a = b
  BY DEF IsInjective
<1>2. F[j] \in Range(Pushed(item, l)) <=>
        \E p \in Range(l) : Number[p[1]] <= Len(F) /\ F[j] = F[Number[p[1]]]
  BY PushedFields
<1> HIDE DEF F
<1>3. ASSUME NEW p \in Range(l), Number[p[1]] <= Len(F), F[j] = F[Number[p[1]]]
      PROVE  j \in DOMAIN Numbers /\ Numbers[j] \in Range(l)
  <2>1. p \in Range(Numbers)
    BY RangeOfSeq
  <2>2. Number[p[1]] \in 1..3 /\ Numbers[Number[p[1]]] = p
    BY <2>1, NumbersFacts
  <2>3. Number[p[1]] \in DOMAIN F /\ j \in DOMAIN F
    BY <1>1, <1>3, <2>2 DEF F
  <2>4. j = Number[p[1]]
    BY <1>1, <1>3, <2>3
  <2> QED
    BY <2>2, <2>4, NumbersFacts
<1>4. ASSUME j \in DOMAIN Numbers, Numbers[j] \in Range(l)
      PROVE  \E p \in Range(l) : Number[p[1]] <= Len(F) /\ F[j] = F[Number[p[1]]]
  <2>1. j \in 1..3 /\ Number[Numbers[j][1]] = j
    BY <1>4, NumbersFacts
  <2>2. j <= Len(F)
    BY <1>1, <2>1 DEF F
  <2> QED
    BY <1>4, <2>1, <2>2
<1> QED
  BY <1>2, <1>3, <1>4 DEF F

-----------------------------------------------------------------------------
(* The reports are those the file describes.                               *)

\* What an entry list makes is of words.
LEMMA ValuesType ==
  ASSUME NEW l \in Seq(Entry)
  PROVE  FieldsOf(l) \in Seq(Words) /\ SortOf(l) \in Words
<1>1. \A key : AllFor(l, key) \in Seq(Words)
  <2>1. NewLine \in Word /\ <<>> \in Words
    BY WordsType DEF Special
  <2>2. <<NewLine, <<>>>> \in Entry
    BY <2>1 DEF Entry
  <2> QED
    BY <2>2, AllStep
<1>2. FieldsOf(l) \in Seq(Words)
  <2>1. Joined(AllFor(l, "header")) \in Seq(Words)
    BY <1>1, FieldsStep, WordsType
  <2> QED
    BY <2>1 DEF FieldsOf, Joined
<1>3. SortOf(l) \in Words
  <2> DEFINE v == AllFor(l, "sort")
  <2>1. v \in Seq(Words)
    BY <1>1
  <2> HIDE DEF v
  <2>2. v # <<>> => Len(v) \in 1..Len(v)
    BY <2>1, EmptySeq
  <2>3. v # <<>> => Last(v) \in Words
    BY <2>1, <2>2, ElementOfSeq DEF Last
  <2>4. SortOf(l) = IF v = <<>> THEN <<>> ELSE Last(v)
    BY DEF SortOf, v
  <2> QED
    BY <2>3, <2>4, WordsType
<1> QED
  BY <1>2, <1>3

\* What a report is when its fields have been sorted.
AsDescribed(i, id, n, l) ==
  /\ i.name = n /\ i.id = id /\ i.fields_list = FieldsOf(l)
  /\ i.ssql = SqlOf(l, "ssql") /\ i.msql = SqlOf(l, "msql") /\ i.psql = SqlOf(l, "psql")
  /\ {j \in DOMAIN i.fields_list : is_sorted_field(i, i.fields_list[j])} =
       {j \in DOMAIN FieldsOf(l) \cap DOMAIN Numbers :
          Numbers[j] \in Range(Pieces(SortOf(l), ","))}

\* A report of a file, as it is when its fields have been sorted.
LEMMA ItemDescribed ==
  ASSUME NEW id, NEW n, NEW l \in Seq(Entry), IsInjective(FieldsOf(l)),
         Range(Pieces(SortOf(l), ",")) \subseteq Range(Numbers), NEW i,
         i = post_prcess(Item(id, n, l))
  PROVE  AsDescribed(i, id, n, l)
<1> DEFINE item == Item(id, n, l)
           ps == Pieces(SortOf(l), ",")
<1>1. FieldsOf(l) \in Seq(Words) /\ ps \in Seq(Words)
  BY ValuesType, PiecesType
<1>2. ps \in Seq(Range(Numbers))
  BY <1>1, SeqOfRange, SeqMonotonic
<1>3. /\ item.name = n /\ item.id = id /\ item.fields_list = FieldsOf(l)
      /\ item.ssql = SqlOf(l, "ssql") /\ item.msql = SqlOf(l, "msql")
      /\ item.psql = SqlOf(l, "psql") /\ item.prp_sort = SortOf(l)
  BY DEF Item
<1>4. i = [item EXCEPT !.sorted_fields = Pushed(item, ps)]
  BY <1>3 DEF post_prcess, Pushed
<1>5. i.sorted_fields = Pushed(item, ps)
  BY <1>4 DEF Item
<1>6. /\ i.name = n /\ i.id = id /\ i.fields_list = FieldsOf(l)
      /\ i.ssql = SqlOf(l, "ssql") /\ i.msql = SqlOf(l, "msql") /\ i.psql = SqlOf(l, "psql")
  BY <1>4 DEF Item
<1> HIDE DEF item, ps
<1>7. ASSUME NEW j \in DOMAIN FieldsOf(l)
      PROVE  is_sorted_field(i, FieldsOf(l)[j]) <=> j \in DOMAIN Numbers
                 /\ Numbers[j] \in Range(ps)
  <2>1. /\ item.fields_list \in Seq(Words) /\ IsInjective(item.fields_list)
        /\ j \in DOMAIN item.fields_list
    BY <1>1, <1>3
  <2>2. item.fields_list[j] \in Range(Pushed(item, ps)) <=>
          j \in DOMAIN Numbers /\ Numbers[j] \in Range(ps)
    BY <1>2, <2>1, SortedByNumber
  <2> QED
    BY <1>3, <1>5, <2>2 DEF is_sorted_field
<1>8. {j \in DOMAIN i.fields_list : is_sorted_field(i, i.fields_list[j])} =
        {j \in DOMAIN FieldsOf(l) \cap DOMAIN Numbers : Numbers[j] \in Range(ps)}
  BY <1>6, <1>7
<1> QED
  BY <1>6, <1>8 DEF ps, AsDescribed

\* A function on the first n numbers is n long.
LEMMA LenOfFunction ==
  ASSUME NEW n \in Nat, NEW S, NEW x \in [1..n -> S]
  PROVE  Len(x) = n
<1>1. x \in Seq(S)
  BY SeqDef
<1> QED
  BY <1>1, LenProperties

\* The reports read from a well written file.
LEMMA ParsedFile ==
  ASSUME NEW f, WellWritten(f), NEW its, its = parse_reports(Text(f), 0),
         NEW ds, ds = Describes(f)
  PROVE  /\ Len(its) = Len(ds)
         /\ \A k \in DOMAIN its :
              /\ \A col \in DOMAIN ds[k] \ {"sorted"} : its[k][col] = ds[k][col]
              /\ {j \in DOMAIN its[k].fields_list :
                    is_sorted_field(its[k], its[k].fields_list[j])} = ds[k].sorted
<1> DEFINE N == Len(NamesOf(f))
           E(k) == EntriesOf(f, NamesOf(f)[k])
<1>1. f \in Seq(Sections)
  BY DEF WellWritten
<1>2. /\ N \in Nat /\ DOMAIN Items(f) = 1..N
      /\ \A k \in 1..N : Items(f)[k] = Item(k - 1, NamesOf(f)[k], E(k))
      /\ DOMAIN NamesOf(f) = 1..N
  BY <1>1, ItemsType, NamesDiffer
<1>3. its = [k \in 1..N |-> post_prcess(Items(f)[k])]
  <2>1. Store(Scanned(Text(f), 0)).items = Items(f)
    BY <1>1, ReadReports
  <2> HIDE DEF N
  <2> QED
    BY <1>2, <2>1 DEF parse_reports
<1>4. ASSUME NEW k \in 1..N
      PROVE  /\ E(k) \in Seq(Entry) /\ IsInjective(FieldsOf(E(k)))
             /\ Range(Pieces(SortOf(E(k)), ",")) \subseteq Range(Numbers)
  <2>1. NamesOf(f)[k] \in Range(NamesOf(f))
    BY <1>2 DEF Range
  <2>2. [name |-> <<>>, entries |-> <<>>] \in Sections
    BY EmptySeq DEF Sections
  <2>3. E(k) \in Seq(Entry)
    BY <1>1, <2>2, EntriesStep
  <2> QED
    BY <2>1, <2>3 DEF WellWritten
<1>5. /\ DOMAIN ds = 1..N
      /\ \A k \in 1..N : ds[k] =
           [name |-> NamesOf(f)[k], id |-> k - 1, fields_list |-> FieldsOf(E(k)),
            ssql |-> SqlOf(E(k), "ssql"), msql |-> SqlOf(E(k), "msql"), psql |-> SqlOf(E(k),
                "psql"),
            sorted |-> {j \in DOMAIN FieldsOf(E(k)) \cap DOMAIN Numbers :
                          Numbers[j] \in Range(Pieces(SortOf(E(k)), ","))}]
  BY <1>2 DEF Describes
<1>6. Len(its) = N /\ Len(ds) = N
  <2>1. its \in [1..N -> Range(its)]
    BY <1>3 DEF Range
  <2>2. ds = [k \in 1..N |-> ds[k]]
    BY <1>2 DEF Describes
  <2>3. ds \in [1..N -> Range(ds)]
    BY <2>2 DEF Range
  <2> HIDE DEF N
  <2> QED
    BY <1>2, <2>1, <2>3, LenOfFunction
<1>7. ASSUME NEW k \in 1..N
      PROVE  /\ \A col \in DOMAIN ds[k] \ {"sorted"} : its[k][col] = ds[k][col]
             /\ {j \in DOMAIN its[k].fields_list :
                   is_sorted_field(its[k], its[k].fields_list[j])} = ds[k].sorted
  <2> DEFINE i == its[k]
             d == ds[k]
             l == E(k)
             m == NamesOf(f)[k]
             sorted == {j \in DOMAIN FieldsOf(l) \cap DOMAIN Numbers :
                          Numbers[j] \in Range(Pieces(SortOf(l), ","))}
  <2>1. i = post_prcess(Item(k - 1, m, l))
    BY <1>2, <1>3
  <2>2. /\ i.name = m /\ i.id = k - 1 /\ i.fields_list = FieldsOf(l)
        /\ i.ssql = SqlOf(l, "ssql") /\ i.msql = SqlOf(l, "msql") /\ i.psql = SqlOf(l, "psql")
        /\ {j \in DOMAIN i.fields_list : is_sorted_field(i, i.fields_list[j])} = sorted
    <3>1. /\ l \in Seq(Entry) /\ IsInjective(FieldsOf(l))
          /\ Range(Pieces(SortOf(l), ",")) \subseteq Range(Numbers)
      BY <1>4
    <3> HIDE DEF i, m, l
    <3>2. AsDescribed(i, k - 1, m, l)
      BY <2>1, <3>1, ItemDescribed
    <3> QED
      BY <3>2 DEF AsDescribed
  <2>3. d = [name |-> m, id |-> k - 1, fields_list |-> FieldsOf(l),
             ssql |-> SqlOf(l, "ssql"), msql |-> SqlOf(l, "msql"), psql |-> SqlOf(l, "psql"),
             sorted |-> sorted]
    BY <1>5
  <2> HIDE DEF i, d, l, m, sorted
  <2>4. DOMAIN d \ {"sorted"} = {"name", "id", "fields_list", "ssql", "msql", "psql"}
    BY <2>3
  <2>5. \A col \in DOMAIN d \ {"sorted"} : i[col] = d[col]
    BY <2>2, <2>3, <2>4
  <2>6. d.sorted = sorted
    BY <2>3
  <2> QED
    BY <2>2, <2>5, <2>6 DEF i, d
<1> QED
  BY <1>3, <1>6, <1>7

\* The reports stay as they were read when the server started.
FromFile == file \in Files /\ items = parse_reports(Text(file), 0)

\* The reports are those of the file, in every state (performance_module_init).
LEMMA FromFileHolds ==
  Spec => []FromFile
<1>1. Init => FromFile
  BY DEF Init, FromFile
<1>2. FromFile /\ [Next]_vars => FromFile'
  <2> SUFFICES ASSUME FromFile, [Next]_vars PROVE UNCHANGED <<file, items>>
    BY DEF FromFile
  <2>1. CASE UNCHANGED vars
    BY <2>1 DEF vars
  <2>2. ASSUME NEW s, Serve(s) \/ OtherServer(s) PROVE UNCHANGED <<file, items>>
    BY <2>2 DEF Serve, OtherServer
  <2>3. CASE Alarm \/ Tick \/ ServerFails \/ ServerReturns \/ Close
    BY <2>3 DEF Alarm, Tick, ServerFails, ServerReturns, Close
  <2>4. ASSUME NEW q, NEW filters, NEW start, NEW before, ReadRows(q, filters, start, before)
        PROVE  UNCHANGED <<file, items>>
    BY <2>4 DEF ReadRows
  <2>5. ASSUME NEW q, Open(q) \/ Look(q) \/ List(q) PROVE UNCHANGED <<file, items>>
    BY <2>4, <2>5 DEF Open, Look, List
  <2>6. CASE ReadCount
    BY <2>6 DEF ReadCount
  <2>7. CASE FollowLink
    BY <2>4, <2>7 DEF FollowLink
  <2> QED
    BY <2>1, <2>2, <2>3, <2>5, <2>6, <2>7 DEF Next, Steps
<1> QED
  BY <1>1, <1>2, PTL DEF Spec

\* The reports are those the file describes, for every file that is well written
\* (read_custom_report, custom_report_parse_reports).
THEOREM ParsedAsWrittenHolds ==
  Spec => []ParsedAsWritten
<1>1. FromFile => ParsedAsWritten
  <2> SUFFICES ASSUME FromFile PROVE ParsedAsWritten
    OBVIOUS
  <2>1. WellWritten(file) /\ Described[file] = Describes(file)
    BY FilesAssumption DEF FromFile, Described
  <2>2. items = parse_reports(Text(file), 0)
    BY DEF FromFile
  <2> DEFINE ds == Describes(file)
  <2>3. /\ Len(items) = Len(ds)
        /\ \A k \in DOMAIN items :
             /\ \A col \in DOMAIN ds[k] \ {"sorted"} : items[k][col] = ds[k][col]
             /\ {j \in DOMAIN items[k].fields_list :
                   is_sorted_field(items[k], items[k].fields_list[j])} = ds[k].sorted
    <3> HIDE DEF ds
    <3> QED
      BY <2>1, <2>2, ParsedFile DEF ds
  <2> QED
    BY <2>1, <2>3 DEF ParsedAsWritten
<1> QED
  BY <1>1, FromFileHolds, PTL
=============================================================================
