-------------------------- MODULE DaemonLifeProofs --------------------------
(***************************************************************************)
(* Theorems about DaemonLife, for any number of daemons, and about the two *)
(* modules it is composed in: DaemonClock, for days of any length, any     *)
(* settings and any lag of the signals below a day, and Worker, for any    *)
(* number of threads, descriptors, requests and daemons: with the log hook *)
(* the number under a thread's key is a descriptor of the request it       *)
(* serves (KeyIsOwn), and a connection carries BEGIN and then END of one   *)
(* request (BeginThenEnd); in both modes a descriptor outlives its request *)
(* only by a redirect (LeaksOnlyIfRunAgain), and every step of a thread    *)
(* that has a request brings it nearer to the end (NearsItsEnd).           *)
(***************************************************************************)
EXTENDS DaemonClock, Worker, TLAPS


-----------------------------------------------------------------------------
(* Parent, daemon and socket file: the types, and that the file the workers *)
(* connect to is the current daemon's own, which is inductive with them.    *)

LifeInv == LifeTypeOK /\ Reachable

\* The server starts with no daemon and perhaps a file.
LEMMA LifeInitially == LifeInit => LifeInv
<1> SUFFICES ASSUME LifeInit PROVE LifeInv
  OBVIOUS
<1>1. sock = {} \/ sock = {0}
  BY LifeAssumption DEF LifeAssumption, LifeInit, Left
<1>2. 0 \in 0..MaxPid
  BY LifeAssumption DEF LifeAssumption
<1>3. sock \in {{}} \cup {{p} : p \in 0..MaxPid}
  BY <1>1, <1>2
<1>4. LifeTypeOK
  BY <1>2, <1>3
  DEF LifeInit, LifeTypeOK, Alive, Before
<1> QED
  BY <1>4 DEF LifeInit, LifeInv, Reachable

\* Each step of parent and daemon keeps the types.
LEMMA LifeTypeStep ==
  ASSUME LifeTypeOK, [LifeNext]_lifeVars
  PROVE  LifeTypeOK'
<1> USE LifeAssumption DEF LifeAssumption, LifeTypeOK, Alive, Before, Become
<1>1. CASE Fork           BY <1>1 DEF Fork
<1>2. CASE Reap           BY <1>2 DEF Reap
<1>3. CASE RestartBegins  BY <1>3 DEF RestartBegins
<1>4. CASE RestartKills   BY <1>4 DEF RestartKills
<1>5. CASE Bind           BY <1>5 DEF Bind
<1>6. CASE Listen         BY <1>6 DEF Listen
<1>7. CASE Serve          BY <1>7 DEF Serve
<1>8. CASE Dies           BY <1>8 DEF Dies
<1>9. CASE UNCHANGED lifeVars  BY <1>9 DEF lifeVars
<1> QED
  BY <1>1, <1>2, <1>3, <1>4, <1>5, <1>6, <1>7, <1>8, <1>9
  DEF LifeNext, ParentStep, DaemonStep

\* The file changes hands only while no daemon that stays depends on it: Bind
\* makes it the daemon's own, and the parent removes it when the daemon is dead
\* or about to be killed.
LEMMA ReachableStep ==
  ASSUME LifeTypeOK, Reachable, [LifeNext]_lifeVars
  PROVE  Reachable'
<1> USE DEF LifeTypeOK, Reachable, Become
<1>1. CASE Fork           BY <1>1 DEF Fork
<1>2. CASE Reap           BY <1>2 DEF Reap
<1>3. CASE RestartBegins  BY <1>3 DEF RestartBegins
<1>4. CASE RestartKills   BY <1>4 DEF RestartKills
<1>5. CASE Bind           BY <1>5 DEF Bind
<1>6. CASE Listen         BY <1>6 DEF Listen
<1>7. CASE Serve          BY <1>7 DEF Serve
<1>8. CASE Dies           BY <1>8 DEF Dies
<1>9. CASE UNCHANGED lifeVars  BY <1>9 DEF lifeVars
<1> QED
  BY <1>1, <1>2, <1>3, <1>4, <1>5, <1>6, <1>7, <1>8, <1>9
  DEF LifeNext, ParentStep, DaemonStep

\* Both together are an inductive invariant (mod_performance.c:1824-1903).
THEOREM LifeInvariant == LifeSpec => []LifeInv
<1>1. LifeInv /\ [LifeNext]_lifeVars => LifeInv'
  BY LifeTypeStep, ReachableStep DEF LifeInv
<1> QED
  BY LifeInitially, <1>1, PTL DEF LifeSpec

\* The state of parent, daemon and socket file keeps its types
\* (mod_performance.c:1684-1732, 1824-1903).
THEOREM LifeTypeCorrect == LifeSpec => []LifeTypeOK
  BY LifeInvariant, PTL DEF LifeInv

\* However many daemons die or are replaced, the socket file a worker connects
\* to is that of the daemon that listens (mod_performance.c:1829-1900).
THEOREM FileIsOwn == LifeSpec => []Reachable
  BY LifeInvariant, PTL DEF LifeInv

-----------------------------------------------------------------------------
(* The clock takes nothing away from DaemonLife.                           *)

\* A daemon with timers lives as DaemonLife says (mod_performance.c:1739-1814).
THEOREM ClockIsLife == ClockSpec => LifeSpec
<1>1. ClockInit => LifeInit
  BY DEF ClockInit
<1>2. [ClockNext]_allVars => [LifeNext]_lifeVars
  <2>1. CASE ClockStep
    BY <2>1 DEF ClockStep, Exits, Delete, Restart, Defrag, Tick, LifeNext, DaemonStep
  <2>2. CASE UNCHANGED allVars
    BY <2>2 DEF allVars
  <2> QED
    BY <2>1, <2>2 DEF ClockNext, LifeNext, ParentStep, DaemonStep
<1> QED
  BY <1>1, <1>2, PTL DEF ClockSpec, LifeSpec

\* Also when the clock ends daemons the workers find the one that listens.
THEOREM ReachableByClock == ClockSpec => []Reachable
  BY ClockIsLife, FileIsOwn, PTL

-----------------------------------------------------------------------------
(* Days.                                                                   *)

\* Division by the length of a day.
LEMMA Days ==
  ASSUME NEW x \in Int
  PROVE  /\ x \div Day \in Int /\ x % Day \in 0..(Day - 1)
         /\ x = Day * (x \div Day) + (x % Day)
BY ClockAssumption, SMTT(30) DEF ClockAssumption

LEMMA DayIs ==
  ASSUME NEW k \in Int, NEW x \in Int, Day * k <= x, x < Day * k + Day
  PROVE  x \div Day = k
<1>1. Day \in Nat \ {0}
  BY ClockAssumption DEF ClockAssumption
<1> QED
  BY <1>1, SMTT(30)

\* A setting that is a time of day names one.
LEMMA OneTime ==
  ASSUME NEW s \in Checks \cup Defrags, s.time # {}
  PROVE  \E t \in 0..(Day - 1) : s.time = {t} /\ (CHOOSE u \in s.time : TRUE) = t
<1>1. PICK t \in -1..(Day - 1) : s.time = {t} \cap Nat
  BY ClockAssumption DEF ClockAssumption
<1>2. t \in Nat /\ s.time = {t}
  BY <1>1
<1> QED
  BY <1>1, <1>2

\* The interval ends at the next such time, which is later than now and a day
\* ahead at most (timers.c:140-153).
LEMMA Interval ==
  ASSUME NEW s \in Checks \cup Defrags, NEW t \in 0..(Day - 1), s.time = {t}, NEW now \in Nat
  PROVE  /\ gettimeinterval(s, now) \in 1..Day
         /\ now + gettimeinterval(s, now) = t + Day * ((now - t) \div Day + 1)
<1> DEFINE q == now \div Day
           r == now % Day
           i == gettimeinterval(s, now)
<1>1. Day \in Nat \ {0}
  BY ClockAssumption DEF ClockAssumption
<1>2. q \in Int /\ r \in 0..(Day - 1) /\ now = Day * q + r
  BY Days
<1>3. i = IF t > r THEN t - r ELSE Day - r + t
  BY DEF gettimeinterval
<1> HIDE DEF q, r, i
<1>4. i \in 1..Day
  BY <1>1, <1>2, <1>3
<1>5. CASE t > r
  <2>1. Day * (q - 1) = Day * q - Day /\ Day * (q - 1) \in Int /\ Day * q \in Int
    BY <1>1, <1>2
  <2>2. (now - t) \div Day = q - 1
    BY <1>1, <1>2, <1>5, <2>1, DayIs
  <2> QED
    BY <1>1, <1>2, <1>3, <1>4, <1>5, <2>2 DEF i
<1>6. CASE ~(t > r)
  <2>1. Day * (q + 1) = Day * q + Day /\ Day * q \in Int
    BY <1>1, <1>2
  <2>2. (now - t) \div Day = q
    BY <1>1, <1>2, <1>6, <2>1, DayIs
  <2> QED
    BY <1>1, <1>2, <1>3, <1>4, <1>6, <2>1, <2>2 DEF i
<1> QED
  BY <1>5, <1>6

-----------------------------------------------------------------------------
(* What a timer that is set to a time of day stands for.                    *)

TimeOf(s) == CHOOSE t \in s.time : TRUE

ClockTypes ==
  /\ check \in Checks /\ defrag \in Defrags
  /\ clock \in Nat /\ since \in Nat /\ runs \in Int
  /\ ran \in [{"delete", "restart", "defrag"} -> Int \cup {Never}]

\* The timer k runs out at the n-th day's time of s, or has by at most Lag.
Aims(k, s, n) ==
  /\ k \in DOMAIN timer /\ timer[k] \in (-Lag)..Day
  /\ clock + timer[k] = TimeOf(s) + Day * n

\* The table has been optimised at all these times since the timers were set.
DefragAims ==
  Serving /\ defrag.time # {} =>
    \E n \in Int : Aims("defrag", defrag, n)
                 /\ runs = n - 1 - (since - TimeOf(defrag)) \div Day

\* The last restart was at such a time, or at most Lag later ...
RestartWas ==
  check.time # {} /\ ran["restart"] # Never =>
    \E j \in Int : /\ ran["restart"] >= TimeOf(check) + Day * j
                   /\ ran["restart"] <= TimeOf(check) + Day * j + Lag
                   /\ ran["restart"] <= clock

\* ... and the timer stands for a later one.
RestartAims ==
  check.time # {} /\ "restart" \in DOMAIN timer =>
    \E n \in Int : /\ Aims("restart", check, n)
                   /\ ran["restart"] # Never =>
                        ran["restart"] <= TimeOf(check) + Day * (n - 1) + Lag

ClockInv == ClockTypes /\ DefragAims /\ RestartWas /\ RestartAims

\* The lag and the multiples of a day, for the arithmetic below.
LEMMA Multiples ==
  /\ Day \in Nat \ {0} /\ Lag \in Nat /\ Lag < Day
  /\ \A n \in Int : Day * n \in Int /\ Day * (n - 1) = Day * n - Day
BY ClockAssumption DEF ClockAssumption

LEMMA ClockInitially == ClockInit => ClockInv
<1> SUFFICES ASSUME ClockInit PROVE ClockInv
  OBVIOUS
<1>1. ClockTypes
  BY Multiples DEF ClockInit, ClockTypes
<1>2. ~Serving
  BY DEF ClockInit, LifeInit, Serving
<1>3. ran["restart"] = Never /\ DOMAIN timer = {}
  BY DEF ClockInit, None
<1> QED
  BY <1>1, <1>2, <1>3 DEF ClockInv, DefragAims, RestartWas, RestartAims

\* Steps that leave the clock's variables alone begin no service of a daemon ...
LEMMA NoService ==
  ASSUME LifeTypeOK, Fork \/ Reap \/ RestartBegins \/ Bind \/ Listen
  PROVE  Serving' => Serving
<1> USE DEF LifeTypeOK, Become, Serving, Alive, Before
<1>1. CASE Fork           BY <1>1 DEF Fork
<1>2. CASE Reap           BY <1>2 DEF Reap
<1>3. CASE RestartBegins  BY <1>3 DEF RestartBegins
<1>4. CASE Bind           BY <1>4 DEF Bind
<1>5. CASE Listen         BY <1>5 DEF Listen
<1> QED
  BY <1>1, <1>2, <1>3, <1>4, <1>5

\* ... and those that drop the timers end one.
LEMMA Ends ==
  ASSUME LifeTypeOK, RestartKills \/ Dies
  PROVE  ~Serving'
BY DEF LifeTypeOK, Become, Serving, Alive, Before, RestartKills, Dies

\* Each step keeps the types of the clock.
LEMMA ClockTypesStep ==
  ASSUME ClockTypes, [ClockNext]_allVars
  PROVE  ClockTypes'
<1> USE DEF ClockTypes
<1>1. CASE Serve /\ SetTimers  BY <1>1 DEF SetTimers
<1>2. CASE Exits  BY <1>2 DEF Exits, Gone
<1>3. CASE Delete  BY <1>3 DEF Delete
<1>4. CASE Restart  BY <1>4 DEF Restart
<1>5. CASE Defrag  BY <1>5 DEF Defrag
<1>6. CASE Tick  BY <1>6 DEF Tick
<1>7. CASE UNCHANGED clockVars  BY <1>7 DEF clockVars
<1>8. CASE (RestartKills \/ Dies) /\ Gone  BY <1>8 DEF Gone
<1> QED
  BY <1>1, <1>2, <1>3, <1>4, <1>5, <1>6, <1>7, <1>8 DEF ClockNext, ClockStep, allVars

\* Other timers are set without touching this one.
LEMMA OthersKept ==
  ASSUME NEW j, NEW k, j # k, j \in DOMAIN timer, NEW v
  PROVE  /\ j \in DOMAIN With(timer, k, v) /\ With(timer, k, v)[j] = timer[j]
         /\ j \in DOMAIN Arm(timer, k, v) /\ Arm(timer, k, v)[j] = timer[j]
BY DEF With, Arm

\* A timer that a handler sets anew aims at the time after this one.
LEMMA AimsAgain ==
  ASSUME ClockTypes, NEW s \in Checks \cup Defrags, s.time # {}, NEW k, NEW n \in Int,
         Aims(k, s, n), Due(k), clock' = clock,
         timer' = Arm(timer, k, gettimeinterval(s, clock))
  PROVE  /\ k \in DOMAIN timer' /\ timer'[k] \in (-Lag)..Day
         /\ clock + timer'[k] = TimeOf(s) + Day * (n + 1)
<1> DEFINE g == gettimeinterval(s, clock)
<1>1. PICK t \in 0..(Day - 1) : s.time = {t} /\ TimeOf(s) = t
  BY OneTime DEF TimeOf
<1>2. g \in 1..Day /\ clock + g = t + Day * ((clock - t) \div Day + 1)
  BY <1>1, Interval DEF ClockTypes
<1>3. (clock - t) \div Day = n
  <2>1. clock + timer[k] = t + Day * n /\ timer[k] \in (-Lag)..0
    BY <1>1, Multiples DEF Aims, Due
  <2>2. Day * n <= clock - t /\ clock - t < Day * n + Day /\ clock - t \in Int
    BY <2>1, Multiples DEF ClockTypes
  <2> QED
    BY <2>2, DayIs
<1>4. timer' = With(timer, k, g)
  <2>1. g # 0
    BY <1>2
  <2> QED
    BY <2>1 DEF Arm
<1>5. k \in DOMAIN timer' /\ timer'[k] = g
  BY <1>4 DEF With
<1> QED
  BY <1>1, <1>2, <1>3, <1>5, Multiples

\* What SetTimers does to the two timers of a time of day.
LEMMA SetTimersAims ==
  ASSUME ClockTypes, SetTimers
  PROVE  /\ defrag.time # {} =>
              /\ "defrag" \in DOMAIN timer'
              /\ timer'["defrag"] = gettimeinterval(defrag, clock)
         /\ check.time # {} =>
              /\ "restart" \in DOMAIN timer'
              /\ timer'["restart"] = gettimeinterval(check, clock)
<1> DEFINE g == gettimeinterval(check, clock)
           h == gettimeinterval(defrag, clock)
           base == With(None, "delete", DELETE_INTERVAL)
           sec == IF g = 0 THEN check.number ELSE g
           mid == Arm(base, "restart", sec)
<1>1. timer' = Arm(mid, "defrag", h)
  BY DEF SetTimers
<1>2. defrag.time # {} => h # 0
  <2> SUFFICES ASSUME defrag.time # {} PROVE h # 0
    OBVIOUS
  <2>1. PICK t \in 0..(Day - 1) : defrag.time = {t}
    BY OneTime DEF ClockTypes
  <2>2. h \in 1..Day
    BY <2>1, Interval DEF ClockTypes
  <2> QED
    BY <2>2
<1>3. check.time # {} => g # 0
  <2> SUFFICES ASSUME check.time # {} PROVE g # 0
    OBVIOUS
  <2>1. PICK t \in 0..(Day - 1) : check.time = {t}
    BY OneTime DEF ClockTypes
  <2>2. g \in 1..Day
    BY <2>1, Interval DEF ClockTypes
  <2> QED
    BY <2>2
<1> HIDE DEF g, h, base
<1>4. check.time # {} => "restart" \in DOMAIN mid /\ mid["restart"] = g
  BY <1>3 DEF Arm, With
<1> HIDE DEF mid
<1> QED
  BY <1>1, <1>2, <1>4 DEF Arm, With, g, h

\* Each step keeps what the optimize timer stands for.
LEMMA DefragStep ==
  ASSUME LifeTypeOK, ClockTypes, DefragAims, [ClockNext]_allVars
  PROVE  DefragAims'
<1> SUFFICES ASSUME Serving', defrag.time # {}
             PROVE  \E n \in Int : Aims("defrag", defrag, n)'
                                 /\ runs' = n - 1 - (since' - TimeOf(defrag)) \div Day
  BY ClockTypesStep DEF DefragAims, ClockNext, ClockStep, SetTimers, Exits, Gone, Delete, Restart,
                        Defrag, Tick, clockVars, allVars
<1>1. CASE Serve /\ SetTimers
  <2>1. PICK t \in 0..(Day - 1) : defrag.time = {t} /\ TimeOf(defrag) = t
    BY OneTime DEF TimeOf, ClockTypes
  <2>2. (clock - t) \div Day \in Int
    BY Days DEF ClockTypes
  <2>3. PICK n \in Int : n = (clock - t) \div Day + 1
    BY <2>2
  <2>4. /\ timer'["defrag"] \in 1..Day
        /\ clock + timer'["defrag"] = t + Day * n
    BY <1>1, <2>1, <2>3, SetTimersAims, Interval DEF ClockTypes
  <2>5. runs' = 0 /\ since' = clock /\ clock' = clock /\ defrag' = defrag /\ "defrag" \in DOMAIN timer'
    BY <1>1, SetTimersAims DEF SetTimers
  <2>6. Aims("defrag", defrag, n)'
    <3>1. timer'["defrag"] \in (-Lag)..Day
      BY <2>4, Multiples
    <3>2. TimeOf(defrag)' = t
      BY <2>1, <2>5 DEF TimeOf
    <3> QED
      BY <2>4, <2>5, <3>1, <3>2 DEF Aims
  <2>7. runs' = n - 1 - (since' - TimeOf(defrag)) \div Day
    BY <2>1, <2>2, <2>5, <2>3
  <2> QED
    BY <2>6, <2>7
<1>2. CASE Defrag
  <2>1. Serving /\ Due("defrag")
    BY <1>2 DEF Defrag, lifeVars, Serving
  <2>2. PICK n \in Int : Aims("defrag", defrag, n)
                       /\ runs = n - 1 - (since - TimeOf(defrag)) \div Day
    BY <2>1 DEF DefragAims
  <2>3. /\ clock' = clock /\ defrag' = defrag /\ since' = since /\ runs' = runs + 1
        /\ timer' = Arm(timer, "defrag", gettimeinterval(defrag, clock))
    BY <1>2 DEF Defrag
  <2>4. Aims("defrag", defrag, n + 1)'
    BY <2>1, <2>2, <2>3, AimsAgain DEF ClockTypes, Aims, TimeOf
  <2>5. PICK t \in 0..(Day - 1) : TimeOf(defrag) = t
    BY OneTime DEF TimeOf, ClockTypes
  <2>6. (since - TimeOf(defrag)) \div Day \in Int
    BY <2>5, Days DEF ClockTypes
  <2>7. runs' = (n + 1) - 1 - (since' - TimeOf(defrag)) \div Day
    BY <2>2, <2>3, <2>6
  <2> QED
    BY <2>4, <2>7
<1>3. CASE Delete \/ Restart
  <2>1. Serving
    BY <1>3 DEF Delete, Restart, lifeVars, Serving
  <2>2. PICK n \in Int : Aims("defrag", defrag, n)
                       /\ runs = n - 1 - (since - TimeOf(defrag)) \div Day
    BY <2>1 DEF DefragAims
  <2>3. clock' = clock /\ defrag' = defrag /\ since' = since /\ runs' = runs
    BY <1>3 DEF Delete, Restart
  <2>4. "defrag" \in DOMAIN timer' /\ timer'["defrag"] = timer["defrag"]
    BY <1>3, <2>2, OthersKept DEF Delete, Restart, Aims
  <2> QED
    BY <2>2, <2>3, <2>4 DEF Aims, TimeOf
<1>4. CASE Tick
  <2>1. Serving
    BY <1>4 DEF Tick, lifeVars, Serving
  <2>2. PICK n \in Int : Aims("defrag", defrag, n)
                       /\ runs = n - 1 - (since - TimeOf(defrag)) \div Day
    BY <2>1 DEF DefragAims
  <2>3. clock' = clock + 1 /\ defrag' = defrag /\ since' = since /\ runs' = runs
    BY <1>4 DEF Tick
  <2>4. "defrag" \in DOMAIN timer' /\ timer'["defrag"] = timer["defrag"] - 1 /\ timer["defrag"] > -Lag
    BY <1>4, <2>2 DEF Tick, Aims
  <2>5. timer'["defrag"] \in (-Lag)..Day /\ clock' + timer'["defrag"] = clock + timer["defrag"]
    BY <2>2, <2>3, <2>4, Multiples DEF Aims, ClockTypes
  <2> QED
    BY <2>2, <2>3, <2>4, <2>5 DEF Aims, TimeOf
<1>5. CASE (Fork \/ Reap \/ RestartBegins \/ Bind \/ Listen) /\ UNCHANGED clockVars
  BY <1>5, NoService DEF DefragAims, Aims, clockVars, TimeOf
<1>6. CASE (RestartKills \/ Dies) /\ Gone
  BY <1>6, Ends
<1>7. CASE Exits
  BY <1>7, Ends DEF Exits
<1>8. CASE UNCHANGED allVars
  BY <1>8 DEF allVars, lifeVars, clockVars, DefragAims, Aims, Serving, TimeOf
<1> QED
  BY <1>1, <1>2, <1>3, <1>4, <1>5, <1>6, <1>7, <1>8 DEF ClockNext, ClockStep

\* Multiples of a day are ordered as their numbers are.
LEMMA Below ==
  ASSUME NEW j \in Int, NEW q \in Int, Day * j < Day * q + Day
  PROVE  Day * j <= Day * q
<1>1. Day \in Nat \ {0}
  BY Multiples
<1>2. CASE j <= q
  <2>1. PICK d \in Nat : q = j + d
    BY <1>2
  <2>2. Day * q = Day * j + Day * d /\ Day * d \in Nat /\ Day * j \in Int /\ Day * q \in Int
    BY <1>1, <2>1
  <2> QED
    BY <2>2
<1>3. CASE ~(j <= q)
  <2>1. PICK d \in Nat : j = q + 1 + d
    BY <1>3
  <2>2. Day * j = Day * q + Day + Day * d /\ Day * d \in Nat /\ Day * q \in Int
    BY <1>1, <2>1
  <2> QED
    BY <1>1, <2>2
<1> QED
  BY <1>2, <1>3

\* A restart that is due comes at its time or Lag later at most.
LEMMA RestartDue ==
  ASSUME ClockTypes, RestartAims, Restart, check.time # {}
  PROVE  \E n \in Int : /\ Aims("restart", check, n)
                        /\ clock >= TimeOf(check) + Day * n
                        /\ clock <= TimeOf(check) + Day * n + Lag
                        /\ ran["restart"] # Never =>
                             ran["restart"] <= TimeOf(check) + Day * (n - 1) + Lag
<1>1. "restart" \in DOMAIN timer /\ timer["restart"] <= 0
  BY DEF Restart, Due
<1>2. PICK n \in Int : /\ Aims("restart", check, n)
                       /\ ran["restart"] # Never =>
                            ran["restart"] <= TimeOf(check) + Day * (n - 1) + Lag
  BY <1>1 DEF RestartAims
<1>3. PICK t \in 0..(Day - 1) : TimeOf(check) = t
  BY OneTime DEF TimeOf, ClockTypes
<1>4. clock >= t + Day * n /\ clock <= t + Day * n + Lag
  BY <1>1, <1>2, <1>3, Multiples DEF Aims, ClockTypes
<1> QED
  BY <1>2, <1>3, <1>4

\* Each step keeps what is known of the last restart.
LEMMA RestartWasStep ==
  ASSUME ClockTypes, RestartWas, RestartAims, [ClockNext]_allVars
  PROVE  RestartWas'
<1>1. check' = check
  BY DEF ClockNext, ClockStep, SetTimers, Exits, Gone, Delete, Restart, Defrag, Tick, clockVars, allVars
<1> SUFFICES ASSUME check.time # {}, ran'["restart"] # Never
             PROVE  \E j \in Int : /\ ran'["restart"] >= TimeOf(check) + Day * j
                                   /\ ran'["restart"] <= TimeOf(check) + Day * j + Lag
                                   /\ ran'["restart"] <= clock'
  BY <1>1 DEF RestartWas, TimeOf
<1>2. CASE Restart
  <2>1. ran'["restart"] = clock /\ clock' = clock
    BY <1>2 DEF Restart, ClockTypes
  <2>2. PICK n \in Int : clock >= TimeOf(check) + Day * n /\ clock <= TimeOf(check) + Day * n + Lag
    BY <1>2, RestartDue
  <2> QED
    BY <2>1, <2>2 DEF ClockTypes
<1>3. CASE ~Restart
  <2>1. ran'["restart"] = ran["restart"]
    BY <1>3 DEF ClockNext, ClockStep, SetTimers, Exits, Gone, Delete, Defrag, Tick, clockVars, allVars, ClockTypes
  <2>2. clock' = clock \/ clock' = clock + 1
    BY <1>3 DEF ClockNext, ClockStep, SetTimers, Exits, Gone, Delete, Defrag, Tick, clockVars, allVars
  <2>3. PICK j \in Int : /\ ran["restart"] >= TimeOf(check) + Day * j
                         /\ ran["restart"] <= TimeOf(check) + Day * j + Lag
                         /\ ran["restart"] <= clock
    BY <2>1 DEF RestartWas
  <2>4. ran["restart"] \in Int /\ clock \in Nat
    BY <2>1 DEF ClockTypes
  <2>5. ran["restart"] <= clock'
    BY <2>2, <2>3, <2>4
  <2> QED
    BY <2>1, <2>3, <2>5
<1> QED
  BY <1>2, <1>3

\* Each step keeps what the restart timer stands for.
LEMMA RestartAimsStep ==
  ASSUME ClockTypes, RestartWas, RestartAims, [ClockNext]_allVars
  PROVE  RestartAims'
<1>1. check' = check
  BY DEF ClockNext, ClockStep, SetTimers, Exits, Gone, Delete, Restart, Defrag, Tick, clockVars, allVars
<1>2. TimeOf(check)' = TimeOf(check)
  BY <1>1 DEF TimeOf
<1> SUFFICES ASSUME check.time # {}, "restart" \in DOMAIN timer'
             PROVE  \E n \in Int :
                      /\ timer'["restart"] \in (-Lag)..Day
                      /\ clock' + timer'["restart"] = TimeOf(check) + Day * n
                      /\ ran'["restart"] # Never =>
                           ran'["restart"] <= TimeOf(check) + Day * (n - 1) + Lag
  BY <1>1, <1>2 DEF RestartAims, Aims
<1>3. PICK t \in 0..(Day - 1) : check.time = {t} /\ TimeOf(check) = t
  BY OneTime DEF TimeOf, ClockTypes
<1>4. CASE Serve /\ SetTimers
  <2>1. (clock - t) \div Day \in Int /\ (clock - t) % Day \in 0..(Day - 1)
        /\ clock - t = Day * ((clock - t) \div Day) + ((clock - t) % Day)
    BY Days DEF ClockTypes
  <2>2. PICK q \in Int : q = (clock - t) \div Day
    BY <2>1
  <2>3. clock - t < Day * q + Day
    BY <2>1, <2>2, Multiples DEF ClockTypes
  <2>4. timer'["restart"] \in 1..Day /\ clock + timer'["restart"] = t + Day * (q + 1)
    BY <1>3, <1>4, <2>2, SetTimersAims, Interval DEF ClockTypes
  <2>5. ran'["restart"] = ran["restart"] /\ clock' = clock
    BY <1>4 DEF SetTimers, ClockTypes
  <2>6. ASSUME ran["restart"] # Never
        PROVE  ran["restart"] <= t + Day * q + Lag
    <3>1. PICK j \in Int : /\ ran["restart"] >= t + Day * j
                           /\ ran["restart"] <= t + Day * j + Lag
                           /\ ran["restart"] <= clock
      BY <1>3, <2>6 DEF RestartWas
    <3>2. ran["restart"] \in Int /\ clock \in Nat
      BY <2>6 DEF ClockTypes
    <3>3. Day * j < Day * q + Day
      BY <2>3, <3>1, <3>2, Multiples
    <3>4. Day * j <= Day * q
      BY <3>3, Below
    <3> QED
      BY <3>1, <3>2, <3>4, Multiples
  <2>7. timer'["restart"] \in (-Lag)..Day
    BY <2>4, Multiples
  <2>8. Day * ((q + 1) - 1) = Day * q
    OBVIOUS
  <2> QED
    BY <1>3, <2>4, <2>5, <2>6, <2>7, <2>8
<1>5. CASE Restart
  <2>1. PICK n \in Int : /\ Aims("restart", check, n)
                         /\ clock <= TimeOf(check) + Day * n + Lag
    BY <1>5, RestartDue
  <2>2. /\ Due("restart") /\ clock' = clock /\ ran'["restart"] = clock
        /\ timer' = Arm(timer, "restart", gettimeinterval(check, clock))
    BY <1>5 DEF Restart, ClockTypes
  <2>3. /\ timer'["restart"] \in (-Lag)..Day
        /\ clock + timer'["restart"] = TimeOf(check) + Day * (n + 1)
    BY <2>1, <2>2, AimsAgain DEF ClockTypes
  <2>4. Day * ((n + 1) - 1) = Day * n
    OBVIOUS
  <2>5. ran'["restart"] <= TimeOf(check) + Day * ((n + 1) - 1) + Lag
    BY <2>1, <2>2, <2>4
  <2> WITNESS n + 1 \in Int
  <2> QED
    BY <2>2, <2>3, <2>5
<1>6. CASE Delete \/ Defrag
  <2>1. "restart" \in DOMAIN timer
    BY <1>6 DEF Delete, Defrag, With, Arm
  <2>2. timer'["restart"] = timer["restart"]
    BY <1>6, <2>1, OthersKept DEF Delete, Defrag
  <2>3. clock' = clock /\ ran'["restart"] = ran["restart"]
    BY <1>6 DEF Delete, Defrag, ClockTypes
  <2> QED
    BY <2>1, <2>2, <2>3 DEF RestartAims, Aims
<1>7. CASE Tick
  <2>1. "restart" \in DOMAIN timer /\ timer["restart"] > -Lag
        /\ timer'["restart"] = timer["restart"] - 1 /\ clock' = clock + 1 /\ ran' = ran
    BY <1>7 DEF Tick
  <2>2. PICK n \in Int : /\ Aims("restart", check, n)
                         /\ ran["restart"] # Never =>
                              ran["restart"] <= TimeOf(check) + Day * (n - 1) + Lag
    BY <2>1 DEF RestartAims
  <2>3. timer'["restart"] \in (-Lag)..Day /\ clock' + timer'["restart"] = clock + timer["restart"]
    BY <2>1, <2>2, Multiples DEF Aims, ClockTypes
  <2> QED
    BY <2>1, <2>2, <2>3 DEF Aims
<1>8. CASE Gone
  BY <1>8 DEF Gone, None
<1>9. CASE UNCHANGED clockVars
  BY <1>9 DEF clockVars, RestartAims, Aims
<1> QED
  BY <1>4, <1>5, <1>6, <1>7, <1>8, <1>9 DEF ClockNext, ClockStep, Exits, allVars

\* The timers stand for the times set.
THEOREM ClockInvariant == ClockSpec => []ClockInv
<1>1. ClockInit => ClockInv
  BY ClockInitially
<1>2. LifeTypeOK /\ ClockInv /\ [ClockNext]_allVars => ClockInv'
  BY ClockTypesStep, DefragStep, RestartWasStep, RestartAimsStep DEF ClockInv
<1>3. ClockSpec => []LifeTypeOK
  BY ClockIsLife, LifeTypeCorrect, PTL
<1> QED
  BY <1>1, <1>2, <1>3, PTL DEF ClockSpec

-----------------------------------------------------------------------------
(* The properties.                                                         *)

\* Whatever the times and the lag, a serving daemon has optimised the table
\* once for each time the clock has shown the time set (timers.c:146-153).
THEOREM DefragIsDaily == ClockSpec => []DefragOncePerDay
<1>1. ClockInv => DefragOncePerDay
  <2> SUFFICES ASSUME ClockInv, Serving, defrag.time # {}
               PROVE  Times(defrag, since, clock) - runs = IF Due("defrag") THEN 1 ELSE 0
    BY DEF DefragOncePerDay
  <2>1. ClockTypes /\ DefragAims
    BY DEF ClockInv
  <2>2. PICK n \in Int : Aims("defrag", defrag, n)
                       /\ runs = n - 1 - (since - TimeOf(defrag)) \div Day
    BY <2>1 DEF DefragAims
  <2>3. PICK t \in 0..(Day - 1) : TimeOf(defrag) = t
    BY <2>1, OneTime DEF TimeOf, ClockTypes
  <2>4. (since - t) \div Day \in Int
    BY <2>1, Days DEF ClockTypes
  <2>5. Times(defrag, since, clock) = (clock - t) \div Day - (since - t) \div Day
    BY <2>3 DEF Times, TimeOf
  <2>6. timer["defrag"] \in (-Lag)..Day /\ clock - t = Day * n - timer["defrag"] /\ clock \in Nat
    <3>1. timer["defrag"] \in (-Lag)..Day /\ clock + timer["defrag"] = t + Day * n /\ clock \in Nat
      BY <2>1, <2>2, <2>3 DEF Aims, ClockTypes
    <3> QED
      BY <3>1, Multiples
  <2>7. Due("defrag") <=> timer["defrag"] <= 0
    BY <2>2 DEF Aims, Due
  <2>8. CASE Due("defrag")
    <3>1. Day * n <= clock - t /\ clock - t < Day * n + Day
      BY <2>6, <2>7, <2>8, Multiples
    <3>2. (clock - t) \div Day = n
      BY <2>6, <3>1, DayIs
    <3> QED
      BY <2>2, <2>3, <2>4, <2>5, <2>8, <3>2
  <2>9. CASE ~Due("defrag")
    <3>1. Day * (n - 1) <= clock - t /\ clock - t < Day * (n - 1) + Day
      BY <2>6, <2>7, <2>9, Multiples
    <3>2. (clock - t) \div Day = n - 1
      BY <2>6, <3>1, DayIs
    <3> QED
      BY <2>2, <2>3, <2>4, <2>5, <2>9, <3>2
  <2> QED
    BY <2>8, <2>9
<1> QED
  BY <1>1, ClockInvariant, PTL

\* Restarts by the clock at a time of day are a day apart, but for the lag, over
\* all the daemons there have been (mod_performance.c:1760-1772).
THEOREM RestartsAreApart == ClockSpec => RestartsApart
<1>1. ASSUME ClockInv, [ClockNext]_allVars,
             ran'["restart"] # ran["restart"], ran["restart"] # Never, check.time # {}
      PROVE  clock - ran["restart"] >= Day - Lag
  <2>1. ClockTypes /\ RestartAims
    BY <1>1 DEF ClockInv
  <2>2. Restart
    BY <1>1, <2>1 DEF ClockNext, ClockStep, SetTimers, Exits, Gone, Delete, Defrag, Tick, clockVars,
                      allVars, ClockTypes
  <2>3. PICK n \in Int : /\ clock >= TimeOf(check) + Day * n
                         /\ ran["restart"] <= TimeOf(check) + Day * (n - 1) + Lag
    BY <1>1, <2>1, <2>2, RestartDue
  <2>4. PICK t \in 0..(Day - 1) : TimeOf(check) = t
    BY <1>1, <2>1, OneTime DEF TimeOf, ClockTypes
  <2>5. ran["restart"] \in Int /\ clock \in Nat
    BY <1>1, <2>1 DEF ClockTypes
  <2> QED
    BY <2>3, <2>4, <2>5, Multiples
<1>2. ClockInv /\ [ClockNext]_allVars =>
        [ran'["restart"] # ran["restart"] /\ ran["restart"] # Never /\ check.time # {}
          => clock - ran["restart"] >= Day - Lag]_allVars
  BY <1>1
<1> QED
  BY <1>2, ClockInvariant, PTL DEF ClockSpec, RestartsApart

-----------------------------------------------------------------------------
(* A worker process and the daemons it connects to.                        *)


\* Descriptor d is open on a connection made for the request t serves.
Own(t, d) ==
  /\ d \in 1..MaxFd /\ fds[d] \in 1..Len(conns)
  /\ conns[fds[d]].chain = th[t].chain

\* No two threads serve the same request.
ChainsApart ==
  /\ \A t \in Threads : th[t].pc # "idle" => th[t].chain \in 1..chains
  /\ \A t, u \in Threads : th[t].pc # "idle" /\ th[u].pc # "idle" /\ t # u
       => th[t].chain # th[u].chain

\* A thread that is about to send BEGIN has a descriptor.
SdAtBegin == \A t \in Threads : th[t].pc = "begin" => th[t].sd \in 1..MaxFd

\* With the log hook: a thread without a request has no descriptor, the others
\* have their own, and nobody has the output filter.
SdOwn(t) ==
  /\ th[t].pc = "idle" => th[t].key = NoSd
  /\ th[t].key # NoSd => Own(t, th[t].key)
  /\ th[t].pc = "begin" => Own(t, th[t].sd)
  /\ ~th[t].filter

SdsOwn == ~filterMode => \A t \in Threads : SdOwn(t)

\* A daemon that a connection was made to is there, or is gone for good.
Here(p) == p = daemon.pid /\ daemon.state \in {"listening", "serving"}
Past(p) == p < daemon.pid \/ (p = daemon.pid /\ daemon.state \in {"dead", "none"})

\* A daemon that was connected to serves or is gone for good.
PeersWere == \A c \in 1..Len(conns) : Here(conns[c].peer) \/ Past(conns[c].peer)

LogShape(c) ==
  /\ Len(conns[c].log) <= 2
  /\ \A k \in DOMAIN conns[c].log : /\ conns[c].log[k].what = IF k = 1 THEN "BEGIN" ELSE "END"
                                    /\ conns[c].log[k].chain = conns[c].chain

\* BEGIN has been sent, and written unless the daemon was gone.
Begun(c) == Len(conns[c].log) = 1 \/ (conns[c].log = <<>> /\ Past(conns[c].peer))

ThreadLog(t) ==
  /\ th[t].pc = "begin" => conns[fds[th[t].sd]].log = <<>>
  /\ th[t].key # NoSd => Begun(fds[th[t].key])

Logs == ~filterMode =>
  PeersWere /\ (\A c \in 1..Len(conns) : LogShape(c)) /\ \A t \in Threads : ThreadLog(t)

Inv == TypeOK /\ SdAtBegin /\ ChainsApart /\ SdsOwn /\ Logs

-----------------------------------------------------------------------------
\* Writing to a descriptor changes no connection but its log.
LEMMA SentKeeps ==
  ASSUME TypeOK, NEW d \in 1..MaxFd, NEW rec \in Records
  PROVE  /\ Sent(d, rec) \in Seq(Connection)
         /\ Len(Sent(d, rec)) = Len(conns)
         /\ \A c \in 1..Len(conns) : /\ Sent(d, rec)[c].chain = conns[c].chain
                                     /\ Sent(d, rec)[c].kind = conns[c].kind
<1>1. CASE Sent(d, rec) = conns
  BY <1>1 DEF TypeOK
<1>2. CASE Sent(d, rec) # conns
  <2> DEFINE c == fds[d]
  <2>1. c \in 1..Len(conns) /\ conns \in Seq(Connection)
    BY <1>2 DEF TypeOK, Sent, Other
  <2>2. Sent(d, rec) = [conns EXCEPT ![c].log = Append(@, rec)]
    BY <1>2 DEF Sent
  <2>3. conns[c] \in Connection
    BY <2>1
  <2>4. Append(conns[c].log, rec) \in Seq(Records)
    BY <2>3 DEF Connection
  <2>5. [conns[c] EXCEPT !.log = Append(@, rec)] \in Connection
    BY <2>3, <2>4 DEF Connection
  <2>6. Sent(d, rec) = [conns EXCEPT ![c] = [conns[c] EXCEPT !.log = Append(@, rec)]]
    BY <2>2
  <2> HIDE DEF c
  <2>7. /\ [conns[c] EXCEPT !.log = Append(@, rec)].chain = conns[c].chain
        /\ [conns[c] EXCEPT !.log = Append(@, rec)].kind = conns[c].kind
    BY <2>3 DEF Connection
  <2> QED
    BY <2>1, <2>5, <2>6, <2>7
<1> QED
  BY <1>1, <1>2

\* The state of a thread, and that it keeps its type field by field.
ThreadState == [pc: Pcs, chain: 0..MaxChains, kind: Kinds,
               selected: BOOLEAN, filter: BOOLEAN, subs: 0..MaxSubs,
               tries: 0..1, sd: 0..MaxFd, key: 0..MaxFd, global: 0..MaxFd, used: BOOLEAN]

LEMMA Fields ==
  ASSUME NEW r \in ThreadState
  PROVE  /\ \A x \in Pcs : [r EXCEPT !.pc = x] \in ThreadState
         /\ \A x \in 0..MaxChains : [r EXCEPT !.chain = x] \in ThreadState
         /\ \A x \in Kinds : [r EXCEPT !.kind = x] \in ThreadState
         /\ \A x \in BOOLEAN : [r EXCEPT !.selected = x] \in ThreadState
         /\ \A x \in BOOLEAN : [r EXCEPT !.filter = x] \in ThreadState
         /\ \A x \in 0..MaxSubs : [r EXCEPT !.subs = x] \in ThreadState
         /\ \A x \in 0..1 : [r EXCEPT !.tries = x] \in ThreadState
         /\ \A x \in 0..MaxFd : [r EXCEPT !.sd = x] \in ThreadState
         /\ \A x \in 0..MaxFd : [r EXCEPT !.key = x] \in ThreadState
         /\ \A x \in 0..MaxFd : [r EXCEPT !.global = x] \in ThreadState
         /\ \A x \in BOOLEAN : [r EXCEPT !.used = x] \in ThreadState
  BY DEF ThreadState

\* The server starts without a request.
LEMMA Initially == Init => Inv
<1> SUFFICES ASSUME Init PROVE Inv
  OBVIOUS
<1>1. LifeTypeOK
  BY LifeInitially DEF Init, LifeInv
<1>2. IdleThread \in ThreadState
  BY WorkerAssumption DEF WorkerAssumption, ThreadState, IdleThread, Pcs, Kinds, Asked, NoSd
<1>3. TypeOK
  BY <1>1, <1>2, WorkerAssumption DEF WorkerAssumption, ThreadState, Init, TypeOK, Free
<1>4. SdAtBegin /\ ChainsApart /\ SdsOwn
  BY DEF Init, SdAtBegin, ChainsApart, SdsOwn, SdOwn, IdleThread, NoSd
<1>5. Logs
  BY DEF Init, Logs, PeersWere, ThreadLog, IdleThread, NoSd
<1> QED
  BY <1>3, <1>4, <1>5 DEF Inv

-----------------------------------------------------------------------------
\* The types.

\* What the handler leaves in the thread.
LEMMA HandlerType ==
  ASSUME TypeOK, NEW t \in Threads, NEW c \in 0..MaxChains, NEW kind \in Kinds,
         NEW selected \in BOOLEAN, Handler(t, c, kind, selected)
  PROVE  th' \in [Threads -> ThreadState]
<1>1. th[t] \in ThreadState
  BY DEF TypeOK, ThreadState
<1> DEFINE need == selected /\ ~(Canonical /\ kind = "redirect")
           new == [th[t] EXCEPT !.chain = c, !.kind = kind,
                     !.pc = IF need THEN "connect" ELSE "content",
                     !.selected = @ \/ selected, !.filter = need /\ filterMode]
<1>2. need \in BOOLEAN /\ (need /\ filterMode) \in BOOLEAN
  BY DEF TypeOK
<1>3. th' = [th EXCEPT ![t] = new]
  BY Zenon DEF Handler
<1>4. new \in ThreadState
  <2> HIDE DEF need
  <2>1. (th[t].selected \/ selected) \in BOOLEAN
    OBVIOUS
  <2>2. (IF need THEN "connect" ELSE "content") \in Pcs
    BY DEF Pcs
  <2> QED
    BY <1>1, <1>2, <2>1, <2>2, Fields, Zenon
<1> QED
  BY <1>3, <1>4 DEF TypeOK, ThreadState

\* A record of END or BEGIN.
LEMMA RecordType ==
  ASSUME TypeOK, NEW t \in Threads, NEW what \in {"BEGIN", "END"}
  PROVE  Record(what, t) \in Records
<1>1. th[t] \in ThreadState
  BY DEF TypeOK, ThreadState
<1> QED
  BY <1>1 DEF Record, Records, ThreadState

\* Sending END and closing.
LEMMA SendEndType ==
  ASSUME TypeOK, NEW t \in Threads, NEW d \in 1..MaxFd, SendEnd(t, d)
  PROVE  /\ conns' \in Seq(Connection) /\ Len(conns') = Len(conns)
         /\ fds' \in [1..MaxFd -> {Other} \cup 0..Len(conns')]
<1>1. conns' \in Seq(Connection) /\ Len(conns') = Len(conns)
  BY RecordType, SentKeeps DEF SendEnd
<1>2. 0 \in 0..Len(conns')
  BY <1>1
<1> QED
  BY <1>1, <1>2 DEF SendEnd, TypeOK, Free

\* Giving up to connect.
LEMMA GiveUpType ==
  ASSUME TypeOK, NEW t \in Threads
  PROVE  [th[t] EXCEPT !.pc = "content", !.tries = 0] \in ThreadState
<1>1. th[t] \in ThreadState
  BY DEF TypeOK, ThreadState
<1>2. "content" \in Pcs /\ 0 \in 0..1
  BY DEF Pcs
<1> QED
  BY <1>1, <1>2, Fields, Zenon

\* A subrequest changes its thread as a request does, but for the filter of that
\* one, and only where one more may be made.
LEMMA SubrequestEffect ==
  ASSUME TypeOK, NEW t \in Threads, Subrequest(t)
  PROVE  /\ UNCHANGED <<filterMode, fds, conns, chains>>
         /\ th' \in [Threads -> ThreadState]
         /\ \A u \in Threads : u # t => th'[u] = th[u]
         /\ th[t].pc = "content" /\ th'[t].pc \in {"connect", "content"}
         /\ th[t].kind \in {"plain", "sub"} /\ th'[t].kind = "sub"
         /\ th[t].subs < MaxSubs /\ th'[t].subs = th[t].subs + 1
         /\ th'[t].chain = th[t].chain /\ th'[t].tries = th[t].tries
         /\ th'[t].key = th[t].key /\ th'[t].global = th[t].global
         /\ th'[t].filter = th[t].filter
         /\ th'[t].used => th[t].used \/ filterMode
<1>1. th \in [Threads -> ThreadState] /\ th[t] \in ThreadState
  BY DEF TypeOK, ThreadState
<1>2. /\ UNCHANGED <<filterMode, fds, conns, chains>> /\ th[t].pc = "content"
      /\ th[t].kind \in {"plain", "sub"} /\ th[t].subs < MaxSubs
  BY DEF Subrequest
<1>3. PICK selected \in BOOLEAN, shown \in BOOLEAN :
        th' = [th EXCEPT ![t] = [@ EXCEPT !.kind = "sub", !.subs = th[t].subs + 1,
                !.pc = IF selected THEN "connect" ELSE "content",
                !.selected = th[t].selected \/ selected,
                !.used = th[t].used \/ (selected /\ filterMode /\ shown)]]
  BY Zenon DEF Subrequest
<1> DEFINE n == th[t].subs + 1
           p == IF selected THEN "connect" ELSE "content"
           s == th[t].selected \/ selected
           used == th[t].used \/ (selected /\ filterMode /\ shown)
           new == [th[t] EXCEPT !.kind = "sub", !.subs = n, !.pc = p, !.selected = s,
                                !.used = used]
<1>4. th' = [th EXCEPT ![t] = new]
  BY <1>3, Zenon
<1>5. /\ n \in 0..MaxSubs /\ p \in Pcs /\ p \in {"connect", "content"}
      /\ s \in BOOLEAN /\ used \in BOOLEAN /\ "sub" \in Kinds
  BY <1>1, <1>2, WorkerAssumption DEF WorkerAssumption, ThreadState, Pcs, Kinds
<1>6. used => th[t].used \/ filterMode
  OBVIOUS
<1> HIDE DEF n, p, s, used
<1>7. new \in ThreadState
  BY <1>1, <1>5, Fields, Zenon
<1>8. /\ new.pc = p /\ new.kind = "sub" /\ new.subs = n /\ new.used = used
      /\ new.chain = th[t].chain /\ new.tries = th[t].tries /\ new.key = th[t].key
      /\ new.global = th[t].global /\ new.filter = th[t].filter
  BY <1>1 DEF ThreadState
<1> HIDE DEF new
<1>9. th'[t] = new /\ th' \in [Threads -> ThreadState] /\ \A u \in Threads : u # t => th'[u] = th[u]
  BY <1>1, <1>4, <1>7
<1>10. n = th[t].subs + 1
  BY DEF n
<1> QED
  BY <1>2, <1>5, <1>6, <1>8, <1>9, <1>10

\* Every step keeps the types.
LEMMA TypeStep ==
  ASSUME TypeOK, SdAtBegin, [Next]_vars
  PROVE  TypeOK'
<1> USE WorkerAssumption DEF WorkerAssumption
<1>0. th \in [Threads -> ThreadState]
  BY DEF TypeOK, ThreadState
<1>1. CASE LifeNext /\ UNCHANGED workerVars
  <2>1. LifeTypeOK'
    BY <1>1, LifeTypeStep DEF TypeOK
  <2> QED
    BY <1>1, <2>1 DEF TypeOK, workerVars, Connection, Records
<1>2. CASE WorkerNext /\ UNCHANGED lifeVars
  <2>0. LifeTypeOK'
    BY <1>2 DEF lifeVars, TypeOK, LifeTypeOK
  <2>1. ASSUME NEW t \in Threads, Arrive(t) PROVE TypeOK'
    <3>1. chains + 1 \in 0..MaxChains
      BY <2>1 DEF Arrive, TypeOK
    <3>2. th' \in [Threads -> ThreadState]
      BY <2>1, <3>1, HandlerType DEF Arrive, Kinds
    <3> QED
      BY <2>0, <2>1, <3>1, <3>2 DEF Arrive, TypeOK, ThreadState
  <2>2. ASSUME NEW t \in Threads, Connect(t) PROVE TypeOK'
    <3>1. CASE FreeFds = {}
      <4>1. [th[t] EXCEPT !.pc = "content", !.tries = 0] \in ThreadState
        BY GiveUpType
      <4> QED
        BY <1>0, <2>0, <2>2, <3>1, <4>1, ZenonT(60)
        DEF Connect, SendNothing, TypeOK, ThreadState
    <3>2. CASE FreeFds # {}
      <4>1. PICK out \in Outcomes, d \in FreeFds :
              ConnectWith(t, out, d)
        BY <2>2, <3>2 DEF Connect
      <4>2. d \in 1..MaxFd
        BY DEF FreeFds
      <4>3. th' \in [Threads -> ThreadState]
        <5> DEFINE connected == out = "connected"
                   again == out = "refused" /\ th[t].tries + 1 < 2
                   n == IF again THEN th[t].tries + 1 ELSE 0
                   s == IF connected THEN d ELSE NoSd
                   p == IF connected THEN "begin"
                        ELSE IF again THEN "probe" ELSE "content"
                   new == [th[t] EXCEPT !.tries = n, !.sd = s, !.pc = p]
        <5>1. th' = [th EXCEPT ![t] = new]
          BY <4>1, Zenon DEF ConnectWith
        <5>2. n \in 0..1
          BY <1>0 DEF ThreadState
        <5>3. s \in 0..MaxFd
          BY <4>2 DEF NoSd
        <5>4. p \in Pcs
          BY DEF Pcs
        <5> HIDE DEF n, s, p
        <5>5. new \in ThreadState
          BY <1>0, <5>2, <5>3, <5>4, Fields, Zenon
        <5> HIDE DEF new
        <5> QED
          BY <1>0, <5>1, <5>5
      <4>4. CASE out = "connected"
        <5> DEFINE new == [chain |-> th[t].chain, kind |-> th[t].kind,
                           peer |-> daemon.pid, log |-> <<>>]
        <5>1. new \in Connection
          BY <1>0 DEF ThreadState, Connection, TypeOK, LifeTypeOK
        <5>2. conns' = Append(conns, new)
          BY <4>1, <4>4 DEF ConnectWith
        <5> HIDE DEF new
        <5>3. conns' \in Seq(Connection) /\ Len(conns') = Len(conns) + 1
          BY <5>1, <5>2 DEF TypeOK
        <5>4. fds' \in [1..MaxFd -> {Other} \cup 0..Len(conns')]
          <6>1. fds' = [fds EXCEPT ![d] = Len(conns) + 1]
            BY <4>1, <4>4 DEF ConnectWith
          <6>2. Len(conns) \in Nat /\ Len(conns) + 1 \in 0..Len(conns')
            BY <5>3 DEF TypeOK
          <6>3. \A e \in 1..MaxFd : fds[e] \in {Other} \cup 0..Len(conns')
            BY <5>3, <6>2 DEF TypeOK
          <6> QED
            BY <4>2, <6>1, <6>2, <6>3 DEF TypeOK
        <5> QED
          BY <2>0, <2>2, <4>3, <5>3, <5>4 DEF Connect, TypeOK, ThreadState
      <4>5. CASE out # "connected"
        BY <2>0, <2>2, <4>1, <4>3, <4>5
        DEF Connect, ConnectWith, SendNothing, TypeOK, ThreadState
      <4> QED
        BY <4>4, <4>5
    <3> QED
      BY <3>1, <3>2
  <2>3. ASSUME NEW t \in Threads, Probe(t) PROVE TypeOK'
    <3>1. [th[t] EXCEPT !.pc = "content", !.tries = 0] \in ThreadState
      BY GiveUpType
    <3>2. [th[t] EXCEPT !.pc = "connect"] \in ThreadState
      BY <1>0 DEF ThreadState, Pcs
    <3>3. th' \in [Threads -> ThreadState]
      BY <1>0, <2>3, <3>1, <3>2 DEF Probe
    <3> QED
      BY <2>0, <2>3, <3>3 DEF Probe, TypeOK, ThreadState
  <2>4. ASSUME NEW t \in Threads, Begin(t) PROVE TypeOK'
    <3>1. th' \in [Threads -> ThreadState]
      <4> DEFINE g == IF filterMode THEN th[t].sd ELSE NoSd
                 new == [th[t] EXCEPT !.pc = "content", !.key = th[t].sd,
                           !.sd = NoSd, !.global = g]
      <4>1. th' = [th EXCEPT ![t] = new]
        BY <2>4, Zenon DEF Begin
      <4>2. /\ "content" \in Pcs /\ NoSd \in 0..MaxFd
            /\ th[t].sd \in 0..MaxFd /\ g \in 0..MaxFd
        BY <1>0 DEF ThreadState, Pcs, NoSd
      <4> HIDE DEF g
      <4>3. new \in ThreadState
        BY <1>0, <4>2, Fields, Zenon
      <4> HIDE DEF new
      <4> QED
        BY <1>0, <4>1, <4>3
    <3>2. conns' \in Seq(Connection) /\ Len(conns') = Len(conns)
      <4>1. th[t].sd \in 1..MaxFd
        BY <2>4 DEF Begin, SdAtBegin
      <4> QED
        BY <2>4, <4>1, RecordType, SentKeeps DEF Begin
    <3> QED
      BY <2>0, <2>4, <3>1, <3>2 DEF Begin, TypeOK, ThreadState
  <2>5. ASSUME NEW t \in Threads, Redirect(t) PROVE TypeOK'
    <3>1. th[t].chain \in 0..MaxChains /\ "plain" \in Kinds
      BY <1>0 DEF ThreadState, Kinds, Asked
    <3>2. th' \in [Threads -> ThreadState]
      BY <2>5, <3>1, HandlerType DEF Redirect
    <3> QED
      BY <2>0, <2>5, <3>2 DEF Redirect, TypeOK, ThreadState
  <2>6. ASSUME NEW t \in Threads, Output(t) PROVE TypeOK'
    <3>1. th' \in [Threads -> ThreadState]
      <4> DEFINE used == th[t].used \/ th[t].filter
                 new == [th[t] EXCEPT !.pc = "log", !.filter = FALSE,
                           !.used = used]
      <4>1. th' = [th EXCEPT ![t] = new]
        BY <2>6, Zenon DEF Output
      <4>2. "log" \in Pcs /\ used \in BOOLEAN
        BY DEF Pcs
      <4> HIDE DEF used
      <4>3. new \in ThreadState
        BY <1>0, <4>2, Fields, Zenon
      <4> HIDE DEF new
      <4> QED
        BY <1>0, <4>1, <4>3
    <3>2. CASE th[t].filter /\ th[t].global # NoSd
      <4>1. th[t].global \in 1..MaxFd
        BY <1>0, <3>2 DEF ThreadState, NoSd
      <4> QED
        BY <2>0, <2>6, <3>1, <3>2, <4>1, SendEndType DEF Output, TypeOK, ThreadState
    <3>3. CASE ~(th[t].filter /\ th[t].global # NoSd)
      BY <2>0, <2>6, <3>1, <3>3 DEF Output, SendNothing, TypeOK, ThreadState
    <3> QED
      BY <3>2, <3>3
  <2>7. ASSUME NEW t \in Threads, LeaveHook(t) PROVE TypeOK'
    <3>1. th' \in [Threads -> ThreadState]
      <4>1. /\ "idle" \in Pcs /\ 0 \in 0..MaxChains /\ "plain" \in Kinds /\ 0 \in 0..MaxSubs
            /\ NoSd \in 0..MaxFd
        BY DEF Pcs, Kinds, Asked, NoSd
      <4>2. Done(t) \in ThreadState
        BY <1>0, <4>1, Fields, Zenon DEF Done
      <4>3. /\ [Done(t) EXCEPT !.used = FALSE] \in ThreadState
            /\ [Done(t) EXCEPT !.key = NoSd] \in ThreadState
        BY <4>1, <4>2, Fields, Zenon
      <4> QED
        BY <1>0, <2>7, <4>3 DEF LeaveHook
    <3>2. CASE ~(filterMode /\ th[t].used) /\ th[t].key # NoSd
      <4>1. th[t].key \in 1..MaxFd
        BY <1>0, <3>2 DEF ThreadState, NoSd
      <4>2. SendEnd(t, th[t].key)
        BY <2>7, <3>2 DEF LeaveHook
      <4> QED
        BY <2>0, <2>7, <3>1, <4>1, <4>2, SendEndType DEF LeaveHook, TypeOK, ThreadState
    <3>3. CASE ~(~(filterMode /\ th[t].used) /\ th[t].key # NoSd)
      BY <2>0, <2>7, <3>1, <3>3 DEF LeaveHook, SendNothing, TypeOK, ThreadState
    <3> QED
      BY <3>2, <3>3
  <2>8. CASE OtherOpens
    BY <2>0, <2>8 DEF OtherOpens, TypeOK, Other, FreeFds
  <2>9. CASE OtherCloses
    BY <2>0, <2>9 DEF OtherCloses, TypeOK, Free
  <2>10. ASSUME NEW t \in Threads, Subrequest(t) PROVE TypeOK'
    BY <2>0, <2>10, SubrequestEffect DEF TypeOK, ThreadState
  <2> QED
    BY <1>2, <2>1, <2>2, <2>3, <2>4, <2>5, <2>6, <2>7, <2>8, <2>9, <2>10
    DEF WorkerNext, ThreadStep
<1>3. CASE UNCHANGED vars
  BY <1>3 DEF TypeOK, LifeTypeOK, vars, lifeVars, workerVars
<1> QED
  BY <1>1, <1>2, <1>3 DEF Next

-----------------------------------------------------------------------------
\* What the steps of thread t do to the fields the invariant is about; none
\* touches another thread.

\* The handler, for its first request or after a redirect.
LEMMA HandlerEffect ==
  ASSUME TypeOK, NEW t \in Threads, NEW c \in 0..MaxChains, NEW kind \in Kinds,
         NEW selected \in BOOLEAN, Handler(t, c, kind, selected)
  PROVE  /\ \A u \in Threads : u # t => th'[u] = th[u]
         /\ th'[t].pc \in {"connect", "content"} /\ th'[t].chain = c
         /\ th'[t].key = th[t].key
         /\ ~filterMode => ~th'[t].filter
<1>1. th \in [Threads -> ThreadState]
  BY DEF TypeOK, ThreadState
<1> QED
  BY <1>1, ZenonT(60) DEF Handler, ThreadState

\* A step that leaves handler and hooks alone.
LEMMA ConnectEffect ==
  ASSUME TypeOK, NEW t \in Threads, Connect(t) \/ Probe(t)
  PROVE  /\ \A u \in Threads : u # t => th'[u] = th[u]
         /\ th[t].pc # "idle" /\ th'[t].pc # "idle"
         /\ th'[t].chain = th[t].chain /\ th'[t].key = th[t].key
         /\ th'[t].filter = th[t].filter
         /\ \/ th'[t].pc # "begin" /\ UNCHANGED <<conns, fds>>
            \/ \E d \in FreeFds :
                 /\ th'[t].sd = d
                 /\ \E c \in Connection :
                      /\ c.chain = th[t].chain /\ conns' = Append(conns, c)
                      /\ c.log = <<>> /\ Here(c.peer)
                 /\ fds' = [fds EXCEPT ![d] = Len(conns) + 1]
<1>1. th \in [Threads -> ThreadState]
  BY DEF TypeOK, ThreadState
<1>2. CASE Probe(t)
  BY <1>1, <1>2, ZenonT(60) DEF Probe, ThreadState
<1>3. CASE Connect(t) /\ FreeFds = {}
  BY <1>1, <1>3 DEF Connect, SendNothing, ThreadState
<1>4. CASE Connect(t) /\ FreeFds # {}
  <2>1. PICK out \in Outcomes, d \in FreeFds : ConnectWith(t, out, d)
    BY <1>4 DEF Connect
  <2>2. /\ \A u \in Threads : u # t => th'[u] = th[u]
        /\ th[t].pc # "idle" /\ th'[t].pc # "idle"
        /\ th'[t].chain = th[t].chain /\ th'[t].key = th[t].key
        /\ th'[t].filter = th[t].filter
    <3> DEFINE connected == out = "connected"
               again == out = "refused" /\ th[t].tries + 1 < 2
               n == IF again THEN th[t].tries + 1 ELSE 0
               s == IF connected THEN d ELSE NoSd
               p == IF connected THEN "begin"
                    ELSE IF again THEN "probe" ELSE "content"
    <3>1. th' = [th EXCEPT ![t] = [th[t] EXCEPT !.tries = n, !.sd = s, !.pc = p]]
      BY <2>1, Zenon DEF ConnectWith
    <3>2. th[t].pc = "connect" /\ p # "idle"
      BY <1>4 DEF Connect
    <3> HIDE DEF n, s, p
    <3> QED
      BY <1>1, <3>1, <3>2 DEF ThreadState
  <2>3. CASE out # "connected"
    BY <1>1, <2>1, <2>2, <2>3 DEF ConnectWith, SendNothing, ThreadState
  <2>4. CASE out = "connected"
    <3> DEFINE c == [chain |-> th[t].chain, kind |-> th[t].kind,
                     peer |-> daemon.pid, log |-> <<>>]
    <3>1. c \in Connection /\ c.chain = th[t].chain /\ c.log = <<>> /\ Here(c.peer)
      <4>1. daemon.state \in {"listening", "serving"}
        BY <2>4 DEF Outcomes
      <4> QED
        BY <1>1, <4>1 DEF ThreadState, Connection, TypeOK, LifeTypeOK, Here
    <3>2. conns' = Append(conns, c) /\ fds' = [fds EXCEPT ![d] = Len(conns) + 1]
      BY <2>1, <2>4 DEF ConnectWith
    <3>3. th'[t].sd = d
      BY <1>1, <2>1, <2>4 DEF ConnectWith, ThreadState
    <3> QED
      BY <2>2, <3>1, <3>2, <3>3
  <2> QED
    BY <2>3, <2>4
<1> QED
  BY <1>2, <1>3, <1>4

\* Sending BEGIN moves the descriptor from the handler's local to the key.
LEMMA BeginEffect ==
  ASSUME TypeOK, NEW t \in Threads, Begin(t)
  PROVE  /\ \A u \in Threads : u # t => th'[u] = th[u]
         /\ th[t].pc = "begin" /\ th'[t].pc = "content"
         /\ th'[t].chain = th[t].chain /\ th'[t].key = th[t].sd
         /\ th'[t].filter = th[t].filter
<1>1. th \in [Threads -> ThreadState]
  BY DEF TypeOK, ThreadState
<1> QED
  BY <1>1 DEF Begin, ThreadState

\* The output filter leaves the key alone.
LEMMA OutputEffect ==
  ASSUME TypeOK, NEW t \in Threads, Output(t)
  PROVE  /\ \A u \in Threads : u # t => th'[u] = th[u]
         /\ th[t].pc # "idle" /\ th'[t].pc = "log"
         /\ th'[t].chain = th[t].chain /\ th'[t].key = th[t].key
         /\ ~th'[t].filter
<1>1. th \in [Threads -> ThreadState]
  BY DEF TypeOK, ThreadState
<1> QED
  BY <1>1 DEF Output, ThreadState

\* The log hook clears the key unless the output filter was used.
LEMMA LeaveEffect ==
  ASSUME TypeOK, NEW t \in Threads, LeaveHook(t)
  PROVE  /\ \A u \in Threads : u # t => th'[u] = th[u]
         /\ th[t].pc # "idle" /\ th'[t].pc = "idle"
         /\ th'[t].filter = th[t].filter
         /\ ~filterMode => th'[t].key = NoSd
<1>1. th \in [Threads -> ThreadState]
  BY DEF TypeOK, ThreadState
<1>2. Done(t) = [th[t] EXCEPT !.pc = "idle", !.chain = 0, !.kind = "plain",
                              !.subs = 0, !.selected = FALSE]
  BY DEF Done
<1>3. Done(t).pc = "idle" /\ Done(t).filter = th[t].filter
  BY <1>1, <1>2 DEF ThreadState
<1>4. Done(t) \in ThreadState
  <2>1. "idle" \in Pcs /\ 0 \in 0..MaxChains /\ "plain" \in Kinds /\ 0 \in 0..MaxSubs
    BY WorkerAssumption DEF WorkerAssumption, Pcs, Kinds, Asked
  <2> QED
    BY <1>1, <1>2, <2>1, Fields, Zenon
<1>5. /\ [Done(t) EXCEPT !.used = FALSE].pc = "idle"
      /\ [Done(t) EXCEPT !.used = FALSE].filter = th[t].filter
      /\ [Done(t) EXCEPT !.key = NoSd].pc = "idle"
      /\ [Done(t) EXCEPT !.key = NoSd].filter = th[t].filter
      /\ [Done(t) EXCEPT !.key = NoSd].key = NoSd
  BY <1>3, <1>4 DEF ThreadState
<1> QED
  BY <1>1, <1>5 DEF LeaveHook

-----------------------------------------------------------------------------
\* A step that gives nobody another request keeps the requests apart.
LEMMA StillApart ==
  ASSUME ChainsApart, UNCHANGED chains,
         \A u \in Threads : th'[u].pc # "idle" =>
           th[u].pc # "idle" /\ th'[u].chain = th[u].chain
  PROVE  ChainsApart'
  BY DEF ChainsApart

\* Every request gets a chain of its own (Arrive), which it keeps.
LEMMA ApartStep ==
  ASSUME TypeOK, ChainsApart, [Next]_vars
  PROVE  ChainsApart'
<1>1. ASSUME NEW t \in Threads, Arrive(t) PROVE ChainsApart'
  <2>1. PICK kind \in Kinds, selected \in BOOLEAN :
          Handler(t, chains + 1, kind, selected)
    BY <1>1 DEF Arrive, Kinds
  <2>2. chains' = chains + 1 /\ chains \in Nat /\ chains + 1 \in 0..MaxChains
    BY <1>1, WorkerAssumption DEF WorkerAssumption, Arrive, TypeOK
  <2>3. /\ \A u \in Threads : u # t => th'[u] = th[u]
        /\ th'[t].chain = chains + 1
    BY <2>1, <2>2, HandlerEffect
  <2> QED
    BY <2>2, <2>3 DEF ChainsApart
<1>2. ASSUME NEW t \in Threads, ThreadStep(t) PROVE ChainsApart'
  <2>1. UNCHANGED chains
    BY <1>2 DEF ThreadStep, Connect, Probe, Begin, Redirect, Subrequest, Output, LeaveHook
  <2>2. CASE Redirect(t)
    <3>1. PICK selected \in BOOLEAN : Handler(t, th[t].chain, "plain", selected)
      BY <2>2 DEF Redirect
    <3>2. th[t].chain \in 0..MaxChains /\ "plain" \in Kinds
      BY DEF TypeOK, Kinds, Asked
    <3>3. th[t].pc # "idle"
      BY <2>2 DEF Redirect
    <3>4. /\ \A u \in Threads : u # t => th'[u] = th[u]
          /\ th'[t].chain = th[t].chain
      BY <3>1, <3>2, HandlerEffect
    <3> QED
      BY <2>1, <3>3, <3>4, StillApart
  <2>3. CASE Connect(t) \/ Probe(t)
    BY <2>1, <2>3, ConnectEffect, StillApart
  <2>4. CASE Begin(t)
    <3>1. th[t].pc # "idle"
      BY <2>4 DEF Begin
    <3> QED
      BY <2>1, <2>4, <3>1, BeginEffect, StillApart
  <2>5. CASE Output(t)
    BY <2>1, <2>5, OutputEffect, StillApart
  <2>6. CASE LeaveHook(t)
    BY <2>1, <2>6, LeaveEffect, StillApart
  <2>7. CASE Subrequest(t)
    <3>1. th[t].pc # "idle" /\ th'[t].chain = th[t].chain /\ \A u \in Threads : u # t => th'[u] = th[u]
      BY <2>7, SubrequestEffect
    <3> QED
      BY <2>1, <3>1, StillApart
  <2> QED
    BY <1>2, <2>2, <2>3, <2>4, <2>5, <2>6, <2>7 DEF ThreadStep
<1>3. CASE UNCHANGED <<th, chains>>
  BY <1>3 DEF ChainsApart
<1> QED
  BY <1>1, <1>2, <1>3
  DEF Next, WorkerNext, OtherOpens, OtherCloses, workerVars, vars

\* connect_to_daemon succeeds with a descriptor only.
LEMMA BeginHasSd ==
  ASSUME TypeOK, SdAtBegin, [Next]_vars
  PROVE  SdAtBegin'
<1>1. ASSUME NEW t \in Threads, Arrive(t) PROVE SdAtBegin'
  <2>1. chains + 1 \in 0..MaxChains
    BY <1>1, WorkerAssumption DEF WorkerAssumption, Arrive, TypeOK
  <2> QED
    BY <1>1, <2>1, HandlerEffect DEF Arrive, Kinds, SdAtBegin
<1>2. ASSUME NEW t \in Threads, ThreadStep(t) PROVE SdAtBegin'
  <2>1. CASE Redirect(t)
    <3>1. th[t].chain \in 0..MaxChains /\ "plain" \in Kinds
      BY DEF TypeOK, Kinds, Asked
    <3> QED
      BY <2>1, <3>1, HandlerEffect DEF Redirect, SdAtBegin
  <2>2. CASE Connect(t) \/ Probe(t)
    BY <2>2, ConnectEffect DEF SdAtBegin, FreeFds
  <2>3. CASE Begin(t)
    BY <2>3, BeginEffect DEF SdAtBegin
  <2>4. CASE Output(t)
    BY <2>4, OutputEffect DEF SdAtBegin
  <2>5. CASE LeaveHook(t)
    BY <2>5, LeaveEffect DEF SdAtBegin
  <2>6. CASE Subrequest(t)
    BY <2>6, SubrequestEffect DEF SdAtBegin
  <2> QED
    BY <1>2, <2>1, <2>2, <2>3, <2>4, <2>5, <2>6 DEF ThreadStep
<1>3. CASE UNCHANGED th
  BY <1>3 DEF SdAtBegin
<1> QED
  BY <1>1, <1>2, <1>3
  DEF Next, WorkerNext, OtherOpens, OtherCloses, workerVars, vars

-----------------------------------------------------------------------------
\* The descriptors.

\* What happens to the connections never changes whose they are.
SameConns ==
  /\ Len(conns') \in Nat /\ Len(conns) <= Len(conns')
  /\ \A c \in 1..Len(conns) : conns'[c].chain = conns[c].chain

\* A thread keeps a descriptor that the step leaves open.
LEMMA OwnKept ==
  ASSUME TypeOK, SameConns, NEW u \in Threads, NEW d, Own(u, d),
         fds'[d] = fds[d], th'[u].chain = th[u].chain
  PROVE  Own(u, d)'
<1>1. Len(conns) \in Nat
  BY DEF TypeOK
<1> QED
  BY <1>1 DEF Own, SameConns

\* A thread whose key or local sd are unchanged and stay open is as before.
LEMMA SdKept ==
  ASSUME TypeOK, SameConns, NEW u \in Threads, SdOwn(u),
         th'[u] = th[u], \A d : Own(u, d) => fds'[d] = fds[d]
  PROVE  SdOwn(u)'
<1>1. ASSUME th[u].key # NoSd PROVE Own(u, th[u].key)'
  <2>1. PICK d : d = th[u].key
    OBVIOUS
  <2>2. Own(u, d)
    BY <1>1, <2>1 DEF SdOwn
  <2>3. Own(u, d)'
    BY <2>2, OwnKept
  <2> QED
    BY <2>1, <2>3 DEF Own
<1>2. ASSUME th[u].pc = "begin" PROVE Own(u, th[u].sd)'
  <2>1. PICK d : d = th[u].sd
    OBVIOUS
  <2>2. Own(u, d)
    BY <1>2, <2>1 DEF SdOwn
  <2>3. Own(u, d)'
    BY <2>2, OwnKept
  <2> QED
    BY <2>1, <2>3 DEF Own
<1> QED
  BY <1>1, <1>2 DEF SdOwn

\* Steps that touch no connection and no descriptor but free ones.
LEMMA NothingClosed ==
  ASSUME TypeOK, UNCHANGED conns,
         \A d \in 1..MaxFd : fds[d] > 0 => fds'[d] = fds[d]
  PROVE  SameConns /\ \A u \in Threads : \A d : Own(u, d) => fds'[d] = fds[d]
<1>1. Len(conns) \in Nat
  BY DEF TypeOK
<1> QED
  BY <1>1 DEF SameConns, Own

\* Closing its own descriptor, a thread closes nobody else's.
LEMMA OwnClosed ==
  ASSUME TypeOK, ChainsApart, NEW t \in Threads, NEW d, Own(t, d),
         SendEnd(t, d), th[t].pc # "idle"
  PROVE  /\ SameConns
         /\ \A u \in Threads : u # t /\ th[u].pc # "idle" =>
              \A e : Own(u, e) => fds'[e] = fds[e]
<1>1. d \in 1..MaxFd
  BY DEF Own
<1>2. Record("END", t) \in Records
  BY RecordType
<1>3. SameConns
  BY <1>1, <1>2, SentKeeps, SMTT(30) DEF SendEnd, SameConns, TypeOK
<1>4. ASSUME NEW u \in Threads, u # t, th[u].pc # "idle", NEW e, Own(u, e)
      PROVE  fds'[e] = fds[e]
  <2>1. th[u].chain # th[t].chain
    BY <1>4 DEF ChainsApart
  <2>2. e # d
    BY <1>4, <2>1 DEF Own
  <2> QED
    BY <1>4, <2>2 DEF SendEnd, Own, TypeOK
<1> QED
  BY <1>3, <1>4

\* With the log hook every step leaves the threads with descriptors of their
\* own: a connection is made on a free one, and only the log hook closes.
LEMMA SdStep ==
  ASSUME TypeOK, SdAtBegin, ChainsApart, SdsOwn, [Next]_vars
  PROVE  SdsOwn'
<1>0. filterMode' = filterMode
  BY DEF Next, WorkerNext, ThreadStep, Arrive, Connect, Probe, Begin, Redirect,
     Subrequest, Output, LeaveHook, OtherOpens, OtherCloses, workerVars, vars
<1> SUFFICES ASSUME ~filterMode PROVE \A u \in Threads : SdOwn(u)'
  BY <1>0 DEF SdsOwn
<1>1. \A u \in Threads : SdOwn(u)
  BY DEF SdsOwn
<1>2. Len(conns) \in Nat
  BY DEF TypeOK
<1>3. ASSUME UNCHANGED <<th, conns>>,
             \A d \in 1..MaxFd : fds[d] > 0 => fds'[d] = fds[d]
      PROVE  \A u \in Threads : SdOwn(u)'
  BY <1>1, <1>3, NothingClosed, SdKept
<1>4. ASSUME NEW t \in Threads, Arrive(t) PROVE \A u \in Threads : SdOwn(u)'
  <2>1. chains + 1 \in 0..MaxChains
    BY <1>4, WorkerAssumption DEF WorkerAssumption, Arrive, TypeOK
  <2>2. /\ \A u \in Threads : u # t => th'[u] = th[u]
        /\ th'[t].pc \in {"connect", "content"} /\ th'[t].key = th[t].key
        /\ ~th'[t].filter
    BY <1>4, <2>1, HandlerEffect DEF Arrive, Kinds
  <2>3. th[t].key = NoSd
    BY <1>1, <1>4 DEF Arrive, SdOwn
  <2>4. SdOwn(t)'
    BY <2>2, <2>3 DEF SdOwn
  <2> QED
    BY <1>1, <1>4, <2>2, <2>4, NothingClosed, SdKept DEF Arrive
<1>5. ASSUME NEW t \in Threads, Redirect(t) \/ Subrequest(t) PROVE \A u \in Threads : SdOwn(u)'
  <2>1. th[t].chain \in 0..MaxChains /\ "plain" \in Kinds
    BY DEF TypeOK, Kinds, Asked
  <2>2. /\ \A u \in Threads : u # t => th'[u] = th[u]
        /\ th'[t].pc \in {"connect", "content"} /\ th'[t].key = th[t].key
        /\ th'[t].chain = th[t].chain /\ ~th'[t].filter
    <3>1. CASE Redirect(t)
      BY <2>1, <3>1, HandlerEffect DEF Redirect
    <3>2. CASE Subrequest(t)
      BY <1>1, <3>2, SubrequestEffect DEF SdOwn
    <3> QED
      BY <1>5, <3>1, <3>2
  <2>3. SameConns /\ \A u \in Threads : \A d : Own(u, d) => fds'[d] = fds[d]
    BY <1>5, NothingClosed DEF Redirect, Subrequest
  <2>4. SdOwn(t)'
    <3>1. ASSUME th[t].key # NoSd PROVE Own(t, th[t].key)'
      <4>1. PICK d : d = th[t].key
        OBVIOUS
      <4>2. Own(t, d)
        BY <1>1, <3>1, <4>1 DEF SdOwn
      <4>3. Own(t, d)'
        BY <2>2, <2>3, <4>2, OwnKept
      <4> QED
        BY <2>2, <4>1, <4>3 DEF Own
    <3>2. th[t].key # NoSd => Own(t, th[t].key)' /\ th'[t].key = th[t].key
      BY <2>2, <3>1
    <3> QED
      BY <2>2, <3>2 DEF SdOwn, Own
  <2> QED
    BY <1>1, <2>2, <2>3, <2>4, SdKept
<1>6. ASSUME NEW t \in Threads, Connect(t) \/ Probe(t)
      PROVE  \A u \in Threads : SdOwn(u)'
  <2>1. /\ \A u \in Threads : u # t => th'[u] = th[u]
        /\ th[t].pc # "idle" /\ th'[t].pc # "idle"
        /\ th'[t].chain = th[t].chain /\ th'[t].key = th[t].key
        /\ th'[t].filter = th[t].filter
    BY <1>6, ConnectEffect
  <2>2. SameConns /\ \A u \in Threads : \A d : Own(u, d) => fds'[d] = fds[d]
    <3>1. CASE UNCHANGED <<conns, fds>>
      BY <3>1, NothingClosed
    <3>2. CASE ~UNCHANGED <<conns, fds>>
      <4>1. PICK d \in FreeFds :
              /\ \E c \in Connection : conns' = Append(conns, c)
              /\ fds' = [fds EXCEPT ![d] = Len(conns) + 1]
        BY <1>6, <3>2, ConnectEffect
      <4>2. SameConns
        BY <4>1 DEF SameConns, TypeOK
      <4>3. \A e \in 1..MaxFd : fds[e] \in 1..Len(conns) => fds'[e] = fds[e]
        BY <4>1 DEF FreeFds, Free, TypeOK
      <4> QED
        BY <4>2, <4>3 DEF Own
    <3> QED
      BY <3>1, <3>2
  <2>3. ASSUME th[t].key # NoSd PROVE Own(t, th[t].key)'
    <3>1. PICK d : d = th[t].key
      OBVIOUS
    <3>2. Own(t, d)
      BY <1>1, <2>3, <3>1 DEF SdOwn
    <3>3. Own(t, d)'
      BY <2>1, <2>2, <3>2, OwnKept
    <3> QED
      BY <2>1, <3>1, <3>3 DEF Own
  <2>4. ASSUME th'[t].pc = "begin" PROVE Own(t, th[t].sd)'
    <3>1. PICK d \in FreeFds :
            /\ th'[t].sd = d
            /\ \E c \in Connection :
                 c.chain = th[t].chain /\ conns' = Append(conns, c)
            /\ fds' = [fds EXCEPT ![d] = Len(conns) + 1]
      BY <1>6, <2>4, ConnectEffect
    <3>2. PICK c \in Connection :
            c.chain = th[t].chain /\ conns' = Append(conns, c)
      BY <3>1
    <3>3. Len(conns') = Len(conns) + 1 /\ conns'[Len(conns) + 1] = c
      BY <3>2 DEF TypeOK
    <3>4. d \in 1..MaxFd /\ fds'[d] = Len(conns) + 1
      BY <3>1 DEF FreeFds, TypeOK
    <3> QED
      BY <1>2, <2>1, <3>1, <3>2, <3>3, <3>4 DEF Own
  <2>5. SdOwn(t)'
    BY <1>1, <2>1, <2>3, <2>4 DEF SdOwn, Own
  <2> QED
    BY <1>1, <2>1, <2>2, <2>5, SdKept
<1>7. ASSUME NEW t \in Threads, Begin(t) PROVE \A u \in Threads : SdOwn(u)'
  <2>1. /\ \A u \in Threads : u # t => th'[u] = th[u]
        /\ th[t].pc = "begin" /\ th'[t].pc = "content"
        /\ th'[t].chain = th[t].chain /\ th'[t].key = th[t].sd
        /\ th'[t].filter = th[t].filter
    BY <1>7, BeginEffect
  <2>2. SameConns /\ UNCHANGED fds
    <3>1. th[t].sd \in 1..MaxFd /\ Record("BEGIN", t) \in Records
      BY <2>1, RecordType DEF SdAtBegin
    <3> QED
      BY <1>2, <1>7, <3>1, SentKeeps DEF Begin, SameConns
  <2>3. PICK d : d = th[t].sd
    OBVIOUS
  <2>4. Own(t, d)'
    BY <1>1, <2>1, <2>2, <2>3, OwnKept DEF SdOwn
  <2>5. SdOwn(t)'
    BY <1>1, <2>1, <2>3, <2>4 DEF SdOwn, Own
  <2> QED
    BY <1>1, <2>1, <2>2, <2>5, SdKept
<1>8. ASSUME NEW t \in Threads, Output(t) PROVE \A u \in Threads : SdOwn(u)'
  <2>1. /\ \A u \in Threads : u # t => th'[u] = th[u]
        /\ th'[t].pc = "log" /\ th'[t].chain = th[t].chain
        /\ th'[t].key = th[t].key /\ ~th'[t].filter
    BY <1>8, OutputEffect
  <2>2. UNCHANGED <<conns, fds>>
    BY <1>1, <1>8 DEF Output, SendNothing, SdOwn
  <2>3. SdOwn(t)'
    BY <1>1, <2>1, <2>2 DEF SdOwn, Own
  <2> QED
    BY <1>1, <2>1, <2>2, <2>3, NothingClosed, SdKept
<1>9. ASSUME NEW t \in Threads, LeaveHook(t) PROVE \A u \in Threads : SdOwn(u)'
  <2>1. /\ \A u \in Threads : u # t => th'[u] = th[u]
        /\ th[t].pc # "idle" /\ th'[t].pc = "idle"
        /\ th'[t].filter = th[t].filter /\ th'[t].key = NoSd
    BY <1>9, LeaveEffect
  <2>2. SdOwn(t)'
    BY <1>1, <2>1 DEF SdOwn
  <2>3. CASE th[t].key = NoSd
    <3>1. UNCHANGED <<conns, fds>>
      BY <1>9, <2>3 DEF LeaveHook, SendNothing
    <3> QED
      BY <1>1, <2>1, <2>2, <3>1, NothingClosed, SdKept
  <2>4. CASE th[t].key # NoSd
    <3>1. PICK d : d = th[t].key
      OBVIOUS
    <3>2. Own(t, d) /\ SendEnd(t, d)
      BY <1>1, <1>9, <2>4, <3>1 DEF LeaveHook, SdOwn
    <3>3. /\ SameConns
          /\ \A u \in Threads : u # t /\ th[u].pc # "idle" =>
               \A e : Own(u, e) => fds'[e] = fds[e]
      BY <2>1, <3>2, OwnClosed
    <3>4. ASSUME NEW u \in Threads, u # t PROVE SdOwn(u)'
      <4>1. CASE th[u].pc = "idle"
        BY <1>1, <2>1, <3>4, <4>1 DEF SdOwn
      <4>2. CASE th[u].pc # "idle"
        BY <1>1, <2>1, <3>3, <3>4, <4>2, SdKept
      <4> QED
        BY <4>1, <4>2
    <3> QED
      BY <2>2, <3>4
  <2> QED
    BY <2>3, <2>4
<1>10. CASE OtherOpens \/ OtherCloses
  <2>1. \A d \in 1..MaxFd : fds[d] > 0 => fds'[d] = fds[d]
    <3>1. CASE OtherOpens
      BY <3>1 DEF OtherOpens, FreeFds, Free, TypeOK
    <3>2. CASE OtherCloses
      BY <3>2 DEF OtherCloses, Other, TypeOK
    <3> QED
      BY <1>10, <3>1, <3>2
  <2>2. UNCHANGED <<th, conns>>
    BY <1>10 DEF OtherOpens, OtherCloses
  <2> QED
    BY <1>3, <2>1, <2>2
<1>11. CASE UNCHANGED workerVars
  BY <1>3, <1>11 DEF workerVars
<1> QED
  BY <1>4, <1>5, <1>6, <1>7, <1>8, <1>9, <1>10, <1>11
  DEF Next, WorkerNext, ThreadStep, vars

-----------------------------------------------------------------------------
\* What the connections carry.

\* Daemons come back under new pids only.
LEMMA LifeMoves ==
  ASSUME LifeTypeOK, [LifeNext]_lifeVars, NEW p \in 0..MaxPid
  PROVE  /\ Here(p) \/ Past(p) => Here(p)' \/ Past(p)'
         /\ Past(p) => Past(p)'
<1> USE LifeAssumption DEF LifeAssumption, LifeTypeOK, Alive, Before, Become, Here, Past
<1>1. CASE Fork           BY <1>1 DEF Fork
<1>2. CASE Reap           BY <1>2 DEF Reap
<1>3. CASE RestartBegins  BY <1>3 DEF RestartBegins
<1>4. CASE RestartKills   BY <1>4 DEF RestartKills
<1>5. CASE Bind           BY <1>5 DEF Bind
<1>6. CASE Listen         BY <1>6 DEF Listen
<1>7. CASE Serve          BY <1>7 DEF Serve
<1>8. CASE Dies           BY <1>8 DEF Dies
<1>9. CASE UNCHANGED lifeVars  BY <1>9 DEF lifeVars
<1> QED
  BY <1>1, <1>2, <1>3, <1>4, <1>5, <1>6, <1>7, <1>8, <1>9
  DEF LifeNext, ParentStep, DaemonStep

\* What is written goes to one connection, if its daemon is there.
LEMMA SentLog ==
  ASSUME TypeOK, NEW d \in 1..MaxFd, fds[d] \in 1..Len(conns), NEW rec \in Records
  PROVE  /\ Len(Sent(d, rec)) = Len(conns)
         /\ \A x \in 1..Len(conns) : x # fds[d] => Sent(d, rec)[x] = conns[x]
         /\ Sent(d, rec)[fds[d]].chain = conns[fds[d]].chain
         /\ Sent(d, rec)[fds[d]].peer = conns[fds[d]].peer
         /\ Sent(d, rec)[fds[d]].log = IF Here(conns[fds[d]].peer)
              THEN Append(conns[fds[d]].log, rec) ELSE conns[fds[d]].log
<1> DEFINE c == fds[d]
           new == [conns[c] EXCEPT !.log = Append(@, rec)]
<1>1. conns[c] \in Connection /\ c \in 1..Len(conns) /\ conns \in Seq(Connection)
  BY DEF TypeOK
<1>2. new.chain = conns[c].chain /\ new.peer = conns[c].peer /\ new.log = Append(conns[c].log, rec)
  BY <1>1 DEF Connection
<1>3. Sent(d, rec) = IF Here(conns[c].peer) THEN [conns EXCEPT ![c] = new] ELSE conns
  <2>1. c > 0
    BY <1>1
  <2> QED
    BY <2>1 DEF Sent, Here
<1> HIDE DEF c, new
<1>4. CASE Here(conns[c].peer)
  BY <1>1, <1>2, <1>3, <1>4 DEF c
<1>5. CASE ~Here(conns[c].peer)
  BY <1>3, <1>5 DEF c
<1> QED
  BY <1>4, <1>5

\* A connection keeps its form with BEGIN as its first or END as its second.
LEMMA ShapeSent ==
  ASSUME NEW l \in Seq(Records), NEW rec \in Records, NEW x, rec.chain = x,
         \/ l = <<>> /\ rec.what = "BEGIN"
         \/ Len(l) = 1 /\ rec.what = "END",
         \A k \in DOMAIN l : l[k].what = (IF k = 1 THEN "BEGIN" ELSE "END") /\ l[k].chain = x
  PROVE  /\ Len(Append(l, rec)) <= 2 /\ (l = <<>> => Len(Append(l, rec)) = 1)
         /\ \A k \in DOMAIN Append(l, rec) :
              /\ Append(l, rec)[k].what = IF k = 1 THEN "BEGIN" ELSE "END"
              /\ Append(l, rec)[k].chain = x
<1>1. /\ Len(l) \in Nat /\ Len(Append(l, rec)) = Len(l) + 1 /\ DOMAIN Append(l, rec) = 1..(Len(l) + 1)
      /\ \A k \in 1..Len(l) : Append(l, rec)[k] = l[k]
      /\ Append(l, rec)[Len(l) + 1] = rec /\ DOMAIN l = 1..Len(l)
  OBVIOUS
<1>2. l = <<>> => Len(l) = 0
  OBVIOUS
<1> QED
  BY <1>1, <1>2

\* A thread that the step leaves alone sees its connections as they were.
LEMMA ThreadLogKept ==
  ASSUME NEW u \in Threads, SdOwn(u), ThreadLog(u), th'[u] = th[u], daemon' = daemon,
         \A d : Own(u, d) => fds'[d] = fds[d] /\ conns'[fds[d]] = conns[fds[d]]
  PROVE  ThreadLog(u)'
<1>1. ASSUME th[u].pc = "begin" PROVE conns'[fds'[th[u].sd]].log = <<>>
  <2>1. Own(u, th[u].sd) /\ conns[fds[th[u].sd]].log = <<>>
    BY <1>1 DEF SdOwn, ThreadLog
  <2> QED
    BY <2>1
<1>2. ASSUME th[u].key # NoSd PROVE Begun(fds[th[u].key])'
  <2>1. Own(u, th[u].key) /\ Begun(fds[th[u].key])
    BY <1>2 DEF SdOwn, ThreadLog
  <2> QED
    BY <2>1 DEF Begun, Past
<1> QED
  BY <1>1, <1>2 DEF ThreadLog

\* Another thread's connections are not those of t.
LEMMA OthersApart ==
  ASSUME TypeOK, ChainsApart, NEW t \in Threads, NEW d, Own(t, d), th[t].pc # "idle",
         NEW u \in Threads, u # t, th[u].pc # "idle", NEW e, Own(u, e)
  PROVE  e # d /\ fds[e] # fds[d] /\ fds[e] \in 1..Len(conns)
BY DEF ChainsApart, Own

\* With the log hook a connection gets BEGIN when it has nothing, from the thread
\* that made it, and END when it has BEGIN, from the same thread, which then
\* forgets it.
LEMMA LogStep ==
  ASSUME TypeOK, SdAtBegin, ChainsApart, SdsOwn, Logs, [Next]_vars
  PROVE  Logs'
<1>0. filterMode' = filterMode
  BY DEF Next, WorkerNext, ThreadStep, Arrive, Connect, Probe, Begin, Redirect,
     Subrequest, Output, LeaveHook, OtherOpens, OtherCloses, workerVars, vars
<1> SUFFICES ASSUME ~filterMode
             PROVE  PeersWere' /\ (\A c \in 1..Len(conns') : LogShape(c)') /\ \A u \in Threads : ThreadLog(u)'
  BY <1>0 DEF Logs
<1>1. /\ PeersWere /\ (\A c \in 1..Len(conns) : LogShape(c))
      /\ \A u \in Threads : SdOwn(u) /\ ThreadLog(u)
  BY DEF SdsOwn, Logs
<1>2. Len(conns) \in Nat /\ conns \in Seq(Connection) /\ LifeTypeOK
  BY DEF TypeOK
<1>3. ASSUME UNCHANGED <<conns, daemon>>,
             \A u \in Threads : ThreadLog(u)'
      PROVE  PeersWere' /\ (\A c \in 1..Len(conns') : LogShape(c)') /\ \A u \in Threads : ThreadLog(u)'
  BY <1>1, <1>3 DEF PeersWere, LogShape, Here, Past
<1>4. CASE LifeNext /\ UNCHANGED workerVars
  <2>1. UNCHANGED <<filterMode, th, fds, conns>>
    BY <1>4 DEF workerVars
  <2>2. ASSUME NEW c \in 1..Len(conns)
        PROVE  /\ Here(conns[c].peer)' \/ Past(conns[c].peer)'
               /\ Past(conns[c].peer) => Past(conns[c].peer)'
    <3>1. conns[c].peer \in 0..MaxPid
      <4>1. conns[c] \in Connection
        BY <1>2
      <4> QED
        BY <4>1 DEF Connection
    <3>2. PICK p \in 0..MaxPid : p = conns[c].peer
      BY <3>1
    <3>3. Here(p) \/ Past(p)
      BY <1>1, <3>2 DEF PeersWere
    <3>4. (Here(p)' \/ Past(p)') /\ (Past(p) => Past(p)')
      BY <1>2, <1>4, <3>3, LifeMoves
    <3> QED
      BY <2>1, <3>2, <3>4 DEF Here, Past
  <2>3. PeersWere'
    BY <2>1, <2>2 DEF PeersWere
  <2>4. \A c \in 1..Len(conns') : LogShape(c)'
    BY <1>1, <2>1 DEF LogShape
  <2>5. ASSUME NEW u \in Threads PROVE ThreadLog(u)'
    <3>1. ASSUME th[u].key # NoSd PROVE Begun(fds[th[u].key])'
      <4>1. fds[th[u].key] \in 1..Len(conns) /\ Begun(fds[th[u].key])
        BY <1>1, <3>1 DEF SdOwn, Own, ThreadLog
      <4> QED
        BY <2>1, <2>2, <4>1 DEF Begun
    <3> QED
      BY <1>1, <2>1, <3>1 DEF ThreadLog
  <2> QED
    BY <2>3, <2>4, <2>5
<1> SUFFICES ASSUME UNCHANGED lifeVars, WorkerNext \/ UNCHANGED workerVars
             PROVE  PeersWere' /\ (\A c \in 1..Len(conns') : LogShape(c)') /\ \A u \in Threads : ThreadLog(u)'
  BY <1>4 DEF Next, vars
<1>d. daemon' = daemon
  BY DEF lifeVars
<1>5. ASSUME NEW t \in Threads, Arrive(t) \/ Redirect(t) \/ Subrequest(t)
      PROVE  \A u \in Threads : ThreadLog(u)'
  <2>1. th[t].chain \in 0..MaxChains /\ "plain" \in Kinds
    BY DEF TypeOK, Kinds, Asked
  <2>2. Arrive(t) => chains + 1 \in 0..MaxChains
    BY WorkerAssumption DEF WorkerAssumption, Arrive, TypeOK
  <2>3. /\ \A u \in Threads : u # t => th'[u] = th[u]
        /\ th'[t].pc \in {"connect", "content"} /\ th'[t].key = th[t].key
    <3>1. CASE Arrive(t)
      BY <2>2, <3>1, HandlerEffect DEF Arrive, Kinds
    <3>2. CASE Redirect(t)
      BY <2>1, <3>2, HandlerEffect DEF Redirect
    <3>3. CASE Subrequest(t)
      BY <3>3, SubrequestEffect
    <3> QED
      BY <1>5, <3>1, <3>2, <3>3
  <2>4. UNCHANGED <<conns, fds>>
    BY <1>5 DEF Arrive, Redirect, Subrequest
  <2>5. ThreadLog(t)'
    BY <1>1, <1>d, <2>3, <2>4 DEF ThreadLog, Begun, Past
  <2> QED
    BY <1>1, <1>d, <2>3, <2>4, <2>5, ThreadLogKept
<1>6. ASSUME NEW t \in Threads, Output(t) PROVE UNCHANGED conns /\ \A u \in Threads : ThreadLog(u)'
  <2>1. /\ \A u \in Threads : u # t => th'[u] = th[u]
        /\ th'[t].pc = "log" /\ th'[t].key = th[t].key
    BY <1>6, OutputEffect
  <2>2. UNCHANGED <<conns, fds>>
    BY <1>1, <1>6 DEF Output, SendNothing, SdOwn
  <2>3. ThreadLog(t)'
    BY <1>1, <1>d, <2>1, <2>2 DEF ThreadLog, Begun, Past
  <2> QED
    BY <1>1, <1>d, <2>1, <2>2, <2>3, ThreadLogKept
<1>7. ASSUME NEW t \in Threads, Connect(t) \/ Probe(t)
      PROVE  PeersWere' /\ (\A c \in 1..Len(conns') : LogShape(c)') /\ \A u \in Threads : ThreadLog(u)'
  <2>1. /\ \A u \in Threads : u # t => th'[u] = th[u]
        /\ th[t].pc # "idle" /\ th'[t].key = th[t].key
    BY <1>7, ConnectEffect
  <2>2. CASE th'[t].pc # "begin" /\ UNCHANGED <<conns, fds>>
    <3>1. ThreadLog(t)'
      BY <1>1, <1>d, <2>1, <2>2 DEF ThreadLog, Begun, Past
    <3> QED
      BY <1>1, <1>3, <1>d, <2>1, <2>2, <3>1, ThreadLogKept
  <2>3. CASE ~(th'[t].pc # "begin" /\ UNCHANGED <<conns, fds>>)
    <3>1. PICK d \in FreeFds :
            /\ th'[t].sd = d
            /\ \E c \in Connection :
                 /\ c.chain = th[t].chain /\ conns' = Append(conns, c)
                 /\ c.log = <<>> /\ Here(c.peer)
            /\ fds' = [fds EXCEPT ![d] = Len(conns) + 1]
      BY <1>7, <2>3, ConnectEffect
    <3>2. PICK c \in Connection : conns' = Append(conns, c) /\ c.log = <<>> /\ Here(c.peer)
      BY <3>1
    <3>3. /\ Len(conns') = Len(conns) + 1 /\ conns'[Len(conns) + 1] = c
          /\ \A x \in 1..Len(conns) : conns'[x] = conns[x]
          /\ \A x \in 1..Len(conns') : x \in 1..Len(conns) \/ x = Len(conns) + 1
      BY <1>2, <3>2
    <3>4. /\ d \in 1..MaxFd /\ fds'[d] = Len(conns) + 1
          /\ \A e \in 1..MaxFd : fds[e] \in 1..Len(conns) => e # d /\ fds'[e] = fds[e]
      BY <3>1 DEF FreeFds, Free, TypeOK
    <3>5. PeersWere'
      BY <1>1, <1>d, <3>2, <3>3 DEF PeersWere, Here, Past
    <3>6. ASSUME NEW x \in 1..Len(conns') PROVE LogShape(x)'
      <4>1. CASE x \in 1..Len(conns)
        BY <1>1, <3>3, <4>1 DEF LogShape
      <4>2. CASE x = Len(conns) + 1
        BY <3>2, <3>3, <4>2 DEF LogShape
      <4> QED
        BY <3>3, <4>1, <4>2
    <3>7. \A u \in Threads : \A e : Own(u, e) => fds'[e] = fds[e] /\ conns'[fds[e]] = conns[fds[e]]
      BY <3>3, <3>4 DEF Own
    <3>8. ThreadLog(t)'
      <4>1. conns'[fds'[th'[t].sd]].log = <<>>
        BY <3>1, <3>2, <3>3, <3>4
      <4>2. ASSUME th[t].key # NoSd PROVE Begun(fds[th[t].key])'
        <5>1. Own(t, th[t].key) /\ Begun(fds[th[t].key])
          BY <1>1, <4>2 DEF SdOwn, ThreadLog
        <5>2. fds'[th[t].key] = fds[th[t].key] /\ conns'[fds[th[t].key]] = conns[fds[th[t].key]]
          BY <3>7, <5>1
        <5> QED
          BY <1>d, <2>1, <5>1, <5>2 DEF Begun, Past
      <4> QED
        BY <2>1, <4>1, <4>2 DEF ThreadLog
    <3> QED
      BY <1>1, <1>d, <2>1, <3>5, <3>6, <3>7, <3>8, ThreadLogKept
  <2> QED
    BY <2>2, <2>3
<1>8. ASSUME NEW t \in Threads, NEW d, Own(t, d), NEW what \in {"BEGIN", "END"},
             th[t].pc # "idle", conns' = Sent(d, Record(what, t)),
             \A e \in 1..MaxFd : e # d => fds'[e] = fds[e],
             \A u \in Threads : u # t => th'[u] = th[u],
             \A u \in Threads : u # t /\ th[u].pc = "idle" => th[u].key = NoSd,
             IF what = "BEGIN" THEN conns[fds[d]].log = <<>> ELSE Begun(fds[d])
      PROVE  /\ PeersWere' /\ (\A c \in 1..Len(conns') : LogShape(c)')
             /\ \A u \in Threads : u # t => ThreadLog(u)'
             /\ \A x : x = fds[d] /\ what = "BEGIN" => Begun(x)'
  <2>c. PICK c : c = fds[d]
    OBVIOUS
  <2> DEFINE rec == Record(what, t)
  <2>1. c \in 1..Len(conns) /\ d \in 1..MaxFd /\ conns[c].chain = th[t].chain /\ rec \in Records
    BY <1>8, <2>c, RecordType DEF Own
  <2>2. rec.chain = conns[c].chain /\ rec.what = what
    BY <2>1 DEF Record
  <2>3. /\ Len(conns') = Len(conns)
        /\ \A x \in 1..Len(conns) : x # c => conns'[x] = conns[x]
        /\ conns'[c].chain = conns[c].chain /\ conns'[c].peer = conns[c].peer
        /\ conns'[c].log = IF Here(conns[c].peer)
             THEN Append(conns[c].log, rec) ELSE conns[c].log
    BY <1>8, <2>1, <2>c, SentLog
  <2>4. conns[c].log \in Seq(Records)
    <3>1. conns[c] \in Connection
      BY <1>2, <2>1
    <3> QED
      BY <3>1 DEF Connection
  <2>p. Past(conns[c].peer) => ~Here(conns[c].peer)
    <3>1. daemon.pid \in Nat
      BY <1>2 DEF LifeTypeOK
    <3> QED
      BY <3>1 DEF Past, Here
  <2>w. Here(conns[c].peer) \/ Past(conns[c].peer)
    BY <1>1, <2>1 DEF PeersWere
  <2>s. LogShape(c)
    BY <1>1, <2>1
  <2> HIDE DEF rec
  <2>5. PeersWere'
    BY <1>1, <1>d, <2>1, <2>3 DEF PeersWere, Here, Past
  <2>6. LogShape(c)' /\ (what = "BEGIN" => Begun(c)')
    <3>1. CASE Here(conns[c].peer)
      <4>1. \/ conns[c].log = <<>> /\ what = "BEGIN"
            \/ Len(conns[c].log) = 1 /\ what = "END"
        BY <1>8, <2>c, <2>p, <3>1 DEF Begun
      <4>2. conns'[c].log = Append(conns[c].log, rec)
        BY <2>3, <3>1
      <4>3. /\ Len(conns'[c].log) <= 2 /\ (conns[c].log = <<>> => Len(conns'[c].log) = 1)
            /\ \A k \in DOMAIN conns'[c].log :
                 /\ conns'[c].log[k].what = IF k = 1 THEN "BEGIN" ELSE "END"
                 /\ conns'[c].log[k].chain = conns[c].chain
        BY <2>1, <2>2, <2>4, <2>s, <4>1, <4>2, ShapeSent DEF LogShape
      <4>4. what = "BEGIN" => conns[c].log = <<>>
        BY <1>8, <2>c
      <4> QED
        BY <2>3, <4>3, <4>4 DEF LogShape, Begun
    <3>2. CASE ~Here(conns[c].peer)
      <4>1. conns'[c].log = conns[c].log /\ Past(conns[c].peer)
        BY <2>3, <2>w, <3>2
      <4>2. Past(conns[c].peer)'
        BY <1>d, <2>3, <4>1 DEF Past
      <4>3. what = "BEGIN" => conns[c].log = <<>>
        BY <1>8, <2>c
      <4>4. LogShape(c)'
        BY <2>3, <2>s, <4>1 DEF LogShape
      <4> QED
        BY <4>1, <4>2, <4>3, <4>4 DEF Begun
    <3> QED
      BY <3>1, <3>2
  <2>7. ASSUME NEW x \in 1..Len(conns') PROVE LogShape(x)'
    <3>1. CASE x = c
      BY <2>6, <3>1 DEF LogShape
    <3>2. CASE x # c
      BY <1>1, <2>3, <3>2 DEF LogShape
    <3> QED
      BY <3>1, <3>2
  <2>8. ASSUME NEW u \in Threads, u # t PROVE ThreadLog(u)'
    <3>1. CASE th[u].pc = "idle"
      BY <1>8, <2>8, <3>1 DEF ThreadLog
    <3>2. CASE th[u].pc # "idle"
      <4>1. ASSUME NEW e, Own(u, e) PROVE fds'[e] = fds[e] /\ conns'[fds[e]] = conns[fds[e]]
        <5>1. e # d /\ fds[e] # c /\ fds[e] \in 1..Len(conns) /\ e \in 1..MaxFd
          BY <1>8, <2>8, <2>c, <3>2, <4>1, OthersApart DEF Own
        <5> QED
          BY <1>8, <2>3, <5>1
      <4> QED
        BY <1>1, <1>8, <1>d, <2>8, <4>1, ThreadLogKept
    <3> QED
      BY <3>1, <3>2
  <2> QED
    BY <2>5, <2>6, <2>7, <2>8, <2>c
<1>9. ASSUME NEW t \in Threads, Begin(t)
      PROVE  PeersWere' /\ (\A c \in 1..Len(conns') : LogShape(c)') /\ \A u \in Threads : ThreadLog(u)'
  <2>1. /\ \A u \in Threads : u # t => th'[u] = th[u]
        /\ th[t].pc = "begin" /\ th'[t].pc = "content" /\ th'[t].key = th[t].sd
    BY <1>9, BeginEffect
  <2>2. PICK d : d = th[t].sd
    OBVIOUS
  <2>3. Own(t, d) /\ conns[fds[d]].log = <<>>
    BY <1>1, <2>1, <2>2 DEF SdOwn, ThreadLog
  <2>4. UNCHANGED fds /\ conns' = Sent(d, Record("BEGIN", t))
    BY <1>9, <2>2 DEF Begin
  <2>5. \A u \in Threads : th[u].pc = "idle" => th[u].key = NoSd
    BY <1>1 DEF SdOwn
  <2>6. /\ PeersWere' /\ (\A c \in 1..Len(conns') : LogShape(c)')
        /\ \A u \in Threads : u # t => ThreadLog(u)'
        /\ \A x : x = fds[d] => Begun(x)'
    BY <1>8, <2>1, <2>3, <2>4, <2>5
  <2>7. ThreadLog(t)'
    BY <2>1, <2>2, <2>4, <2>6 DEF ThreadLog, Begun
  <2> QED
    BY <2>6, <2>7
<1>10. ASSUME NEW t \in Threads, LeaveHook(t)
       PROVE  PeersWere' /\ (\A c \in 1..Len(conns') : LogShape(c)') /\ \A u \in Threads : ThreadLog(u)'
  <2>1. /\ \A u \in Threads : u # t => th'[u] = th[u]
        /\ th[t].pc # "idle" /\ th'[t].pc = "idle" /\ th'[t].key = NoSd
    BY <1>10, LeaveEffect
  <2>2. ThreadLog(t)'
    BY <2>1 DEF ThreadLog
  <2>3. CASE th[t].key = NoSd
    <3>1. UNCHANGED <<conns, fds>>
      BY <1>10, <2>3 DEF LeaveHook, SendNothing
    <3>2. \A u \in Threads : ThreadLog(u)'
      BY <1>1, <1>d, <2>1, <2>2, <3>1, ThreadLogKept
    <3> QED
      BY <1>3, <1>d, <3>1, <3>2
  <2>4. CASE th[t].key # NoSd
    <3>1. PICK d : d = th[t].key
      OBVIOUS
    <3>2. Own(t, d) /\ Begun(fds[d]) /\ SendEnd(t, d)
      BY <1>1, <1>10, <2>4, <3>1 DEF LeaveHook, SdOwn, ThreadLog
    <3>3. /\ conns' = Sent(d, Record("END", t))
          /\ \A e \in 1..MaxFd : e # d => fds'[e] = fds[e]
      BY <3>2 DEF SendEnd, TypeOK
    <3>4. \A u \in Threads : th[u].pc = "idle" => th[u].key = NoSd
      BY <1>1 DEF SdOwn
    <3>5. /\ PeersWere' /\ (\A c \in 1..Len(conns') : LogShape(c)')
          /\ \A u \in Threads : u # t => ThreadLog(u)'
      BY <1>8, <2>1, <3>2, <3>3, <3>4
    <3> QED
      BY <2>2, <3>5
  <2> QED
    BY <2>3, <2>4
<1>11. CASE OtherOpens \/ OtherCloses \/ UNCHANGED workerVars
  <2>1. UNCHANGED <<th, conns>>
    BY <1>11 DEF OtherOpens, OtherCloses, workerVars
  <2>2. \A d \in 1..MaxFd : fds[d] > 0 => fds'[d] = fds[d]
    <3>1. CASE OtherOpens
      BY <3>1 DEF OtherOpens, FreeFds, Free, TypeOK
    <3>2. CASE OtherCloses
      BY <3>2 DEF OtherCloses, Other, TypeOK
    <3>3. CASE UNCHANGED workerVars
      BY <3>3 DEF workerVars
    <3> QED
      BY <1>11, <3>1, <3>2, <3>3
  <2>3. \A u \in Threads : \A d : Own(u, d) => fds'[d] = fds[d]
    BY <1>2, <2>2 DEF Own
  <2>4. \A u \in Threads : ThreadLog(u)'
    BY <1>1, <1>d, <2>1, <2>3, ThreadLogKept
  <2> QED
    BY <1>3, <1>d, <2>1, <2>4
<1> QED
  <2>1. ASSUME NEW t \in Threads,
               Arrive(t) \/ Redirect(t) \/ Subrequest(t) \/ Output(t)
        PROVE  PeersWere' /\ (\A c \in 1..Len(conns') : LogShape(c)') /\ \A u \in Threads : ThreadLog(u)'
    <3>1. UNCHANGED conns
      BY <1>6, <2>1, ZenonT(60) DEF Arrive, Redirect, Subrequest
    <3> QED
      BY <1>3, <1>5, <1>6, <1>d, <2>1, <3>1
  <2> QED
    BY <1>7, <1>9, <1>10, <1>11, <2>1 DEF WorkerNext, ThreadStep

-----------------------------------------------------------------------------
\* The invariant of the worker: types, requests served by one thread each, and
\* with the log hook the descriptors of performance_module_handler and the
\* private data (mod_performance.c:2342-2473) belong to the request at hand.
THEOREM WorkerInvariant == Spec => []Inv
<1>1. Inv /\ [Next]_vars => Inv'
  BY TypeStep, ApartStep, BeginHasSd, SdStep, LogStep DEF Inv
<1> QED
  BY <1>1, Initially, PTL DEF Spec

\* The state of threads, descriptors and connections keeps its type: no turn of
\* connect_to_daemon counts past two, and a key is never other than none or a
\* descriptor (mod_performance.c:2174-2251, 2543-2597).
THEOREM TypeCorrect == Spec => []TypeOK
<1>1. Inv => TypeOK
  BY DEF Inv
<1> QED
  BY <1>1, WorkerInvariant, PTL

\* With the log hook a connection carries BEGIN of the request it was made for and
\* then END of the same, whatever requests, redirects and daemons come and go: a
\* connection whose daemon was gone at BEGIN gets no END either.
THEOREM BeginsAndEnds == Spec => []BeginThenEnd
<1>1. ASSUME Inv PROVE BeginThenEnd
  <2>1. DOMAIN conns = 1..Len(conns)
    BY <1>1 DEF Inv, TypeOK
  <2> QED
    BY <1>1, <2>1 DEF BeginThenEnd, Inv, Logs, LogShape
<1> QED
  BY <1>1, WorkerInvariant, PTL

\* With the log hook a thread's key is a descriptor it opened for the request
\* it serves, still open, however many threads reuse numbers: END, shutdown and
\* close of performance_module_leave_handler hit nothing else.
THEOREM KeyOwned == Spec => []KeyIsOwn
<1>1. ASSUME Inv PROVE KeyIsOwn
  <2>1. ASSUME ~filterMode, NEW t \in Threads, th[t].key # NoSd
        PROVE  /\ th[t].pc # "idle" /\ fds[th[t].key] > 0
               /\ conns[fds[th[t].key]].chain = th[t].chain
    <3>1. SdOwn(t) /\ Len(conns) \in Nat
      BY <1>1, <2>1 DEF Inv, SdsOwn, TypeOK
    <3> QED
      BY <2>1, <3>1 DEF SdOwn, Own
  <2> QED
    BY <2>1 DEF KeyIsOwn
<1> QED
  BY <1>1, WorkerInvariant, PTL

-----------------------------------------------------------------------------
\* What is left open, with the log hook and with the output filter.

\* Its thread has connected again, for the request it was redirected to or for a
\* subrequest.
Superseded(c) ==
  \E later \in (c + 1)..Len(conns) :
    /\ conns[later].chain = conns[c].chain
    /\ conns[c].kind \in {"redirect", "error"} \/ conns[later].kind = "sub"

\* The filter of a subrequest may keep the log hook from closing it.
Skipped(c) == filterMode /\ MaxSubs > 0 /\ conns[c].kind # "plain"

\* The handler that redirects is left to the other with canonical names.
Rightly(c) == Canonical => conns[c].kind # "redirect"

\* t will close d: it has the number where the hook or the filter looks for it.
Holds(t, d) ==
  /\ th[t].pc # "idle" /\ th[t].chain = conns[fds[d]].chain
  /\ IF th[t].pc = "begin" THEN th[t].sd = d /\ (filterMode => th[t].filter)
     ELSE /\ th[t].key = d
          /\ filterMode => /\ th[t].global = d
                           /\ th[t].filter \/ (MaxSubs = 0 /\ ~th[t].used)

Held == \A d \in 1..MaxFd :
          fds[d] > 0 => Superseded(fds[d]) \/ Skipped(fds[d]) \/ \E t \in Threads : Holds(t, d)

\* Until it has connected for its last request, all that a thread has connected
\* for were redirected.
Redirects(t) ==
  /\ th[t].pc # "idle"
  /\ th[t].kind \in {"redirect", "error"} \/ (th[t].kind = "plain" /\ th[t].pc \in {"connect", "probe"})
  => \A c \in 1..Len(conns) :
       conns[c].chain = th[t].chain => conns[c].kind \in {"redirect", "error"}

\* Who connects is to be monitored, and a request has its filter by then.
Connects(t) == th[t].pc \in {"connect", "probe"} =>
  /\ ~(Canonical /\ th[t].kind = "redirect")
  /\ filterMode => th[t].filter \/ th[t].kind = "sub"

\* A filter is used from the first subrequest on, or at the end of the content,
\* which takes the request's own away.
UsedLate(t) ==
  /\ th[t].used => filterMode /\ (th[t].pc = "log" \/ th[t].kind = "sub")
  /\ th[t].pc = "log" => ~th[t].filter
  /\ th[t].kind = "sub" => MaxSubs > 0 /\ th[t].pc # "idle"

LeakInv ==
  /\ Held
  /\ \A c \in 1..Len(conns) : conns[c].chain <= chains /\ Rightly(c)
  /\ \A t \in Threads : Redirects(t) /\ Connects(t) /\ UsedLate(t)

LEMMA ChainIsNat ==
  ASSUME TypeOK, NEW c \in 1..Len(conns)
  PROVE  conns[c] \in Connection /\ conns[c].chain \in Nat
<1>1. conns[c] \in Connection
  BY DEF TypeOK
<1>2. conns[c].chain \in 0..MaxChains /\ MaxChains \in Nat
  BY <1>1, WorkerAssumption DEF WorkerAssumption, Connection
<1> QED
  BY <1>1, <1>2

LEMMA OpenIsConn ==
  ASSUME TypeOK, NEW d \in 1..MaxFd, fds[d] > 0
  PROVE  fds[d] \in 1..Len(conns)
BY SMTT(30) DEF TypeOK, Other

\* A step that makes no connection, closes what it closes for t, and otherwise
\* leaves t with what it holds.
StillConns ==
  /\ Len(conns') = Len(conns)
  /\ \A c \in 1..Len(conns) :
       conns'[c].chain = conns[c].chain /\ conns'[c].kind = conns[c].kind

LEMMA LeakKept ==
  ASSUME TypeOK, LeakInv, StillConns, NEW t \in Threads,
         \A u \in Threads : u # t => th'[u] = th[u],
         filterMode' = filterMode, chains \in Nat, chains' \in Nat, chains <= chains',
         \A d \in 1..MaxFd : fds'[d] > 0 =>
           fds'[d] = fds[d] /\ (Holds(t, d) => Holds(t, d)' \/ Skipped(fds[d])),
         Redirects(t)', Connects(t)', UsedLate(t)'
  PROVE  LeakInv'
<1>0. Len(conns) \in Nat /\ Len(conns') = Len(conns)
  BY DEF TypeOK, StillConns
<1>1. \A c \in 1..Len(conns) : (Skipped(c) => Skipped(c)') /\ (Rightly(c) => Rightly(c)')
  BY DEF Skipped, Rightly, StillConns
<1>2. \A c \in 1..Len(conns) : Superseded(c) => Superseded(c)'
  BY <1>0 DEF Superseded, StillConns
<1>3. \A d \in 1..MaxFd : fds[d] > 0 => fds[d] \in 1..Len(conns)
  BY OpenIsConn
<1>4. Held'
  <2> SUFFICES ASSUME NEW d \in 1..MaxFd, fds'[d] > 0
               PROVE  Superseded(fds[d])' \/ Skipped(fds[d])' \/ \E u \in Threads : Holds(u, d)'
    BY DEF Held
  <2>1. fds'[d] = fds[d] /\ fds[d] \in 1..Len(conns)
    BY <1>3
  <2>2. PICK c \in 1..Len(conns) : c = fds[d]
    BY <2>1
  <2>3. /\ Superseded(c)' => Superseded(fds[d])'
        /\ Skipped(c)' => Skipped(fds[d])'
    BY <2>1, <2>2 DEF Superseded, Skipped
  <2>4. ASSUME NEW u \in Threads, Holds(u, d) PROVE Holds(u, d)' \/ Skipped(fds[d])
    <3>1. CASE u = t
      BY <2>4, <3>1
    <3>2. CASE u # t
      BY <2>1, <2>4, <3>2 DEF Holds, StillConns
    <3> QED
      BY <3>1, <3>2
  <2> QED
    BY <1>1, <1>2, <2>1, <2>2, <2>3, <2>4 DEF LeakInv, Held
<1>5. \A c \in 1..Len(conns') : conns'[c].chain <= chains' /\ Rightly(c)'
  <2> SUFFICES ASSUME NEW c \in 1..Len(conns) PROVE conns'[c].chain <= chains' /\ Rightly(c)'
    BY <1>0
  <2>1. conns[c].chain <= chains /\ conns'[c].chain = conns[c].chain /\ Rightly(c)'
    BY <1>1 DEF LeakInv, StillConns
  <2>2. conns[c].chain \in Nat
    BY ChainIsNat
  <2> QED
    BY <2>1, <2>2
<1>6. ASSUME NEW u \in Threads PROVE Redirects(u)' /\ Connects(u)' /\ UsedLate(u)'
  <2>1. CASE u = t
    BY <2>1
  <2>2. CASE u # t
    <3>1. Redirects(u) /\ Connects(u) /\ UsedLate(u) /\ th'[u] = th[u]
      BY <2>2 DEF LeakInv
    <3>2. Redirects(u)'
      BY <1>0, <3>1 DEF Redirects, StillConns
    <3> QED
      BY <3>1, <3>2 DEF Connects, UsedLate
  <2> QED
    BY <2>1, <2>2
<1> QED
  BY <1>4, <1>5, <1>6 DEF LeakInv

\* What the handler keeps of the thread, and where it leads.
LEMMA HandlerKeeps ==
  ASSUME TypeOK, NEW t \in Threads, NEW c \in 0..MaxChains, NEW kind \in Kinds,
         NEW selected \in BOOLEAN, Handler(t, c, kind, selected)
  PROVE  /\ th'[t].kind = kind
         /\ th'[t].key = th[t].key /\ th'[t].global = th[t].global
         /\ th'[t].used = th[t].used
         /\ th'[t].pc = "connect" => /\ ~(Canonical /\ kind = "redirect")
                                     /\ filterMode => th'[t].filter
<1>1. th \in [Threads -> ThreadState]
  BY DEF TypeOK, ThreadState
<1> QED
  BY <1>1 DEF Handler, ThreadState

\* A new request has no connection yet, and the thread holds none for it.
LEMMA LeakArrive ==
  ASSUME Inv, LeakInv, NEW t \in Threads, Arrive(t)
  PROVE  LeakInv'
<1>0. TypeOK
  BY DEF Inv
<1>1. PICK kind \in Asked, selected \in BOOLEAN : Handler(t, chains + 1, kind, selected)
  BY DEF Arrive
<1>k. kind \in Kinds /\ kind # "sub"
  BY DEF Asked, Kinds
<1>2. chains' = chains + 1 /\ chains \in Nat /\ chains + 1 \in 0..MaxChains
  BY <1>0, WorkerAssumption DEF WorkerAssumption, Arrive, TypeOK
<1>3. /\ \A u \in Threads : u # t => th'[u] = th[u]
      /\ th'[t].pc \in {"connect", "content"} /\ th'[t].chain = chains + 1
  BY <1>0, <1>1, <1>2, <1>k, HandlerEffect
<1>4. /\ th'[t].used = th[t].used
      /\ th'[t].kind = kind
      /\ th'[t].pc = "connect" => ~(Canonical /\ kind = "redirect") /\ (filterMode => th'[t].filter)
  BY <1>0, <1>1, <1>2, <1>k, HandlerKeeps
<1>5. th[t].pc = "idle" /\ UNCHANGED <<filterMode, fds, conns>>
  BY DEF Arrive
<1>6. \A d : ~Holds(t, d)
  BY <1>5 DEF Holds
<1>7. Redirects(t)'
  <2>1. \A c \in 1..Len(conns) : conns[c].chain # chains + 1
    <3> SUFFICES ASSUME NEW c \in 1..Len(conns) PROVE conns[c].chain # chains + 1
      OBVIOUS
    <3>1. conns[c].chain <= chains /\ conns[c].chain \in Nat
      BY <1>0, ChainIsNat DEF LeakInv
    <3> QED
      BY <1>2, <3>1
  <2> QED
    BY <1>3, <1>5, <2>1 DEF Redirects
<1>8. Connects(t)' /\ UsedLate(t)'
  <2>1. UsedLate(t)
    BY DEF LeakInv
  <2>2. ~th'[t].used
    BY <1>4, <1>5, <2>1 DEF UsedLate
  <2> QED
    BY <1>3, <1>4, <1>5, <1>k, <2>2 DEF Connects, UsedLate
<1>9. StillConns
  BY <1>5 DEF StillConns
<1> QED
  BY <1>0, <1>2, <1>3, <1>5, <1>6, <1>7, <1>8, <1>9, LeakKept

\* The request that is redirected to connects last.
LEMMA LeakRedirect ==
  ASSUME Inv, LeakInv, NEW t \in Threads, Redirect(t)
  PROVE  LeakInv'
<1>0. TypeOK
  BY DEF Inv
<1>1. PICK selected \in BOOLEAN : Handler(t, th[t].chain, "plain", selected)
  BY DEF Redirect
<1>2. th[t].chain \in 0..MaxChains /\ "plain" \in Kinds
  BY <1>0 DEF TypeOK, Kinds, Asked
<1>3. /\ \A u \in Threads : u # t => th'[u] = th[u]
      /\ th'[t].pc \in {"connect", "content"} /\ th'[t].chain = th[t].chain
  BY <1>0, <1>1, <1>2, HandlerEffect
<1>4. /\ th'[t].key = th[t].key /\ th'[t].global = th[t].global
      /\ th'[t].used = th[t].used /\ th'[t].kind = "plain"
      /\ th'[t].pc = "connect" /\ filterMode => th'[t].filter
  BY <1>0, <1>1, <1>2, HandlerKeeps
<1>5. /\ th[t].pc = "content" /\ th[t].kind \in {"redirect", "error"}
      /\ UNCHANGED <<filterMode, fds, conns, chains>>
  BY DEF Redirect
<1>u. ~th[t].used
  BY <1>5 DEF LeakInv, UsedLate
<1>r. \A c \in 1..Len(conns) :
        conns[c].chain = th[t].chain => conns[c].kind \in {"redirect", "error"}
  BY <1>5 DEF LeakInv, Redirects
<1>6. ASSUME NEW d \in 1..MaxFd, fds[d] > 0, Holds(t, d)
      PROVE  Holds(t, d)' \/ Skipped(fds[d])
  <2>1. fds[d] \in 1..Len(conns) /\ conns[fds[d]].chain = th[t].chain
    BY <1>0, <1>6, OpenIsConn DEF Holds
  <2>2. conns[fds[d]].kind # "plain"
    BY <1>r, <2>1
  <2>3. MaxSubs = 0 \/ MaxSubs > 0
    BY WorkerAssumption DEF WorkerAssumption
  <2> QED
    BY <1>3, <1>4, <1>5, <1>6, <1>u, <2>2, <2>3 DEF Holds, Skipped
<1>7. Redirects(t)'
  BY <1>3, <1>5, <1>r DEF Redirects
<1>8. Connects(t)' /\ UsedLate(t)'
  BY <1>3, <1>4, <1>5, <1>u DEF Connects, UsedLate
<1>9. StillConns /\ chains \in Nat
  BY <1>0, <1>5, WorkerAssumption DEF StillConns, WorkerAssumption, TypeOK
<1> QED
  BY <1>0, <1>3, <1>5, <1>6, <1>7, <1>8, <1>9, LeakKept

\* A subrequest leaves the connections of its request where they are, and its
\* filter in their place only if it has one.
LEMMA LeakSubrequest ==
  ASSUME Inv, LeakInv, NEW t \in Threads, Subrequest(t)
  PROVE  LeakInv'
<1>0. TypeOK
  BY DEF Inv
<1>1. /\ UNCHANGED <<filterMode, fds, conns, chains>>
      /\ \A u \in Threads : u # t => th'[u] = th[u]
      /\ th[t].pc = "content" /\ th'[t].pc \in {"connect", "content"}
      /\ th'[t].kind = "sub" /\ th'[t].chain = th[t].chain
      /\ th'[t].key = th[t].key /\ th'[t].global = th[t].global
      /\ th'[t].filter = th[t].filter
      /\ th'[t].used => th[t].used \/ filterMode
  BY <1>0, SubrequestEffect
<1>2. MaxSubs > 0
  <2>1. th[t].subs \in 0..MaxSubs /\ th[t].subs < MaxSubs
    BY <1>0, SubrequestEffect DEF TypeOK
  <2> QED
    BY <2>1, WorkerAssumption DEF WorkerAssumption
<1>3. \A d : Holds(t, d) => Holds(t, d)'
  BY <1>1, <1>2 DEF Holds
<1>4. Redirects(t)' /\ Connects(t)'
  BY <1>1 DEF Redirects, Connects
<1>5. UsedLate(t)'
  BY <1>1, <1>2 DEF LeakInv, UsedLate
<1>6. StillConns /\ chains \in Nat
  BY <1>0, <1>1, WorkerAssumption DEF StillConns, WorkerAssumption, TypeOK
<1> QED
  BY <1>0, <1>1, <1>3, <1>4, <1>5, <1>6, LeakKept

\* An attempt that fails changes nothing of this; one that succeeds leaves what
\* the thread held superseded.
LEMMA ConnectKeeps ==
  ASSUME TypeOK, NEW t \in Threads, Connect(t) \/ Probe(t)
  PROVE  /\ th[t].pc \in {"connect", "probe"}
         /\ th'[t].kind = th[t].kind /\ th'[t].global = th[t].global
         /\ th'[t].used = th[t].used
         /\ \/ UNCHANGED <<conns, fds>>
            \/ /\ th'[t].pc = "begin"
               /\ \E c \in Connection :
                    /\ c.chain = th[t].chain /\ c.kind = th[t].kind
                    /\ conns' = Append(conns, c)
<1>1. th \in [Threads -> ThreadState]
  BY DEF TypeOK, ThreadState
<1>2. CASE Probe(t)
  BY <1>1, <1>2, ZenonT(60) DEF Probe, ThreadState
<1>3. CASE Connect(t) /\ FreeFds = {}
  BY <1>1, <1>3 DEF Connect, SendNothing, ThreadState
<1>4. CASE Connect(t) /\ FreeFds # {}
  <2>1. PICK out \in Outcomes, d \in FreeFds : ConnectWith(t, out, d)
    BY <1>4 DEF Connect
  <2>2. th[t].pc = "connect"
    BY <1>4 DEF Connect
  <2> DEFINE connected == out = "connected"
             again == out = "refused" /\ th[t].tries + 1 < 2
             n == IF again THEN th[t].tries + 1 ELSE 0
             s == IF connected THEN d ELSE NoSd
             p == IF connected THEN "begin"
                  ELSE IF again THEN "probe" ELSE "content"
  <2>3. th' = [th EXCEPT ![t] = [th[t] EXCEPT !.tries = n, !.sd = s, !.pc = p]]
    BY <2>1, Zenon DEF ConnectWith
  <2>4. connected => p = "begin"
    OBVIOUS
  <2>5. ~connected => UNCHANGED <<conns, fds>>
    BY <2>1 DEF ConnectWith, SendNothing
  <2>6. ASSUME connected
        PROVE  \E c \in Connection :
                 /\ c.chain = th[t].chain /\ c.kind = th[t].kind
                 /\ conns' = Append(conns, c)
    <3> DEFINE c == [chain |-> th[t].chain, kind |-> th[t].kind,
                     peer |-> daemon.pid, log |-> <<>>]
    <3>1. c \in Connection
      BY <1>1 DEF ThreadState, Connection, TypeOK, LifeTypeOK
    <3>2. conns' = Append(conns, c)
      BY <2>1, <2>6 DEF ConnectWith
    <3> QED
      BY <3>1, <3>2
  <2> HIDE DEF n, s, p, connected
  <2>7. /\ th'[t].kind = th[t].kind /\ th'[t].global = th[t].global
        /\ th'[t].used = th[t].used /\ th'[t].pc = p
    BY <1>1, <2>3 DEF ThreadState
  <2> QED
    BY <2>2, <2>4, <2>5, <2>6, <2>7
<1> QED
  BY <1>2, <1>3, <1>4

\* What one turn of the loop leaves (connect_to_daemon).
LEMMA OneTurn ==
  ASSUME TypeOK, NEW t \in Threads, Connect(t)
  PROVE  /\ th'[t].kind = th[t].kind /\ th'[t].subs = th[t].subs
         /\ \/ th'[t].pc \in {"begin", "content"}
            \/ th'[t].pc = "probe" /\ th'[t].tries = 1 /\ th[t].tries = 0
<1>1. th \in [Threads -> ThreadState]
  BY DEF TypeOK, ThreadState
<1>2. CASE FreeFds = {}
  <2>1. th' = [th EXCEPT ![t] = [th[t] EXCEPT !.pc = "content", !.tries = 0]]
    BY <1>2, Zenon DEF Connect
  <2> QED
    BY <1>1, <2>1 DEF ThreadState
<1>3. CASE FreeFds # {}
  <2>1. PICK out \in Outcomes, d \in FreeFds : ConnectWith(t, out, d)
    BY <1>3 DEF Connect
  <2> DEFINE connected == out = "connected"
             again == out = "refused" /\ th[t].tries + 1 < 2
             n == IF again THEN th[t].tries + 1 ELSE 0
             s == IF connected THEN d ELSE NoSd
             p == IF connected THEN "begin"
                  ELSE IF again THEN "probe" ELSE "content"
  <2>2. th' = [th EXCEPT ![t] = [th[t] EXCEPT !.tries = n, !.sd = s, !.pc = p]]
    BY <2>1, Zenon DEF ConnectWith
  <2>3. p \in {"begin", "content"} \/ (p = "probe" /\ n = 1 /\ th[t].tries = 0)
    <3>1. th[t].tries \in 0..1
      BY <1>1 DEF ThreadState
    <3> QED
      BY <3>1
  <2> HIDE DEF n, s, p
  <2>4. /\ th'[t].pc = p /\ th'[t].tries = n
        /\ th'[t].kind = th[t].kind /\ th'[t].subs = th[t].subs
    BY <1>1, <2>2 DEF ThreadState
  <2> QED
    BY <2>3, <2>4
<1> QED
  BY <1>2, <1>3

\* No attempt leads past the content.
LEMMA ConnectGoesOn ==
  ASSUME TypeOK, NEW t \in Threads, Connect(t) \/ Probe(t)
  PROVE  th'[t].pc # "log"
<1>1. th \in [Threads -> ThreadState]
  BY DEF TypeOK, ThreadState
<1>2. CASE Probe(t)
  BY <1>1, <1>2 DEF Probe, ThreadState
<1>3. CASE Connect(t)
  BY <1>3, OneTurn
<1> QED
  BY <1>2, <1>3

LEMMA LeakConnect ==
  ASSUME Inv, LeakInv, NEW t \in Threads, Connect(t) \/ Probe(t)
  PROVE  LeakInv'
<1>0. TypeOK /\ ChainsApart /\ Len(conns) \in Nat
  BY DEF Inv, TypeOK
<1>1. /\ \A u \in Threads : u # t => th'[u] = th[u]
      /\ th[t].pc # "idle" /\ th'[t].pc # "idle"
      /\ th'[t].chain = th[t].chain /\ th'[t].key = th[t].key
      /\ th'[t].filter = th[t].filter
  BY <1>0, ConnectEffect
<1>2. /\ th[t].pc \in {"connect", "probe"}
      /\ th'[t].kind = th[t].kind /\ th'[t].global = th[t].global
      /\ th'[t].used = th[t].used
  BY <1>0, ConnectKeeps
<1>3. UNCHANGED <<filterMode, chains>> /\ chains \in Nat
  BY <1>0, WorkerAssumption DEF Connect, Probe, WorkerAssumption, TypeOK
<1>4. Redirects(t) /\ Connects(t) /\ UsedLate(t)
  BY DEF LeakInv
<1>5. th'[t].pc # "log"
  BY <1>0, <1>2, ConnectGoesOn
<1>6. Connects(t)' /\ UsedLate(t)'
  BY <1>1, <1>2, <1>3, <1>4, <1>5 DEF Connects, UsedLate
<1>7. ASSUME NEW c \in 1..Len(conns), conns[c].chain = th[t].chain
      PROVE  conns[c].kind \in {"redirect", "error"} \/ th[t].kind = "sub"
  <2>1. th[t].kind \in Asked \cup {"sub"}
    BY <1>0 DEF TypeOK, Kinds
  <2> QED
    BY <1>1, <1>2, <1>4, <1>7, <2>1 DEF Redirects, Asked
<1>8. CASE UNCHANGED <<conns, fds>>
  <2>1. StillConns /\ Redirects(t)'
    BY <1>1, <1>2, <1>4, <1>7, <1>8 DEF StillConns, Redirects
  <2>2. th'[t].pc # "begin"
    <3>1. \A c : conns' # Append(conns, c)
      BY <1>0, <1>8 DEF TypeOK
    <3> QED
      BY <1>0, <3>1, ConnectEffect
  <2>3. \A d : Holds(t, d) => Holds(t, d)'
    BY <1>1, <1>2, <1>3, <1>8, <2>2 DEF Holds
  <2> QED
    BY <1>0, <1>1, <1>3, <1>6, <1>8, <2>1, <2>3, LeakKept
<1>9. CASE ~UNCHANGED <<conns, fds>>
  <2>1. th'[t].pc = "begin"
    BY <1>0, <1>9, ConnectKeeps
  <2>2. PICK c \in Connection : /\ c.chain = th[t].chain /\ c.kind = th[t].kind
                                /\ conns' = Append(conns, c)
    BY <1>0, <1>9, ConnectKeeps
  <2>3. PICK d \in FreeFds : th'[t].sd = d /\ fds' = [fds EXCEPT ![d] = Len(conns) + 1]
    BY <1>0, <1>9, ConnectEffect
  <2>5. PICK new \in Nat : new = Len(conns) + 1
    BY <1>0
  <2>4. /\ Len(conns') = new /\ conns'[new].chain = th[t].chain
        /\ conns'[new].kind = th[t].kind
        /\ \A k \in 1..Len(conns) : conns'[k] = conns[k]
    BY <1>0, <2>2, <2>5 DEF TypeOK
  <2>6. \A k \in 1..Len(conns) : (Skipped(k) => Skipped(k)') /\ (Rightly(k) => Rightly(k)')
    BY <1>3, <2>4 DEF Skipped, Rightly
  <2>7. ASSUME NEW k \in 1..Len(conns), Superseded(k) PROVE Superseded(k)'
    <3>1. PICK later \in (k + 1)..Len(conns) :
            /\ conns[later].chain = conns[k].chain
            /\ conns[k].kind \in {"redirect", "error"} \/ conns[later].kind = "sub"
      BY <2>7 DEF Superseded
    <3>2. later \in 1..Len(conns) /\ later \in (k + 1)..Len(conns')
      BY <1>0, <2>4, <2>5
    <3>3. conns'[later] = conns[later] /\ conns'[k] = conns[k]
      BY <2>4, <3>2
    <3> QED
      BY <3>1, <3>2, <3>3 DEF Superseded
  <2>8. ASSUME NEW k \in 1..Len(conns), conns[k].chain = th[t].chain PROVE Superseded(k)'
    <3>1. conns'[k].kind \in {"redirect", "error"} \/ conns'[new].kind = "sub"
      BY <1>7, <2>4, <2>8
    <3>2. new \in (k + 1)..Len(conns') /\ conns'[new].chain = conns'[k].chain
      BY <1>0, <2>4, <2>5, <2>8
    <3> QED
      BY <3>1, <3>2 DEF Superseded
  <2>9. Held'
    <3> SUFFICES ASSUME NEW e \in 1..MaxFd, fds'[e] > 0
                 PROVE  Superseded(fds[e])' \/ Skipped(fds[e])' \/ \E u \in Threads : Holds(u, e)'
      BY DEF Held
    <3>1. CASE e = d
      <4>1. fds'[e] = new
        BY <1>0, <2>3, <2>5, <3>1 DEF TypeOK
      <4>2. th'[t].pc # "idle" /\ th'[t].chain = conns'[fds'[e]].chain /\ th'[t].sd = e
        BY <1>1, <2>1, <2>3, <2>4, <3>1, <4>1
      <4>3. CASE filterMode => th[t].filter
        <5>1. Holds(t, e)'
          BY <1>1, <1>3, <2>1, <4>2, <4>3 DEF Holds
        <5> QED
          BY <5>1
      <4>4. CASE ~(filterMode => th[t].filter)
        <5>1. th[t].kind = "sub" /\ filterMode /\ MaxSubs > 0
          BY <1>2, <1>4, <4>4 DEF Connects, UsedLate
        <5> QED
          BY <1>3, <2>4, <4>1, <5>1 DEF Skipped
      <4> QED
        BY <4>3, <4>4
    <3>2. CASE e # d
      <4>0. fds'[e] = fds[e]
        BY <1>0, <2>3, <3>2 DEF TypeOK
      <4>1. fds'[e] = fds[e] /\ fds[e] \in 1..Len(conns)
        BY <1>0, <4>0, OpenIsConn
      <4>2. PICK k \in 1..Len(conns) : k = fds[e]
        BY <4>1
      <4>3. /\ Superseded(k)' => Superseded(fds[e])'
            /\ Skipped(k)' => Skipped(fds[e])'
        BY <4>1, <4>2 DEF Superseded, Skipped
      <4>4. CASE Superseded(fds[e]) \/ Skipped(fds[e])
        BY <2>6, <2>7, <4>2, <4>3, <4>4
      <4>5. ASSUME NEW u \in Threads, Holds(u, e)
            PROVE  Superseded(fds[e])' \/ Holds(u, e)'
        <5>1. CASE u = t
          BY <2>8, <4>2, <4>3, <4>5, <5>1 DEF Holds
        <5>2. CASE u # t
          BY <1>1, <1>3, <2>4, <4>1, <4>5, <5>2 DEF Holds
        <5> QED
          BY <5>1, <5>2
      <4> QED
        BY <4>1, <4>4, <4>5 DEF LeakInv, Held
    <3> QED
      BY <3>1, <3>2
  <2>10. \A k \in 1..Len(conns') : conns'[k].chain <= chains' /\ Rightly(k)'
    <3>1. Rightly(new)'
      BY <1>2, <1>4, <2>4, WorkerAssumption DEF WorkerAssumption, Rightly, Connects
    <3>2. \A k \in 1..Len(conns') : k # new => k \in 1..Len(conns)
      BY <1>0, <2>4, <2>5
    <3>3. \A k \in 1..Len(conns) : Rightly(k) /\ conns[k].chain <= chains
      BY DEF LeakInv
    <3>4. th[t].chain <= chains
      BY <1>0, <1>1, <1>3 DEF ChainsApart
    <3> QED
      BY <1>3, <2>4, <2>6, <3>1, <3>2, <3>3, <3>4
  <2>11. ASSUME NEW u \in Threads PROVE Redirects(u)' /\ Connects(u)' /\ UsedLate(u)'
    <3>1. CASE u = t
      <4>2. Redirects(t)'
        <5> SUFFICES ASSUME th[t].kind \in {"redirect", "error"}, NEW k \in 1..Len(conns'),
                            conns'[k].chain = th[t].chain
                     PROVE  conns'[k].kind \in {"redirect", "error"}
          BY <1>1, <1>2, <2>1 DEF Redirects
        <5>1. CASE k = new
          BY <2>4, <5>1
        <5>2. CASE k # new
          BY <1>0, <1>7, <2>4, <2>5, <5>2
        <5> QED
          BY <5>1, <5>2
      <4> QED
        BY <1>6, <3>1, <4>2
    <3>2. CASE u # t
      <4>1. Redirects(u) /\ Connects(u) /\ UsedLate(u) /\ th'[u] = th[u]
        BY <1>1, <3>2 DEF LeakInv
      <4>2. th[u].pc # "idle" => th[u].chain # th[t].chain
        BY <1>0, <1>1, <3>2 DEF ChainsApart
      <4>3. Redirects(u)'
        BY <1>0, <2>4, <2>5, <4>1, <4>2 DEF Redirects
      <4> QED
        BY <1>3, <4>1, <4>3 DEF Connects, UsedLate
    <3> QED
      BY <3>1, <3>2
  <2> QED
    BY <2>9, <2>10, <2>11 DEF LeakInv
<1> QED
  BY <1>8, <1>9

\* The descriptor moves to where hook and filter look for it.
LEMMA LeakBegin ==
  ASSUME Inv, LeakInv, NEW t \in Threads, Begin(t)
  PROVE  LeakInv'
<1>0. TypeOK
  BY DEF Inv
<1>1. /\ \A u \in Threads : u # t => th'[u] = th[u]
      /\ th[t].pc = "begin" /\ th'[t].pc = "content"
      /\ th'[t].chain = th[t].chain /\ th'[t].key = th[t].sd
      /\ th'[t].filter = th[t].filter
  BY <1>0, BeginEffect
<1>2. /\ th'[t].kind = th[t].kind /\ th'[t].used = th[t].used
      /\ filterMode => th'[t].global = th[t].sd
  <2>1. th \in [Threads -> ThreadState]
    BY <1>0 DEF TypeOK, ThreadState
  <2> QED
    BY <2>1 DEF Begin, ThreadState
<1>3. StillConns /\ UNCHANGED fds
  <2>1. th[t].sd \in 1..MaxFd /\ Record("BEGIN", t) \in Records
    BY <1>0, <1>1, RecordType DEF Inv, SdAtBegin
  <2> QED
    BY <1>0, <2>1, SentKeeps DEF Begin, StillConns
<1>4. UNCHANGED <<filterMode, chains>> /\ chains \in Nat
  BY <1>0, WorkerAssumption DEF Begin, WorkerAssumption, TypeOK
<1>5. Redirects(t) /\ UsedLate(t)
  BY DEF LeakInv
<1>7. Redirects(t)' /\ Connects(t)' /\ UsedLate(t)'
  <2>1. Redirects(t)'
    BY <1>1, <1>2, <1>3, <1>5 DEF Redirects, StillConns
  <2> QED
    BY <1>1, <1>2, <1>4, <1>5, <2>1 DEF Connects, UsedLate
<1>8. ASSUME NEW d \in 1..MaxFd, fds[d] > 0, Holds(t, d) PROVE Holds(t, d)'
  <2>1. fds[d] \in 1..Len(conns)
    BY <1>0, <1>8, OpenIsConn
  <2> QED
    BY <1>1, <1>2, <1>3, <1>4, <1>8, <2>1 DEF Holds, StillConns
<1> QED
  BY <1>0, <1>1, <1>3, <1>4, <1>7, <1>8, LeakKept

\* What a thread sends END on is closed.
LEMMA Closed ==
  ASSUME TypeOK, NEW t \in Threads, NEW d \in 1..MaxFd, SendEnd(t, d)
  PROVE  /\ StillConns /\ fds'[d] = Free
         /\ \A e \in 1..MaxFd : e # d => fds'[e] = fds[e]
<1>1. Record("END", t) \in Records
  BY RecordType
<1> QED
  BY <1>1, SentKeeps DEF SendEnd, StillConns, TypeOK

\* The filter closes what it finds under sd_global, which is under the key too.
LEMMA LeakOutput ==
  ASSUME Inv, LeakInv, NEW t \in Threads, Output(t)
  PROVE  LeakInv'
<1>0. TypeOK
  BY DEF Inv
<1>1. /\ \A u \in Threads : u # t => th'[u] = th[u]
      /\ th'[t].pc = "log" /\ th'[t].chain = th[t].chain
      /\ th'[t].key = th[t].key /\ ~th'[t].filter
  BY <1>0, OutputEffect
<1>2. /\ th'[t].kind = th[t].kind /\ th'[t].global = th[t].global
      /\ th'[t].used = (th[t].used \/ th[t].filter)
  <2>1. th \in [Threads -> ThreadState]
    BY <1>0 DEF TypeOK, ThreadState
  <2> QED
    BY <2>1 DEF Output, ThreadState
<1>3. th[t].pc = "content" /\ th[t].kind \in {"plain", "sub"} /\ UNCHANGED <<filterMode, chains>>
  BY DEF Output
<1>4. chains \in Nat /\ th[t].global \in 0..MaxFd
  BY <1>0, WorkerAssumption DEF WorkerAssumption, TypeOK
<1>5. Redirects(t)' /\ Connects(t)'
  BY <1>1, <1>2, <1>3 DEF Redirects, Connects
<1>6. UsedLate(t)'
  <2>1. th[t].filter => filterMode
    BY DEF Inv, SdsOwn, SdOwn
  <2>2. th[t].used => filterMode
    BY DEF LeakInv, UsedLate
  <2>3. th[t].kind = "sub" => MaxSubs > 0
    BY DEF LeakInv, UsedLate
  <2> QED
    BY <1>1, <1>2, <1>3, <2>1, <2>2, <2>3 DEF UsedLate
<1>7. CASE th[t].filter /\ th[t].global # NoSd
  <2>1. PICK g \in 1..MaxFd : g = th[t].global
    BY <1>4, <1>7 DEF NoSd
  <2>2. SendEnd(t, g)
    BY <1>7, <2>1 DEF Output
  <2>3. /\ StillConns /\ fds'[g] = Free
        /\ \A e \in 1..MaxFd : e # g => fds'[e] = fds[e]
    BY <1>0, <2>2, Closed
  <2>4. filterMode
    BY <1>7 DEF Inv, SdsOwn, SdOwn
  <2>5. ASSUME NEW d \in 1..MaxFd, fds'[d] > 0
        PROVE  fds'[d] = fds[d] /\ ~Holds(t, d)
    <3>1. d # g
      BY <2>3, <2>5 DEF Free
    <3> QED
      BY <1>3, <2>1, <2>3, <2>4, <3>1 DEF Holds
  <2> QED
    BY <1>0, <1>1, <1>3, <1>4, <1>5, <1>6, <2>3, <2>5, LeakKept
<1>8. CASE ~(th[t].filter /\ th[t].global # NoSd)
  <2>1. UNCHANGED <<conns, fds>>
    BY <1>8 DEF Output, SendNothing
  <2>2. StillConns
    BY <2>1 DEF StillConns
  <2>3. ASSUME NEW d \in 1..MaxFd, Holds(t, d) PROVE Holds(t, d)'
    <3>1. th[t].key = d
      BY <1>3, <2>3 DEF Holds
    <3>2. filterMode => th[t].global = d /\ ~th[t].filter /\ MaxSubs = 0 /\ ~th[t].used
      BY <1>3, <1>8, <2>3 DEF Holds, NoSd
    <3> QED
      BY <1>1, <1>2, <1>3, <2>1, <2>3, <3>1, <3>2 DEF Holds
  <2> QED
    BY <1>0, <1>1, <1>3, <1>4, <1>5, <1>6, <2>1, <2>2, <2>3, LeakKept
<1> QED
  BY <1>7, <1>8

\* The log hook closes what the thread still holds.
LEMMA LeakLeave ==
  ASSUME Inv, LeakInv, NEW t \in Threads, LeaveHook(t)
  PROVE  LeakInv'
<1>0. TypeOK
  BY DEF Inv
<1>1. /\ \A u \in Threads : u # t => th'[u] = th[u]
      /\ th[t].pc # "idle" /\ th'[t].pc = "idle"
  BY <1>0, LeaveEffect
<1>2. th[t].pc = "log" /\ UNCHANGED <<filterMode, chains>>
  BY DEF LeaveHook
<1>3. chains \in Nat /\ th[t].key \in 0..MaxFd
  BY <1>0, WorkerAssumption DEF WorkerAssumption, TypeOK
<1>4. UsedLate(t)
  BY DEF LeakInv
<1>5. ~th'[t].used /\ th'[t].kind # "sub"
  <2>1. th \in [Threads -> ThreadState]
    BY <1>0 DEF TypeOK, ThreadState
  <2>2. Done(t) \in ThreadState /\ Done(t).used = th[t].used /\ Done(t).kind = "plain"
    <3>1. Done(t) = [th[t] EXCEPT !.pc = "idle", !.chain = 0, !.kind = "plain",
                                  !.subs = 0, !.selected = FALSE]
      BY DEF Done
    <3>2. "idle" \in Pcs /\ 0 \in 0..MaxChains /\ "plain" \in Kinds /\ 0 \in 0..MaxSubs
      BY WorkerAssumption DEF WorkerAssumption, Pcs, Kinds, Asked
    <3>3. Done(t) \in ThreadState
      BY <2>1, <3>1, <3>2, Fields, Zenon
    <3> QED
      BY <2>1, <3>1, <3>3 DEF ThreadState
  <2>3. /\ ~[Done(t) EXCEPT !.used = FALSE].used
        /\ [Done(t) EXCEPT !.key = NoSd].used = th[t].used
        /\ [Done(t) EXCEPT !.used = FALSE].kind = "plain"
        /\ [Done(t) EXCEPT !.key = NoSd].kind = "plain"
    BY <2>2 DEF ThreadState
  <2> QED
    BY <1>2, <1>4, <2>1, <2>3 DEF LeaveHook, UsedLate
<1>6. Redirects(t)' /\ Connects(t)' /\ UsedLate(t)'
  BY <1>1, <1>5 DEF Redirects, Connects, UsedLate
<1>7. CASE (filterMode /\ th[t].used) \/ th[t].key = NoSd
  <2>1. UNCHANGED <<conns, fds>>
    BY <1>7 DEF LeaveHook, SendNothing
  <2>2. StillConns
    BY <2>1 DEF StillConns
  <2>3. \A d \in 1..MaxFd : ~Holds(t, d)
    BY <1>2, <1>4, <1>7 DEF Holds, UsedLate, NoSd
  <2> QED
    BY <1>0, <1>1, <1>2, <1>3, <1>6, <2>1, <2>2, <2>3, LeakKept
<1>8. CASE ~((filterMode /\ th[t].used) \/ th[t].key = NoSd)
  <2>1. PICK g \in 1..MaxFd : g = th[t].key
    BY <1>3, <1>8 DEF NoSd
  <2>2. SendEnd(t, g)
    BY <1>8, <2>1 DEF LeaveHook
  <2>3. /\ StillConns /\ fds'[g] = Free
        /\ \A e \in 1..MaxFd : e # g => fds'[e] = fds[e]
    BY <1>0, <2>2, Closed
  <2>4. ASSUME NEW d \in 1..MaxFd, fds'[d] > 0
        PROVE  fds'[d] = fds[d] /\ ~Holds(t, d)
    <3>1. d # g
      BY <2>3, <2>4 DEF Free
    <3> QED
      BY <1>2, <2>1, <2>3, <3>1 DEF Holds
  <2> QED
    BY <1>0, <1>1, <1>2, <1>3, <1>6, <2>3, <2>4, LeakKept
<1> QED
  BY <1>7, <1>8

\* The rest of httpd opens and closes what is not a connection of the module.
LEMMA LeakOthers ==
  ASSUME Inv, LeakInv, UNCHANGED <<filterMode, th, conns, chains>>,
         \A d \in 1..MaxFd : fds'[d] > 0 => fds'[d] = fds[d]
  PROVE  LeakInv'
<1>1. Held'
  <2> SUFFICES ASSUME NEW d \in 1..MaxFd, fds'[d] > 0
               PROVE  Superseded(fds[d])' \/ Skipped(fds[d])' \/ \E u \in Threads : Holds(u, d)'
    BY DEF Held
  <2> QED
    BY DEF LeakInv, Held, Superseded, Skipped, Holds
<1>2. \A u \in Threads : Redirects(u)' /\ Connects(u)' /\ UsedLate(u)'
  BY DEF LeakInv, Redirects, Connects, UsedLate
<1> QED
  BY <1>1, <1>2 DEF LeakInv, Rightly

LEMMA LeakStep == Inv /\ LeakInv /\ [Next]_vars => LeakInv'
<1> SUFFICES ASSUME Inv, LeakInv, [Next]_vars PROVE LeakInv'
  OBVIOUS
<1>1. CASE OtherOpens \/ OtherCloses
  <2>1. ASSUME NEW d \in 1..MaxFd, fds'[d] > 0 PROVE fds'[d] = fds[d]
    <3>1. PICK e \in 1..MaxFd : \/ fds' = [fds EXCEPT ![e] = Other]
                                \/ fds' = [fds EXCEPT ![e] = Free]
      BY <1>1 DEF OtherOpens, OtherCloses, FreeFds
    <3>2. DOMAIN fds = 1..MaxFd
      BY DEF Inv, TypeOK
    <3>3. CASE d = e
      <4>1. fds'[d] = Other \/ fds'[d] = Free
        BY <3>1, <3>2, <3>3
      <4>2. ~(Other > 0) /\ ~(Free > 0)
        BY DEF Other, Free
      <4> QED
        BY <2>1, <4>1, <4>2
    <3>4. CASE d # e
      BY <3>1, <3>2, <3>4
    <3> QED
      BY <3>3, <3>4
  <2>2. UNCHANGED <<filterMode, th, conns, chains>>
    BY <1>1 DEF OtherOpens, OtherCloses
  <2> QED
    BY <2>1, <2>2, LeakOthers
<1>2. CASE UNCHANGED workerVars
  BY <1>2, LeakOthers DEF workerVars
<1> QED
  BY <1>1, <1>2, LeakArrive, LeakRedirect, LeakSubrequest, LeakConnect, LeakBegin, LeakOutput,
     LeakLeave
  DEF Next, WorkerNext, ThreadStep, vars

\* A connection outlives its request only when the handler ran again for it, over
\* the number it had kept, or when the filter of a subrequest kept the log hook from
\* closing it: however many threads close each other's descriptors by a stale number
\* (mod_performance.c:2420-2443, 2549-2552).
THEOREM LeaksRunAgain == Spec => []LeaksOnlyIfRunAgain
<1>1. Init => LeakInv
  <2> SUFFICES ASSUME Init PROVE LeakInv
    OBVIOUS
  <2>1. Held
    BY DEF Init, Held, Free
  <2> QED
    BY <2>1 DEF Init, LeakInv, Redirects, Connects, UsedLate, IdleThread
<1>2. Inv /\ LeakInv => LeaksOnlyIfRunAgain
  <2> SUFFICES ASSUME Inv, LeakInv, NEW d \in 1..MaxFd, fds[d] > 0
               PROVE  \/ \E t \in Threads : th[t].pc # "idle" /\ th[t].chain = conns[fds[d]].chain
                      \/ Rightly(fds[d]) /\ (Superseded(fds[d]) \/ Skipped(fds[d]))
    BY DEF LeaksOnlyIfRunAgain, Rightly, Superseded, Skipped
  <2>1. fds[d] \in 1..Len(conns)
    BY OpenIsConn DEF Inv
  <2> QED
    BY <2>1 DEF LeakInv, Held, Holds
<1> QED
  BY <1>1, <1>2, LeakStep, WorkerInvariant, PTL DEF Spec

-----------------------------------------------------------------------------
(* The way of a request through its thread.                                *)

\* The daemon is probed for after the first refusal only, and a turn of the loop is
\* counted while it lasts.
Tried == \A t \in Threads : th[t].pc = "probe" => th[t].tries = 1

\* Nothing but its own handler and hooks moves a thread, and no handler starts before
\* the end of the log hook.
LEMMA MovedByItself ==
  ASSUME TypeOK, [Next]_vars, NEW t \in Threads, th'[t] # th[t]
  PROVE  Arrive(t) \/ ThreadStep(t)
<1>1. th \in [Threads -> ThreadState]
  BY DEF TypeOK, ThreadState
<1>2. PICK u \in Threads : Arrive(u) \/ ThreadStep(u)
  BY DEF Next, vars, workerVars, WorkerNext, OtherOpens, OtherCloses
<1>3. ASSUME u # t PROVE th'[t] = th[t]
  <2>1. CASE Connect(u) \/ Probe(u)
    BY <1>3, <2>1, ConnectEffect
  <2>2. CASE Arrive(u) \/ Redirect(u)
    BY <1>1, <1>3, <2>2 DEF Arrive, Redirect, Handler
  <2>3. CASE Begin(u) \/ Output(u)
    BY <1>1, <1>3, <2>3 DEF Begin, Output
  <2>4. CASE LeaveHook(u)
    BY <1>1, <1>3, <2>4 DEF LeaveHook
  <2>5. CASE Subrequest(u)
    BY <1>3, <2>5, SubrequestEffect
  <2> QED
    BY <1>2, <2>1, <2>2, <2>3, <2>4, <2>5 DEF ThreadStep
<1> QED
  BY <1>2, <1>3

\* Where a handler that runs leaves its thread.
LEMMA HandlerRuns ==
  ASSUME TypeOK, NEW t \in Threads, Arrive(t) \/ Redirect(t)
  PROVE  /\ th'[t].pc \in {"connect", "content"} /\ th'[t].tries = th[t].tries
         /\ th'[t].subs = th[t].subs
         /\ Redirect(t) => th'[t].kind = "plain"
<1>1. th \in [Threads -> ThreadState]
  BY DEF TypeOK, ThreadState
<1>2. ASSUME NEW c, NEW kind, NEW selected, Handler(t, c, kind, selected)
      PROVE  /\ th'[t].pc \in {"connect", "content"} /\ th'[t].tries = th[t].tries
             /\ th'[t].kind = kind /\ th'[t].subs = th[t].subs
  <2> DEFINE need == selected /\ ~(Canonical /\ kind = "redirect")
             p == IF need THEN "connect" ELSE "content"
             s == th[t].selected \/ selected
             f == need /\ filterMode
  <2>1. th' = [th EXCEPT ![t] = [th[t] EXCEPT !.chain = c, !.kind = kind, !.pc = p,
                                   !.selected = s, !.filter = f]]
    BY <1>2, Zenon DEF Handler
  <2>2. p \in {"connect", "content"}
    OBVIOUS
  <2> HIDE DEF p, s, f
  <2> QED
    BY <1>1, <2>1, <2>2 DEF ThreadState
<1>3. CASE Arrive(t)
  BY <1>2, <1>3 DEF Arrive, Redirect
<1>4. CASE Redirect(t)
  BY <1>2, <1>4 DEF Redirect
<1> QED
  BY <1>3, <1>4

\* The log hook ends the request.
LEMMA HookEnds ==
  ASSUME TypeOK, NEW t \in Threads, LeaveHook(t)
  PROVE  th'[t].pc = "idle" /\ th'[t].kind = "plain"
<1>1. th \in [Threads -> ThreadState]
  BY DEF TypeOK, ThreadState
<1>2. Done(t).pc = "idle" /\ Done(t).kind = "plain"
  BY <1>1 DEF Done, ThreadState
<1>3. Done(t) \in ThreadState
  <2>1. "idle" \in Pcs /\ 0 \in 0..MaxChains /\ "plain" \in Kinds /\ 0 \in 0..MaxSubs
    BY WorkerAssumption DEF WorkerAssumption, Pcs, Kinds, Asked
  <2> QED
    BY <1>1, <2>1, Fields, Zenon DEF Done
<1>4. PICK r : /\ r = [Done(t) EXCEPT !.used = FALSE] \/ r = [Done(t) EXCEPT !.key = NoSd]
               /\ th' = [th EXCEPT ![t] = r]
  BY DEF LeaveHook
<1>5. r.pc = Done(t).pc /\ r.kind = Done(t).kind
  BY <1>3, <1>4 DEF ThreadState
<1> QED
  BY <1>1, <1>2, <1>4, <1>5

\* The probe comes after the first turn, whatever moves.
LEMMA TriedStep == TypeOK /\ Tried /\ [Next]_vars => Tried'
<1> SUFFICES ASSUME TypeOK, Tried, [Next]_vars, NEW t \in Threads, th'[t].pc = "probe"
             PROVE  th'[t].tries = 1
  BY DEF Tried
<1>1. th \in [Threads -> ThreadState]
  BY DEF TypeOK, ThreadState
<1>2. CASE th'[t] = th[t]
  BY <1>2 DEF Tried
<1>3. CASE Connect(t)
  BY <1>3, OneTurn
<1>4. ASSUME Arrive(t) \/ Redirect(t) PROVE FALSE
  BY <1>4, HandlerRuns
<1>5. ASSUME Probe(t) \/ Begin(t) \/ Output(t) PROVE FALSE
  BY <1>1, <1>5, ZenonT(60) DEF Probe, Begin, Output, ThreadState
<1>6. ASSUME LeaveHook(t) PROVE FALSE
  BY <1>6, HookEnds
<1>7. ASSUME Subrequest(t) PROVE FALSE
  BY <1>7, SubrequestEffect
<1> QED
  BY <1>2, <1>3, <1>4, <1>5, <1>6, <1>7, MovedByItself DEF ThreadStep

\* How far it is from where a thread is, and what may still come.
Ahead(pc, tries) ==
  CASE pc = "log" -> 1  [] pc = "content" -> 2  [] pc = "begin" -> 3
    [] pc = "connect" -> 6 - 2 * tries  [] pc = "probe" -> 5  [] OTHER -> 0

Again(kind, subs) ==
  (IF kind \in {"redirect", "error"} THEN 5 ELSE 0) + 5 * (MaxSubs - subs)

\* The distance, case by case.
LEMMA AheadIs ==
  ASSUME NEW r
  PROVE  /\ Ahead("log", r) = 1 /\ Ahead("content", r) = 2 /\ Ahead("begin", r) = 3
         /\ Ahead("connect", r) = 6 - 2 * r /\ Ahead("probe", r) = 5
BY DEF Ahead

LEMMA AheadOf ==
  ASSUME NEW pc \in Pcs, pc # "idle", NEW r \in 0..1
  PROVE  Ahead(pc, r) \in 1..6
BY AheadIs DEF Pcs

LEMMA AgainOf ==
  ASSUME NEW kind, NEW subs \in 0..MaxSubs
  PROVE  Again(kind, subs) \in 0..(5 + 5 * MaxSubs)
BY WorkerAssumption DEF WorkerAssumption, Again

\* Every step of a thread that has a request brings it nearer to the end.
LEMMA NearsStep == TypeOK /\ TypeOK' /\ Tried /\ [Next]_vars => NearsItsEnd
<1> SUFFICES ASSUME TypeOK, TypeOK', Tried, [Next]_vars, NEW t \in Threads, th[t].pc # "idle"
             PROVE  /\ Distance(t) \in 1..(11 + 5 * MaxSubs)
                    /\ th'[t] # th[t] => Distance(t)' < Distance(t)
  BY DEF NearsItsEnd
<1> DEFINE r == th[t].tries
           far == Again(th[t].kind, th[t].subs)
           near == Again(th'[t].kind, th'[t].subs)
<1>1. th \in [Threads -> ThreadState] /\ MaxSubs \in Nat
  BY WorkerAssumption DEF WorkerAssumption, TypeOK, ThreadState
<1>2. th[t].pc \in Pcs /\ r \in 0..1 /\ th[t].subs \in 0..MaxSubs
  BY <1>1 DEF ThreadState
<1>3. /\ Distance(t) = Ahead(th[t].pc, r) + far
      /\ Ahead(th[t].pc, r) \in 1..6 /\ far \in 0..(5 + 5 * MaxSubs)
  <2>1. Distance(t) = Ahead(th[t].pc, r) + far
    BY DEF Distance, Ahead, Again
  <2> QED
    BY <1>2, <2>1, AgainOf, AheadOf
<1>4. /\ th'[t].pc # "idle" => Distance(t)' = Ahead(th'[t].pc, th'[t].tries) + near
      /\ th'[t].pc = "idle" => Distance(t)' = 0
      /\ near \in 0..(5 + 5 * MaxSubs) /\ th'[t].pc \in Pcs /\ th'[t].tries \in 0..1
  <2>1. th'[t].pc \in Pcs /\ th'[t].tries \in 0..1 /\ th'[t].subs \in 0..MaxSubs
    BY DEF TypeOK
  <2>2. /\ th'[t].pc # "idle" => Distance(t)' = Ahead(th'[t].pc, th'[t].tries) + near
        /\ th'[t].pc = "idle" => Distance(t)' = 0
    BY DEF Distance, Ahead, Again
  <2> QED
    BY <2>1, <2>2, AgainOf
<1> HIDE DEF far, near
<1>5. Distance(t) \in 1..(11 + 5 * MaxSubs)
  BY <1>1, <1>3
<1>6. ASSUME Arrive(t) PROVE FALSE
  BY <1>6 DEF Arrive
<1>7. ASSUME Redirect(t) PROVE Distance(t)' < Distance(t)
  <2>1. th[t].pc = "content" /\ th[t].kind \in {"redirect", "error"}
    BY <1>7 DEF Redirect
  <2>2. /\ th'[t].pc \in {"connect", "content"} /\ th'[t].subs = th[t].subs
        /\ th'[t].kind = "plain"
    BY <1>7, HandlerRuns
  <2>3. far = near + 5
    BY <1>1, <1>2, <2>1, <2>2 DEF Again, far, near
  <2>4. Ahead(th'[t].pc, th'[t].tries) \in 1..6
    BY <1>4, <2>2, AheadOf
  <2>5. Distance(t) = 2 + far
    BY <1>3, <2>1, AheadIs
  <2> QED
    BY <1>1, <1>3, <1>4, <2>2, <2>3, <2>4, <2>5
<1>s. ASSUME Subrequest(t) PROVE Distance(t)' < Distance(t)
  <2>1. /\ th[t].pc = "content" /\ th[t].kind \in {"plain", "sub"}
        /\ th'[t].pc \in {"connect", "content"} /\ th'[t].kind = "sub"
        /\ th'[t].subs = th[t].subs + 1
    BY <1>s, SubrequestEffect
  <2>2. far = near + 5
    BY <1>1, <1>2, <2>1 DEF Again, far, near
  <2>3. Ahead(th'[t].pc, th'[t].tries) \in 1..6
    BY <1>4, <2>1, AheadOf
  <2>4. Distance(t) = 2 + far
    BY <1>3, <2>1, AheadIs
  <2> QED
    BY <1>1, <1>3, <1>4, <2>1, <2>2, <2>3, <2>4
<1>8. ASSUME th'[t].kind = th[t].kind, th'[t].subs = th[t].subs, th'[t].pc # "idle",
             Ahead(th'[t].pc, th'[t].tries) < Ahead(th[t].pc, r)
      PROVE  Distance(t)' < Distance(t)
  <2>1. near = far
    BY <1>8 DEF near, far
  <2>2. Ahead(th'[t].pc, th'[t].tries) \in 1..6
    BY <1>4, <1>8, AheadOf
  <2> QED
    BY <1>1, <1>3, <1>4, <1>8, <2>1, <2>2
<1>9. ASSUME Connect(t) PROVE Distance(t)' < Distance(t)
  <2>1. th[t].pc = "connect"
    BY <1>9 DEF Connect
  <2>2. /\ th'[t].kind = th[t].kind /\ th'[t].subs = th[t].subs
        /\ \/ th'[t].pc \in {"begin", "content"}
           \/ th'[t].pc = "probe" /\ th'[t].tries = 1 /\ r = 0
    BY <1>9, OneTurn
  <2> QED
    BY <1>2, <1>8, <2>1, <2>2, AheadIs
<1>10. ASSUME Probe(t) PROVE Distance(t)' < Distance(t)
  <2>1. th[t].pc = "probe" /\ r = 1
    BY <1>10 DEF Probe, Tried
  <2>2. /\ th'[t].kind = th[t].kind /\ th'[t].subs = th[t].subs
        /\ \/ th'[t].pc = "connect" /\ th'[t].tries = r
           \/ th'[t].pc = "content"
    BY <1>1, <1>10, ZenonT(60) DEF Probe, ThreadState
  <2> QED
    BY <1>8, <2>1, <2>2, AheadIs
<1>11. ASSUME Begin(t) PROVE Distance(t)' < Distance(t)
  <2>1. th[t].pc = "begin"
    BY <1>11 DEF Begin
  <2>2. th'[t].kind = th[t].kind /\ th'[t].subs = th[t].subs /\ th'[t].pc = "content"
    BY <1>1, <1>11 DEF Begin, ThreadState
  <2> QED
    BY <1>8, <2>1, <2>2, AheadIs
<1>12. ASSUME Output(t) PROVE Distance(t)' < Distance(t)
  <2>1. th[t].pc = "content"
    BY <1>12 DEF Output
  <2>2. th'[t].kind = th[t].kind /\ th'[t].subs = th[t].subs /\ th'[t].pc = "log"
    BY <1>1, <1>12 DEF Output, ThreadState
  <2> QED
    BY <1>8, <2>1, <2>2, AheadIs
<1>13. ASSUME LeaveHook(t) PROVE Distance(t)' < Distance(t)
  <2>1. th'[t].pc = "idle"
    BY <1>13, HookEnds
  <2> QED
    BY <1>1, <1>4, <1>5, <2>1
<1>14. th'[t] # th[t] => Arrive(t) \/ ThreadStep(t)
  BY MovedByItself
<1> QED
  BY <1>5, <1>6, <1>7, <1>s, <1>9, <1>10, <1>11, <1>12, <1>13, <1>14 DEF ThreadStep

\* A thread that has a request is at most eleven steps of its own, and five for each
\* subrequest, away from the end of the log hook, and each of them brings it nearer,
\* whatever the daemon, the parent and the other threads do: a refused connection is
\* tried once more, and a request it was redirected to is not redirected again
\* (connect_to_daemon, performance_module_handler).
THEOREM NearsEnd == Spec => [][NearsItsEnd]_vars
<1>1. Init => Tried
  BY DEF Init, IdleThread, Tried
<1>2. Inv => TypeOK
  BY DEF Inv
<1> QED
  BY <1>1, <1>2, TriedStep, NearsStep, WorkerInvariant, PTL DEF Spec
==============================================================================
