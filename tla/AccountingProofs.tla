-------------------------- MODULE AccountingProofs --------------------------
(***************************************************************************)
(* For any workers, requests and descriptors: the types of Accounting, and *)
(* that a row pairs the BEGIN and the END of one request unless one of two *)
(* was overtaken, that there is one row of a request, that only a remove   *)
(* item or an overtaking loses one, and that once all is dealt with no     *)
(* entry of a finished request is left.                                    *)
(***************************************************************************)
EXTENDS Accounting, WellFoundedInduction, FiniteSetTheorems, TLAPS

-----------------------------------------------------------------------------
(* The invariant.                                                          *)

\* The messages in the order in which they will be handled: the two lists are
\* one queue.
Queue == IF cpc = "list1" THEN list1 \o list2 ELSE list2 \o list1

Entries == [req : Requests, fd : Fds]
Result  == [begin : Requests, end : Requests]

\* Types, as the proofs use them.
Types ==
  /\ slot \in [Requests -> Slots] /\ got \in [Requests -> Commands \cup {"none"}]
  /\ fdOf \in [Requests -> Fds \cup {0}]
  /\ dead \in SUBSET Mortal /\ hanging \in Requests \cup {NoReq}
  /\ list1 \in Seq(Messages) /\ list2 \in Seq(Messages)
  /\ rem1 \in Seq(Fds) /\ rem2 \in Seq(Fds)
  /\ cpc \in {"idle", "list1", "list2", "rem1", "rem2"}
  /\ tids \in Seq(Entries) /\ counters \in Seq(Result)
  /\ DOMAIN db \in SUBSET Result
  /\ overtaken \in SUBSET Requests
  /\ ended \in SUBSET Requests /\ removed \in SUBSET Requests

\* A connection that was accepted has a descriptor.
HasFd == \A r \in Requests : slot[r] # "none" => fdOf[r] \in Fds

\* The connection being taken down was accepted.
Hangs == hanging # NoReq => slot[hanging] # "none"

\* list_2_ut is empty except while it may fill or is walked.
Drained == cpc \in {"idle", "rem1", "rem2"} => list2 = <<>>

\* The requests with a message in the queue, with this one, with an entry.
Queued(q, what, r) == \E i \in 1..Len(q) : q[i].command = what /\ q[i].req = r
Waits(q, r)        == \E i \in 1..Len(q) : q[i].req = r
In(t)              == {t[k].req : k \in 1..Len(t)}

\* END may come; BEGIN was handled.
Coming(s, g, r)  == s[r] = "open" /\ g[r] # "end"
Handled(q, g, r) == g[r] # "none" /\ ~Queued(q, "begin", r)

\* Connections are accepted in order, and read from when they are.
Backlog(s)   == \A a, b \in Requests : Earlier(a, b) /\ s[b] # "none" => s[a] # "none"
Opened(s, g) == \A r \in Requests : g[r] # "none" => s[r] # "none"

\* What is queued was read, BEGIN before END.
WasRead(q, g) == \A i \in 1..Len(q) :
  g[q[i].req] \in IF q[i].command = "begin" THEN {"begin", "end"} ELSE {"end"}
Ordered(q) == \A i, j \in 1..Len(q) :
  i < j /\ q[i].req = q[j].req => q[i].command = "begin" /\ q[j].command = "end"

\* A request is overtaken if something of it is still to be read when a later
\* one was begun, or waits behind its BEGIN, or waits or has an entry when that
\* was handled.
Behind(s, g, o) == \A a, b \in Requests :
  Earlier(a, b) /\ Coming(s, g, a) /\ g[b] # "none" => a \in o
Passed(q, o) == \A i, j \in 1..Len(q) :
  i < j /\ q[i].command = "begin" /\ Earlier(q[j].req, q[i].req) => q[j].req \in o
Past(q, g, E, o) == \A a, b \in Requests :
  Earlier(a, b) /\ Handled(q, g, b) /\ (Waits(q, a) \/ a \in E) => a \in o

\* A worker has one entry, made by a BEGIN that was handled.
OneEach(E)       == \A x, y \in E : x[1] = y[1] => x = y
Entered(q, g, E) == \A x \in E : Handled(q, g, x)

\* A request whose BEGIN was handled and whose END is still to come or to be
\* handled has its entry, unless it lost it.
DisturbedIn(o, r) == \E s \in o : s = r \/ Earlier(s, r)
Ready(q, s, g, E, o, rm) ==
  \A r \in Requests : Handled(q, g, r) /\ (Coming(s, g, r) \/ Queued(q, "end", r)) =>
    r \in E \/ r \in rm \/ DisturbedIn(o, r)

\* END waits or was handled, and then nothing of the request is left.
EndIn(q, g, e)   == \A r \in Requests : g[r] = "end" => Queued(q, "end", r) \/ r \in e
Done(q, g, E, e) == \A r \in e : g[r] = "end" /\ ~Waits(q, r) /\ r \notin E

LineInv(q, s, g, E, o, rm, e) ==
  /\ Backlog(s) /\ Opened(s, g) /\ WasRead(q, g) /\ Ordered(q)
  /\ Behind(s, g, o) /\ Passed(q, o) /\ Past(q, g, E, o)
  /\ OneEach(E) /\ Entered(q, g, E) /\ Ready(q, s, g, E, o, rm)
  /\ EndIn(q, g, e) /\ Done(q, g, E, e)

\* A worker's entry is in the table once.
OneEntry(t) == \A k, l \in 1..Len(t) : t[k].req[1] = t[l].req[1] => k = l

\* The rows made so far, in the table and in the database.
MixedIn(o, a, b) == Earlier(a, b) /\ a \in o
Paired(o, x)     == x.begin = x.end \/ MixedIn(o, x.begin, x.end) \/ MixedIn(o, x.end, x.begin)
RowsInv ==
  /\ \A x \in Range(counters) \cup DOMAIN db : Paired(overtaken, x) /\ x.end \in ended
  /\ \A k, l \in 1..Len(counters) : counters[k] = counters[l] => k = l
  /\ Range(counters) \cap DOMAIN db = {}
  /\ \A x \in DOMAIN db : db[x] = 1
  /\ \A r \in ended : \/ r \in removed \/ DisturbedIn(overtaken, r)
                      \/ \E x \in Range(counters) \cup DOMAIN db : x.end = r

Inv == /\ Types /\ HasFd /\ Hangs /\ Drained /\ OneEntry(tids)
       /\ LineInv(Queue, slot, got, In(tids), overtaken, removed, ended) /\ RowsInv

-----------------------------------------------------------------------------
(* Numbers, sequences, requests.                                           *)

Less == {p \in Nat \X Nat : p[1] < p[2]}

\* A set of numbers has a least one.
LEMMA MinOf ==
  ASSUME NEW S \in SUBSET Nat, S # {}
  PROVE  Min(S) \in S
<1>1. Less = OpToRel(<, Nat)
  BY Zenon DEF OpToRel, Less
<1>2. IsWellFoundedOn(Less, Nat)
  BY <1>1, NatLessThanWellFounded, Zenon
<1>3. PICK x \in S : \A y \in S : ~ (<<y, x>> \in Less)
  BY <1>2, WFMin
<1>4. \A y \in Nat, z \in Nat : y < z => <<y, z>> \in Less
  BY DEF Less
<1>5. \A y \in S : ~ (y < x)
  BY <1>3, <1>4
<1>6. \A y \in S : x <= y
  BY <1>5
<1> QED
  BY <1>6 DEF Min

\* What is appended comes last.
LEMMA Appended ==
  ASSUME NEW S, NEW s \in Seq(S), NEW x \in S
  PROVE  /\ Append(s, x) \in Seq(S) /\ Len(Append(s, x)) = Len(s) + 1 /\ Len(s) \in Nat
         /\ \A i \in 1..Len(s) : Append(s, x)[i] = s[i]
         /\ Append(s, x)[Len(s) + 1] = x
         /\ \A i \in 1..Len(Append(s, x)) : i \in 1..Len(s) \/ i = Len(s) + 1
OBVIOUS

\* The rest of a queue.
LEMMA Rest ==
  ASSUME NEW S, NEW s \in Seq(S), s # <<>>
  PROVE  /\ Tail(s) \in Seq(S) /\ Head(s) \in S /\ Head(s) = s[1] /\ 1 \in 1..Len(s)
         /\ \A i \in 1..Len(Tail(s)) : i + 1 \in 1..Len(s) /\ Tail(s)[i] = s[i + 1]
         /\ \A i \in 1..Len(s) : i = 1 \/ (i - 1 \in 1..Len(Tail(s)) /\ s[i] = Tail(s)[i - 1])
OBVIOUS

\* Where the elements go when one is removed.
LEMMA Removed ==
  ASSUME NEW S, NEW s \in Seq(S), NEW k \in 1..Len(s)
  PROVE  /\ RemoveAt(s, k) \in Seq(S) /\ Len(RemoveAt(s, k)) = Len(s) - 1 /\ Len(s) \in Nat
         /\ \A i \in 1..(Len(s) - 1) :
              RemoveAt(s, k)[i] = IF i < k THEN s[i] ELSE s[i + 1]
<1> DEFINE a == SubSeq(s, 1, k - 1)
           b == SubSeq(s, k + 1, Len(s))
<1>1. a \in Seq(S) /\ Len(a) = k - 1 /\ \A i \in 1..(k - 1) : a[i] = s[i]
  OBVIOUS
<1>2. b \in Seq(S) /\ Len(b) = Len(s) - k /\ \A i \in 1..(Len(s) - k) : b[i] = s[k + i]
  OBVIOUS
<1>3. RemoveAt(s, k) = a \o b
  BY DEF RemoveAt
<1>4. Len(s) \in Nat /\ k \in Nat /\ k <= Len(s)
  OBVIOUS
<1> HIDE DEF a, b
<1>5. a \o b \in Seq(S) /\ Len(a \o b) = Len(s) - 1
  BY <1>1, <1>2, <1>4
<1>6. \A i \in 1..(Len(s) - 1) : (a \o b)[i] = IF i < k THEN a[i] ELSE b[i - (k - 1)]
  BY <1>1, <1>2, <1>4
<1>7. ASSUME NEW i \in 1..(Len(s) - 1)
      PROVE  (a \o b)[i] = IF i < k THEN s[i] ELSE s[i + 1]
  <2>1. CASE i < k
    BY <1>1, <1>4, <1>6, <2>1
  <2>2. CASE ~(i < k)
    <3>1. i - (k - 1) \in 1..(Len(s) - k) /\ k + (i - (k - 1)) = i + 1
      BY <1>4, <2>2
    <3> QED
      BY <1>2, <1>6, <2>2, <3>1
  <2> QED
    BY <2>1, <2>2
<1> QED
  BY <1>3, <1>4, <1>5, <1>7

LEMMA RemovedIn ==
  ASSUME NEW S, NEW s \in Seq(S), NEW k \in 1..Len(s)
  PROVE  /\ \A i \in 1..Len(RemoveAt(s, k)) : \E j \in 1..Len(s) : j # k /\ RemoveAt(s, k)[i] = s[j]
         /\ \A j \in 1..Len(s) : j # k => \E i \in 1..Len(RemoveAt(s, k)) : RemoveAt(s, k)[i] = s[j]
<1> DEFINE t == RemoveAt(s, k)
<1>1. /\ Len(t) = Len(s) - 1 /\ Len(s) \in Nat /\ k \in Nat /\ k <= Len(s) /\ 1 <= k
      /\ \A i \in 1..(Len(s) - 1) : t[i] = IF i < k THEN s[i] ELSE s[i + 1]
  <2>1. /\ Len(t) = Len(s) - 1
        /\ \A i \in 1..(Len(s) - 1) : t[i] = IF i < k THEN s[i] ELSE s[i + 1]
    BY Removed, Zenon
  <2>2. Len(s) \in Nat /\ k \in Nat /\ k <= Len(s) /\ 1 <= k
    OBVIOUS
  <2> QED
    BY <2>1, <2>2
<1> HIDE DEF t
<1>2. ASSUME NEW i \in 1..Len(t) PROVE \E j \in 1..Len(s) : j # k /\ t[i] = s[j]
  <2>1. CASE i < k
    BY <1>1, <2>1
  <2>2. CASE ~(i < k)
    <3>1. i + 1 \in 1..Len(s) /\ i + 1 # k /\ t[i] = s[i + 1]
      BY <1>1, <2>2
    <3> QED
      BY <3>1
  <2> QED
    BY <2>1, <2>2
<1>3. ASSUME NEW j \in 1..Len(s), j # k PROVE \E i \in 1..Len(t) : t[i] = s[j]
  <2>1. CASE j < k
    BY <1>1, <2>1
  <2>2. CASE ~(j < k)
    <3>1. j - 1 \in 1..Len(t) /\ t[j - 1] = s[j]
      BY <1>1, <1>3, <2>2
    <3> QED
      BY <3>1
  <2> QED
    BY <2>1, <2>2
<1> QED
  BY <1>2, <1>3 DEF t

\* A request is its worker and its number, and its tid is the worker's own.
LEMMA ReqFacts ==
  /\ \A r \in Requests : r[1] \in Workers /\ r[2] \in Nat
  /\ \A r, s \in Requests : r[1] = s[1] /\ r[2] = s[2] => r = s
  /\ \A r, s \in Requests : Tid(r) = Tid(s) <=> r[1] = s[1]
<1>1. ASSUME NEW r \in Requests
      PROVE  r[1] \in Workers /\ r[2] \in Nat /\ r = <<r[1], r[2]>>
  <2>1. PICK w \in Workers : r \in {w} \X (1..Quota[w])
    BY DEF Requests
  <2> QED
    BY <2>1
<1>2. \A r, s \in Requests : r[1] = s[1] /\ r[2] = s[2] => r = s
  <2> SUFFICES ASSUME NEW r \in Requests, NEW s \in Requests, r[1] = s[1], r[2] = s[2]
               PROVE  r = s
    OBVIOUS
  <2>1. r = <<r[1], r[2]>> /\ s = <<s[1], s[2]>>
    BY <1>1
  <2> QED
    BY <2>1
<1>3. \A r, s \in Requests : Tid(r) = Tid(s) <=> r[1] = s[1]
  BY <1>1, AccountingAssumption DEF AccountingAssumption, Tid, IsInjective
<1> QED
  BY <1>1, <1>2, <1>3

\* A worker's requests are in line.
LEMMA Lined ==
  /\ \A a, b \in Requests : a[1] = b[1] => a = b \/ Earlier(a, b) \/ Earlier(b, a)
  /\ \A a, b : Earlier(a, b) => a[1] = b[1]
  /\ \A a \in Requests : ~Earlier(a, a)
<1>1. ASSUME NEW a \in Requests, NEW b \in Requests, a[1] = b[1]
      PROVE  a = b \/ Earlier(a, b) \/ Earlier(b, a)
  <2>1. a[2] \in Nat /\ b[2] \in Nat /\ (a[2] = b[2] => a = b)
    BY <1>1, ReqFacts
  <2> QED
    BY <1>1, <2>1 DEF Earlier
<1>2. \A a \in Requests : ~Earlier(a, a)
  BY ReqFacts DEF Earlier
<1> QED
  BY <1>1, <1>2 DEF Earlier

LEMMA MessageFacts ==
  \A m \in Messages : m.req \in Requests /\ m.command \in {"begin", "end"} /\ m.fd \in Fds
BY DEF Messages, Commands

\* Which messages wait after a push and after a turn of the walk.
LEMMA QueuedAppend ==
  ASSUME NEW q \in Seq(Messages), NEW m \in Messages, NEW what, NEW r
  PROVE  Queued(Append(q, m), what, r) <=>
           Queued(q, what, r) \/ (m.command = what /\ m.req = r)
BY Appended DEF Queued

LEMMA WaitsAppend ==
  ASSUME NEW q \in Seq(Messages), NEW m \in Messages, NEW r
  PROVE  Waits(Append(q, m), r) <=> Waits(q, r) \/ m.req = r
BY Appended DEF Waits

LEMMA QueuedTail ==
  ASSUME NEW q \in Seq(Messages), q # <<>>, NEW what, NEW r
  PROVE  /\ Queued(Tail(q), what, r) => Queued(q, what, r)
         /\ Queued(q, what, r) =>
              Queued(Tail(q), what, r) \/ (Head(q).command = what /\ Head(q).req = r)
<1>1. ASSUME Queued(Tail(q), what, r) PROVE Queued(q, what, r)
  BY <1>1, Rest DEF Queued
<1>2. ASSUME Queued(q, what, r)
      PROVE  Queued(Tail(q), what, r) \/ (Head(q).command = what /\ Head(q).req = r)
  <2>1. PICK i \in 1..Len(q) : q[i].command = what /\ q[i].req = r
    BY <1>2 DEF Queued
  <2>2. CASE i = 1
    BY <2>1, <2>2, Rest
  <2>3. CASE i # 1
    <3>1. i - 1 \in 1..Len(Tail(q)) /\ Tail(q)[i - 1] = q[i]
      BY <2>3, Rest
    <3> QED
      BY <2>1, <3>1 DEF Queued
  <2> QED
    BY <2>2, <2>3
<1> QED
  BY <1>1, <1>2

LEMMA WaitsTail ==
  ASSUME NEW q \in Seq(Messages), q # <<>>
  PROVE  Waits(q, Head(q).req) /\ \A r : Waits(Tail(q), r) => Waits(q, r)
BY Rest DEF Waits

\* A table from which an entry is removed has no second entry of a worker.
LEMMA OneEntryRemoved ==
  ASSUME NEW t \in Seq(Entries), OneEntry(t), NEW k \in 1..Len(t)
  PROVE  OneEntry(RemoveAt(t, k))
<1> DEFINE u == RemoveAt(t, k)
           f(i) == IF i < k THEN i ELSE i + 1
<1>1. /\ Len(u) = Len(t) - 1 /\ Len(t) \in Nat /\ k \in Nat
      /\ \A i \in 1..(Len(t) - 1) : u[i] = IF i < k THEN t[i] ELSE t[i + 1]
  <2>1. /\ Len(u) = Len(t) - 1
        /\ \A i \in 1..(Len(t) - 1) : u[i] = IF i < k THEN t[i] ELSE t[i + 1]
    BY Removed, Zenon
  <2>2. Len(t) \in Nat /\ k \in Nat
    OBVIOUS
  <2> QED
    BY <2>1, <2>2
<1> HIDE DEF u
<1>2. \A i \in 1..Len(u) : f(i) \in 1..Len(t) /\ u[i] = t[f(i)]
  BY <1>1
<1>3. \A i, j \in 1..Len(u) : f(i) = f(j) => i = j
  BY <1>1
<1> HIDE DEF f
<1>4. OneEntry(u)
  BY <1>2, <1>3 DEF OneEntry
<1> QED
  BY <1>4 DEF u

\* The table after remove_tid_pid_data_ut or remove_pid_tid_data_fd_ut.
LEMMA TableRemoved ==
  ASSUME NEW t \in Seq(Entries), OneEntry(t), NEW n \in 1..Len(t)
  PROVE  /\ RemoveAt(t, n) \in Seq(Entries) /\ OneEntry(RemoveAt(t, n))
         /\ In(RemoveAt(t, n)) = In(t) \ {t[n].req}
<1> DEFINE u == RemoveAt(t, n)
<1>1. u \in Seq(Entries) /\ OneEntry(u)
  BY Removed, OneEntryRemoved
<1>2. /\ \A i \in 1..Len(u) : \E j \in 1..Len(t) : j # n /\ u[i] = t[j]
      /\ \A j \in 1..Len(t) : j # n => \E i \in 1..Len(u) : u[i] = t[j]
  BY RemovedIn
<1>3. \A j \in 1..Len(t) : t[j].req = t[n].req => j = n
  BY DEF OneEntry
<1> HIDE DEF u
<1>4. In(u) = In(t) \ {t[n].req}
  <2>1. ASSUME NEW i \in 1..Len(u) PROVE u[i].req \in In(t) \ {t[n].req}
    <3>1. PICK j \in 1..Len(t) : j # n /\ u[i] = t[j]
      BY <1>2
    <3>2. t[j].req # t[n].req
      BY <1>3, <3>1
    <3> QED
      BY <3>1, <3>2 DEF In
  <2>2. ASSUME NEW j \in 1..Len(t), t[j].req # t[n].req PROVE t[j].req \in In(u)
    <3>1. PICK i \in 1..Len(u) : u[i] = t[j]
      BY <1>2, <2>2
    <3> QED
      BY <3>1 DEF In
  <2> QED
    BY <2>1, <2>2 DEF In
<1> QED
  BY <1>1, <1>4 DEF u

\* What add_new_pid_tid_data_ut makes of the table.
Put(t, m) ==
  LET old == {k \in 1..Len(t) : Tid(t[k].req) = Tid(m.req)} IN
    IF old = {} THEN Append(t, [req |-> m.req, fd |-> m.fd])
    ELSE [t EXCEPT ![Min(old)] = [req |-> m.req, fd |-> m.fd]]

\* What get_tid_pid_data_ut finds for a message.
Found(t, m) == {k \in 1..Len(t) : Tid(t[k].req) = Tid(m.req)}

LEMMA TableType ==
  ASSUME NEW t \in Seq(Entries)
  PROVE  /\ Len(t) \in Nat /\ In(t) \in SUBSET Requests
         /\ \A k \in 1..Len(t) : t[k] \in Entries /\ t[k].req \in Requests /\ t[k].fd \in Fds
<1>1. \A x \in Entries : x.req \in Requests /\ x.fd \in Fds
  BY DEF Entries
<1>2. Len(t) \in Nat /\ \A k \in 1..Len(t) : t[k] \in Entries
  OBVIOUS
<1> QED
  BY <1>1, <1>2 DEF In

LEMMA FoundFacts ==
  ASSUME NEW t \in Seq(Entries), NEW m \in Messages
  PROVE  /\ \A k \in 1..Len(t) : t[k].req[1] = m.req[1] <=> k \in Found(t, m)
         /\ Found(t, m) # {} => Min(Found(t, m)) \in 1..Len(t) /\ Min(Found(t, m)) \in Found(t, m)
         /\ Found(t, m) = {} => \A x \in In(t) : x[1] # m.req[1]
<1>1. \A k \in 1..Len(t) : t[k].req[1] = m.req[1] <=> k \in Found(t, m)
  BY TableType, MessageFacts, ReqFacts DEF Found
<1>2. Found(t, m) \in SUBSET Nat /\ Found(t, m) \in SUBSET (1..Len(t))
  BY DEF Found
<1>3. Found(t, m) # {} => Min(Found(t, m)) \in Found(t, m)
  BY <1>2, MinOf
<1>4. Found(t, m) = {} => \A x \in In(t) : x[1] # m.req[1]
  BY <1>1 DEF In
<1> QED
  BY <1>1, <1>2, <1>3, <1>4

LEMMA PutFacts ==
  ASSUME NEW t \in Seq(Entries), NEW m \in Messages, OneEntry(t)
  PROVE  /\ Put(t, m) \in Seq(Entries) /\ OneEntry(Put(t, m))
         /\ In(Put(t, m)) = {x \in In(t) : x[1] # m.req[1]} \cup {m.req}
<1> DEFINE r == m.req
           e == [req |-> m.req, fd |-> m.fd]
           old == Found(t, m)
           u == Put(t, m)
           n == Min(old)
<1>1. e \in Entries /\ e.req = r /\ r \in Requests
  BY MessageFacts DEF Entries
<1>2. /\ Len(t) \in Nat /\ \A k \in 1..Len(t) : t[k] \in Entries
      /\ \A k \in 1..Len(t) : t[k].req[1] = r[1] <=> k \in old
      /\ old # {} => n \in 1..Len(t) /\ n \in old
  BY TableType, FoundFacts
<1>4. u = IF old = {} THEN Append(t, e) ELSE [t EXCEPT ![n] = e]
  BY DEF Put, Found
<1> HIDE DEF u, old, e, r, n
<1>5. CASE old = {}
  <2>1. /\ u \in Seq(Entries) /\ Len(u) = Len(t) + 1 /\ u[Len(t) + 1] = e
        /\ \A k \in 1..Len(t) : u[k] = t[k] /\ t[k].req[1] # r[1]
        /\ \A k \in 1..Len(u) : k \in 1..Len(t) \/ k = Len(t) + 1
    BY <1>1, <1>2, <1>4, <1>5, Appended
  <2>2. Len(t) + 1 \in 1..Len(u) /\ \A k \in 1..Len(t) : k \in 1..Len(u)
    BY <1>2, <2>1
  <2>3. OneEntry(u)
    BY <1>1, <2>1 DEF OneEntry
  <2>4. In(u) = {x \in In(t) : x[1] # r[1]} \cup {r}
    <3>1. ASSUME NEW k \in 1..Len(u) PROVE u[k].req \in {x \in In(t) : x[1] # r[1]} \cup {r}
      BY <1>1, <2>1 DEF In
    <3>2. r \in In(u)
      BY <1>1, <2>1, <2>2 DEF In
    <3>3. ASSUME NEW k \in 1..Len(t) PROVE t[k].req \in In(u)
      <4>1. k \in 1..Len(u) /\ u[k] = t[k]
        BY <2>1, <2>2
      <4> QED
        BY <4>1 DEF In
    <3> QED
      BY <3>1, <3>2, <3>3 DEF In
  <2> QED
    BY <2>1, <2>3, <2>4 DEF u, r
<1>6. CASE old # {}
  <2>1. n \in 1..Len(t) /\ t[n].req[1] = r[1]
    BY <1>2, <1>6
  <2>2. u = [t EXCEPT ![n] = e]
    BY <1>4, <1>6
  <2>3. /\ u \in Seq(Entries) /\ Len(u) = Len(t)
        /\ \A k \in 1..Len(t) : u[k] = IF k = n THEN e ELSE t[k]
    BY <1>1, <2>1, <2>2
  <2>4. \A k \in 1..Len(t) : u[k].req[1] = t[k].req[1]
    BY <1>1, <2>1, <2>3
  <2>5. OneEntry(u)
    BY <2>3, <2>4 DEF OneEntry
  <2>6. \A k \in 1..Len(t) : t[k].req[1] = r[1] => k = n
    BY <2>1 DEF OneEntry
  <2>7. In(u) = {x \in In(t) : x[1] # r[1]} \cup {r}
    <3>1. ASSUME NEW k \in 1..Len(u) PROVE u[k].req \in {x \in In(t) : x[1] # r[1]} \cup {r}
      <4>1. CASE k = n
        BY <1>1, <2>1, <2>3, <4>1
      <4>2. CASE k # n
        <5>1. u[k] = t[k] /\ t[k].req[1] # r[1] /\ k \in 1..Len(t)
          BY <2>3, <2>6, <4>2
        <5> QED
          BY <5>1 DEF In
      <4> QED
        BY <4>1, <4>2
    <3>2. r \in In(u)
      BY <1>1, <2>1, <2>3 DEF In
    <3>3. ASSUME NEW k \in 1..Len(t), t[k].req[1] # r[1] PROVE t[k].req \in In(u)
      <4>1. k \in 1..Len(u) /\ u[k] = t[k]
        BY <2>1, <2>3, <3>3
      <4> QED
        BY <4>1 DEF In
    <3> QED
      BY <3>1, <3>2, <3>3, SMTT(30) DEF In
  <2> QED
    BY <2>3, <2>5, <2>7 DEF u, r
<1> QED
  BY <1>5, <1>6

-----------------------------------------------------------------------------
(* The line of each worker: connections, queue, entries, ended.            *)

\* Slots change, but none is opened.
LEMMA LineSlots ==
  ASSUME NEW q \in Seq(Messages), NEW s, NEW z, NEW g, NEW E, NEW o, NEW rm, NEW e,
         LineInv(q, s, g, E, o, rm, e),
         \A r \in Requests : /\ z[r] = "open" => s[r] = "open"
                             /\ z[r] = "none" <=> s[r] = "none"
  PROVE  LineInv(q, z, g, E, o, rm, e)
<1>1. Backlog(z) /\ Opened(z, g)
  BY DEF LineInv, Backlog, Opened
<1>2. Behind(z, g, o)
  BY DEF LineInv, Behind, Coming
<1>3. Ready(q, z, g, E, o, rm)
  BY DEF LineInv, Ready, Coming
<1> QED
  BY <1>1, <1>2, <1>3 DEF LineInv

\* A connection is accepted when all that the worker opened before it were.
LEMMA LineAccept ==
  ASSUME NEW q \in Seq(Messages), NEW s \in [Requests -> Slots], NEW g, NEW E, NEW o,
         NEW rm, NEW e, LineInv(q, s, g, E, o, rm, e),
         NEW r \in Requests, s[r] = "none",
         \A a \in Requests : Earlier(a, r) => s[a] # "none"
  PROVE  LineInv(q, [s EXCEPT ![r] = "open"], g, E, o, rm, e)
<1> DEFINE z == [s EXCEPT ![r] = "open"]
<1>1. \A a \in Requests : z[a] = IF a = r THEN "open" ELSE s[a]
  OBVIOUS
<1>2. g[r] = "none"
  BY DEF LineInv, Opened
<1> HIDE DEF z
<1>3. Backlog(z) /\ Opened(z, g)
  BY <1>1 DEF LineInv, Backlog, Opened
<1>4. Behind(z, g, o)
  <2> SUFFICES ASSUME NEW a \in Requests, NEW b \in Requests,
                      Earlier(a, b), Coming(z, g, a), g[b] # "none"
               PROVE  a \in o
    BY DEF Behind
  <2>1. s[b] # "none"
    BY DEF LineInv, Opened
  <2>2. a # r
    BY <2>1 DEF LineInv, Backlog
  <2> QED
    BY <1>1, <2>2 DEF LineInv, Behind, Coming
<1>5. Ready(q, z, g, E, o, rm)
  BY <1>1, <1>2 DEF LineInv, Ready, Coming, Handled
<1> QED
  BY <1>3, <1>4, <1>5 DEF LineInv, z

\* BEGIN is read and pushed.
LEMMA BeginPushed ==
  ASSUME NEW q \in Seq(Messages), NEW s, NEW g \in [Requests -> Commands \cup {"none"}],
         NEW E \in SUBSET Requests, NEW o \in SUBSET Requests, NEW rm, NEW e \in SUBSET Requests,
         LineInv(q, s, g, E, o, rm, e),
         NEW m \in Messages, m.command = "begin", s[m.req] = "open", g[m.req] = "none",
         NEW h, h = [g EXCEPT ![m.req] = "begin"],
         NEW n, n = o \cup {a \in Requests : Earlier(a, m.req) /\ s[a] = "open" /\ g[a] # "end"}
  PROVE  LineInv(Append(q, m), s, h, E, n, rm, e)
<1> DEFINE r == m.req
           p == Append(q, m)
<1>1. /\ r \in Requests /\ s[r] = "open" /\ g[r] = "none"
      /\ \A a \in Requests : h[a] = IF a = r THEN "begin" ELSE g[a]
  BY MessageFacts
<1>2. \A a \in Requests : a \in n <=> a \in o \/ (Earlier(a, r) /\ Coming(s, g, a))
  BY DEF Coming
<1>3. /\ \A what, a : Queued(p, what, a) <=> Queued(q, what, a) \/ (what = "begin" /\ a = r)
      /\ \A a : Waits(p, a) <=> Waits(q, a) \/ a = r
  BY QueuedAppend, WaitsAppend
<1>4. /\ Len(p) = Len(q) + 1 /\ Len(q) \in Nat /\ p[Len(q) + 1] = m
      /\ \A i \in 1..Len(q) : p[i] = q[i]
      /\ \A i \in 1..Len(p) : i \in 1..Len(q) \/ i = Len(q) + 1
  BY Appended
<1>5. m.req = r /\ m.command = "begin"
  OBVIOUS
<1>6. o \in SUBSET n
  OBVIOUS
<1> HIDE DEF r, p
<1>7. \A i \in 1..Len(q) : q[i].req \in Requests /\ g[q[i].req] # "none" /\ q[i].req # r
  BY <1>1, MessageFacts DEF LineInv, WasRead
<1>8. Backlog(s) /\ Opened(s, h)
  BY <1>1 DEF LineInv, Opened
<1>9. WasRead(p, h)
  <2>1. \A i \in 1..Len(q) : h[q[i].req] = g[q[i].req]
    BY <1>1, <1>7
  <2>2. h[r] = "begin"
    BY <1>1
  <2> QED
    BY <1>4, <1>5, <2>1, <2>2 DEF LineInv, WasRead
<1>10. Ordered(p)
  <2> SUFFICES ASSUME NEW i \in 1..Len(p), NEW j \in 1..Len(p), i < j, p[i].req = p[j].req
               PROVE  p[i].command = "begin" /\ p[j].command = "end"
    BY DEF Ordered
  <2>1. i \in 1..Len(q)
    BY <1>4
  <2>2. j \in 1..Len(q)
    BY <1>4, <1>5, <1>7, <2>1
  <2> QED
    BY <1>4, <2>1, <2>2 DEF LineInv, Ordered
<1>11. Behind(s, h, n)
  <2> SUFFICES ASSUME NEW a \in Requests, NEW b \in Requests,
                      Earlier(a, b), Coming(s, h, a), h[b] # "none"
               PROVE  a \in n
    BY DEF Behind
  <2>1. Coming(s, g, a)
    BY <1>1 DEF Coming
  <2> QED
    BY <1>1, <1>2, <2>1 DEF LineInv, Behind
<1>12. Passed(p, n)
  <2> SUFFICES ASSUME NEW i \in 1..Len(p), NEW j \in 1..Len(p), i < j,
                      p[i].command = "begin", Earlier(p[j].req, p[i].req)
               PROVE  p[j].req \in n
    BY DEF Passed
  <2>1. i \in 1..Len(q)
    BY <1>4
  <2>2. CASE j \in 1..Len(q)
    BY <1>4, <1>6, <2>1, <2>2 DEF LineInv, Passed
  <2>3. CASE j = Len(q) + 1
    <3>1. p[j].req = r /\ p[i] = q[i] /\ q[i].req \in Requests /\ g[q[i].req] # "none"
      BY <1>4, <1>5, <1>7, <2>1, <2>3
    <3>2. Coming(s, g, r)
      BY <1>1 DEF Coming
    <3> QED
      BY <1>1, <1>6, <3>1, <3>2 DEF LineInv, Behind
  <2> QED
    BY <1>4, <2>2, <2>3
<1>13. \A b \in Requests : Handled(p, h, b) => Handled(q, g, b) /\ b # r
  BY <1>1, <1>3 DEF Handled
<1>14. Past(p, h, E, n)
  <2> SUFFICES ASSUME NEW a \in Requests, NEW b \in Requests,
                      Earlier(a, b), Handled(p, h, b), Waits(p, a) \/ a \in E
               PROVE  a \in n
    BY DEF Past
  <2>1. Handled(q, g, b)
    BY <1>13
  <2>2. CASE Waits(q, a) \/ a \in E
    BY <1>6, <2>1, <2>2 DEF LineInv, Past
  <2>3. CASE a = r
    BY <1>1, <1>6, <2>1, <2>3 DEF LineInv, Behind, Coming, Handled
  <2> QED
    BY <1>3, <2>2, <2>3
<1>15. Entered(p, h, E)
  <2> SUFFICES ASSUME NEW x \in E PROVE Handled(p, h, x)
    BY DEF Entered
  <2>1. Handled(q, g, x) /\ x \in Requests
    BY DEF LineInv, Entered
  <2>2. x # r
    BY <1>1, <2>1 DEF Handled
  <2> QED
    BY <1>1, <1>3, <2>1, <2>2 DEF Handled
<1>16. Ready(p, s, h, E, n, rm)
  <2> SUFFICES ASSUME NEW a \in Requests, Handled(p, h, a),
                      Coming(s, h, a) \/ Queued(p, "end", a)
               PROVE  a \in E \/ a \in rm \/ DisturbedIn(n, a)
    BY DEF Ready
  <2>1. Handled(q, g, a) /\ (Coming(s, g, a) \/ Queued(q, "end", a))
    BY <1>1, <1>3, <1>13 DEF Coming
  <2> QED
    BY <1>6, <2>1 DEF LineInv, Ready, DisturbedIn
<1>17. EndIn(p, h, e) /\ Done(p, h, E, e)
  BY <1>1, <1>3 DEF LineInv, EndIn, Done
<1> QED
  BY <1>8, <1>9, <1>10, <1>11, <1>12, <1>14, <1>15, <1>16, <1>17 DEF LineInv, r, p

\* END is read and pushed.
LEMMA EndPushed ==
  ASSUME NEW q \in Seq(Messages), NEW s, NEW g \in [Requests -> Commands \cup {"none"}],
         NEW E \in SUBSET Requests, NEW o \in SUBSET Requests, NEW rm, NEW e \in SUBSET Requests,
         LineInv(q, s, g, E, o, rm, e),
         NEW m \in Messages, m.command = "end", s[m.req] = "open", g[m.req] = "begin"
  PROVE  LineInv(Append(q, m), s, [g EXCEPT ![m.req] = "end"], E, o, rm, e)
<1> DEFINE r == m.req
           h == [g EXCEPT ![r] = "end"]
           p == Append(q, m)
<1>1. /\ r \in Requests /\ s[r] = "open" /\ g[r] = "begin"
      /\ \A a \in Requests : h[a] = IF a = r THEN "end" ELSE g[a]
  BY MessageFacts
<1>3. /\ \A what, a : Queued(p, what, a) <=> Queued(q, what, a) \/ (what = "end" /\ a = r)
      /\ \A a : Waits(p, a) <=> Waits(q, a) \/ a = r
  BY QueuedAppend, WaitsAppend
<1>4. /\ Len(p) = Len(q) + 1 /\ Len(q) \in Nat /\ p[Len(q) + 1] = m
      /\ \A i \in 1..Len(q) : p[i] = q[i]
      /\ \A i \in 1..Len(p) : i \in 1..Len(q) \/ i = Len(q) + 1
  BY Appended
<1>5. m.req = r /\ m.command = "end"
  OBVIOUS
<1> HIDE DEF r, h, p
<1>6. Coming(s, g, r)
  BY <1>1 DEF Coming
<1>7. \A i \in 1..Len(q) : /\ q[i].req \in Requests /\ g[q[i].req] # "none"
                           /\ q[i].req = r => q[i].command = "begin"
  <2> SUFFICES ASSUME NEW i \in 1..Len(q)
               PROVE  /\ q[i].req \in Requests /\ g[q[i].req] # "none"
                      /\ q[i].req = r => q[i].command = "begin"
    OBVIOUS
  <2>1. q[i] \in Messages
    OBVIOUS
  <2>2. q[i].req \in Requests /\ q[i].command \in {"begin", "end"}
    BY <2>1, MessageFacts
  <2>3. g[q[i].req] \in IF q[i].command = "begin" THEN {"begin", "end"} ELSE {"end"}
    BY DEF LineInv, WasRead
  <2> QED
    BY <1>1, <2>2, <2>3
<1>8. Backlog(s) /\ Opened(s, h)
  BY <1>1 DEF LineInv, Opened
<1>9. WasRead(p, h)
  <2>1. ASSUME NEW i \in 1..Len(q)
        PROVE  h[q[i].req] \in IF q[i].command = "begin" THEN {"begin", "end"} ELSE {"end"}
    BY <1>1, <1>7, <2>1 DEF LineInv, WasRead
  <2>2. h[r] = "end"
    BY <1>1
  <2> QED
    BY <1>4, <1>5, <2>1, <2>2 DEF WasRead
<1>10. Ordered(p)
  <2> SUFFICES ASSUME NEW i \in 1..Len(p), NEW j \in 1..Len(p), i < j, p[i].req = p[j].req
               PROVE  p[i].command = "begin" /\ p[j].command = "end"
    BY DEF Ordered
  <2>1. i \in 1..Len(q)
    BY <1>4
  <2>2. CASE j \in 1..Len(q)
    BY <1>4, <2>1, <2>2 DEF LineInv, Ordered
  <2>3. CASE j = Len(q) + 1
    BY <1>4, <1>5, <1>7, <2>1, <2>3
  <2> QED
    BY <1>4, <2>2, <2>3
<1>11. Behind(s, h, o)
  BY <1>1 DEF LineInv, Behind, Coming
<1>12. Passed(p, o)
  <2> SUFFICES ASSUME NEW i \in 1..Len(p), NEW j \in 1..Len(p), i < j,
                      p[i].command = "begin", Earlier(p[j].req, p[i].req)
               PROVE  p[j].req \in o
    BY DEF Passed
  <2>1. i \in 1..Len(q)
    BY <1>4
  <2>2. CASE j \in 1..Len(q)
    BY <1>4, <2>1, <2>2 DEF LineInv, Passed
  <2>3. CASE j = Len(q) + 1
    <3>1. p[j].req = r /\ p[i] = q[i] /\ q[i].req \in Requests /\ g[q[i].req] # "none"
      BY <1>4, <1>5, <1>7, <2>1, <2>3
    <3> QED
      BY <1>1, <1>6, <3>1 DEF LineInv, Behind
  <2> QED
    BY <1>4, <2>2, <2>3
<1>13. \A b \in Requests : Handled(p, h, b) <=> Handled(q, g, b)
  BY <1>1, <1>3 DEF Handled
<1>14. Past(p, h, E, o)
  <2> SUFFICES ASSUME NEW a \in Requests, NEW b \in Requests,
                      Earlier(a, b), Handled(p, h, b), Waits(p, a) \/ a \in E
               PROVE  a \in o
    BY DEF Past
  <2>1. Handled(q, g, b)
    BY <1>13
  <2>2. CASE Waits(q, a) \/ a \in E
    BY <2>1, <2>2 DEF LineInv, Past
  <2>3. CASE a = r
    BY <1>6, <2>1, <2>3 DEF LineInv, Behind, Handled
  <2> QED
    BY <1>3, <2>2, <2>3
<1>15. Entered(p, h, E)
  BY <1>13 DEF LineInv, Entered
<1>16. Ready(p, s, h, E, o, rm)
  <2> SUFFICES ASSUME NEW a \in Requests, Handled(p, h, a),
                      Coming(s, h, a) \/ Queued(p, "end", a)
               PROVE  a \in E \/ a \in rm \/ DisturbedIn(o, a)
    BY DEF Ready
  <2>1. Handled(q, g, a) /\ (Coming(s, g, a) \/ Queued(q, "end", a))
    BY <1>1, <1>3, <1>6, <1>13 DEF Coming
  <2> QED
    BY <2>1 DEF LineInv, Ready
<1>17. EndIn(p, h, e)
  BY <1>1, <1>3 DEF LineInv, EndIn
<1>18. Done(p, h, E, e)
  BY <1>1, <1>3 DEF LineInv, Done
<1> QED
  BY <1>8, <1>9, <1>10, <1>11, <1>12, <1>14, <1>15, <1>16, <1>17, <1>18 DEF LineInv, r, h, p

\* The messages behind the first.
LEMMA LineRest ==
  ASSUME NEW q \in Seq(Messages), q # <<>>, NEW g, NEW o,
         WasRead(q, g), Ordered(q), Passed(q, o)
  PROVE  /\ WasRead(Tail(q), g) /\ Ordered(Tail(q)) /\ Passed(Tail(q), o)
         /\ g[Head(q).req] # "none"
         /\ Head(q).command = "end" => g[Head(q).req] = "end"
         /\ \A a : Waits(Tail(q), a) => /\ Head(q).command = "begin" /\ Earlier(a, Head(q).req) => a \in o
                                        /\ a = Head(q).req => Head(q).command = "begin"
         /\ ~Queued(Tail(q), "begin", Head(q).req)
<1> DEFINE p == Tail(q)
<1>1. /\ Head(q) = q[1] /\ 1 \in 1..Len(q) /\ Head(q) \in Messages
      /\ \A i \in 1..Len(p) : i + 1 \in 1..Len(q) /\ p[i] = q[i + 1] /\ 1 < i + 1
  BY Rest
<1>2. \A i, j \in 1..Len(p) : i < j => i + 1 < j + 1
  OBVIOUS
<1> HIDE DEF p
<1>3. WasRead(p, g)
  BY <1>1 DEF WasRead
<1>4. Ordered(p)
  BY <1>1, <1>2 DEF Ordered
<1>5. Passed(p, o)
  BY <1>1, <1>2 DEF Passed
<1>6. g[Head(q).req] # "none" /\ (Head(q).command = "end" => g[Head(q).req] = "end")
  BY <1>1, MessageFacts DEF WasRead
<1>7. ASSUME NEW i \in 1..Len(p)
      PROVE  /\ Head(q).command = "begin" /\ Earlier(p[i].req, Head(q).req) => p[i].req \in o
             /\ p[i].req = Head(q).req => Head(q).command = "begin" /\ p[i].command = "end"
  BY <1>1, <1>7 DEF Ordered, Passed
<1> QED
  BY <1>3, <1>4, <1>5, <1>6, <1>7 DEF p, Waits, Queued

\* The turn for a BEGIN: the worker's entry is this request's.
LEMMA BeginHandled ==
  ASSUME NEW q \in Seq(Messages), q # <<>>, NEW s, NEW g,
         NEW E \in SUBSET Requests, NEW o, NEW rm, NEW e \in SUBSET Requests,
         LineInv(q, s, g, E, o, rm, e), Head(q).command = "begin"
  PROVE  LineInv(Tail(q), s, g, {x \in E : x[1] # Head(q).req[1]} \cup {Head(q).req}, o, rm, e)
<1> DEFINE m == Head(q)
           r == m.req
           p == Tail(q)
           F == {x \in E : x[1] # r[1]} \cup {r}
<1>1. m \in Messages /\ r \in Requests /\ m.command = "begin"
  BY Rest, MessageFacts
<1>2. /\ \A what, a : /\ Queued(p, what, a) => Queued(q, what, a)
                      /\ Queued(q, what, a) => Queued(p, what, a) \/ (what = "begin" /\ a = r)
      /\ \A a : Waits(p, a) => Waits(q, a)
      /\ Waits(q, r)
  BY QueuedTail, WaitsTail
<1>3. /\ WasRead(p, g) /\ Ordered(p) /\ Passed(p, o) /\ g[r] # "none"
      /\ \A a : Waits(p, a) => (Earlier(a, r) => a \in o)
      /\ ~Queued(p, "begin", r)
  BY LineRest DEF LineInv
<1>4. F \in SUBSET Requests /\ \A x : x \in F <=> x = r \/ (x \in E /\ x[1] # r[1])
  BY <1>1
<1>q. Queued(q, "begin", r)
  BY <1>1, Rest DEF Queued
<1> HIDE DEF m, r, p, F
<1>5. \A b \in Requests : Handled(p, g, b) <=> Handled(q, g, b) \/ b = r
  BY <1>2, <1>3 DEF Handled
<1>6. Past(p, g, F, o)
  <2> SUFFICES ASSUME NEW a \in Requests, NEW b \in Requests,
                      Earlier(a, b), Handled(p, g, b), Waits(p, a) \/ a \in F
               PROVE  a \in o
    BY DEF Past
  <2>1. CASE b = r
    <3>1. Waits(p, a)
      BY <1>1, <1>4, <2>1, Lined
    <3> QED
      BY <1>3, <2>1, <3>1
  <2>2. CASE b # r
    <3>1. Handled(q, g, b) /\ (Waits(q, a) \/ a \in E)
      BY <1>2, <1>4, <1>5, <2>2
    <3> QED
      BY <3>1 DEF LineInv, Past
  <2> QED
    BY <2>1, <2>2
<1>7. OneEach(F)
  BY <1>4 DEF LineInv, OneEach
<1>8. Entered(p, g, F)
  <2>1. \A x \in E : x \in Requests /\ Handled(q, g, x)
    BY DEF LineInv, Entered
  <2> QED
    BY <1>1, <1>4, <1>5, <2>1 DEF Entered
<1>9. Ready(p, s, g, F, o, rm)
  <2> SUFFICES ASSUME NEW a \in Requests, Handled(p, g, a),
                      Coming(s, g, a) \/ Queued(p, "end", a)
               PROVE  a \in F \/ a \in rm \/ DisturbedIn(o, a)
    BY DEF Ready
  <2>1. CASE a = r
    BY <1>4, <2>1
  <2>2. CASE a # r
    <3>1. Handled(q, g, a) /\ (a \in E \/ a \in rm \/ DisturbedIn(o, a))
      BY <1>2, <1>5, <2>2 DEF LineInv, Ready
    <3>2. CASE a \in E /\ a[1] # r[1]
      BY <1>4, <3>2
    <3>3. CASE a \in E /\ a[1] = r[1]
      <4>1. CASE Earlier(a, r)
        <5>1. a \in o
          <6>1. CASE Coming(s, g, a)
            BY <1>1, <1>3, <4>1, <6>1 DEF LineInv, Behind
          <6>2. CASE Queued(p, "end", a)
            <7>1. Waits(p, a)
              BY <6>2 DEF Queued, Waits
            <7> QED
              BY <1>3, <4>1, <7>1
          <6> QED
            BY <6>1, <6>2
        <5> QED
          BY <5>1 DEF DisturbedIn
      <4>2. CASE Earlier(r, a)
        <5>1. r \in o
          BY <1>1, <1>2, <3>1, <4>2 DEF LineInv, Past
        <5> QED
          BY <4>2, <5>1 DEF DisturbedIn
      <4> QED
        BY <1>1, <2>2, <3>3, <4>1, <4>2, Lined
    <3> QED
      BY <3>1, <3>2, <3>3
  <2> QED
    BY <2>1, <2>2
<1>10. EndIn(p, g, e)
  BY <1>2 DEF LineInv, EndIn
<1>11. Done(p, g, F, e)
  <2>1. r \notin e
    BY <1>2 DEF LineInv, Done
  <2> QED
    BY <1>2, <1>4, <2>1 DEF LineInv, Done
<1> QED
  BY <1>3, <1>6, <1>7, <1>8, <1>9, <1>10, <1>11 DEF LineInv, m, r, p, F

\* The turn for an END: the worker's entry goes; if it is not the request's own,
\* or if there is none, a remove item or an overtaking is to blame.
LEMMA EndHandled ==
  ASSUME NEW q \in Seq(Messages), q # <<>>, NEW s, NEW g,
         NEW E \in SUBSET Requests, NEW o, NEW rm, NEW e \in SUBSET Requests,
         LineInv(q, s, g, E, o, rm, e), Head(q).command = "end"
  PROVE  /\ LineInv(Tail(q), s, g, {x \in E : x[1] # Head(q).req[1]}, o, rm, e \cup {Head(q).req})
         /\ Head(q).req \in Requests \ e
         /\ \A x \in E : x[1] = Head(q).req[1] =>
              x = Head(q).req \/ MixedIn(o, x, Head(q).req) \/ MixedIn(o, Head(q).req, x)
         /\ (\A x \in E : x[1] # Head(q).req[1]) =>
              Head(q).req \in rm \/ DisturbedIn(o, Head(q).req)
<1> DEFINE m == Head(q)
           r == m.req
           p == Tail(q)
           F == {x \in E : x[1] # r[1]}
           f == e \cup {r}
<1>1. m \in Messages /\ r \in Requests /\ m.command = "end"
  BY Rest, MessageFacts
<1>2. /\ \A what, a : /\ Queued(p, what, a) => Queued(q, what, a)
                      /\ Queued(q, what, a) => Queued(p, what, a) \/ (what = "end" /\ a = r)
      /\ \A a : Waits(p, a) => Waits(q, a)
      /\ Waits(q, r)
  BY QueuedTail, WaitsTail
<1>3. /\ WasRead(p, g) /\ Ordered(p) /\ Passed(p, o) /\ g[r] = "end" /\ ~Waits(p, r)
  BY <1>1, LineRest DEF LineInv
<1>4. Queued(q, "end", r)
  BY <1>1, Rest DEF Queued
<1>5. /\ \A x : x \in F <=> x \in E /\ x[1] # r[1]
      /\ \A x : x \in f <=> x \in e \/ x = r
  OBVIOUS
<1> HIDE DEF m, r, p, F, f
<1>6. \A what : ~Queued(p, what, r)
  BY <1>3 DEF Queued, Waits
<1>7. \A b \in Requests : Handled(p, g, b) <=> Handled(q, g, b)
  BY <1>2 DEF Handled
<1>8. Handled(q, g, r)
  BY <1>2, <1>3, <1>6 DEF Handled
<1>9. ASSUME NEW x \in E, x[1] = r[1]
      PROVE  x = r \/ MixedIn(o, x, r) \/ MixedIn(o, r, x)
  <2>1. x \in Requests /\ Handled(q, g, x)
    BY DEF LineInv, Entered
  <2>2. CASE Earlier(x, r)
    <3>1. x \in o
      BY <1>1, <1>8, <2>1, <2>2 DEF LineInv, Past
    <3> QED
      BY <2>2, <3>1 DEF MixedIn
  <2>3. CASE Earlier(r, x)
    <3>1. r \in o
      BY <1>1, <1>2, <2>1, <2>3 DEF LineInv, Past
    <3> QED
      BY <2>3, <3>1 DEF MixedIn
  <2> QED
    BY <1>1, <1>9, <2>1, <2>2, <2>3, Lined
<1>10. ASSUME \A x \in E : x[1] # r[1] PROVE r \in rm \/ DisturbedIn(o, r)
  <2>1. r \in E \/ r \in rm \/ DisturbedIn(o, r)
    BY <1>1, <1>4, <1>8 DEF LineInv, Ready
  <2> QED
    BY <1>10, <2>1
<1>11. Past(p, g, F, o)
  BY <1>2, <1>5, <1>7 DEF LineInv, Past
<1>12. OneEach(F) /\ Entered(p, g, F)
  <2>1. \A x \in E : x \in Requests
    OBVIOUS
  <2> QED
    BY <1>5, <1>7, <2>1 DEF LineInv, OneEach, Entered
<1>13. Ready(p, s, g, F, o, rm)
  <2> SUFFICES ASSUME NEW a \in Requests, Handled(p, g, a),
                      Coming(s, g, a) \/ Queued(p, "end", a)
               PROVE  a \in F \/ a \in rm \/ DisturbedIn(o, a)
    BY DEF Ready
  <2>1. a # r
    BY <1>3, <1>6 DEF Coming
  <2>2. a \in E \/ a \in rm \/ DisturbedIn(o, a)
    BY <1>2, <1>7 DEF LineInv, Ready
  <2>3. CASE a \in E /\ a[1] = r[1]
    <3>1. MixedIn(o, a, r) \/ MixedIn(o, r, a)
      BY <1>9, <2>1, <2>3
    <3> QED
      BY <3>1 DEF MixedIn, DisturbedIn
  <2> QED
    BY <1>5, <2>2, <2>3
<1>14. EndIn(p, g, f)
  BY <1>2, <1>5 DEF LineInv, EndIn
<1>15. Done(p, g, F, f)
  BY <1>2, <1>3, <1>5 DEF LineInv, Done
<1>16. r \notin e
  BY <1>2 DEF LineInv, Done
<1>17. LineInv(p, s, g, F, o, rm, f)
  BY <1>3, <1>11, <1>12, <1>13, <1>14, <1>15 DEF LineInv
<1> QED
  BY <1>1, <1>9, <1>10, <1>16, <1>17 DEF m, r, p, F, f

\* A remove item deletes an entry.
LEMMA EntryRemoved ==
  ASSUME NEW q, NEW s, NEW g, NEW E, NEW o, NEW rm, NEW e,
         LineInv(q, s, g, E, o, rm, e), NEW x
  PROVE  LineInv(q, s, g, E \ {x}, o, rm \cup {x}, e)
<1>1. Past(q, g, E \ {x}, o)
  BY DEF LineInv, Past
<1>2. OneEach(E \ {x}) /\ Entered(q, g, E \ {x}) /\ Done(q, g, E \ {x}, e)
  BY DEF LineInv, OneEach, Entered, Done
<1>3. Ready(q, s, g, E \ {x}, o, rm \cup {x})
  BY DEF LineInv, Ready
<1> QED
  BY <1>1, <1>2, <1>3 DEF LineInv

-----------------------------------------------------------------------------
(* The two lists as one queue.                                             *)

LEMMA ConcatFacts ==
  ASSUME NEW S, NEW s \in Seq(S), NEW t \in Seq(S)
  PROVE  /\ s \o t \in Seq(S) /\ s \o <<>> = s /\ <<>> \o s = s
         /\ \A x \in S : s \o Append(t, x) = Append(s \o t, x)
         /\ s # <<>> => /\ s \o t # <<>> /\ Head(s \o t) = Head(s)
                        /\ Tail(s \o t) = Tail(s) \o t
<1>1. s \o t \in Seq(S) /\ s \o <<>> = s /\ <<>> \o s = s
  OBVIOUS
<1>2. \A x \in S : s \o Append(t, x) = Append(s \o t, x)
  OBVIOUS
<1>3. ASSUME s # <<>> PROVE s \o t # <<>> /\ Head(s \o t) = Head(s) /\ Tail(s \o t) = Tail(s) \o t
  BY <1>3
<1> QED
  BY <1>1, <1>2, <1>3

LEMMA QueueType ==
  ASSUME Types PROVE Queue \in Seq(Messages)
<1>1. list1 \in Seq(Messages) /\ list2 \in Seq(Messages)
  BY DEF Types
<1> QED
  BY <1>1, ConcatFacts DEF Queue

\* A push goes to the end of the queue, whichever list takes it.
LEMMA QueuePush ==
  ASSUME Types, Drained, NEW m \in Messages, Push(m), cpc' = cpc
  PROVE  /\ Queue' = Append(Queue, m) /\ Drained'
         /\ list1' \in Seq(Messages) /\ list2' \in Seq(Messages)
<1>0. list1 \in Seq(Messages) /\ list2 \in Seq(Messages)
  BY DEF Types
<1>1. CASE cpc = "list1"
  <2>1. list2' = Append(list2, m) /\ list1' = list1
    BY <1>1 DEF Push
  <2>2. list1 \o Append(list2, m) = Append(list1 \o list2, m) /\ Append(list2, m) \in Seq(Messages)
    BY <1>0, ConcatFacts
  <2>3. Queue' = list1 \o Append(list2, m) /\ Queue = list1 \o list2
    BY <1>1, <2>1 DEF Queue
  <2> QED
    BY <1>0, <1>1, <2>1, <2>2, <2>3 DEF Drained
<1>2. CASE cpc # "list1"
  <2>1. list1' = Append(list1, m) /\ list2' = list2
    BY <1>2 DEF Push
  <2>2. list2 \o Append(list1, m) = Append(list2 \o list1, m) /\ Append(list1, m) \in Seq(Messages)
    BY <1>0, ConcatFacts
  <2>3. Queue' = list2 \o Append(list1, m) /\ Queue = list2 \o list1
    BY <1>2, <2>1 DEF Queue
  <2> QED
    BY <1>0, <1>2, <2>1, <2>2, <2>3 DEF Drained
<1> QED
  BY <1>1, <1>2

\* A turn of the walk takes the first message of the queue.
LEMMA QueueTurn ==
  ASSUME Types, Drained, cpc' = cpc,
         \/ cpc = "list1" /\ list1 # <<>> /\ list1' = Tail(list1) /\ list2' = list2
         \/ cpc = "list2" /\ list2 # <<>> /\ list2' = Tail(list2) /\ list1' = list1
  PROVE  /\ Queue # <<>> /\ Queue' = Tail(Queue) /\ Drained'
         /\ Head(Queue) = IF cpc = "list1" THEN Head(list1) ELSE Head(list2)
         /\ list1' \in Seq(Messages) /\ list2' \in Seq(Messages)
<1>0. list1 \in Seq(Messages) /\ list2 \in Seq(Messages)
  BY DEF Types
<1>1. CASE cpc = "list1"
  <2>1. list1 # <<>> /\ list1' = Tail(list1) /\ list2' = list2
    BY <1>1
  <2>2. /\ list1 \o list2 # <<>> /\ Head(list1 \o list2) = Head(list1)
        /\ Tail(list1 \o list2) = Tail(list1) \o list2 /\ Tail(list1) \in Seq(Messages)
    BY <1>0, <2>1, ConcatFacts
  <2>3. Queue' = Tail(list1) \o list2 /\ Queue = list1 \o list2
    BY <1>1, <2>1 DEF Queue
  <2> QED
    BY <1>0, <1>1, <2>1, <2>2, <2>3 DEF Drained
<1>2. CASE cpc = "list2"
  <2>1. list2 # <<>> /\ list2' = Tail(list2) /\ list1' = list1
    BY <1>2
  <2>2. /\ list2 \o list1 # <<>> /\ Head(list2 \o list1) = Head(list2)
        /\ Tail(list2 \o list1) = Tail(list2) \o list1 /\ Tail(list2) \in Seq(Messages)
    BY <1>0, <2>1, ConcatFacts
  <2>3. Queue' = Tail(list2) \o list1 /\ Queue = list2 \o list1
    BY <1>2, <2>1 DEF Queue
  <2> QED
    BY <1>0, <1>2, <2>1, <2>2, <2>3 DEF Drained
<1> QED
  BY <1>1, <1>2

\* Where the walk goes on to the next list the queue stays as it is.
LEMMA QueueKept ==
  ASSUME Types, Drained, list1' = list1, list2' = list2,
         \/ cpc' = cpc
         \/ cpc = "idle" /\ cpc' = "list1"
         \/ cpc = "list1" /\ list1 = <<>> /\ cpc' = "list2"
         \/ cpc = "list2" /\ list2 = <<>> /\ cpc' = "rem1"
         \/ cpc = "rem1" /\ cpc' = "rem2"
         \/ cpc = "rem2" /\ cpc' = "idle"
  PROVE  Queue' = Queue /\ Drained'
<1>0. /\ list1 \in Seq(Messages) /\ list2 \in Seq(Messages)
      /\ list1 \o <<>> = list1 /\ <<>> \o list1 = list1
      /\ list2 \o <<>> = list2 /\ <<>> \o list2 = list2
  <2>1. list1 \in Seq(Messages) /\ list2 \in Seq(Messages)
    BY DEF Types
  <2> QED
    BY <2>1, ConcatFacts
<1>1. Drained'
  BY DEF Drained
<1>2. CASE cpc' = cpc
  BY <1>1, <1>2 DEF Queue
<1>3. CASE cpc = "idle" /\ cpc' = "list1"
  BY <1>0, <1>1, <1>3 DEF Queue, Drained
<1>4. CASE cpc = "list1" /\ list1 = <<>> /\ cpc' = "list2"
  BY <1>0, <1>1, <1>4 DEF Queue
<1>5. CASE cpc \in {"list2", "rem1", "rem2"} /\ cpc' # "list1"
  BY <1>1, <1>5 DEF Queue
<1> QED
  BY <1>2, <1>3, <1>4, <1>5

-----------------------------------------------------------------------------
(* The steps.                                                              *)

LEMMA Initially == Init => Inv
<1> SUFFICES ASSUME Init PROVE Inv
  OBVIOUS
<1>1. Types
  BY DEF Init, Types, Slots, EmptyBag, SetToBag
<1>2. Queue = <<>> /\ In(tids) = {}
  BY ConcatFacts DEF Init, Queue, In
<1>3. LineInv(Queue, slot, got, In(tids), overtaken, removed, ended)
  <2>1. /\ Backlog(slot) /\ Opened(slot, got) /\ Behind(slot, got, overtaken)
        /\ \A r \in Requests : got[r] = "none"
    BY DEF Init, Backlog, Opened, Behind
  <2>2. /\ WasRead(Queue, got) /\ Ordered(Queue) /\ Passed(Queue, overtaken)
        /\ \A what, r : ~Queued(Queue, what, r)
    BY <1>2 DEF WasRead, Ordered, Passed, Queued
  <2>3. /\ Past(Queue, got, {}, overtaken) /\ OneEach({}) /\ Entered(Queue, got, {})
        /\ Ready(Queue, slot, got, {}, overtaken, removed)
    BY <2>1 DEF Past, OneEach, Entered, Ready, Handled
  <2>4. EndIn(Queue, got, ended) /\ Done(Queue, got, {}, ended)
    BY <2>1 DEF Init, EndIn, Done
  <2> QED
    BY <1>2, <2>1, <2>2, <2>3, <2>4 DEF LineInv
<1>4. RowsInv
  BY DEF Init, RowsInv, EmptyBag, SetToBag, Range
<1> QED
  BY <1>1, <1>3, <1>4 DEF Inv, Init, HasFd, Hangs, Drained, OneEntry

LEMMA Facts ==
  ASSUME Inv
  PROVE  /\ Types /\ HasFd /\ Hangs /\ Drained /\ OneEntry(tids) /\ RowsInv
         /\ LineInv(Queue, slot, got, In(tids), overtaken, removed, ended)
         /\ Queue \in Seq(Messages) /\ In(tids) \in SUBSET Requests
BY QueueType, TableType DEF Inv, Types

LEMMA AcceptStep ==
  ASSUME Inv, NEW r \in Requests, Accept(r) PROVE Inv'
<1> USE DEF Accept, tables
<1>1. /\ Types /\ HasFd /\ Hangs /\ Drained /\ OneEntry(tids) /\ RowsInv
      /\ Queue \in Seq(Messages)
  BY Facts
<1>2. Min(Fds \ OpenFds) \in Fds
  <2>1. OpenFds \in SUBSET Fds /\ Fds \in SUBSET Nat
    BY <1>1 DEF OpenFds, HasFd, Fds
  <2>2. Fds \ OpenFds # {} /\ Fds \ OpenFds \in SUBSET Nat
    BY <2>1
  <2> QED
    BY <2>2, MinOf
<1>3. Types' /\ HasFd'
  BY <1>1, <1>2 DEF Types, HasFd, Slots
<1>4. Hangs' /\ Drained' /\ Queue' = Queue /\ RowsInv' /\ OneEntry(tids)'
  BY <1>1 DEF Hangs, Drained, Queue, RowsInv, OneEntry
<1>5. LineInv(Queue, slot', got, In(tids), overtaken, removed, ended)
  BY <1>1, Facts, LineAccept DEF Types
<1> QED
  BY <1>3, <1>4, <1>5 DEF Inv, In

LEMMA MessageType ==
  ASSUME HasFd, NEW r \in Requests, slot[r] # "none", NEW what \in Commands
  PROVE  /\ Message(what, r) \in Messages
         /\ Message(what, r).req = r /\ Message(what, r).command = what
BY DEF HasFd, Message, Messages

\* What is overtaken stays so.
LEMMA RowsOvertaken ==
  ASSUME RowsInv, overtaken \in SUBSET overtaken',
         UNCHANGED <<counters, db, ended, removed>>
  PROVE  RowsInv'
<1>1. \A x : Paired(overtaken, x) => Paired(overtaken', x)
  BY DEF Paired, MixedIn
<1>2. \A r : DisturbedIn(overtaken, r) => DisturbedIn(overtaken', r)
  BY DEF DisturbedIn
<1> QED
  BY <1>1, <1>2 DEF RowsInv

LEMMA ReadBeginStep ==
  ASSUME Inv, NEW r \in Requests, ReadBegin(r) PROVE Inv'
<1> USE DEF ReadBegin, tables
<1>1. /\ Types /\ HasFd /\ Hangs /\ Drained /\ OneEntry(tids) /\ RowsInv
      /\ Queue \in Seq(Messages) /\ In(tids) \in SUBSET Requests
  BY Facts
<1> DEFINE m == Message("begin", r)
<1>2. m \in Messages /\ m.req = r /\ m.command = "begin"
  BY <1>1, MessageType DEF Commands
<1> HIDE DEF m
<1>3. Push(m)
  BY DEF m
<1>4. /\ Queue' = Append(Queue, m) /\ Drained'
      /\ list1' \in Seq(Messages) /\ list2' \in Seq(Messages)
  BY <1>1, <1>2, <1>3, QueuePush
<1>5. Types' /\ HasFd' /\ Hangs' /\ OneEntry(tids)'
  BY <1>1, <1>4 DEF Types, HasFd, Hangs, OneEntry, Commands
<1>6. RowsInv'
  BY <1>1, RowsOvertaken
<1>7. LineInv(Append(Queue, m), slot, got', In(tids), overtaken', removed, ended)
  <2>1. /\ slot[m.req] = "open" /\ got[m.req] = "none"
        /\ got' = [got EXCEPT ![m.req] = "begin"]
        /\ overtaken' = overtaken \cup
             {a \in Requests : Earlier(a, m.req) /\ slot[a] = "open" /\ got[a] # "end"}
    BY <1>2
  <2>2. /\ got \in [Requests -> Commands \cup {"none"}] /\ overtaken \in SUBSET Requests
        /\ ended \in SUBSET Requests
        /\ LineInv(Queue, slot, got, In(tids), overtaken, removed, ended)
    BY <1>1, Facts DEF Types
  <2> HIDE DEF ReadBegin
  <2> QED
    BY <1>1, <1>2, <2>1, <2>2, BeginPushed
<1> QED
  BY <1>4, <1>5, <1>6, <1>7 DEF Inv, In

LEMMA ReadEndStep ==
  ASSUME Inv, NEW r \in Requests, ReadEnd(r) PROVE Inv'
<1> USE DEF ReadEnd, tables
<1>1. /\ Types /\ HasFd /\ Hangs /\ Drained /\ OneEntry(tids) /\ RowsInv
      /\ Queue \in Seq(Messages) /\ In(tids) \in SUBSET Requests
  BY Facts
<1> DEFINE m == Message("end", r)
<1>2. m \in Messages /\ m.req = r /\ m.command = "end"
  BY <1>1, MessageType DEF Commands
<1> HIDE DEF m
<1>3. Push(m)
  BY DEF m
<1>4. /\ Queue' = Append(Queue, m) /\ Drained'
      /\ list1' \in Seq(Messages) /\ list2' \in Seq(Messages)
  BY <1>1, <1>2, <1>3, QueuePush
<1>5. Types' /\ HasFd' /\ Hangs' /\ OneEntry(tids)' /\ RowsInv'
  BY <1>1, <1>4 DEF Types, HasFd, Hangs, OneEntry, RowsInv, Commands
<1>7. LineInv(Append(Queue, m), slot, got', In(tids), overtaken, removed, ended)
  BY <1>1, <1>2, Facts, EndPushed DEF Types
<1> QED
  BY <1>4, <1>5, <1>7 DEF Inv, In

LEMMA DisconnectStep ==
  ASSUME Inv, NEW r \in Requests, Disconnect(r) PROVE Inv'
<1>1. Types' /\ HasFd' /\ Hangs' /\ Drained' /\ OneEntry(tids)' /\ Queue' = Queue /\ RowsInv'
  BY DEF Inv, Disconnect, tables, Types, HasFd, Hangs, Drained, OneEntry, Queue, RowsInv
<1> QED
  BY <1>1 DEF Inv, Disconnect, tables, In

LEMMA DieStep ==
  ASSUME Inv, NEW w \in Workers, Die(w) PROVE Inv'
<1>1. Types' /\ HasFd' /\ Hangs' /\ Drained' /\ OneEntry(tids)' /\ Queue' = Queue /\ RowsInv'
  BY DEF Inv, Die, tables, Types, HasFd, Hangs, Drained, OneEntry, Queue, RowsInv
<1> QED
  BY <1>1 DEF Inv, Die, tables, In

\* A slot goes: its descriptor is queued for removal.
LEMMA SlotGone ==
  ASSUME Inv, NEW r \in Requests, slot[r] # "none", PushRemove(fdOf[r]),
         slot' = [slot EXCEPT ![r] = "closed"], hanging' \in {hanging, NoReq},
         UNCHANGED <<got, fdOf, dead, overtaken, list1, list2, cpc, tables, db>>
  PROVE  Inv'
<1> USE DEF tables
<1>1. /\ Types /\ HasFd /\ Hangs /\ Drained /\ OneEntry(tids) /\ RowsInv
      /\ Queue \in Seq(Messages)
  BY Facts
<1>2. rem1' \in Seq(Fds) /\ rem2' \in Seq(Fds)
  <2>1. fdOf[r] \in Fds
    BY <1>1 DEF HasFd
  <2>2. \A z \in Seq(Fds) : Append(z, fdOf[r]) \in Seq(Fds)
    BY <2>1, Appended
  <2> QED
    BY <1>1, <2>2 DEF PushRemove, Types
<1>3. Types' /\ HasFd' /\ Hangs'
  BY <1>1, <1>2 DEF Types, HasFd, Hangs, Slots
<1>4. Drained' /\ OneEntry(tids)' /\ Queue' = Queue /\ RowsInv'
  BY <1>1 DEF Drained, OneEntry, Queue, RowsInv
<1>5. \A a \in Requests : /\ slot'[a] = "open" => slot[a] = "open"
                          /\ slot'[a] = "none" <=> slot[a] = "none"
  BY <1>1 DEF Types
<1>6. LineInv(Queue, slot', got, In(tids), overtaken, removed, ended)
  BY <1>1, <1>5, Facts, LineSlots
<1> QED
  BY <1>3, <1>4, <1>6 DEF Inv, In

LEMMA TakeDownStep ==
  ASSUME Inv, TakeDown PROVE Inv'
<1>1. hanging \in Requests /\ slot[hanging] # "none"
  BY Facts DEF TakeDown, Types, Hangs
<1> QED
  BY <1>1, SlotGone DEF TakeDown

LEMMA NotOpenStep ==
  ASSUME Inv, NEW r \in Requests, NotOpen(r) PROVE Inv'
BY SlotGone DEF NotOpen, listenerVars

\* A row for the message that is handled is a new one.
LEMMA RowAdded ==
  ASSUME RowsInv, counters \in Seq(Result), ended \in SUBSET Requests,
         NEW r \in Requests \ ended, NEW x \in Result, x.end = r, Paired(overtaken, x),
         counters' = Append(counters, x), ended' = ended \cup {r},
         UNCHANGED <<db, removed, overtaken>>
  PROVE  RowsInv' /\ counters' \in Seq(Result)
<1>2. /\ counters' = Append(counters, x) /\ counters' \in Seq(Result)
      /\ Len(counters') = Len(counters) + 1 /\ Len(counters) \in Nat
      /\ counters'[Len(counters) + 1] = x
      /\ \A k \in 1..Len(counters) : counters'[k] = counters[k]
      /\ \A k \in 1..Len(counters') : k \in 1..Len(counters) \/ k = Len(counters) + 1
  BY Appended
<1>3. Range(counters) = {counters[k] : k \in 1..Len(counters)}
  BY DEF Range
<1>4. Range(counters') = {counters'[k] : k \in 1..Len(counters')}
  BY <1>2 DEF Range
<1>5. Range(counters') = Range(counters) \cup {x}
  BY <1>2, <1>3, <1>4
<1>6. x \notin Range(counters) \cup DOMAIN db
  BY DEF RowsInv
<1>7. \A k, l \in 1..Len(counters') : counters'[k] = counters'[l] => k = l
  <2>1. \A k \in 1..Len(counters) : counters[k] # x
    BY <1>3, <1>6
  <2> QED
    BY <1>2, <2>1 DEF RowsInv
<1>8. \A y \in Range(counters') \cup DOMAIN db' : Paired(overtaken', y) /\ y.end \in ended'
  BY <1>5 DEF RowsInv
<1>9. \A a \in ended' : \/ a \in removed' \/ DisturbedIn(overtaken', a)
                        \/ \E y \in Range(counters') \cup DOMAIN db' : y.end = a
  BY <1>5 DEF RowsInv
<1>10. Range(counters') \cap DOMAIN db' = {} /\ \A y \in DOMAIN db' : db'[y] = 1
  BY <1>5, <1>6 DEF RowsInv
<1> QED
  BY <1>2, <1>7, <1>8, <1>9, <1>10 DEF RowsInv

\* One that is not recorded was lost.
LEMMA RowMissed ==
  ASSUME RowsInv, NEW r, r \in removed \/ DisturbedIn(overtaken, r),
         ended' = ended \cup {r}, UNCHANGED <<counters, db, removed, overtaken>>
  PROVE  RowsInv'
<1>1. \A x \in Range(counters') \cup DOMAIN db' : Paired(overtaken', x) /\ x.end \in ended'
  BY DEF RowsInv
<1>2. \A a \in ended' : \/ a \in removed' \/ DisturbedIn(overtaken', a)
                        \/ \E x \in Range(counters') \cup DOMAIN db' : x.end = a
  BY DEF RowsInv
<1> QED
  BY <1>1, <1>2 DEF RowsInv

\* What a turn leaves: everything but the queue and the lists of descriptors.
Turned == /\ slot' \in [Requests -> Slots] /\ HasFd' /\ Hangs'
          /\ tids' \in Seq(Entries) /\ OneEntry(tids')
          /\ counters' \in Seq(Result)
          /\ ended' \in SUBSET Requests /\ removed' \in SUBSET Requests /\ RowsInv'

\* The turn for a BEGIN may close a descriptor.
LEMMA AddNewStep ==
  ASSUME Inv, Queue # <<>>, Head(Queue).command = "begin", AddNew(Head(Queue)),
         UNCHANGED <<got, fdOf, dead, hanging, overtaken, db>>
  PROVE  /\ Turned
         /\ LineInv(Tail(Queue), slot', got, In(tids'), overtaken, removed', ended')
<1> DEFINE m == Head(Queue)
           p == Tail(Queue)
<1>1. /\ Types /\ HasFd /\ Hangs /\ OneEntry(tids) /\ RowsInv
      /\ Queue \in Seq(Messages) /\ In(tids) \in SUBSET Requests
      /\ LineInv(Queue, slot, got, In(tids), overtaken, removed, ended)
  BY Facts
<1>2. m \in Messages /\ p \in Seq(Messages)
  BY <1>1, Rest
<1>3. LineInv(p, slot, got, {x \in In(tids) : x[1] # m.req[1]} \cup {m.req}, overtaken, removed, ended)
  BY <1>1, BeginHandled DEF Types
<1>4. AddNew(m)
  OBVIOUS
<1> HIDE DEF m, p
<1>5. /\ tids' = Put(tids, m) /\ counters' = counters /\ ended' = ended /\ removed' = removed
      /\ slot' = slot \/ \E fd : Close(fd)
  BY <1>4 DEF AddNew, EntriesOf, Put
<1>6. /\ tids' \in Seq(Entries) /\ OneEntry(tids')
      /\ In(tids') = {x \in In(tids) : x[1] # m.req[1]} \cup {m.req}
  BY <1>1, <1>2, <1>5, PutFacts DEF Types
<1>7. /\ slot' \in [Requests -> Slots]
      /\ \A r \in Requests : /\ slot'[r] = "open" => slot[r] = "open"
                             /\ slot'[r] = "none" <=> slot[r] = "none"
  <2>1. CASE slot' = slot
    BY <1>1, <2>1 DEF Types
  <2>2. ASSUME NEW fd, Close(fd) PROVE <1>7!1
    <3>1. slot' = [r \in Requests |-> IF slot[r] = "open" /\ fdOf[r] = fd THEN "cut" ELSE slot[r]]
      BY <2>2 DEF Close
    <3> QED
      BY <1>1, <3>1 DEF Types, Slots
  <2>3. \A r \in Requests : /\ slot'[r] = "open" => slot[r] = "open"
                            /\ slot'[r] = "none" <=> slot[r] = "none"
    <3>1. ASSUME NEW fd, Close(fd)
          PROVE \A r \in Requests : slot'[r] = IF slot[r] = "open" /\ fdOf[r] = fd THEN "cut" ELSE slot[r]
      BY <3>1 DEF Close
    <3> QED
      BY <1>5, <3>1
  <2> QED
    BY <1>5, <2>1, <2>2, <2>3
<1>8. LineInv(p, slot', got, In(tids'), overtaken, removed', ended')
  BY <1>2, <1>3, <1>5, <1>6, <1>7, LineSlots
<1>9. HasFd' /\ Hangs'
  BY <1>1, <1>7 DEF HasFd, Hangs, Types
<1>10. RowsInv' /\ counters' \in Seq(Result) /\ ended' \in SUBSET Requests /\ removed' \in SUBSET Requests
  BY <1>1, <1>5 DEF RowsInv, Types
<1> QED
  BY <1>6, <1>7, <1>8, <1>9, <1>10 DEF Turned, p

\* The turn for an END makes the row.
LEMMA SaveCountersStep ==
  ASSUME Inv, Queue # <<>>, Head(Queue).command = "end", SaveCounters(Head(Queue)),
         UNCHANGED <<got, fdOf, dead, hanging, overtaken, db>>
  PROVE  /\ Turned
         /\ LineInv(Tail(Queue), slot', got, In(tids'), overtaken, removed', ended')
<1> DEFINE m == Head(Queue)
           r == m.req
           p == Tail(Queue)
           E == {x \in In(tids) : x[1] # r[1]}
<1>1. /\ Types /\ HasFd /\ Hangs /\ OneEntry(tids) /\ RowsInv
      /\ Queue \in Seq(Messages) /\ In(tids) \in SUBSET Requests
      /\ LineInv(Queue, slot, got, In(tids), overtaken, removed, ended)
  BY Facts
<1>2. m \in Messages /\ r \in Requests
  BY <1>1, Rest, MessageFacts
<1>3. /\ LineInv(p, slot, got, E, overtaken, removed, ended \cup {r})
      /\ r \in Requests \ ended
      /\ \A x \in In(tids) : x[1] = r[1] => x = r \/ MixedIn(overtaken, x, r) \/ MixedIn(overtaken, r, x)
      /\ (\A x \in In(tids) : x[1] # r[1]) => r \in removed \/ DisturbedIn(overtaken, r)
  BY <1>1, EndHandled DEF Types
<1>4. SaveCounters(m)
  OBVIOUS
<1> DEFINE found == Found(tids, m)
           n     == Min(found)
           row   == [begin |-> tids[n].req, end |-> r]
<1>5. /\ IF found = {} THEN UNCHANGED <<tids, counters>>
         ELSE counters' = Append(counters, row) /\ tids' = RemoveAt(tids, n)
      /\ ended' = ended \cup {r} /\ slot' = slot /\ removed' = removed
  BY <1>4 DEF SaveCounters, EntriesOf, Found
<1>6. /\ \A k \in 1..Len(tids) : tids[k].req[1] = r[1] <=> k \in found
      /\ found # {} => n \in 1..Len(tids) /\ n \in found
      /\ found = {} => \A x \in In(tids) : x[1] # r[1]
  BY <1>1, <1>2, FoundFacts DEF Types
<1>d. m.req = r /\ row = [begin |-> tids[n].req, end |-> r]
  OBVIOUS
<1>e. \A x : x \in E <=> x \in In(tids) /\ x[1] # r[1]
  OBVIOUS
<1> HIDE DEF m, r, p, E, found, n, row
<1>7. CASE found = {}
  <2>1. tids' = tids /\ counters' = counters /\ In(tids') = E
    BY <1>5, <1>6, <1>7, <1>e
  <2>2. RowsInv'
    BY <1>1, <1>3, <1>5, <1>6, <1>7, <2>1, RowMissed
  <2> QED
    BY <1>1, <1>3, <1>5, <2>1, <2>2 DEF Turned, Types, HasFd, Hangs, p
<1>8. CASE found # {}
  <2>1. n \in 1..Len(tids) /\ tids[n].req[1] = r[1] /\ tids[n].req \in In(tids)
    BY <1>6, <1>8 DEF In
  <2>2. tids' \in Seq(Entries) /\ OneEntry(tids') /\ In(tids') = In(tids) \ {tids[n].req}
    BY <1>1, <1>5, <1>8, <2>1, TableRemoved DEF Types
  <2>3. In(tids') = E
    <3>1. \A x \in In(tids) : x[1] = r[1] => x = tids[n].req
      BY <1>1, <2>1 DEF LineInv, OneEach
    <3> QED
      BY <1>e, <2>1, <2>2, <3>1
  <2>4. row \in Result /\ row.end = r /\ Paired(overtaken, row)
    <3>1. row.begin = tids[n].req /\ row.end = r /\ row \in Result
      BY <1>1, <1>2, <1>d, <2>1 DEF Result
    <3> QED
      BY <1>3, <2>1, <3>1 DEF Paired
  <2>5. RowsInv' /\ counters' \in Seq(Result)
    BY <1>1, <1>3, <1>5, <1>8, <2>4, RowAdded DEF Types
  <2> QED
    BY <1>1, <1>3, <1>5, <2>2, <2>3, <2>5 DEF Turned, Types, HasFd, Hangs, p
<1> QED
  BY <1>7, <1>8

LEMMA ProceedStep ==
  ASSUME Inv, Queue # <<>>, Queue' = Tail(Queue), Proceed(Head(Queue)),
         UNCHANGED <<got, fdOf, dead, hanging, overtaken, db>>
  PROVE  /\ Turned
         /\ LineInv(Queue, slot, got, In(tids), overtaken, removed, ended)'
<1>1. Head(Queue).command \in {"begin", "end"}
  BY Facts, Rest, MessageFacts
<1>2. /\ Turned
      /\ LineInv(Tail(Queue), slot', got, In(tids'), overtaken, removed', ended')
  BY <1>1, AddNewStep, SaveCountersStep DEF Proceed
<1> QED
  BY <1>2 DEF In

LEMMA StartPassStep ==
  ASSUME Inv, StartPass PROVE Inv'
<1> USE DEF StartPass, listenerVars, tables
<1>1. Types /\ HasFd /\ Hangs /\ Drained /\ OneEntry(tids) /\ RowsInv
  BY Facts
<1>2. Queue' = Queue /\ Drained'
  BY <1>1, QueueKept
<1>3. Types' /\ HasFd' /\ Hangs' /\ OneEntry(tids)' /\ RowsInv'
  BY <1>1 DEF Types, HasFd, Hangs, OneEntry, RowsInv
<1> QED
  BY <1>2, <1>3 DEF Inv, In

LEMMA ListStep ==
  ASSUME Inv, ProceedList1 \/ ProceedList2 PROVE Inv'
<1> USE DEF listenerVars, tables
<1>1. Types /\ HasFd /\ Hangs /\ Drained /\ OneEntry(tids) /\ RowsInv
  BY Facts
<1>2. UNCHANGED <<got, fdOf, dead, hanging, overtaken, rem1, rem2, db>>
  BY DEF ProceedList1, ProceedList2
<1>4. CASE \/ cpc = "list1" /\ list1 # <<>> /\ ProceedList1
           \/ cpc = "list2" /\ list2 # <<>> /\ ProceedList2
  <2>1. /\ cpc' = cpc
        /\ \/ cpc = "list1" /\ list1 # <<>> /\ list1' = Tail(list1) /\ list2' = list2
           \/ cpc = "list2" /\ list2 # <<>> /\ list2' = Tail(list2) /\ list1' = list1
    BY <1>4 DEF ProceedList1, ProceedList2
  <2>2. /\ Queue # <<>> /\ Queue' = Tail(Queue) /\ Drained'
        /\ Head(Queue) = IF cpc = "list1" THEN Head(list1) ELSE Head(list2)
        /\ list1' \in Seq(Messages) /\ list2' \in Seq(Messages)
    BY <1>1, <2>1, QueueTurn
  <2>3. Proceed(Head(Queue))
    BY <1>4, <2>2 DEF ProceedList1, ProceedList2
  <2>4. Turned /\ LineInv(Queue, slot, got, In(tids), overtaken, removed, ended)'
    BY <1>2, <2>2, <2>3, ProceedStep
  <2>5. Types'
    BY <1>1, <1>2, <2>1, <2>2, <2>4 DEF Types, Turned
  <2> QED
    BY <2>2, <2>4, <2>5 DEF Inv, Turned, OneEntry
<1>5. CASE \/ cpc = "list1" /\ list1 = <<>> /\ ProceedList1
           \/ cpc = "list2" /\ list2 = <<>> /\ ProceedList2
  <2>1. /\ list1' = list1 /\ list2' = list2
        /\ \/ cpc = "list1" /\ list1 = <<>> /\ cpc' = "list2"
           \/ cpc = "list2" /\ list2 = <<>> /\ cpc' = "rem1"
        /\ UNCHANGED <<slot, tids, counters, ended, removed>>
    BY <1>5 DEF ProceedList1, ProceedList2
  <2>2. Queue' = Queue /\ Drained'
    BY <1>1, <2>1, QueueKept
  <2>3. Types' /\ HasFd' /\ Hangs' /\ OneEntry(tids)' /\ RowsInv'
    BY <1>1, <1>2, <2>1 DEF Types, HasFd, Hangs, OneEntry, RowsInv
  <2> QED
    BY <1>2, <2>1, <2>2, <2>3 DEF Inv, In
<1> QED
  BY <1>4, <1>5 DEF ProceedList1, ProceedList2

\* One remove item.
LEMMA RemoveFdStep ==
  ASSUME Inv, NEW fd, RemoveFd(fd), UNCHANGED <<db, overtaken>>
  PROVE  /\ tids' \in Seq(Entries) /\ OneEntry(tids') /\ counters' = counters /\ ended' = ended
         /\ removed' \in SUBSET Requests
         /\ LineInv(Queue, slot, got, In(tids'), overtaken, removed', ended) /\ RowsInv'
<1> DEFINE found == {k \in 1..Len(tids) : tids[k].fd = fd}
           n == Min(found)
<1>1. /\ tids \in Seq(Entries) /\ removed \in SUBSET Requests /\ OneEntry(tids)
      /\ LineInv(Queue, slot, got, In(tids), overtaken, removed, ended) /\ RowsInv
  BY Facts DEF Types
<1>2. counters' = counters /\ ended' = ended
  BY DEF RemoveFd
<1>3. CASE found = {}
  <2>1. tids' = tids /\ removed' = removed
    BY <1>3 DEF RemoveFd
  <2> QED
    BY <1>1, <1>2, <2>1 DEF RowsInv
<1>4. CASE found # {}
  <2>1. tids' = RemoveAt(tids, n) /\ removed' = removed \cup {tids[n].req}
    BY <1>4 DEF RemoveFd
  <2>2. n \in 1..Len(tids)
    <3>1. found \in SUBSET Nat
      OBVIOUS
    <3>2. n \in found
      BY <1>4, <3>1, MinOf
    <3> QED
      BY <3>2
  <2> HIDE DEF n, found
  <2>3. tids[n].req \in Requests
    BY <1>1, <2>2, TableType
  <2>4. tids' \in Seq(Entries) /\ OneEntry(tids') /\ In(tids') = In(tids) \ {tids[n].req}
    BY <1>1, <2>1, <2>2, TableRemoved
  <2>5. LineInv(Queue, slot, got, In(tids'), overtaken, removed', ended)
    <3>1. ASSUME NEW x
          PROVE  LineInv(Queue, slot, got, In(tids) \ {x}, overtaken, removed \cup {x}, ended)
      BY <1>1, EntryRemoved
    <3> QED
      BY <2>1, <2>4, <3>1
  <2>6. RowsInv'
    BY <1>1, <1>2, <2>1 DEF RowsInv
  <2> QED
    BY <1>1, <1>2, <2>1, <2>3, <2>4, <2>5, <2>6
<1> QED
  BY <1>3, <1>4

LEMMA RemoveStep ==
  ASSUME Inv, ProceedRemove1 \/ ProceedRemove2 PROVE Inv'
<1> USE DEF listenerVars, tables
<1>1. Types /\ HasFd /\ Hangs /\ Drained /\ OneEntry(tids) /\ RowsInv
  BY Facts
<1>2. UNCHANGED <<slot, got, fdOf, dead, hanging, overtaken, list1, list2, db>>
  BY DEF ProceedRemove1, ProceedRemove2
<1>3. HasFd' /\ Hangs'
  BY <1>1, <1>2 DEF HasFd, Hangs
<1>4. /\ rem1' \in Seq(Fds) /\ rem2' \in Seq(Fds)
      /\ \/ cpc' = cpc
         \/ cpc = "rem1" /\ cpc' = "rem2"
         \/ cpc = "rem2" /\ cpc' = "idle"
  <2>1. \A s \in Seq(Fds) : s # <<>> => Tail(s) \in Seq(Fds)
    BY Rest
  <2> QED
    BY <1>1, <2>1 DEF ProceedRemove1, ProceedRemove2, Types
<1>5. Queue' = Queue /\ Drained' /\ cpc' \in {"idle", "list1", "list2", "rem1", "rem2"}
  BY <1>1, <1>2, <1>4, QueueKept DEF Types
<1>6. CASE \E fd : RemoveFd(fd)
  <2>1. PICK fd : RemoveFd(fd)
    BY <1>6
  <2>2. /\ tids' \in Seq(Entries) /\ OneEntry(tids') /\ counters' = counters /\ ended' = ended
        /\ removed' \in SUBSET Requests
        /\ LineInv(Queue, slot, got, In(tids'), overtaken, removed', ended) /\ RowsInv'
    BY <1>2, <2>1, RemoveFdStep
  <2>3. Types'
    BY <1>1, <1>2, <1>4, <1>5, <2>2 DEF Types
  <2> QED
    BY <1>2, <1>3, <1>5, <2>2, <2>3 DEF Inv, OneEntry, In
<1>7. CASE UNCHANGED tables
  <2>1. Types' /\ RowsInv' /\ OneEntry(tids)'
    BY <1>1, <1>2, <1>4, <1>5, <1>7 DEF Types, RowsInv, OneEntry
  <2> QED
    BY <1>2, <1>3, <1>5, <1>7, <2>1 DEF Inv, In
<1> QED
  BY <1>6, <1>7 DEF ProceedRemove1, ProceedRemove2

\* Rows that differ are one of a kind in their bag.
LEMMA BagOfFacts ==
  ASSUME RowsInv, counters \in Seq(Result)
  PROVE  /\ DOMAIN BagOf(counters) = Range(counters)
         /\ \A x \in Range(counters) : BagOf(counters)[x] = 1
<1>1. ASSUME NEW x \in Range(counters)
      PROVE  Cardinality({k \in DOMAIN counters : counters[k] = x}) = 1
  <2>1. PICK k \in DOMAIN counters : counters[k] = x
    BY DEF Range
  <2>2. {l \in DOMAIN counters : counters[l] = x} = {k}
    BY <2>1 DEF RowsInv
  <2> QED
    BY <2>2, FS_Singleton
<1> QED
  BY <1>1 DEF BagOf

\* Saved rows change from one table into the other.
LEMMA RemoveCountersStep ==
  ASSUME Inv, RemoveCounters PROVE Inv'
<1> USE DEF RemoveCounters, listenerVars, tables
<1>1. /\ Types /\ HasFd /\ Hangs /\ Drained /\ OneEntry(tids) /\ RowsInv
      /\ counters \in Seq(Result)
  BY Facts DEF Types
<1>2. /\ DOMAIN BagOf(counters) = Range(counters)
      /\ \A x \in Range(counters) : BagOf(counters)[x] = 1
  BY <1>1, BagOfFacts
<1>3. /\ DOMAIN db' = DOMAIN db \cup Range(counters)
      /\ \A x \in DOMAIN db' : db'[x] = 1
  <2>1. Range(counters) \cap DOMAIN db = {} /\ \A x \in DOMAIN db : db[x] = 1
    BY <1>1 DEF RowsInv
  <2> QED
    BY <1>2, <2>1 DEF (+)
<1>4. Range(counters') = {} /\ counters' = <<>> /\ Len(counters') = 0
  BY DEF Range
<1>5. Range(counters) \in SUBSET Result
  BY <1>1 DEF Range
<1>6. Types'
  BY <1>1, <1>3, <1>4, <1>5 DEF Types
<1>7. HasFd' /\ Hangs' /\ Drained' /\ OneEntry(tids)' /\ Queue' = Queue
  BY <1>1 DEF HasFd, Hangs, Drained, OneEntry, Queue
<1>8. RowsInv'
  BY <1>1, <1>3, <1>4 DEF RowsInv
<1> QED
  BY <1>6, <1>7, <1>8 DEF Inv, In

LEMMA Step ==
  ASSUME Inv, [Next]_vars PROVE Inv'
<1>1. CASE Listener
  BY <1>1, AcceptStep, ReadBeginStep, ReadEndStep, DisconnectStep, NotOpenStep, TakeDownStep
     DEF Listener
<1>2. CASE Cleaner
  BY <1>2, StartPassStep, ListStep, RemoveStep DEF Cleaner
<1>3. CASE RemoveCounters
  BY <1>3, RemoveCountersStep
<1>4. CASE \E w \in Workers : Die(w)
  BY <1>4, DieStep
<1>5. CASE UNCHANGED vars
  <2>1. /\ Types' /\ HasFd' /\ Hangs' /\ Drained' /\ OneEntry(tids)' /\ Queue' = Queue
        /\ RowsInv'
    BY <1>5 DEF vars, Inv, Types, HasFd, Hangs, Drained, OneEntry, Queue, RowsInv
  <2> QED
    BY <1>5, <2>1 DEF vars, Inv, In
<1> QED
  BY <1>1, <1>2, <1>3, <1>4, <1>5 DEF Next

-----------------------------------------------------------------------------
(* The theorems.                                                           *)

\* The invariant holds in every state that tid_pid_list_ut.c and the listener
\* can bring about.
THEOREM Invariant == Spec => []Inv
<1>1. Init => Inv
  BY Initially
<1>2. Inv /\ [Next]_vars => Inv'
  BY Step
<1> QED
  BY <1>1, <1>2, PTL DEF Spec

\* The rows of counters_ut and of the database together.
LEMMA RowsFacts ==
  ASSUME Inv
  PROVE  /\ BagToSet(Rows) = Range(counters) \cup DOMAIN db
         /\ \A x \in BagToSet(Rows) : Rows[x] = 1
<1>1. counters \in Seq(Result) /\ RowsInv
  BY Facts DEF Types
<1>2. /\ DOMAIN BagOf(counters) = Range(counters)
      /\ \A x \in Range(counters) : BagOf(counters)[x] = 1
  BY <1>1, BagOfFacts
<1>3. Range(counters) \cap DOMAIN db = {} /\ \A x \in DOMAIN db : db[x] = 1
  BY <1>1 DEF RowsInv
<1> QED
  BY <1>2, <1>3 DEF Rows, (+), BagToSet

\* Messages and entries carry descriptors and requests that exist.
THEOREM TypeCorrect == Spec => []TypeOK
<1>1. Inv => TypeOK
  <2> SUFFICES ASSUME Inv PROVE TypeOK
    OBVIOUS
  <2>1. Types
    BY DEF Inv
  <2>2. Range(list1 \o list2) \subseteq Messages
    <3>1. list1 \o list2 \in Seq(Messages)
      BY <2>1, ConcatFacts DEF Types
    <3> QED
      BY <3>1 DEF Range
  <2>3. Range(rem1 \o rem2) \subseteq Fds
    <3>1. rem1 \o rem2 \in Seq(Fds)
      BY <2>1, ConcatFacts DEF Types
    <3> QED
      BY <3>1 DEF Range
  <2>4. Range(tids) \subseteq [req : Requests, fd : Fds]
    <3>1. Range(tids) \subseteq Entries
      BY <2>1 DEF Types, Range
    <3> QED
      BY <3>1 DEF Entries
  <2>5. BagToSet(Rows) \subseteq [begin : Requests, end : Requests]
    <3>1. Range(counters) \subseteq Result
      BY <2>1 DEF Types, Range
    <3> QED
      BY <2>1, <3>1, RowsFacts DEF Types, Result
  <2> QED
    BY <2>1, <2>2, <2>3, <2>4, <2>5 DEF Types, TypeOK
<1> QED
  BY <1>1, Invariant, PTL

\* A row of save_counters_ut is made of the BEGIN and the END of one request, or
\* of two of one thread, the earlier of which the listener had not read to its
\* end when it read the later one's BEGIN.
THEOREM OneRequest == Spec => []RowsPairOneRequest
<1>1. Inv => RowsPairOneRequest
  BY RowsFacts DEF RowsPairOneRequest, Mixed, Inv, RowsInv, Paired, MixedIn
<1> QED
  BY <1>1, Invariant, PTL

\* A request has at most one row, in counters_ut or in the database.
THEOREM Once == Spec => []RecordedOnce
<1>1. Inv => RecordedOnce
  BY RowsFacts DEF RecordedOnce
<1> QED
  BY <1>1, Invariant, PTL

\* A request whose END was handled has no row only if a remove item took its
\* entry away, or it or an earlier one of its thread was overtaken.
THEOREM Lost == Spec => []LostOnlyByRemoval
<1>1. Inv => LostOnlyByRemoval
  BY RowsFacts DEF LostOnlyByRemoval, Recorded, Disturbed, Inv, RowsInv, DisturbedIn
<1> QED
  BY <1>1, Invariant, PTL

\* When all that was queued has been dealt with, tids_ut holds no request that is
\* over: nothing of a thread's past is measured into its next request.
THEOREM NothingStale == Spec => []NoStaleEntries
<1>1. Inv => NoStaleEntries
  <2> SUFFICES ASSUME Inv, AtRest, NEW x \in Range(tids), got[x.req] = "end"
               PROVE  FALSE
    BY DEF NoStaleEntries
  <2>1. tids \in Seq(Entries)
    BY DEF Inv, Types
  <2>2. x.req \in In(tids)
    BY <2>1 DEF Range, In
  <2>3. x.req \in Requests
    BY <2>1, <2>2, TableType
  <2>4. ~Queued(Queue, "end", x.req)
    <3>1. Queue = <<>>
      BY ConcatFacts DEF AtRest, Queue
    <3> QED
      BY <3>1 DEF Queued
  <2>5. x.req \in ended
    BY <2>3, <2>4, Facts DEF LineInv, EndIn
  <2> QED
    BY <2>2, <2>5, Facts DEF LineInv, Done
<1> QED
  BY <1>1, Invariant, PTL
=============================================================================
