--------------------------- MODULE PollLoopProofs ---------------------------
(***************************************************************************)
(* For any workers, requests, redirects and descriptors: the types of      *)
(* PollLoop, and that the listener watches every open descriptor once      *)
(* (WatchedOnce), lets go of a connection only when it has read it         *)
(* (ReadOut), and waits in read only by garbage (WaitsOnlyIfGarbled).      *)
(***************************************************************************)
EXTENDS PollLoop, WellFoundedInduction, FiniteSetTheorems, TLAPS

-----------------------------------------------------------------------------
(* The invariant.                                                          *)

States   == {"none", "connected", "begun", "redirected", "ended", "closed"}
Slot     == [fd : Fds \cup {LSock}, revents : SUBSET Revent, polled : BOOLEAN]
Messages == [command : {"begin", "end"}, req : Requests, fd : Fds]
Removals == [command : {"remove"}, req : {NoReq}, fd : Fds]

\* Types, as the proofs use them.
Types ==
  /\ client \in [Requests -> States] /\ unread \in [Requests -> Seq({"begin", "end"})]
  /\ backlog \in Seq(Requests) /\ owner \in [Fds -> Requests \cup {NoReq}]
  /\ fds \in Seq(Slot) /\ i \in Nat \ {0} /\ ret \in Nat
  /\ i <= Len(fds) + 2 /\ ret <= Len(fds)
  /\ queue \in Seq(Messages \cup Removals)
  /\ DOMAIN tids = Workers /\ \A w \in Workers : tids[w] = NoReq \/ tids[w] \in Messages
  /\ misled \in SUBSET Requests /\ cut \in SUBSET Requests /\ reused \in BOOLEAN
  /\ given \in [Requests -> Nat] /\ reading \in Requests \cup {NoReq}

\* What poll writes for a slot: a connection hangs up with something to read only.
Reported == {{}, {"in"}, {"in", "hup"}, {"nval"}}

\* l_sock is the first slot and no other, and poll reports nothing but POLLIN for
\* it; what poll has not written may be anything.
Shape(s) ==
  /\ Len(s) > 0 /\ \A k \in 1..Len(s) : s[k].fd = LSock <=> k = 1
  /\ s[1].revents \subseteq {"in"}
  /\ \A k \in 1..Len(s) : s[k].polled => s[k].revents \in Reported

\* accept finds the connection that poll reported.
ToAccept == i = 1 /\ "in" \in fds[1].revents => backlog # <<>>

\* Where the daemon has a connection: in the backlog b, behind one of the owners o,
\* or in the read that waits for w; Held is Connected, for any of these.
On(b, o, r) == (\E k \in 1..Len(b) : b[k] = r) \/ (\E f \in Fds : o[f] = r)
Held(b, o, w, r) == On(b, o, r) \/ r = w

\* A connection is in one place.
Placed(b, o) ==
  /\ \A k, l \in 1..Len(b) : b[k] = b[l] => k = l
  /\ \A f, g \in Fds : o[f] = o[g] /\ o[f] # NoReq => f = g
  /\ \A f \in Fds, k \in 1..Len(b) : o[f] # b[k]

\* How many messages a client in this state has sent, at most; exactly, unless
\* its process has ended.
Progress(c) == IF c \in {"none", "connected"} THEN 0
               ELSE IF c \in {"begun", "redirected"} THEN 1 ELSE 2

\* A request r with client state c, unread messages u, g messages handed over;
\* `on' says that the daemon has the connection, `k' that the cleaner or garbage
\* closed it.
Counted(r, c, u, g, on, k) ==
  /\ g + Len(u) <= Progress(c)
  /\ ~k /\ (c # "closed" \/ r[1] \notin Mortal) => g + Len(u) = Progress(c)
  /\ ~k /\ ~on => u = <<>>
  /\ ~k /\ c \in {"connected", "begun", "redirected", "ended"} => on
  /\ on => c # "none"

Counts ==
  \A r \in Requests :
    Counted(r, client[r], unread[r], given[r], Held(backlog, owner, reading, r),
            r \in cut \cup misled)

\* The listener waits in read over the slot it looks at, which is garbage, for the
\* connection behind that, unless the cleaner has closed the descriptor meanwhile.
Reads ==
  reading # NoReq =>
    /\ i \in 1..Len(fds) /\ ret > 0 /\ "in" \in fds[i].revents /\ fds[i].fd \in Fds
    /\ \/ owner[fds[i].fd] = reading
       \/ owner[fds[i].fd] = NoReq /\ reading \in cut /\ \A f \in Fds : owner[f] # reading
    /\ ~reused => ~fds[i].polled

\* The slots of an array s against the owners o, with the connections ms that were
\* dropped on garbage: POLLNVAL is true where poll wrote it.
Watched(s, o, ms) ==
  /\ \A k, l \in 1..Len(s) : s[k].fd = s[l].fd => k = l
  /\ \A f \in Fds : o[f] # NoReq /\ o[f] \notin ms => \E k \in 1..Len(s) : s[k].fd = f
  /\ \A k \in 1..Len(s), f \in Fds :
       s[k].fd = f /\ s[k].polled /\ "nval" \in s[k].revents => o[f] = NoReq

\* What is still to be scanned is as poll reported it, where poll did.
True(e, r) == /\ "in" \in e => unread[r] # <<>> \/ Gone(r)
              /\ "hup" \in e => Gone(r)
Current ==
  \A k \in 1..Len(fds), f \in Fds :
    k >= i /\ fds[k].fd = f /\ fds[k].polled /\ owner[f] # NoReq
      => True(fds[k].revents, owner[f])

Inv == /\ Types /\ Shape(fds) /\ ToAccept /\ Placed(backlog, owner) /\ Counts /\ Reads
       /\ ~reused => Watched(fds, owner, misled) /\ Current

-----------------------------------------------------------------------------
(* Numbers, sequences, requests.                                           *)

Less == {p \in Nat \X Nat : p[1] < p[2]}

\* accept returns the lowest free descriptor: there is one.
LEMMA MinOf ==
  ASSUME NEW S \in SUBSET Nat, S # {}
  PROVE  Min(S) \in S
<1>1. Less = OpToRel(<, Nat)
  BY Zenon DEF OpToRel, Less
<1>2. IsWellFoundedOn(Less, Nat)
  BY <1>1, NatLessThanWellFounded, Zenon
<1>3. PICK x \in S : \A y \in S : ~ (<<y, x>> \in Less)
  BY <1>2, WFMin
<1>4. \A y \in Nat, z \in Nat : y < z => <<y, z>> \in Less
  BY DEF Less
<1>5. \A y \in S : ~ (y < x)
  BY <1>3, <1>4
<1>6. \A y \in S : x <= y
  BY <1>5
<1> QED
  BY <1>6 DEF Min

LEMMA Appended ==
  ASSUME NEW S, NEW s \in Seq(S), NEW x \in S
  PROVE  /\ Append(s, x) \in Seq(S) /\ Len(Append(s, x)) = Len(s) + 1 /\ Len(s) \in Nat
         /\ \A k \in 1..Len(s) : Append(s, x)[k] = s[k]
         /\ Append(s, x)[Len(s) + 1] = x
         /\ \A k \in 1..Len(Append(s, x)) : k \in 1..Len(s) \/ k = Len(s) + 1
OBVIOUS

LEMMA Rest ==
  ASSUME NEW S, NEW s \in Seq(S), s # <<>>
  PROVE  /\ Tail(s) \in Seq(S) /\ Head(s) \in S /\ Head(s) = s[1] /\ 1 \in 1..Len(s)
         /\ Len(Tail(s)) = Len(s) - 1 /\ Len(s) \in Nat
         /\ \A k \in 1..Len(Tail(s)) : k + 1 \in 1..Len(s) /\ Tail(s)[k] = s[k + 1]
         /\ \A k \in 1..Len(s) : k = 1 \/ (k - 1 \in 1..Len(Tail(s)) /\ s[k] = Tail(s)[k - 1])
OBVIOUS

\* Where the slot at a was before the one at k was dropped.
Old(k, a) == IF a < k THEN a ELSE a + 1

LEMMA OldFacts ==
  ASSUME NEW n \in Nat, NEW k \in 1..n
  PROVE  /\ \A a \in 1..(n - 1) : Old(k, a) \in 1..n /\ Old(k, a) # k
         /\ \A a, c \in 1..(n - 1) : Old(k, a) = Old(k, c) => a = c
         /\ \A b \in 1..n : b # k => \E a \in 1..(n - 1) : Old(k, a) = b
         /\ \A a \in 1..(n - 1) : a >= k + 1 => Old(k, a) >= k
         /\ \A a \in 1..(n - 1) : k # 1 => (Old(k, a) = 1 <=> a = 1)
         /\ k # 1 => 1 \in 1..(n - 1)
<1>1. ASSUME NEW b \in 1..n, b # k PROVE \E a \in 1..(n - 1) : Old(k, a) = b
  <2>1. CASE b < k
    <3>1. b \in 1..(n - 1) /\ Old(k, b) = b
      BY <2>1 DEF Old
    <3> QED
      BY <3>1
  <2>2. CASE ~(b < k)
    <3>1. b - 1 \in 1..(n - 1) /\ Old(k, b - 1) = b
      BY <1>1, <2>2 DEF Old
    <3> QED
      BY <3>1
  <2> QED
    BY <2>1, <2>2
<1> QED
  BY <1>1 DEF Old

\* The array without the slot at k.
LEMMA Dropped ==
  ASSUME NEW S, NEW s \in Seq(S), NEW k \in 1..Len(s)
  PROVE  /\ RemoveAt(s, k) \in Seq(S) /\ Len(RemoveAt(s, k)) = Len(s) - 1 /\ Len(s) \in Nat
         /\ \A a \in 1..(Len(s) - 1) : RemoveAt(s, k)[a] = s[Old(k, a)]
<1> DEFINE u == SubSeq(s, 1, k - 1)
           v == SubSeq(s, k + 1, Len(s))
<1>1. u \in Seq(S) /\ Len(u) = k - 1 /\ \A a \in 1..(k - 1) : u[a] = s[a]
  OBVIOUS
<1>2. v \in Seq(S) /\ Len(v) = Len(s) - k /\ \A a \in 1..(Len(s) - k) : v[a] = s[k + a]
  OBVIOUS
<1>3. RemoveAt(s, k) = u \o v
  BY DEF RemoveAt
<1>4. Len(s) \in Nat /\ k \in Nat /\ k <= Len(s)
  OBVIOUS
<1> HIDE DEF u, v
<1>5. u \o v \in Seq(S) /\ Len(u \o v) = Len(s) - 1
  BY <1>1, <1>2, <1>4
<1>6. \A a \in 1..(Len(s) - 1) : (u \o v)[a] = IF a < k THEN u[a] ELSE v[a - (k - 1)]
  BY <1>1, <1>2, <1>4
<1>7. ASSUME NEW a \in 1..(Len(s) - 1) PROVE (u \o v)[a] = s[Old(k, a)]
  <2>1. CASE a < k
    BY <1>1, <1>4, <1>6, <2>1 DEF Old
  <2>2. CASE ~(a < k)
    <3>1. a - (k - 1) \in 1..(Len(s) - k) /\ k + (a - (k - 1)) = a + 1
      BY <1>4, <2>2
    <3> QED
      BY <1>2, <1>6, <2>2, <3>1 DEF Old
  <2> QED
    BY <2>1, <2>2
<1> QED
  BY <1>3, <1>4, <1>5, <1>7

\* A request is not the lack of one; descriptors are numbers.
LEMMA ReqFacts ==
  /\ \A r \in Requests : r # NoReq /\ r[1] \in Workers
  /\ NoReq \notin Requests /\ LSock \notin Fds /\ Fds \in SUBSET Nat
<1>1. ASSUME NEW r \in Requests PROVE r # <<>> /\ r[1] \in Workers
  <2>1. PICK w \in Workers : r \in {w} \X (1..Quota[w])
    BY DEF Requests
  <2>2. r = <<w, r[2]>> /\ r[1] = w
    BY <2>1
  <2>3. Len(r) = 2 /\ Len(<<>>) = 0
    BY <2>2
  <2> QED
    BY <2>2, <2>3
<1>2. LSock \notin Fds /\ Fds \in SUBSET Nat
  BY PollAssumption DEF PollAssumption, LSock, Fds
<1> QED
  BY <1>1, <1>2 DEF NoReq

LEMMA QueueItems ==
  /\ \A m \in Messages : m.req \in Requests /\ m.command \in {"begin", "end"} /\ m.fd \in Fds
  /\ \A m \in Messages \cup Removals : m.command \in {"begin", "end"} => m \in Messages
BY DEF Messages, Removals

-----------------------------------------------------------------------------
(* Where the connections are.                                              *)

LEMMA ConnectedIsOn ==
  ASSUME Types, NEW r
  PROVE  Connected(r) <=> Held(backlog, owner, reading, r)
<1>1. DOMAIN backlog = 1..Len(backlog) /\ DOMAIN owner = Fds
  BY DEF Types
<1> QED
  BY <1>1 DEF Connected, Held, On, Range

\* A new connection joins the backlog.
LEMMA OnConnect ==
  ASSUME NEW b \in Seq(Requests), NEW o \in [Fds -> Requests \cup {NoReq}], Placed(b, o),
         NEW r \in Requests, ~On(b, o, r)
  PROVE  /\ Placed(Append(b, r), o)
         /\ \A q : On(Append(b, r), o, q) <=> On(b, o, q) \/ q = r
<1> DEFINE c == Append(b, r)
<1>1. /\ Len(c) = Len(b) + 1 /\ Len(b) \in Nat /\ c[Len(b) + 1] = r
      /\ \A k \in 1..Len(b) : c[k] = b[k]
      /\ \A k \in 1..Len(c) : k \in 1..Len(b) \/ k = Len(b) + 1
  BY Appended
<1> HIDE DEF c
<1>2. (\A k \in 1..Len(b) : b[k] # r) /\ \A f \in Fds : o[f] # r
  BY DEF On
<1>3. \A k, l \in 1..Len(c) : c[k] = c[l] => k = l
  BY <1>1, <1>2 DEF Placed
<1>4. \A f \in Fds, k \in 1..Len(c) : o[f] # c[k]
  BY <1>1, <1>2 DEF Placed
<1>5. Placed(c, o)
  BY <1>3, <1>4 DEF Placed
<1>6. \A q : (\E k \in 1..Len(c) : c[k] = q) <=> (\E k \in 1..Len(b) : b[k] = q) \/ q = r
  BY <1>1
<1> QED
  BY <1>5, <1>6 DEF On, c

\* accept moves the first of the backlog behind a descriptor.
LEMMA OnAccept ==
  ASSUME NEW b \in Seq(Requests), NEW o \in [Fds -> Requests \cup {NoReq}], Placed(b, o),
         b # <<>>, NEW f \in Fds, o[f] = NoReq
  PROVE  /\ Placed(Tail(b), [o EXCEPT ![f] = Head(b)])
         /\ \A q \in Requests : On(Tail(b), [o EXCEPT ![f] = Head(b)], q) <=> On(b, o, q)
<1> DEFINE c == Tail(b)
           p == [o EXCEPT ![f] = Head(b)]
<1>1. /\ c \in Seq(Requests) /\ Head(b) \in Requests /\ Head(b) = b[1] /\ 1 \in 1..Len(b)
      /\ \A k \in 1..Len(c) : k + 1 \in 1..Len(b) /\ c[k] = b[k + 1] /\ k + 1 # 1
      /\ \A k \in 1..Len(b) : k = 1 \/ (k - 1 \in 1..Len(c) /\ b[k] = c[k - 1])
  BY Rest
<1>2. \A g \in Fds : p[g] = IF g = f THEN b[1] ELSE o[g]
  BY <1>1
<1> HIDE DEF c, p
<1>3. \A k, l \in 1..Len(c) : c[k] = c[l] => k = l
  <2> SUFFICES ASSUME NEW k \in 1..Len(c), NEW l \in 1..Len(c), c[k] = c[l] PROVE k = l
    OBVIOUS
  <2>1. k + 1 = l + 1
    BY <1>1 DEF Placed
  <2> QED
    BY <2>1
<1>4. \A g, h \in Fds : p[g] = p[h] /\ p[g] # NoReq => g = h
  BY <1>1, <1>2 DEF Placed
<1>5. \A g \in Fds, k \in 1..Len(c) : p[g] # c[k]
  <2> SUFFICES ASSUME NEW g \in Fds, NEW k \in 1..Len(c), p[g] = c[k] PROVE FALSE
    OBVIOUS
  <2>1. k + 1 \in 1..Len(b) /\ b[k + 1] = p[g] /\ k + 1 # 1
    BY <1>1
  <2> QED
    BY <1>1, <1>2, <2>1 DEF Placed
<1>6. ASSUME NEW q \in Requests PROVE On(c, p, q) <=> On(b, o, q)
  <2>1. ASSUME On(c, p, q) PROVE On(b, o, q)
    BY <1>1, <1>2, <2>1 DEF On
  <2>2. ASSUME NEW k \in 1..Len(b), b[k] = q PROVE On(c, p, q)
    <3>1. CASE k = 1
      BY <1>2, <2>2, <3>1 DEF On
    <3>2. CASE k # 1
      BY <1>1, <2>2, <3>2 DEF On
    <3> QED
      BY <3>1, <3>2
  <2>3. ASSUME NEW g \in Fds, o[g] = q PROVE On(c, p, q)
    <3>1. g # f
      BY <2>3, ReqFacts
    <3> QED
      BY <1>2, <2>3, <3>1 DEF On
  <2> QED
    BY <2>1, <2>2, <2>3 DEF On
<1> QED
  BY <1>3, <1>4, <1>5, <1>6 DEF Placed, c, p

\* A close takes away one connection.
LEMMA OnClose ==
  ASSUME NEW b \in Seq(Requests), NEW o \in [Fds -> Requests \cup {NoReq}], Placed(b, o),
         NEW f \in Fds
  PROVE  /\ [o EXCEPT ![f] = NoReq] \in [Fds -> Requests \cup {NoReq}]
         /\ Placed(b, [o EXCEPT ![f] = NoReq])
         /\ \A q \in Requests :
              On(b, [o EXCEPT ![f] = NoReq], q) <=> On(b, o, q) /\ q # o[f]
<1> DEFINE p == [o EXCEPT ![f] = NoReq]
<1>1. p \in [Fds -> Requests \cup {NoReq}] /\ \A g \in Fds : p[g] = IF g = f THEN NoReq ELSE o[g]
  OBVIOUS
<1> HIDE DEF p
<1>2. \A k \in 1..Len(b) : b[k] \in Requests
  OBVIOUS
<1>3. Placed(b, p)
  BY <1>1, <1>2, ReqFacts DEF Placed
<1>4. ASSUME NEW q \in Requests PROVE On(b, p, q) <=> On(b, o, q) /\ q # o[f]
  <2>1. ASSUME On(b, p, q) PROVE On(b, o, q) /\ q # o[f]
    <3>1. CASE \E k \in 1..Len(b) : b[k] = q
      BY <3>1 DEF On, Placed
    <3>2. CASE \E g \in Fds : p[g] = q
      BY <1>1, <3>2, ReqFacts DEF On, Placed
    <3> QED
      BY <2>1, <3>1, <3>2 DEF On
  <2>2. ASSUME On(b, o, q), q # o[f] PROVE On(b, p, q)
    BY <1>1, <2>2 DEF On
  <2> QED
    BY <2>1, <2>2
<1> QED
  BY <1>1, <1>3, <1>4 DEF p

-----------------------------------------------------------------------------
(* The array of slots.                                                     *)

LEMMA ShapeDropped ==
  ASSUME NEW s \in Seq(Slot), Shape(s), NEW k \in 1..Len(s), k # 1
  PROVE  Shape(RemoveAt(s, k))
<1> DEFINE t == RemoveAt(s, k)
<1>1. Len(t) = Len(s) - 1 /\ Len(s) \in Nat /\ \A a \in 1..(Len(s) - 1) : t[a] = s[Old(k, a)]
  BY Dropped
<1>2. /\ \A a \in 1..(Len(s) - 1) : Old(k, a) \in 1..Len(s)
      /\ \A a \in 1..(Len(s) - 1) : Old(k, a) = 1 <=> a = 1
      /\ 1 \in 1..(Len(s) - 1)
  <2> DEFINE n == Len(s)
  <2>1. n \in Nat /\ k \in 1..n
    OBVIOUS
  <2> HIDE DEF n
  <2>2. k # 1 => 1 \in 1..(n - 1)
    BY <2>1
  <2>3. /\ \A a \in 1..(n - 1) : Old(k, a) \in 1..n
        /\ \A a \in 1..(n - 1) : k # 1 => (Old(k, a) = 1 <=> a = 1)
    BY <2>1, OldFacts
  <2> QED
    BY <2>2, <2>3 DEF n
<1> HIDE DEF t
<1>3. Shape(t)
  BY <1>1, <1>2 DEF Shape
<1> QED
  BY <1>3 DEF t

\* A slot goes whose descriptor is closed, or whose connection is remembered.
LEMMA WatchedDropped ==
  ASSUME NEW s \in Seq(Slot), NEW k \in 1..Len(s), NEW o, NEW p, NEW ms, NEW ns,
         Watched(s, o, ms), ms \subseteq ns,
         \A f \in Fds : p[f] = NoReq \/ p[f] = o[f],
         s[k].fd \in Fds => p[s[k].fd] = NoReq \/ p[s[k].fd] \in ns
  PROVE  Watched(RemoveAt(s, k), p, ns)
<1> DEFINE t == RemoveAt(s, k)
           n == Len(s) - 1
<1>1. Len(t) = n /\ Len(s) \in Nat /\ \A a \in 1..n : t[a] = s[Old(k, a)]
  BY Dropped
<1>2. /\ \A a \in 1..n : Old(k, a) \in 1..Len(s) /\ Old(k, a) # k
      /\ \A a, c \in 1..n : Old(k, a) = Old(k, c) => a = c
      /\ \A b \in 1..Len(s) : b # k => \E a \in 1..n : Old(k, a) = b
  BY <1>1, OldFacts
<1> HIDE DEF t, n
<1>3. \A a, c \in 1..n : t[a].fd = t[c].fd => a = c
  <2> SUFFICES ASSUME NEW a \in 1..n, NEW c \in 1..n, t[a].fd = t[c].fd PROVE a = c
    OBVIOUS
  <2>1. s[Old(k, a)].fd = s[Old(k, c)].fd /\ Old(k, a) \in 1..Len(s) /\ Old(k, c) \in 1..Len(s)
    BY <1>1, <1>2
  <2>2. Old(k, a) = Old(k, c)
    BY <2>1 DEF Watched
  <2> QED
    BY <1>2, <2>2
<1>4. ASSUME NEW f \in Fds, p[f] # NoReq, p[f] \notin ns
      PROVE  \E a \in 1..n : t[a].fd = f
  <2>1. o[f] # NoReq /\ o[f] \notin ms /\ s[k].fd # f
    BY <1>4
  <2>2. PICK b \in 1..Len(s) : s[b].fd = f
    BY <2>1 DEF Watched
  <2>3. PICK a \in 1..n : Old(k, a) = b
    BY <1>2, <2>1, <2>2
  <2> QED
    BY <1>1, <2>2, <2>3
<1>5. ASSUME NEW a \in 1..n, NEW f \in Fds, t[a].fd = f, t[a].polled, "nval" \in t[a].revents
      PROVE  p[f] = NoReq
  <2>1. /\ Old(k, a) \in 1..Len(s) /\ s[Old(k, a)].fd = f /\ s[Old(k, a)].polled
        /\ "nval" \in s[Old(k, a)].revents
    BY <1>1, <1>2, <1>5
  <2>2. o[f] = NoReq
    BY <2>1 DEF Watched
  <2> QED
    BY <2>2
<1> QED
  BY <1>1, <1>3, <1>4, <1>5 DEF Watched, t

\* A close leaves the array as it is.
LEMMA WatchedClosed ==
  ASSUME NEW s, NEW o, NEW p, NEW ms, Watched(s, o, ms),
         \A f \in Fds : p[f] = NoReq \/ p[f] = o[f]
  PROVE  Watched(s, p, ms)
<1>1. ASSUME NEW f \in Fds, p[f] # NoReq, p[f] \notin ms PROVE \E k \in 1..Len(s) : s[k].fd = f
  BY <1>1 DEF Watched
<1>2. \A k \in 1..Len(s), f \in Fds :
        s[k].fd = f /\ s[k].polled /\ "nval" \in s[k].revents => p[f] = NoReq
  BY DEF Watched
<1> QED
  BY <1>1, <1>2 DEF Watched

\* An accepted connection gets a slot of its own, which poll has not seen.
LEMMA WatchedAccepted ==
  ASSUME NEW s \in Seq(Slot), NEW o \in [Fds -> Requests \cup {NoReq}], NEW ms, Watched(s, o, ms),
         NEW f \in Fds, NEW r \in Requests, NEW x \in Slot, x.fd = f, ~x.polled,
         \A k \in 1..Len(s) : s[k].fd # f
  PROVE  Watched(Append(s, x), [o EXCEPT ![f] = r], ms)
<1> DEFINE t == Append(s, x)
           p == [o EXCEPT ![f] = r]
<1>1. /\ Len(t) = Len(s) + 1 /\ Len(s) \in Nat /\ t[Len(s) + 1] = x
      /\ \A k \in 1..Len(s) : t[k] = s[k]
      /\ \A k \in 1..Len(t) : k \in 1..Len(s) \/ k = Len(s) + 1
      /\ \A k \in 1..Len(s) : k \in 1..Len(t) /\ k # Len(s) + 1
      /\ Len(s) + 1 \in 1..Len(t)
  OBVIOUS
<1>2. \A g \in Fds : p[g] = IF g = f THEN r ELSE o[g]
  OBVIOUS
<1> HIDE DEF t, p
<1>3. \A k, l \in 1..Len(t) : t[k].fd = t[l].fd => k = l
  BY <1>1 DEF Watched
<1>4. ASSUME NEW g \in Fds, p[g] # NoReq, p[g] \notin ms PROVE \E k \in 1..Len(t) : t[k].fd = g
  <2>1. CASE g = f
    BY <1>1, <2>1
  <2>2. CASE g # f
    <3>1. o[g] # NoReq /\ o[g] \notin ms
      BY <1>2, <1>4, <2>2
    <3>2. PICK k \in 1..Len(s) : s[k].fd = g
      BY <3>1 DEF Watched
    <3> QED
      BY <1>1, <3>2
  <2> QED
    BY <2>1, <2>2
<1>5. ASSUME NEW k \in 1..Len(t), NEW g \in Fds, t[k].fd = g, t[k].polled, "nval" \in t[k].revents
      PROVE  p[g] = NoReq
  <2>1. k \in 1..Len(s) /\ s[k].fd = g /\ s[k].polled /\ "nval" \in s[k].revents
    BY <1>1, <1>5
  <2>2. g # f /\ o[g] = NoReq
    BY <2>1 DEF Watched
  <2> QED
    BY <1>2, <2>2
<1> QED
  BY <1>3, <1>4, <1>5 DEF Watched, t, p

-----------------------------------------------------------------------------
(* The steps.                                                              *)

LEMMA Initially == Init => Inv
<1> SUFFICES ASSUME Init PROVE Inv
  OBVIOUS
<1> DEFINE l == [fd |-> LSock, revents |-> {}, polled |-> TRUE]
<1>1. fds = <<l>> /\ l \in Slot /\ l.fd = LSock /\ l.revents = {} /\ reading = NoReq
  BY DEF Init, Slot
<1> HIDE DEF l
<1>2. fds \in Seq(Slot) /\ Len(fds) = 1 /\ fds[1] = l /\ \A k \in 1..Len(fds) : k = 1
  BY <1>1
<1>3. backlog = <<>> /\ Len(backlog) = 0 /\ backlog \in Seq(Requests)
  BY DEF Init
<1>4. Types
  <2>1. <<>> \in Seq({"begin", "end"}) /\ <<>> \in Seq(Messages \cup Removals)
    OBVIOUS
  <2>2. /\ client \in [Requests -> States] /\ unread \in [Requests -> Seq({"begin", "end"})]
        /\ owner \in [Fds -> Requests \cup {NoReq}] /\ queue \in Seq(Messages \cup Removals)
        /\ given \in [Requests -> Nat]
    BY <2>1 DEF Init, States
  <2>3. i \in Nat \ {0} /\ ret \in Nat /\ i <= Len(fds) + 2 /\ ret <= Len(fds)
    BY <1>2 DEF Init
  <2> QED
    BY <1>2, <1>3, <2>2, <2>3 DEF Init, Types
<1>5. Shape(fds) /\ ToAccept
  BY <1>1, <1>2 DEF Shape, ToAccept, Reported
<1>6. Placed(backlog, owner)
  BY <1>3 DEF Init, Placed
<1>7. Counts
  BY <1>3, ReqFacts DEF Init, Counts, Counted, Progress, Held, On
<1>8. Watched(fds, owner, misled) /\ Current /\ Reads
  BY <1>1, <1>2 DEF Init, Watched, Current, Reads
<1> QED
  BY <1>4, <1>5, <1>6, <1>7, <1>8 DEF Inv

\* What the clients may do to the listener: they send, and they go.
LEMMA ClientKeeps ==
  ASSUME Inv, UNCHANGED daemonVars,
         client' \in [Requests -> States], unread' \in [Requests -> Seq({"begin", "end"})],
         backlog' \in Seq(Requests), backlog # <<>> => backlog' # <<>>, Placed(backlog', owner),
         \A r \in Requests : /\ Gone(r) => client'[r] = "closed"
                             /\ unread[r] # <<>> => unread'[r] # <<>>,
         Counts'
  PROVE  Inv'
<1> USE DEF daemonVars
<1>1. Types' /\ Shape(fds)' /\ ToAccept' /\ Placed(backlog, owner)' /\ Reads'
  BY DEF Inv, Types, ToAccept, Shape, Placed, Reads
<1>2. ASSUME ~reused' PROVE Watched(fds, owner, misled)' /\ Current'
  <2>1. Watched(fds, owner, misled) /\ Current
    BY <1>2 DEF Inv
  <2>2. Watched(fds, owner, misled)'
    BY <2>1 DEF Watched
  <2>3. ASSUME NEW e, NEW r \in Requests, True(e, r) PROVE True(e, r)'
    BY <2>3 DEF True, Gone
  <2>4. \A f \in Fds : owner[f] # NoReq => owner[f] \in Requests
    BY DEF Inv, Types
  <2>5. Current'
    <3> SUFFICES ASSUME NEW k \in 1..Len(fds), NEW f \in Fds, k >= i, fds[k].fd = f,
                        fds[k].polled, owner[f] # NoReq
                 PROVE  True(fds[k].revents, owner[f])'
      BY DEF Current
    <3>1. True(fds[k].revents, owner[f]) /\ owner[f] \in Requests
      BY <2>1, <2>4 DEF Current
    <3> QED
      BY <2>3, <3>1 DEF True, Gone
  <2> QED
    BY <2>2, <2>5
<1> QED
  BY <1>1, <1>2 DEF Inv

LEMMA ConnectStep ==
  ASSUME Inv, NEW r \in Requests, Connect(r)
  PROVE  Inv'
<1>1. /\ UNCHANGED daemonVars /\ unread' = unread /\ backlog' = Append(backlog, r)
      /\ client[r] = "none" /\ \A q \in Requests : client'[q] = IF q = r THEN "connected" ELSE client[q]
      /\ client' \in [Requests -> States]
  BY DEF Connect, Inv, Types, States
<1>2. ~Held(backlog, owner, reading, r)
  BY <1>1 DEF Inv, Counts, Counted
<1>3. /\ Placed(backlog', owner) /\ \A q : On(backlog', owner, q) <=> On(backlog, owner, q) \/ q = r
      /\ backlog' \in Seq(Requests) /\ backlog' # <<>>
  <2>1. backlog \in Seq(Requests) /\ owner \in [Fds -> Requests \cup {NoReq}] /\ Placed(backlog, owner)
    BY DEF Inv, Types
  <2>2. backlog' \in Seq(Requests) /\ backlog' # <<>>
    BY <1>1, <2>1
  <2> QED
    BY <1>1, <1>2, <2>1, <2>2, OnConnect DEF Held
<1>4. Counts'
  <2> SUFFICES ASSUME NEW q \in Requests
               PROVE  Counted(q, client'[q], unread[q], given[q],
                              Held(backlog', owner, reading, q), q \in cut \cup misled)
    BY <1>1 DEF Counts, daemonVars, Held, On
  <2>1. Counted(q, client[q], unread[q], given[q], Held(backlog, owner, reading, q), q \in cut \cup misled)
    BY DEF Inv, Counts
  <2>2. CASE q = r
    BY <1>1, <1>3, <2>1, <2>2 DEF Counted, Progress, Held
  <2>3. CASE q # r
    BY <1>1, <1>3, <2>1, <2>3 DEF Counted, Held
  <2> QED
    BY <2>2, <2>3
<1> QED
  BY <1>1, <1>3, <1>4, ClientKeeps DEF Gone, Inv, Types

\* A message is written to a connection that the daemon has, and lost otherwise.
LEMMA SendStep ==
  ASSUME Inv, NEW r \in Requests, NEW c \in {"begin", "end"}, Send(r, c),
         client' = [client EXCEPT ![r] = IF c = "begin" THEN "begun" ELSE "ended"],
         client[r] = IF c = "begin" THEN "connected" ELSE "begun",
         backlog' = backlog, UNCHANGED daemonVars
  PROVE  Inv'
<1> DEFINE next == IF c = "begin" THEN "begun" ELSE "ended"
<1>1. /\ client' \in [Requests -> States]
      /\ \A q \in Requests : client'[q] = IF q = r THEN next ELSE client[q]
  BY DEF Inv, Types, States
<1>2. Types /\ unread[r] \in Seq({"begin", "end"}) /\ Len(unread[r]) \in Nat /\ given[r] \in Nat
  BY DEF Inv, Types
<1>3. Connected(r) <=> Held(backlog, owner, reading, r)
  BY <1>2, ConnectedIsOn
<1>4. /\ unread' \in [Requests -> Seq({"begin", "end"})]
      /\ \A q \in Requests : q # r => unread'[q] = unread[q]
      /\ unread'[r] = IF Held(backlog, owner, reading, r) THEN Append(unread[r], c) ELSE unread[r]
  BY <1>2, <1>3 DEF Send, Types
<1>5. Append(unread[r], c) # <<>> /\ Len(Append(unread[r], c)) = Len(unread[r]) + 1
  BY <1>2
<1>6. Counts'
  <2> SUFFICES ASSUME NEW q \in Requests
               PROVE  Counted(q, client'[q], unread'[q], given[q], Held(backlog, owner, reading, q), q \in cut \cup misled)
    BY DEF Counts, daemonVars, Held, On
  <2>1. Counted(q, client[q], unread[q], given[q], Held(backlog, owner, reading, q), q \in cut \cup misled)
    BY DEF Inv, Counts
  <2>2. CASE q = r
    <3>1. client'[r] = next /\ client[r] # "closed" /\ next # "closed"
          /\ Progress(next) = Progress(client[r]) + 1 /\ Progress(client[r]) \in Nat
          /\ client[r] \in {"connected", "begun", "ended"} /\ next # "none"
      BY <1>1 DEF Progress
    <3> HIDE DEF next
    <3>2. CASE Held(backlog, owner, reading, r)
      <4>1. Len(unread'[r]) = Len(unread[r]) + 1
        BY <1>4, <1>5, <3>2
      <4> QED
        BY <1>2, <2>1, <2>2, <3>1, <3>2, <4>1 DEF Counted
    <3>3. CASE ~Held(backlog, owner, reading, r)
      BY <1>2, <1>4, <2>1, <2>2, <3>1, <3>3 DEF Counted
    <3> QED
      BY <3>2, <3>3
  <2>3. CASE q # r
    BY <1>1, <1>4, <2>1, <2>3 DEF Counted
  <2> QED
    BY <2>2, <2>3
<1>7. \A q \in Requests : /\ Gone(q) => client'[q] = "closed"
                          /\ unread[q] # <<>> => unread'[q] # <<>>
  BY <1>1, <1>4, <1>5 DEF Gone
<1> QED
  BY <1>1, <1>4, <1>6, <1>7, ClientKeeps DEF Inv, Types

\* A client goes: one that has sent END, or all of a process that may end; or it
\* leaves its connection, after a redirect.
LEMMA LeaveStep ==
  ASSUME Inv, client' \in [Requests -> States],
         \A q \in Requests : \/ client'[q] = client[q]
                             \/ client'[q] = "redirected" /\ client[q] = "begun"
                             \/ /\ client'[q] = "closed"
                                /\ client[q] = "ended" \/ q[1] \in Mortal,
         UNCHANGED <<unread, backlog, daemonVars>>
  PROVE  Inv'
<1>1. Counts'
  <2> SUFFICES ASSUME NEW q \in Requests
               PROVE  Counted(q, client'[q], unread[q], given[q], Held(backlog, owner, reading, q), q \in cut \cup misled)
    BY DEF Counts, daemonVars, Held, On
  <2>1. Counted(q, client[q], unread[q], given[q], Held(backlog, owner, reading, q), q \in cut \cup misled)
    BY DEF Inv, Counts
  <2>2. Len(unread[q]) \in Nat /\ given[q] \in Nat
    BY DEF Inv, Types
  <2>3. CASE client'[q] = client[q]
    BY <2>1, <2>3
  <2>4. CASE client'[q] = "closed" /\ (client[q] = "ended" \/ q[1] \in Mortal)
    BY <2>1, <2>2, <2>4 DEF Counted, Progress
  <2>5. CASE client'[q] = "redirected" /\ client[q] = "begun"
    BY <2>1, <2>2, <2>5 DEF Counted, Progress
  <2> QED
    BY <2>3, <2>4, <2>5
<1>2. \A q \in Requests : Gone(q) => client'[q] = "closed"
  BY DEF Gone
<1> QED
  BY <1>1, <1>2, ClientKeeps DEF Inv, Types

LEMMA ClientsStep ==
  ASSUME Inv, Clients
  PROVE  Inv'
<1>1. ASSUME NEW r \in Requests, Connect(r) PROVE Inv'
  BY <1>1, ConnectStep
<1>2. ASSUME NEW r \in Requests, SendBegin(r) PROVE Inv'
  BY <1>2, SendStep DEF SendBegin
<1>3. ASSUME NEW r \in Requests, SendEnd(r) PROVE Inv'
  BY <1>3, SendStep DEF SendEnd
<1>4. ASSUME NEW r \in Requests, Close(r) PROVE Inv'
  <2>1. /\ client' \in [Requests -> States]
        /\ \A q \in Requests : client'[q] = client[q] \/ (client'[q] = "closed" /\ client[q] = "ended")
    BY <1>4 DEF Close, Inv, Types, States
  <2> QED
    BY <1>4, <2>1, LeaveStep DEF Close
<1>5. ASSUME NEW w \in Workers, Exit(w) PROVE Inv'
  <2>1. /\ client' \in [Requests -> States]
        /\ \A q \in Requests : client'[q] = client[q] \/ (client'[q] = "closed" /\ q[1] \in Mortal)
    BY <1>5 DEF Exit, Inv, Types, States
  <2> QED
    BY <1>5, <2>1, LeaveStep DEF Exit
<1>6. ASSUME NEW r \in Requests, Redirect(r) PROVE Inv'
  <2>1. /\ client' \in [Requests -> States]
        /\ \A q \in Requests : \/ client'[q] = client[q]
                               \/ client'[q] = "redirected" /\ client[q] = "begun"
    BY <1>6 DEF Redirect, Inv, Types, States
  <2> QED
    BY <1>6, <2>1, LeaveStep DEF Redirect
<1> QED
  BY <1>1, <1>2, <1>3, <1>4, <1>5, <1>6 DEF Clients, ClientMoves

\* What poll reports is so.
LEMMA Reports ==
  ASSUME Types
  PROVE  /\ Revents(LSock) \subseteq {"in"} /\ ("in" \in Revents(LSock) => backlog # <<>>)
         /\ \A f \in Fds :
              /\ Revents(f) \subseteq Revent
              /\ Revents(f) \in Reported
              /\ "nval" \in Revents(f) => owner[f] = NoReq
              /\ owner[f] # NoReq => True(Revents(f), owner[f])
<1> SUFFICES ASSUME NEW f \in Fds
             PROVE  /\ Revents(LSock) \subseteq {"in"} /\ ("in" \in Revents(LSock) => backlog # <<>>)
                    /\ Revents(f) \subseteq Revent /\ Revents(f) \in Reported
                    /\ "nval" \in Revents(f) => owner[f] = NoReq
                    /\ owner[f] # NoReq => True(Revents(f), owner[f])
  BY DEF Revents
<1>1. f # LSock
  BY ReqFacts
<1>2. Revents(LSock) \subseteq {"in"} /\ ("in" \in Revents(LSock) => backlog # <<>>)
  BY DEF Revents
<1>3. CASE owner[f] = NoReq
  BY <1>1, <1>2, <1>3 DEF Revents, Revent, Reported
<1>4. CASE owner[f] # NoReq /\ Gone(owner[f])
  <2>1. Revents(f) = {"in", "hup"}
    BY <1>1, <1>4 DEF Revents
  <2> QED
    BY <1>2, <1>4, <2>1 DEF Revent, Reported, True
<1>5. CASE owner[f] # NoReq /\ ~Gone(owner[f])
  <2>1. Revents(f) = {e \in {"in"} : unread[owner[f]] # <<>>}
    BY <1>1, <1>5 DEF Revents
  <2>2. Revents(f) = IF unread[owner[f]] # <<>> THEN {"in"} ELSE {}
    BY <2>1
  <2> QED
    BY <1>2, <1>5, <2>2 DEF Revent, Reported, True
<1> QED
  BY <1>3, <1>4, <1>5

\* What changes where the daemon has connections keeps the counts: one that it no
\* longer has was read out and is gone, or is remembered.
LEMMA CountsMoved ==
  ASSUME Inv, UNCHANGED <<client, unread, given>>, cut \subseteq cut', misled \subseteq misled',
         \A q \in Requests :
           LET was == Held(backlog, owner, reading, q)
               is  == Held(backlog', owner', reading', q)
           IN  /\ is => was
               /\ was /\ ~is => q \in cut' \cup misled' \/ (unread[q] = <<>> /\ Gone(q))
  PROVE  Counts'
<1> SUFFICES ASSUME NEW q \in Requests
             PROVE  Counted(q, client[q], unread[q], given[q],
                            Held(backlog', owner', reading', q), q \in cut' \cup misled')
  BY DEF Counts, Held, On
<1>1. Counted(q, client[q], unread[q], given[q], Held(backlog, owner, reading, q),
              q \in cut \cup misled)
  BY DEF Inv, Counts
<1> QED
  BY <1>1 DEF Counted, Gone

LEMMA PollStep ==
  ASSUME Inv, Poll
  PROVE  Inv'
<1> DEFINE s == [k \in 1..Len(fds) |->
                   [fd |-> fds[k].fd, revents |-> Revents(fds[k].fd), polled |-> TRUE]]
           counted == {k \in 1..Len(fds) : Revents(fds[k].fd) # {}}
<1>1. /\ Types /\ Shape(fds) /\ fds' = s /\ ret' = Cardinality(counted) /\ i' = 1
      /\ UNCHANGED <<client, unread, backlog, owner, reading, queue, tids, misled, cut, reused, given>>
  BY DEF Poll, Inv, clientVars, listVars
<1>2. \A k \in 1..Len(fds) : fds[k].fd \in Fds \cup {LSock}
  <2> SUFFICES ASSUME NEW k \in 1..Len(fds) PROVE fds[k].fd \in Fds \cup {LSock}
    OBVIOUS
  <2>1. fds[k] \in Slot
    BY <1>1 DEF Types
  <2> QED
    BY <2>1 DEF Slot
<1>3. Len(fds) \in Nat /\ counted \in SUBSET (1..Len(fds))
  BY <1>1 DEF Types
<1>4. ret' \in Nat /\ ret' <= Len(fds)
  <2>1. IsFiniteSet(1..Len(fds)) /\ Cardinality(1..Len(fds)) = Len(fds)
    <3> DEFINE n == Len(fds)
    <3>1. n \in Nat
      BY <1>3
    <3> HIDE DEF n
    <3>2. IsFiniteSet(1..n) /\ Cardinality(1..n) = n
      BY <3>1, FS_Interval
    <3> QED
      BY <3>2 DEF n
  <2>2. IsFiniteSet(counted) /\ Cardinality(counted) <= Cardinality(1..Len(fds))
    BY <1>3, <2>1, FS_Subset
  <2>3. Cardinality(counted) \in Nat
    BY <2>2, FS_CardinalityType
  <2> QED
    BY <1>1, <2>1, <2>2, <2>3
<1>5. /\ \A k \in 1..Len(fds) : /\ s[k] \in Slot /\ s[k].fd = fds[k].fd
                                /\ s[k].revents = Revents(fds[k].fd)
      /\ s \in Seq(Slot) /\ Len(s) = Len(fds)
  <2>1. \A k \in 1..Len(fds) :
          [fd |-> fds[k].fd, revents |-> Revents(fds[k].fd), polled |-> TRUE] \in Slot
    BY <1>1, <1>2, Reports DEF Slot, Revent
  <2> QED
    BY <1>3, <2>1
<1> HIDE DEF s, counted
<1>6. Types'
  BY <1>1, <1>3, <1>4, <1>5 DEF Types
<1>7. /\ Shape(s) /\ ("in" \in s[1].revents => backlog # <<>>) /\ 1 \in 1..Len(fds)
  <2>1. 1 \in 1..Len(fds) /\ \A k \in 1..Len(fds) : fds[k].fd = LSock <=> k = 1
    BY <1>1, <1>3 DEF Shape
  <2>2. Revents(LSock) \in Reported
    BY DEF Revents, Reported
  <2>3. \A k \in 1..Len(fds) : s[k].revents \in Reported
    BY <1>1, <1>2, <1>5, <2>2, Reports
  <2>4. s[1].revents = Revents(LSock)
    BY <1>5, <2>1
  <2> QED
    BY <1>1, <1>5, <2>1, <2>3, <2>4, Reports DEF Shape
<1>8. reading = NoReq
  BY DEF Poll, Scanning, Inv, Reads, Types
<1>9. Shape(fds)' /\ ToAccept' /\ Placed(backlog, owner)' /\ Counts' /\ Reads'
  BY <1>1, <1>7, <1>8 DEF Inv, ToAccept, Counts, Held, On, Shape, Placed, Reads
<1>10. ASSUME ~reused' PROVE Watched(fds', owner', misled') /\ Current'
  <2>1. Watched(fds, owner, misled)
    BY <1>1, <1>10 DEF Inv
  <2>2. Watched(s, owner, misled)
    <3>1. \A f \in Fds : owner[f] # NoReq /\ owner[f] \notin misled => \E k \in 1..Len(s) : s[k].fd = f
      BY <1>5, <2>1 DEF Watched
    <3>2. \A k \in 1..Len(s), f \in Fds :
            s[k].fd = f /\ s[k].polled /\ "nval" \in s[k].revents => owner[f] = NoReq
      BY <1>1, <1>5, Reports
    <3>3. \A k, l \in 1..Len(s) : s[k].fd = s[l].fd => k = l
      BY <1>5, <2>1 DEF Watched
    <3> QED
      BY <3>1, <3>2, <3>3 DEF Watched
  <2>3. ASSUME NEW k \in 1..Len(s), NEW f \in Fds, s[k].fd = f, owner[f] # NoReq
        PROVE  True(s[k].revents, owner[f])
    BY <1>1, <1>5, <2>3, Reports
  <2>4. Current'
    <3> SUFFICES ASSUME NEW k \in 1..Len(fds'), NEW f \in Fds, fds'[k].fd = f, owner'[f] # NoReq
                 PROVE  True(fds[k].revents, owner[f])'
      BY DEF Current
    <3>1. True(s[k].revents, owner[f])
      BY <1>1, <2>3
    <3> QED
      BY <1>1, <3>1 DEF True, Gone
  <2> QED
    BY <1>1, <2>2, <2>4
<1> QED
  BY <1>6, <1>9, <1>10 DEF Inv

\* A slot that has nothing to say, or l_sock when no descriptor is left.
LEMMA SkipStep ==
  ASSUME Inv, i \in 1..Len(fds), i' = i + 1, ret' \in {ret, ret - 1}, ret > 0, reading = NoReq,
         UNCHANGED <<clientVars, backlog, owner, fds, reading, listVars, misled, reused>>
  PROVE  Inv'
<1> USE DEF clientVars, listVars
<1>1. Types'
  <2>1. i' \in Nat \ {0} /\ i' <= Len(fds) + 2 /\ ret' \in Nat /\ ret' <= Len(fds)
    BY DEF Inv, Types
  <2> QED
    BY <2>1 DEF Inv, Types
<1>2. Shape(fds)' /\ ToAccept' /\ Placed(backlog, owner)' /\ Counts' /\ Reads'
  <2>1. i' # 1
    BY DEF Inv, Types
  <2> QED
    BY <2>1 DEF Inv, Shape, ToAccept, Placed, Counts, Held, On, Reads
<1>3. ASSUME ~reused' PROVE Watched(fds, owner, misled)' /\ Current'
  <2>1. Watched(fds, owner, misled) /\ Current
    BY <1>3 DEF Inv
  <2>2. \A k \in 1..Len(fds) : k >= i' => k >= i
    BY DEF Inv, Types
  <2>3. Current'
    BY <2>1, <2>2 DEF Current, True, Gone
  <2> QED
    BY <2>1, <2>3 DEF Watched
<1> QED
  BY <1>1, <1>2, <1>3 DEF Inv

LEMMA AcceptStep ==
  ASSUME Inv, Accept
  PROVE  Inv'
<1> DEFINE f == Min(Fds \ OpenFds)
<1>0. Types /\ Shape(fds) /\ Placed(backlog, owner) /\ ToAccept
  BY DEF Inv
<1>1. /\ i = 1 /\ i \in 1..Len(fds) /\ "in" \in fds[1].revents /\ ret > 0 /\ ret \in Nat
      /\ reading = NoReq
  <2>1. i <= Len(fds) /\ ret > 0 /\ "in" \in fds[i].revents /\ fds[i].fd = LSock
    BY DEF Accept, Has, Scanning, Fd
  <2>2. reading = NoReq
    BY <2>1, ReqFacts DEF Inv, Reads
  <2> QED
    BY <1>0, <2>1, <2>2 DEF Types, Shape
<1>2. f \in Fds /\ owner[f] = NoReq
  <2>1. Fds \ OpenFds \in SUBSET Nat /\ Fds \ OpenFds # {}
    BY ReqFacts DEF Accept, OpenFds
  <2> QED
    BY <2>1, MinOf DEF OpenFds
<1>3. PICK g \in SUBSET Revent : fds' = Append(fds, [fd |-> f, revents |-> g, polled |-> FALSE])
  <2>1. Garbage \subseteq SUBSET Revent
    BY DEF Garbage, Revent
  <2>2. PICK g \in Garbage : fds' = Append(fds, [fd |-> f, revents |-> g, polled |-> FALSE])
    BY DEF Accept
  <2>3. g \in SUBSET Revent
    BY <2>1
  <2> QED
    BY <2>2, <2>3
<1>4. /\ owner' = [owner EXCEPT ![f] = Head(backlog)] /\ backlog' = Tail(backlog)
      /\ reused' = (reused \/ \E k \in 1..Len(fds) : fds[k].fd = f)
      /\ i' = i + 1 /\ ret' = ret - 1
      /\ UNCHANGED <<client, unread, reading, queue, tids, misled, cut, given>>
  BY DEF Accept, Advance, clientVars, listVars
<1> HIDE DEF f
<1>5. backlog # <<>> /\ Head(backlog) \in Requests /\ Tail(backlog) \in Seq(Requests)
  <2>1. backlog # <<>> /\ backlog \in Seq(Requests)
    BY <1>0, <1>1 DEF ToAccept, Types
  <2> QED
    BY <2>1
<1> DEFINE x == [fd |-> f, revents |-> g, polled |-> FALSE]
<1>6. x \in Slot /\ x.fd = f /\ ~x.polled
  BY <1>2, <1>3 DEF Slot
<1>7. fds' = Append(fds, x)
  BY <1>3
<1> HIDE DEF x
<1>8. /\ fds' \in Seq(Slot) /\ Len(fds') = Len(fds) + 1 /\ Len(fds) \in Nat
      /\ \A k \in 1..Len(fds) : fds'[k] = fds[k]
      /\ fds'[Len(fds) + 1] = x
      /\ \A k \in 1..Len(fds') : k \in 1..Len(fds) \/ k = Len(fds) + 1
  <2>1. fds \in Seq(Slot)
    BY <1>0 DEF Types
  <2> QED
    BY <1>6, <1>7, <2>1, Appended
<1>9. Types'
  <2>1. owner' \in [Fds -> Requests \cup {NoReq}] /\ reused' \in BOOLEAN
    BY <1>0, <1>2, <1>4, <1>5 DEF Types
  <2>2. /\ i' \in Nat \ {0} /\ ret' \in Nat /\ i' <= Len(fds') + 2 /\ ret' <= Len(fds')
    BY <1>0, <1>1, <1>4, <1>8, SMTT(30) DEF Types
  <2> QED
    BY <1>0, <1>4, <1>5, <1>8, <2>1, <2>2 DEF Types
<1>10. Shape(fds')
  <2>1. f # LSock
    BY <1>2, ReqFacts
  <2>2. Len(fds') > 0 /\ 1 \in 1..Len(fds) /\ Len(fds) + 1 # 1
    BY <1>1, <1>8
  <2>3. \A k \in 1..Len(fds') : fds'[k].fd = LSock <=> k = 1
    BY <1>0, <1>6, <1>8, <2>1, <2>2 DEF Shape
  <2>4. \A k \in 1..Len(fds') : fds'[k].polled => fds'[k].revents \in Reported
    BY <1>0, <1>6, <1>8 DEF Shape
  <2> QED
    BY <1>0, <1>8, <2>2, <2>3, <2>4 DEF Shape
<1>11. ToAccept' /\ Reads'
  BY <1>1, <1>4 DEF ToAccept, Reads
<1>12. /\ Placed(backlog', owner')
       /\ \A q \in Requests : On(backlog', owner', q) <=> On(backlog, owner, q)
  BY <1>0, <1>2, <1>4, <1>5, OnAccept DEF Types
<1>13. Counts'
  BY <1>4, <1>12, CountsMoved DEF Held
<1>14. ASSUME ~reused' PROVE Watched(fds', owner', misled') /\ Current'
  <2>1. Watched(fds, owner, misled) /\ Current /\ \A k \in 1..Len(fds) : fds[k].fd # f
    BY <1>4, <1>14 DEF Inv
  <2>2. Watched(fds', owner', misled')
    <3>1. fds \in Seq(Slot) /\ owner \in [Fds -> Requests \cup {NoReq}]
      BY <1>0 DEF Types
    <3> QED
      BY <1>2, <1>4, <1>5, <1>6, <1>7, <2>1, <3>1, WatchedAccepted
  <2>3. \A h \in Fds : owner'[h] = IF h = f THEN Head(backlog) ELSE owner[h]
    BY <1>0, <1>4 DEF Types
  <2>4. Current'
    <3> SUFFICES ASSUME NEW k \in 1..Len(fds'), NEW h \in Fds, k >= i', fds'[k].fd = h,
                        fds'[k].polled, owner'[h] # NoReq
                 PROVE  True(fds[k].revents, owner[h])'
      BY DEF Current
    <3>1. k \in 1..Len(fds) /\ fds'[k] = fds[k]
      BY <1>6, <1>8
    <3>2. h # f /\ owner'[h] = owner[h] /\ k >= i
      BY <1>1, <1>4, <2>1, <2>3, <3>1
    <3>3. True(fds[k].revents, owner[h])
      BY <2>1, <3>1, <3>2 DEF Current
    <3> QED
      BY <1>4, <3>1, <3>2, <3>3 DEF True, Gone
  <2> QED
    BY <2>2, <2>4
<1> QED
  BY <1>9, <1>10, <1>11, <1>12, <1>13, <1>14 DEF Inv

\* The slot at i goes, with or without its descriptor.
LEMMA SlotDropped ==
  ASSUME Inv, i \in 1..Len(fds), ret > 0, fds[i].fd \in Fds, DropSlot,
         \A f \in Fds : owner'[f] = NoReq \/ owner'[f] = owner[f],
         \/ owner'[fds[i].fd] = NoReq \/ owner'[fds[i].fd] \in misled'
         \/ fds[i].polled /\ "nval" \in fds[i].revents,
         misled \subseteq misled', UNCHANGED <<client, unread, reused>>
  PROVE  /\ fds' \in Seq(Slot) /\ i' \in Nat \ {0} /\ ret' \in Nat
         /\ i' <= Len(fds') + 2 /\ ret' <= Len(fds') /\ Shape(fds') /\ ToAccept'
         /\ ~reused' => Watched(fds', owner', misled') /\ Current'
<1>1. /\ fds \in Seq(Slot) /\ Shape(fds) /\ ret \in Nat /\ i \in Nat /\ ret <= Len(fds)
      /\ fds' = RemoveAt(fds, i) /\ i' = i + 1 /\ ret' = ret - 1
  BY DEF Inv, Types, DropSlot, Advance
<1>2. /\ fds' \in Seq(Slot) /\ Len(fds') = Len(fds) - 1 /\ Len(fds) \in Nat
      /\ \A a \in 1..(Len(fds) - 1) : fds'[a] = fds[Old(i, a)]
  BY <1>1, Dropped
<1>3. i' \in Nat \ {0} /\ ret' \in Nat /\ i' <= Len(fds') + 2 /\ ret' <= Len(fds') /\ i' # 1
  BY <1>1, <1>2
<1>4. i # 1
  BY <1>1, ReqFacts DEF Shape
<1>5. Shape(fds') /\ ToAccept'
  BY <1>1, <1>3, <1>4, ShapeDropped DEF ToAccept
<1>6. ASSUME ~reused' PROVE Watched(fds', owner', misled') /\ Current'
  <2>1. Watched(fds, owner, misled) /\ Current
    BY <1>6 DEF Inv
  <2>2. owner'[fds[i].fd] = NoReq \/ owner'[fds[i].fd] \in misled'
    BY <2>1 DEF Watched
  <2>3. Watched(RemoveAt(fds, i), owner', misled')
    BY <1>1, <2>1, <2>2, WatchedDropped
  <2>4. /\ \A a \in 1..(Len(fds) - 1) : Old(i, a) \in 1..Len(fds)
        /\ \A a \in 1..(Len(fds) - 1) : a >= i + 1 => Old(i, a) >= i
    BY <1>2, OldFacts
  <2>5. Current'
    <3> SUFFICES ASSUME NEW k \in 1..Len(fds'), NEW f \in Fds, k >= i', fds'[k].fd = f,
                        fds'[k].polled, owner'[f] # NoReq
                 PROVE  True(fds[k].revents, owner[f])'
      BY DEF Current
    <3>1. /\ Old(i, k) \in 1..Len(fds) /\ Old(i, k) >= i /\ fds'[k] = fds[Old(i, k)]
          /\ owner'[f] = owner[f]
      BY <1>1, <1>2, <2>4
    <3>2. True(fds[Old(i, k)].revents, owner[f])
      BY <2>1, <3>1 DEF Current
    <3> QED
      BY <3>1, <3>2 DEF True, Gone
  <2> QED
    BY <1>1, <2>3, <2>5
<1> QED
  BY <1>2, <1>3, <1>5, <1>6

\* The slot that is looked at.
LEMMA Scanned ==
  ASSUME Inv, NEW e, Has(e)
  PROVE  /\ i \in 1..Len(fds) /\ ret > 0 /\ e \in fds[i].revents /\ fds[i].fd \in Fds \cup {LSock}
         /\ fds[i].fd = LSock <=> i = 1
<1>1. i \in 1..Len(fds) /\ ret > 0 /\ e \in fds[i].revents
  BY DEF Has, Scanning, Inv, Types
<1>2. fds[i] \in Slot
  BY <1>1 DEF Inv, Types
<1> QED
  BY <1>1, <1>2 DEF Slot, Inv, Shape

LEMMA Queued ==
  ASSUME Types, NEW m \in Messages \cup Removals, queue' = Append(queue, m)
  PROVE  queue' \in Seq(Messages \cup Removals)
BY DEF Types

\* A read that has to wait: what poll reported would have been there.
LEMMA BlockStep ==
  ASSUME Inv, Block
  PROVE  Inv'
<1>1. /\ i \in 1..Len(fds) /\ ret > 0 /\ "in" \in fds[i].revents /\ fds[i].fd \in Fds \cup {LSock}
  BY Scanned DEF Block
<1>2. /\ reading' = Behind /\ Behind # NoReq /\ unread[Behind] = <<>> /\ ~Gone(Behind)
      /\ UNCHANGED <<client, unread, backlog, owner, fds, i, ret, queue, tids, cut, given, misled, reused>>
  BY DEF Block, clientVars, listVars
<1>3. fds[i].fd \in Fds /\ Behind = owner[fds[i].fd] /\ Behind \in Requests
  BY <1>1, <1>2 DEF Behind, Fd, Inv, Types
<1>4. ASSUME ~reused PROVE ~fds[i].polled
  <2>1. Current
    BY <1>4 DEF Inv
  <2>2. i >= i
    BY <1>1
  <2> QED
    BY <1>1, <1>2, <1>3, <2>1, <2>2 DEF Current, True
<1>5. Types' /\ Reads'
  BY <1>1, <1>2, <1>3, <1>4 DEF Inv, Types, Reads
<1>6. Counts'
  <2>1. On(backlog, owner, Behind)
    BY <1>3 DEF On
  <2>2. reading = NoReq /\ \A q \in Requests : q # NoReq
    BY ReqFacts DEF Block
  <2> QED
    BY <1>2, <2>1, <2>2, CountsMoved DEF Held
<1>7. Shape(fds)' /\ ToAccept' /\ Placed(backlog, owner)'
  BY <1>2 DEF Inv, Shape, ToAccept, Placed
<1>8. ASSUME ~reused' PROVE Watched(fds, owner, misled)' /\ Current'
  BY <1>2, <1>8 DEF Inv, Watched, Current, True, Gone
<1> QED
  BY <1>5, <1>6, <1>7, <1>8 DEF Inv

\* One event less in a slot that poll has not written.
LEMMA Stripped ==
  ASSUME Inv, i \in 1..Len(fds), ~fds[i].polled,
         fds' = [fds EXCEPT ![i].revents = @ \ {"in"}]
  PROVE  /\ fds' \in Seq(Slot) /\ Len(fds') = Len(fds) /\ Shape(fds')
         /\ \A k \in 1..Len(fds) : /\ fds'[k].fd = fds[k].fd /\ fds'[k].polled = fds[k].polled
                                   /\ k # i => fds'[k] = fds[k]
         /\ fds'[i].revents \subseteq fds[i].revents
<1>1. fds \in Seq(Slot) /\ Len(fds) \in Nat /\ Shape(fds)
  BY DEF Inv, Types
<1>2. fds[i] \in Slot
  BY <1>1
<1> DEFINE x == [fds[i] EXCEPT !.revents = @ \ {"in"}]
<1>3. x \in Slot /\ x.fd = fds[i].fd /\ x.polled = fds[i].polled /\ x.revents \subseteq fds[i].revents
  BY <1>2 DEF Slot
<1>4. fds' = [fds EXCEPT ![i] = x]
  OBVIOUS
<1> HIDE DEF x
<1>5. fds' \in Seq(Slot) /\ Len(fds') = Len(fds) /\ fds'[i] = x
      /\ \A k \in 1..Len(fds) : k # i => fds'[k] = fds[k]
  <2> DEFINE s == fds
             t == [s EXCEPT ![i] = x]
  <2>1. s \in Seq(Slot) /\ i \in 1..Len(s)
    BY <1>1
  <2> HIDE DEF s
  <2>2. t \in Seq(Slot) /\ Len(t) = Len(s) /\ t[i] = x /\ \A k \in 1..Len(s) : k # i => t[k] = s[k]
    BY <1>3, <2>1
  <2>3. fds' = t
    BY <1>4 DEF s
  <2> HIDE DEF t
  <2> QED
    BY <2>2, <2>3 DEF s
<1>6. /\ \A k \in 1..Len(fds) : /\ fds'[k].fd = fds[k].fd /\ fds'[k].polled = fds[k].polled
                                /\ k # i => fds'[k] = fds[k]
      /\ fds'[i].revents \subseteq fds[i].revents
  BY <1>3, <1>5
<1>7. Shape(fds')
  <2>1. Len(fds') > 0 /\ \A k \in 1..Len(fds') : fds'[k].fd = LSock <=> k = 1
    BY <1>1, <1>5, <1>6 DEF Shape
  <2>2. fds'[1].revents \subseteq {"in"}
    <3>1. 1 \in 1..Len(fds)
      BY <1>1 DEF Shape
    <3>2. fds'[1].revents \subseteq fds[1].revents
      BY <1>6, <3>1
    <3> QED
      BY <1>1, <3>2 DEF Shape
  <2>3. \A k \in 1..Len(fds') : fds'[k].polled => fds'[k].revents \in Reported
    BY <1>1, <1>5, <1>6 DEF Shape
  <2> QED
    BY <2>1, <2>2, <2>3 DEF Shape
<1> QED
  BY <1>5, <1>6, <1>7

\* What Read does to slots, index and count.
Onward ==
  \/ UNCHANGED <<fds, i, ret>> /\ "hup" \in fds[i].revents
  \/ /\ fds' = [fds EXCEPT ![i].revents = @ \ {"in"}] /\ UNCHANGED <<i, ret>>
     /\ "nval" \in fds[i].revents \/ "err" \in fds[i].revents
  \/ i' = i + 1 /\ ret' = ret - 1 /\ UNCHANGED fds

\* It keeps the array, and what is to be scanned for everybody but the connection r.
LEMMA ReadSlots ==
  ASSUME Inv, Onward, i \in 1..Len(fds), ret > 0, "in" \in fds[i].revents, fds[i].fd \in Fds
  PROVE  /\ fds' \in Seq(Slot) /\ i' \in Nat \ {0} /\ ret' \in Nat
         /\ i' <= Len(fds') + 2 /\ ret' <= Len(fds') /\ Shape(fds')
         /\ Len(fds') = Len(fds) /\ i' >= i /\ i # 1
         /\ \A k \in 1..Len(fds) : fds'[k].fd = fds[k].fd /\ fds'[k].polled = fds[k].polled
         /\ \A k \in 1..Len(fds) : fds[k].polled => fds'[k] = fds[k]
         /\ i' # i \/ ~fds[i].polled \/ "hup" \in fds[i].revents
<1>1. /\ fds \in Seq(Slot) /\ Shape(fds) /\ ret \in Nat /\ i \in Nat \ {0} /\ ret <= Len(fds)
      /\ Len(fds) \in Nat /\ i <= Len(fds) + 2 /\ i # 1
  <2>1. fds \in Seq(Slot) /\ Shape(fds) /\ ret \in Nat /\ i \in Nat \ {0} /\ ret <= Len(fds)
    BY DEF Inv, Types
  <2>2. i # 1
    BY <2>1, ReqFacts DEF Shape
  <2> QED
    BY <2>1, <2>2
<1>2. CASE UNCHANGED <<fds, i, ret>> /\ "hup" \in fds[i].revents
  BY <1>1, <1>2 DEF Shape
<1>3. CASE /\ fds' = [fds EXCEPT ![i].revents = @ \ {"in"}] /\ UNCHANGED <<i, ret>>
           /\ "nval" \in fds[i].revents \/ "err" \in fds[i].revents
  <2>1. ~fds[i].polled
    BY <1>1, <1>3, SMTT(30) DEF Shape, Reported
  <2>2. /\ fds' \in Seq(Slot) /\ Len(fds') = Len(fds) /\ Shape(fds')
        /\ \A k \in 1..Len(fds) : /\ fds'[k].fd = fds[k].fd /\ fds'[k].polled = fds[k].polled
                                  /\ k # i => fds'[k] = fds[k]
    BY <1>3, <2>1, Stripped
  <2>3. \A k \in 1..Len(fds) : fds[k].polled => fds'[k] = fds[k]
    BY <2>1, <2>2
  <2> QED
    BY <1>1, <1>3, <2>1, <2>2, <2>3
<1>4. CASE i' = i + 1 /\ ret' = ret - 1 /\ UNCHANGED fds
  BY <1>1, <1>4 DEF Shape
<1> QED
  BY <1>2, <1>3, <1>4 DEF Onward

LEMMA ReadStep ==
  ASSUME Inv, Read
  PROVE  Inv'
<1>1. /\ i \in 1..Len(fds) /\ ret > 0 /\ "in" \in fds[i].revents
      /\ Fd = fds[i].fd /\ fds[i].fd \in Fds \cup {LSock}
  BY Scanned DEF Read, Message, Fd
<1>2. PICK r : r = Source
  OBVIOUS
<1>3. PICK f : f = Fd
  OBVIOUS
<1>4. /\ r # NoReq /\ unread[r] # <<>> /\ queue' = Append(queue, Item(Head(unread[r]), r, f))
      /\ given' = [given EXCEPT ![r] = @ + 1] /\ unread' = [unread EXCEPT ![r] = Tail(@)]
      /\ reading' = NoReq
      /\ UNCHANGED <<client, backlog, owner, tids, misled, cut, reused>>
  BY <1>2, <1>3 DEF Read, Message
<1>5. /\ f \in Fds /\ r \in Requests /\ fds[i].fd = f
      /\ owner[f] = r \/ (r = reading /\ r \in cut /\ \A h \in Fds : owner[h] # r)
      /\ reading # NoReq => reading = r
  BY <1>1, <1>2, <1>3, <1>4 DEF Source, Behind, Reads, Inv, Types
<1>6. /\ unread[r] \in Seq({"begin", "end"}) /\ Head(unread[r]) \in {"begin", "end"}
      /\ Tail(unread[r]) \in Seq({"begin", "end"}) /\ Len(Tail(unread[r])) = Len(unread[r]) - 1
      /\ Len(unread[r]) \in Nat /\ Len(unread[r]) > 0
  <2>1. unread[r] \in Seq({"begin", "end"}) /\ unread[r] # <<>>
    BY <1>4, <1>5 DEF Inv, Types
  <2> QED
    BY <2>1
<1>7. Onward
  <2>1. Scanning
    BY <1>1 DEF Read, Message, Has
  <2> QED
    BY <2>1 DEF Read, Onward, Has, Advance
<1>8. /\ fds' \in Seq(Slot) /\ i' \in Nat \ {0} /\ ret' \in Nat
      /\ i' <= Len(fds') + 2 /\ ret' <= Len(fds') /\ Shape(fds')
      /\ Len(fds') = Len(fds) /\ i' >= i /\ i # 1
      /\ \A k \in 1..Len(fds) : fds'[k].fd = fds[k].fd /\ fds'[k].polled = fds[k].polled
      /\ \A k \in 1..Len(fds) : fds[k].polled => fds'[k] = fds[k]
      /\ i' # i \/ ~fds[i].polled \/ "hup" \in fds[i].revents
  BY <1>1, <1>5, <1>7, ReadSlots
<1>9. Types'
  <2>1. Item(Head(unread[r]), r, f) \in Messages \cup Removals
    BY <1>5, <1>6 DEF Item, Messages
  <2>2. queue' \in Seq(Messages \cup Removals)
    BY <1>4, <2>1, Queued DEF Inv
  <2>3. unread' \in [Requests -> Seq({"begin", "end"})] /\ given' \in [Requests -> Nat]
    BY <1>4, <1>5, <1>6 DEF Inv, Types
  <2> QED
    BY <1>4, <1>8, <2>2, <2>3 DEF Inv, Types
<1>10. ToAccept' /\ Reads' /\ Placed(backlog, owner)'
  <2>1. i' # 1
    BY <1>1, <1>8
  <2> QED
    BY <1>4, <2>1 DEF ToAccept, Reads, Inv, Placed
<1>11. Counts'
  <2> SUFFICES ASSUME NEW q \in Requests
               PROVE  Counted(q, client[q], unread'[q], given'[q],
                              Held(backlog, owner, NoReq, q), q \in cut \cup misled)
    BY <1>4 DEF Counts, Held, On
  <2>1. Counted(q, client[q], unread[q], given[q], Held(backlog, owner, reading, q),
                q \in cut \cup misled)
    BY DEF Inv, Counts
  <2>2. CASE q = r
    <3>1. given[r] \in Nat /\ r # NoReq /\ Held(backlog, owner, reading, q)
      BY <1>5, <2>2, ReqFacts DEF On, Held, Inv, Types
    <3>2. given'[r] = given[r] + 1 /\ unread'[r] = Tail(unread[r])
      BY <1>4, <1>5 DEF Inv, Types
    <3>3. given'[r] + Len(unread'[r]) = given[r] + Len(unread[r])
      BY <1>6, <3>1, <3>2
    <3>4. Held(backlog, owner, NoReq, q) \/ q \in cut
      BY <1>5, <2>2 DEF Held, On
    <3> QED
      BY <2>1, <2>2, <3>1, <3>3, <3>4 DEF Counted
  <2>3. CASE q # r
    <3>1. given'[q] = given[q] /\ unread'[q] = unread[q]
      BY <1>4, <2>3 DEF Inv, Types
    <3>2. Held(backlog, owner, NoReq, q) <=> Held(backlog, owner, reading, q)
      BY <1>5, <2>3, ReqFacts DEF Held
    <3> QED
      BY <2>1, <3>1, <3>2 DEF Counted
  <2> QED
    BY <2>2, <2>3
<1>12. ASSUME ~reused' PROVE Watched(fds, owner, misled)' /\ Current'
  <2>1. Watched(fds, owner, misled) /\ Current
    BY <1>4, <1>12 DEF Inv
  <2>2. Watched(fds', owner, misled)
    <3>1. \A k, l \in 1..Len(fds') : fds'[k].fd = fds'[l].fd => k = l
      BY <1>8, <2>1 DEF Watched
    <3>2. \A h \in Fds : owner[h] # NoReq /\ owner[h] \notin misled
                           => \E k \in 1..Len(fds') : fds'[k].fd = h
      BY <1>8, <2>1 DEF Watched
    <3>3. \A k \in 1..Len(fds'), h \in Fds :
            fds'[k].fd = h /\ fds'[k].polled /\ "nval" \in fds'[k].revents => owner[h] = NoReq
      BY <1>8, <2>1 DEF Watched
    <3> QED
      BY <3>1, <3>2, <3>3 DEF Watched
  <2>3. Current'
    <3> SUFFICES ASSUME NEW k \in 1..Len(fds'), NEW h \in Fds, k >= i', fds'[k].fd = h,
                        fds'[k].polled, owner'[h] # NoReq
                 PROVE  True(fds[k].revents, owner[h])'
      BY DEF Current
    <3>1. /\ k \in 1..Len(fds) /\ fds[k].polled /\ fds'[k] = fds[k] /\ k >= i
          /\ owner[h] # NoReq /\ fds[k].fd = h
      BY <1>1, <1>4, <1>8
    <3>2. True(fds[k].revents, owner[h])
      BY <2>1, <3>1 DEF Current
    <3>3. CASE k = i
      <4>1. "hup" \in fds[k].revents
        BY <1>1, <1>8, <3>1, <3>3
      <4> QED
        BY <1>4, <3>1, <3>2, <4>1 DEF True, Gone
    <3>4. CASE k # i
      <4>1. h # f
        BY <1>1, <1>5, <2>1, <3>1, <3>4 DEF Watched
      <4>2. owner[h] # r /\ owner[h] \in Requests
        <5>1. owner[h] \in Requests /\ (owner[f] = r => owner[h] # r)
          BY <1>5, <3>1, <4>1 DEF Inv, Placed, Types
        <5> QED
          BY <1>5, <5>1
      <4>3. unread'[owner[h]] = unread[owner[h]]
        BY <1>4, <4>2 DEF Inv, Types
      <4> QED
        BY <1>4, <3>1, <3>2, <4>3 DEF True, Gone
    <3> QED
      BY <3>3, <3>4
  <2> QED
    BY <1>4, <2>2, <2>3
<1> QED
  BY <1>8, <1>9, <1>10, <1>11, <1>12 DEF Inv

\* The item that tells the cleaner of a descriptor.
LEMMA RemovalQueued ==
  ASSUME Types, NEW f \in Fds, queue' = Append(queue, Item("remove", NoReq, f))
  PROVE  queue' \in Seq(Messages \cup Removals)
<1>1. Item("remove", NoReq, f) \in Messages \cup Removals
  BY DEF Item, Removals
<1> QED
  BY <1>1, Queued

\* A slot goes: with its descriptor after a read that has failed, or as garbage has
\* it; without it when that is not open, or as garbage has it.
LEMMA DropStep ==
  ASSUME Inv, NEW close \in BOOLEAN, Drop(close),
         "in" \in fds[i].revents => ReadFails,
         close /\ fds[i].polled => "in" \in fds[i].revents,
         ~close => "nval" \in fds[i].revents
  PROVE  Inv'
<1>1. PICK f : f = fds[i].fd
  OBVIOUS
<1>2. i \in 1..Len(fds) /\ ret > 0 /\ f \in Fds /\ Behind = owner[f] /\ Scanning
  <2>1. i \in 1..Len(fds) /\ ret > 0 /\ f # LSock /\ Scanning
    BY <1>1 DEF Drop, Scanning, Fd, Inv, Types
  <2>2. fds[i] \in Slot
    BY <2>1 DEF Inv, Types
  <2> QED
    BY <1>1, <2>1, <2>2 DEF Slot, Behind, Fd
<1>3. /\ DropSlot /\ queue' = Append(queue, Item("remove", NoReq, f)) /\ reading' = NoReq
      /\ owner' = IF close THEN [owner EXCEPT ![f] = NoReq] ELSE owner
      /\ UNCHANGED <<client, unread, backlog, tids, cut, reused, given>>
  BY <1>1, <1>2 DEF Drop, Fd, clientVars
<1>4. /\ misled' \in SUBSET Requests /\ misled \subseteq misled'
      /\ owner[f] # NoReq /\ ~fds[i].polled /\ ~(close /\ "in" \in fds[i].revents)
           => owner[f] \in misled'
  <2>1. misled' = IF fds[i].polled \/ (close /\ "in" \in fds[i].revents) THEN misled
                  ELSE misled \cup ({owner[f]} \ {NoReq})
    BY <1>2 DEF Drop, Has
  <2> QED
    BY <1>2, <2>1 DEF Inv, Types
<1>5. /\ owner' \in [Fds -> Requests \cup {NoReq}] /\ Placed(backlog', owner')
      /\ \A h \in Fds : owner'[h] = NoReq \/ owner'[h] = owner[h]
      /\ close => owner'[f] = NoReq
      /\ \A q \in Requests : On(backlog', owner', q) <=> On(backlog, owner, q) /\ (close => q # owner[f])
  <2>1. CASE close
    <3>1. owner' = [owner EXCEPT ![f] = NoReq] /\ owner \in [Fds -> Requests \cup {NoReq}]
      BY <1>3, <2>1 DEF Inv, Types
    <3>2. /\ \A h \in Fds : owner'[h] = NoReq \/ owner'[h] = owner[h]
          /\ owner'[f] = NoReq
      BY <1>2, <3>1
    <3>3. /\ owner' \in [Fds -> Requests \cup {NoReq}] /\ Placed(backlog, owner')
          /\ \A q \in Requests : On(backlog, owner', q) <=> On(backlog, owner, q) /\ q # owner[f]
      BY <1>2, <3>1, OnClose DEF Inv, Types
    <3> QED
      BY <1>3, <2>1, <3>2, <3>3
  <2>2. CASE ~close
    BY <1>3, <2>2 DEF Inv, Types
  <2> QED
    BY <2>1, <2>2
<1>6. Counts'
  <2>1. ASSUME NEW q \in Requests, Held(backlog, owner, reading, q), ~Held(backlog', owner', reading', q)
        PROVE  q \in cut' \cup misled' \/ (unread[q] = <<>> /\ Gone(q))
    <3>1. q = reading \/ (close /\ q = owner[f])
      BY <1>5, <2>1 DEF Held
    <3>2. q # NoReq
      BY ReqFacts
    <3>3. CASE q = reading
      BY <3>2, <3>3 DEF Inv, Reads, ReadFails, Source
    <3>4. CASE close /\ q = owner[f] /\ q # reading
      <4>1. reading = NoReq
        BY <1>1, <3>2, <3>4 DEF Inv, Reads
      <4>2. CASE "in" \in fds[i].revents
        BY <1>2, <3>2, <3>4, <4>1, <4>2 DEF ReadFails, Source
      <4>3. CASE "in" \notin fds[i].revents
        BY <1>4, <3>2, <3>4, <4>3
      <4> QED
        BY <4>2, <4>3
    <3> QED
      BY <3>1, <3>3, <3>4
  <2>2. ASSUME NEW q \in Requests, Held(backlog', owner', reading', q)
        PROVE  Held(backlog, owner, reading, q)
    BY <1>3, <1>5, <2>2, ReqFacts DEF Held
  <2> QED
    BY <1>3, <1>4, <2>1, <2>2, CountsMoved
<1>7. /\ fds' \in Seq(Slot) /\ i' \in Nat \ {0} /\ ret' \in Nat
      /\ i' <= Len(fds') + 2 /\ ret' <= Len(fds') /\ Shape(fds') /\ ToAccept'
      /\ ~reused' => Watched(fds', owner', misled') /\ Current'
  <2>1. \/ owner'[f] = NoReq \/ owner'[f] \in misled'
        \/ fds[i].polled /\ "nval" \in fds[i].revents
    BY <1>2, <1>3, <1>4, <1>5
  <2> QED
    BY <1>1, <1>2, <1>3, <1>4, <1>5, <2>1, SlotDropped
<1>8. queue' \in Seq(Messages \cup Removals)
  BY <1>2, <1>3, RemovalQueued DEF Inv
<1>9. Types' /\ Reads'
  BY <1>3, <1>4, <1>5, <1>7, <1>8 DEF Inv, Types, Reads
<1> QED
  BY <1>5, <1>6, <1>7, <1>9 DEF Inv

LEMMA HangupStep ==
  ASSUME Inv, Hangup
  PROVE  Inv'
<1>1. Drop(TRUE) /\ Scanning /\ (Failed \/ Ended)
  BY DEF Hangup, Drop
<1>2. "in" \in fds[i].revents => ReadFails
  BY <1>1 DEF Failed, Ended, Has
<1>3. fds[i].polled => "in" \in fds[i].revents
  <2>1. i \in 1..Len(fds)
    BY <1>1 DEF Scanning, Inv, Types
  <2> QED
    BY <1>1, <2>1 DEF Failed, Ended, Has, Inv, Shape, Reported
<1> QED
  BY <1>1, <1>2, <1>3, DropStep

LEMMA NotOpenStep ==
  ASSUME Inv, NotOpen
  PROVE  Inv'
<1>1. Drop(FALSE) /\ Invalid
  BY DEF NotOpen
<1>2. "nval" \in fds[i].revents /\ ("in" \in fds[i].revents => ReadFails)
  BY <1>1 DEF Invalid, Has
<1> QED
  BY <1>1, <1>2, DropStep

\* What the cleaner may do to the listener: it closes descriptors.
LEMMA CleanerKeeps ==
  ASSUME Inv, UNCHANGED <<clientVars, backlog, fds, i, ret, reading, misled, reused, given>>,
         queue # <<>>, queue' = Tail(queue),
         DOMAIN tids' = Workers, \A w \in Workers : tids'[w] = NoReq \/ tids'[w] \in Messages,
         \/ UNCHANGED <<owner, cut>>
         \/ \E f \in Fds : /\ owner' = [owner EXCEPT ![f] = NoReq]
                           /\ cut' = cut \cup ({owner[f]} \ {NoReq})
  PROVE  Inv'
<1> USE DEF clientVars
<1>1. /\ owner' \in [Fds -> Requests \cup {NoReq}] /\ cut' \in SUBSET Requests
      /\ \A h \in Fds : owner'[h] = owner[h] \/ (owner'[h] = NoReq /\ (owner[h] = NoReq \/ owner[h] \in cut'))
      /\ cut \subseteq cut' /\ Placed(backlog', owner')
      /\ \A q \in Requests : /\ On(backlog', owner', q) => On(backlog, owner, q)
                             /\ On(backlog, owner, q) => On(backlog', owner', q) \/ q \in cut'
  <2>1. CASE UNCHANGED <<owner, cut>>
    BY <2>1 DEF Inv, Types, On, Placed
  <2>2. ASSUME NEW f \in Fds, owner' = [owner EXCEPT ![f] = NoReq],
               cut' = cut \cup ({owner[f]} \ {NoReq})
        PROVE  /\ owner' \in [Fds -> Requests \cup {NoReq}] /\ cut' \in SUBSET Requests
               /\ \A h \in Fds : owner'[h] = owner[h] \/ (owner'[h] = NoReq /\ (owner[h] = NoReq \/ owner[h] \in cut'))
               /\ cut \subseteq cut' /\ Placed(backlog', owner')
               /\ \A q \in Requests : /\ On(backlog', owner', q) => On(backlog, owner, q)
                                      /\ On(backlog, owner, q) => On(backlog', owner', q) \/ q \in cut'
    <3>0. backlog' = backlog /\ owner \in [Fds -> Requests \cup {NoReq}]
      BY DEF Inv, Types
    <3>1. /\ cut' \in SUBSET Requests /\ cut \subseteq cut' /\ (owner[f] # NoReq => owner[f] \in cut')
          /\ \A h \in Fds : owner'[h] = IF h = f THEN NoReq ELSE owner[h]
      BY <2>2, <3>0 DEF Inv, Types
    <3>2. /\ owner' \in [Fds -> Requests \cup {NoReq}] /\ Placed(backlog, owner')
          /\ \A q \in Requests : On(backlog, owner', q) <=> On(backlog, owner, q) /\ q # owner[f]
      BY <2>2, <3>0, OnClose DEF Inv, Types
    <3>3. \A h \in Fds : owner'[h] = owner[h] \/ (owner'[h] = NoReq /\ (owner[h] = NoReq \/ owner[h] \in cut'))
      BY <3>1
    <3> QED
      BY <3>0, <3>1, <3>2, <3>3, ReqFacts
  <2> QED
    BY <2>1, <2>2
<1>2. queue' \in Seq(Messages \cup Removals)
  <2>1. queue \in Seq(Messages \cup Removals)
    BY DEF Inv, Types
  <2> QED
    BY <2>1, Rest
<1>3. Types' /\ Shape(fds)' /\ ToAccept'
  BY <1>1, <1>2 DEF Inv, Types, Shape, ToAccept
<1>4. Counts'
  BY <1>1, CountsMoved DEF Held
<1>5. Reads'
  <2>1. CASE reading = NoReq
    BY <2>1 DEF Reads
  <2>2. CASE reading # NoReq
    <3>1. /\ i \in 1..Len(fds) /\ ret > 0 /\ "in" \in fds[i].revents /\ fds[i].fd \in Fds
          /\ ~reused => ~fds[i].polled
      BY <2>2 DEF Inv, Reads
    <3>2. CASE owner[fds[i].fd] = reading /\ owner'[fds[i].fd] # reading
      <4>1. owner'[fds[i].fd] = NoReq /\ reading \in cut'
        BY <1>1, <2>2, <3>1, <3>2
      <4>2. \A h \in Fds : owner[h] = reading => h = fds[i].fd
        BY <2>2, <3>1, <3>2 DEF Inv, Placed
      <4>3. \A h \in Fds : owner'[h] # reading
        BY <1>1, <2>2, <3>2, <4>1, <4>2
      <4> QED
        BY <3>1, <4>1, <4>3 DEF Reads
    <3>3. CASE owner'[fds[i].fd] = reading
      BY <3>1, <3>3 DEF Reads
    <3>4. CASE owner[fds[i].fd] = NoReq /\ reading \in cut /\ \A h \in Fds : owner[h] # reading
      <4>1. owner'[fds[i].fd] = NoReq /\ reading \in cut'
        BY <1>1, <3>1, <3>4
      <4>2. \A h \in Fds : owner'[h] # reading
        BY <1>1, <2>2, <3>4
      <4> QED
        BY <3>1, <4>1, <4>2 DEF Reads
    <3> QED
      BY <2>2, <3>2, <3>3, <3>4 DEF Inv, Reads
  <2> QED
    BY <2>1, <2>2
<1>6. ASSUME ~reused' PROVE Watched(fds, owner, misled)' /\ Current'
  <2>1. Watched(fds, owner, misled) /\ Current
    BY <1>6 DEF Inv
  <2>2. Watched(fds, owner', misled)
    BY <1>1, <2>1, WatchedClosed
  <2>3. Current'
    <3> SUFFICES ASSUME NEW k \in 1..Len(fds), NEW f \in Fds, k >= i, fds[k].fd = f,
                        fds[k].polled, owner'[f] # NoReq
                 PROVE  True(fds[k].revents, owner[f])'
      BY DEF Current
    <3>1. owner'[f] = owner[f]
      BY <1>1
    <3>2. True(fds[k].revents, owner[f])
      BY <2>1, <3>1 DEF Current
    <3> QED
      BY <3>1, <3>2 DEF True, Gone
  <2> QED
    BY <2>2, <2>3
<1> QED
  BY <1>1, <1>3, <1>4, <1>5, <1>6 DEF Inv

LEMMA CleanerStep ==
  ASSUME Inv, Cleaner
  PROVE  Inv'
<1>1. CASE HandleBegin
  <2>1. PICK m : m = Handled
    OBVIOUS
  <2>2. queue # <<>> /\ queue' = Tail(queue) /\ m.command = "begin" /\ m \in Messages
    <3>1. queue # <<>> /\ queue' = Tail(queue) /\ m.command = "begin" /\ m = Head(queue)
      BY <1>1, <2>1 DEF HandleBegin, Handles, Handled
    <3>2. m \in Messages \cup Removals
      BY <3>1, Rest DEF Inv, Types
    <3> QED
      BY <3>1, <3>2, QueueItems
  <2>3. PICK w : w = m.req[1]
    OBVIOUS
  <2>4. w \in Workers
    BY <2>2, <2>3, QueueItems, ReqFacts
  <2>5. /\ tids' = [tids EXCEPT ![w] = m]
        /\ UNCHANGED <<clientVars, backlog, fds, i, ret, reading, misled, reused, given>>
        /\ IF tids[w] # NoReq
           THEN /\ cut' = cut \cup ({owner[tids[w].fd]} \ {NoReq})
                /\ owner' = [owner EXCEPT ![tids[w].fd] = NoReq]
           ELSE UNCHANGED <<owner, cut>>
    BY <1>1, <2>1, <2>3 DEF HandleBegin
  <2>6. DOMAIN tids' = Workers /\ \A v \in Workers : tids'[v] = NoReq \/ tids'[v] \in Messages
    BY <2>2, <2>5 DEF Inv, Types
  <2>7. tids[w] # NoReq => tids[w].fd \in Fds
    BY <2>4, QueueItems DEF Inv, Types
  <2>8. \/ UNCHANGED <<owner, cut>>
        \/ \E f \in Fds : /\ owner' = [owner EXCEPT ![f] = NoReq]
                          /\ cut' = cut \cup ({owner[f]} \ {NoReq})
    BY <2>5, <2>7
  <2> QED
    BY <2>2, <2>5, <2>6, <2>8, CleanerKeeps
<1>2. CASE HandleEnd
  <2>1. DOMAIN tids' = Workers /\ \A v \in Workers : tids'[v] = NoReq \/ tids'[v] \in Messages
    BY <1>2 DEF HandleEnd, Inv, Types
  <2> QED
    BY <1>2, <2>1, CleanerKeeps DEF HandleEnd, Handles
<1>3. CASE HandleRemove
  <2>1. DOMAIN tids' = Workers /\ \A v \in Workers : tids'[v] = NoReq \/ tids'[v] \in Messages
    BY <1>3 DEF HandleRemove, Inv, Types
  <2> QED
    BY <1>3, <2>1, CleanerKeeps DEF HandleRemove, Handles
<1> QED
  BY <1>1, <1>2, <1>3 DEF Cleaner

LEMMA ListenerStep ==
  ASSUME Inv, Listener
  PROVE  Inv'
<1>1. CASE Quiet
  <2>1. i \in 1..Len(fds) /\ ret > 0 /\ reading = NoReq
    BY <1>1 DEF Quiet, Scanning, Inv, Types, Reads
  <2> QED
    BY <1>1, <2>1, SkipStep DEF Quiet
<1>2. CASE AcceptFails
  <2>1. i \in 1..Len(fds) /\ ret > 0 /\ reading = NoReq
    BY <1>2, Scanned, ReqFacts DEF AcceptFails, Fd, Inv, Reads
  <2> QED
    BY <1>2, <2>1, SkipStep DEF AcceptFails, Advance
<1>3. CASE Ignore
  <2>1. i \in 1..Len(fds) /\ ret > 0 /\ reading = NoReq
    BY <1>3 DEF Ignore, Scanning, Inv, Types, Reads
  <2> QED
    BY <1>3, <2>1, SkipStep DEF Ignore, Advance
<1> QED
  BY <1>1, <1>2, <1>3, PollStep, AcceptStep, BlockStep, ReadStep, HangupStep, NotOpenStep DEF Listener

LEMMA Step == Inv /\ [Next]_vars => Inv'
<1> SUFFICES ASSUME Inv, [Next]_vars PROVE Inv'
  OBVIOUS
<1>1. CASE Next
  BY <1>1, ClientsStep, ListenerStep, CleanerStep DEF Next
<1>2. CASE UNCHANGED vars
  <2>0. /\ client' = client /\ unread' = unread /\ backlog' = backlog /\ owner' = owner
        /\ fds' = fds /\ i' = i /\ ret' = ret /\ queue' = queue /\ tids' = tids
        /\ reading' = reading /\ misled' = misled /\ cut' = cut /\ reused' = reused /\ given' = given
    BY <1>2 DEF vars
  <2>1. Types'
    BY <2>0 DEF Inv, Types
  <2>2. Shape(fds)' /\ Placed(backlog, owner)' /\ Watched(fds, owner, misled)
                       = Watched(fds, owner, misled)'
    BY <2>0 DEF Inv
  <2>3. ToAccept'
    BY <2>0 DEF Inv, ToAccept
  <2>4. Counts' /\ Reads'
    BY <2>0 DEF Inv, Counts, Reads
  <2>5. Current => Current'
    BY <2>0 DEF Current, True, Gone
  <2> QED
    BY <2>0, <2>1, <2>2, <2>3, <2>4, <2>5 DEF Inv
<1> QED
  BY <1>1, <1>2

-----------------------------------------------------------------------------
(* The theorems.                                                           *)

\* The invariant holds in every state the loop of performance_server_main_cycle
\* can be brought to, whatever clients and cleaner do meanwhile.
THEOREM Invariant == Spec => []Inv
BY Initially, Step, PTL DEF Spec

\* Slots, index and count stay in the array, and no request is handed over more
\* than its two messages (mod_performance.c:1472-1610).
THEOREM TypeCorrect == Spec => []TypeOK
<1>1. Inv => TypeOK
  <2> SUFFICES ASSUME Inv PROVE TypeOK
    OBVIOUS
  <2>1. \A k \in 1..Len(fds) : /\ fds[k].fd \in Fds \cup {LSock} /\ fds[k].revents \subseteq Revent
                               /\ fds[k].polled \in BOOLEAN
    <3> SUFFICES ASSUME NEW k \in 1..Len(fds)
                 PROVE  /\ fds[k].fd \in Fds \cup {LSock} /\ fds[k].revents \subseteq Revent
                        /\ fds[k].polled \in BOOLEAN
      OBVIOUS
    <3>1. fds[k] \in Slot
      BY DEF Inv, Types
    <3> QED
      BY <3>1 DEF Slot
  <2>2. given \in [Requests -> 0..2]
    <3>1. ASSUME NEW r \in Requests PROVE given[r] \in 0..2
      <4>1. given[r] \in Nat /\ Len(unread[r]) \in Nat
        BY DEF Inv, Types
      <4>2. given[r] + Len(unread[r]) <= Progress(client[r])
        BY DEF Inv, Counts, Counted
      <4>3. Progress(client[r]) \in 0..2
        BY DEF Progress
      <4> QED
        BY <4>1, <4>2, <4>3
    <3> QED
      BY <3>1 DEF Inv, Types
  <2>3. \A r \in Requests : Range(unread[r]) \subseteq {"begin", "end"}
    BY DEF Inv, Types, Range
  <2>4. Range(backlog) \subseteq Requests
    BY DEF Inv, Types, Range
  <2>5. i \in 1..(Len(fds) + 2) /\ ret \in 0..Len(fds)
    BY DEF Inv, Types
  <2> QED
    BY <2>1, <2>2, <2>3, <2>4, <2>5 DEF Inv, Types, TypeOK, States
<1> QED
  BY <1>1, Invariant, PTL

\* Every open descriptor is in one slot, and in a slot at all unless garbage dropped
\* it, whatever scan, close and accept do to the array.
THEOREM Watches == Spec => []WatchedOnce
<1>1. Inv => WatchedOnce
  <2> SUFFICES ASSUME Inv, ~reused
               PROVE  /\ \A k, l \in 1..Len(fds) : fds[k].fd = fds[l].fd => k = l
                      /\ \A f \in Unwatched : owner[f] \in misled
    BY DEF WatchedOnce
  <2> QED
    BY DEF Inv, Watched, Unwatched, OpenFds
<1> QED
  BY <1>1, Invariant, PTL

\* A connection that the listener has let go of was read out, unless the cleaner or
\* garbage cut it: what its client has sent was handed over, once.
THEOREM ReadsOut == Spec => []ReadOut
<1>1. Inv => ReadOut
  <2> SUFFICES ASSUME Inv, NEW r \in Requests \ (cut \cup misled), ~Connected(r)
               PROVE  unread[r] = <<>> /\ (Sent(r) > 0 => given[r] = Sent(r))
    BY DEF ReadOut
  <2>1. ~Held(backlog, owner, reading, r) /\ given[r] \in Nat
    BY ConnectedIsOn DEF Inv, Types
  <2>2. Counted(r, client[r], unread[r], given[r], Held(backlog, owner, reading, r),
                r \in cut \cup misled)
    BY DEF Inv, Counts
  <2>3. unread[r] = <<>> /\ Len(<<>>) = 0
    BY <2>1, <2>2 DEF Counted
  <2>4. client[r] # "closed" \/ r[1] \notin Mortal => given[r] = Progress(client[r])
    BY <2>1, <2>2, <2>3 DEF Counted
  <2>5. Sent(r) > 0 => /\ client[r] # "closed" \/ r[1] \notin Mortal
                       /\ Sent(r) = Progress(client[r])
    BY DEF Sent, Progress
  <2> QED
    BY <2>3, <2>4, <2>5
<1> QED
  BY <1>1, Invariant, PTL

\* Only garbage in revents, or a descriptor that came back too soon, makes the
\* listener wait in performance_read_data_from for a client that has not sent.
THEOREM WaitsByGarbage == Spec => []WaitsOnlyIfGarbled
<1>1. Inv => WaitsOnlyIfGarbled
  BY DEF Inv, Reads, WaitsOnlyIfGarbled
<1> QED
  BY <1>1, Invariant, PTL
=============================================================================
