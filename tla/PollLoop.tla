------------------------------ MODULE PollLoop ------------------------------
(***************************************************************************)
(* The listener's array of descriptors: performance_server_main_cycle of   *)
(* mod_performance.c against the kernel's sockets, the clients that open   *)
(* and close them, and the cleaner that closes a descriptor under it.      *)
(*                                                                         *)
(* One poll reports a whole array; the scan then changes that array while  *)
(* it walks it.  A dropped slot is overwritten by its successors and the   *)
(* index moves on, so the next slot is not looked at this time, while      *)
(* `ret' still counts it.  An accepted connection is appended with         *)
(* `revents' as the reallocated memory has it, which may be anything, and  *)
(* is reached by the same scan whenever `ret' has such an uncounted slot   *)
(* left.  Reads block, and one that waits goes on waiting when the cleaner *)
(* closes its descriptor: it holds the connection until that has ended.    *)
(*                                                                         *)
(* A request <<w, k>> (the k-th of worker w) has one connection and sends  *)
(* BEGIN and END on it.  A request in Redirected may be redirected         *)
(* internally after its BEGIN: the next request of the worker starts at    *)
(* once and the first connection stays open until the worker's process     *)
(* ends.                                                                   *)
(*                                                                         *)
(* POLLERR comes out of garbage only: the kernel raises it on a unix       *)
(* stream socket for unread data of the other end, and the daemon never    *)
(* writes any.  The move of overlapping slots by memcpy is a move here.    *)
(***************************************************************************)
EXTENDS Naturals, Sequences, FiniteSets, SequencesExt, FiniteSetsExt, Functions

CONSTANTS Workers,     \* the threads of the web server that run requests
          Quota,       \* bound: how many requests each worker runs
          Redirected,  \* the requests that may be redirected internally
          Mortal,      \* the workers whose process may end
          MaxFd        \* bound: descriptors 1..MaxFd of the daemon

Requests == UNION {{w} \X (1..Quota[w]) : w \in Workers}

\* POLLIN, POLLHUP, POLLNVAL, POLLERR, and the bits that the loop does not look at.
Revent == {"in", "hup", "nval", "err", "other"}

\* What the memory of a slot may hold before poll writes it; "other" tells only
\* where it is alone.
Garbage == {{"other"}} \cup SUBSET (Revent \ {"other"})

ASSUME PollAssumption ==
  /\ Quota \in [Workers -> Nat]
  /\ Redirected \subseteq Requests /\ Mortal \subseteq Workers
  /\ MaxFd \in Nat \ {0}

VARIABLES
  client,     \* how far the client side of each request has got
  unread,     \* the messages in each connection's socket
  backlog,    \* connections not accepted yet
  owner,      \* the connection each descriptor of the daemon stands for
  fds, i, ret,       \* the locals of the cycle; slot 1 is l_sock
  reading,    \* the connection whose next message the listener waits for
  queue,      \* the items given to the lists and not handled yet, in order
  tids,       \* the connection and descriptor tids_ut has for each worker
  misled,     \* history: connections dropped on revents that poll did not write
  cut,        \* history: connections whose descriptor the cleaner closed
  reused,     \* history: accept returned a descriptor some slot still names
  given       \* history: how many messages of each request went to the lists

vars == <<client, unread, backlog, owner, fds, i, ret, reading, queue, tids,
          misled, cut, reused, given>>

Fds   == 1..MaxFd
LSock == 0
NoReq == <<>>
Item(c, r, fd) == [command |-> c, req |-> r, fd |-> fd]
OpenFds == {f \in Fds : owner[f] # NoReq}

clientVars == <<client, unread>>
daemonVars == <<owner, fds, i, ret, reading, queue, tids, misled, cut, reused, given>>

Init ==
  /\ client = [r \in Requests |-> "none"] /\ unread = [r \in Requests |-> <<>>]
  /\ backlog = <<>> /\ owner = [f \in Fds |-> NoReq]
  /\ fds = <<[fd |-> LSock, revents |-> {}, polled |-> TRUE]>> /\ i = 1 /\ ret = 0 /\ reading = NoReq
  /\ queue = <<>> /\ tids = [w \in Workers |-> NoReq]
  /\ misled = {} /\ cut = {} /\ reused = FALSE /\ given = [r \in Requests |-> 0]

-----------------------------------------------------------------------------
(* The clients: performance_module_handler, performance_module_leave_handler. *)

\* The daemon's end exists: in the backlog, behind a descriptor, or in a read.
Connected(r) == r \in Range(backlog) \/ r \in Range(owner) \/ r = reading

\* A message on a connection the daemon has closed is lost (EPIPE).
Send(r, c) ==
  unread' = IF Connected(r) THEN [unread EXCEPT ![r] = Append(@, c)] ELSE unread

Ready(w, k) == k > 1 => client[<<w, k - 1>>] \in {"redirected", "closed"}

Connect(r) ==
  /\ client[r] = "none" /\ Ready(r[1], r[2])
  /\ client' = [client EXCEPT ![r] = "connected"]
  /\ backlog' = Append(backlog, r)
  /\ UNCHANGED <<unread, daemonVars>>

SendBegin(r) ==
  /\ client[r] = "connected"
  /\ client' = [client EXCEPT ![r] = "begun"]
  /\ Send(r, "begin")
  /\ UNCHANGED <<backlog, daemonVars>>

SendEnd(r) ==
  /\ client[r] = "begun"
  /\ client' = [client EXCEPT ![r] = "ended"]
  /\ Send(r, "end")
  /\ UNCHANGED <<backlog, daemonVars>>

\* The handler runs again for the worker, which forgets this connection.
Redirect(r) ==
  /\ client[r] = "begun" /\ r \in Redirected
  /\ client' = [client EXCEPT ![r] = "redirected"]
  /\ UNCHANGED <<unread, backlog, daemonVars>>

Close(r) ==
  /\ client[r] = "ended"
  /\ client' = [client EXCEPT ![r] = "closed"]
  /\ UNCHANGED <<unread, backlog, daemonVars>>

\* The worker's process ends, and with it every connection it has open.
Exit(w) ==
  /\ w \in Mortal
  /\ \E r \in Requests : r[1] = w /\ client[r] \in {"connected", "begun", "redirected"}
  /\ client' = [r \in Requests |-> IF r[1] = w THEN "closed" ELSE client[r]]
  /\ UNCHANGED <<unread, backlog, daemonVars>>

ClientMoves == \E r \in Requests : SendBegin(r) \/ SendEnd(r) \/ Redirect(r) \/ Close(r)
Clients == \/ ClientMoves \/ \E r \in Requests : Connect(r)
           \/ \E w \in Workers : Exit(w)

-----------------------------------------------------------------------------
(* The listener.                                                           *)

Gone(r) == client[r] = "closed"

\* What poll reports for a descriptor: an unread message, the end of the
\* other side, or that it is not open.
Revents(fd) ==
  IF fd = LSock THEN {e \in {"in"} : backlog # <<>>}
  ELSE IF owner[fd] = NoReq THEN {"nval"}
  ELSE {e \in {"in"} : unread[owner[fd]] # <<>> \/ Gone(owner[fd])}
       \cup {e \in {"hup"} : Gone(owner[fd])}

Scanning == i <= Len(fds) /\ ret > 0

listVars == <<queue, tids, cut, given>>

\* Seeded fault: l_sock is not counted.
PollCountsShort ==
  /\ ~Scanning
  /\ \E k \in 1..Len(fds) : Revents(fds[k].fd) # {}
  /\ fds' = [k \in 1..Len(fds) |->
               [fd |-> fds[k].fd, revents |-> Revents(fds[k].fd), polled |-> TRUE]]
  /\ ret' = Cardinality({k \in 2..Len(fds) : Revents(fds[k].fd) # {}})
  /\ i' = 1
  /\ UNCHANGED <<clientVars, backlog, owner, reading, listVars, misled, reused>>

Poll ==
  /\ ~Scanning
  /\ \E k \in 1..Len(fds) : Revents(fds[k].fd) # {}
  /\ fds' = [k \in 1..Len(fds) |->
               [fd |-> fds[k].fd, revents |-> Revents(fds[k].fd), polled |-> TRUE]]
  /\ ret' = Cardinality({k \in 1..Len(fds) : Revents(fds[k].fd) # {}})
  /\ i' = 1
  /\ UNCHANGED <<clientVars, backlog, owner, reading, listVars, misled, reused>>

\* The slot being looked at, the descriptor in it and the connection behind that.
Has(e)   == Scanning /\ e \in fds[i].revents
Fd       == fds[i].fd
Behind   == IF Fd = LSock THEN NoReq ELSE owner[Fd]
Advance  == i' = i + 1 /\ ret' = ret - 1
DropSlot == fds' = RemoveAt(fds, i) /\ Advance

Quiet ==
  /\ Scanning /\ fds[i].revents = {}
  /\ i' = i + 1
  /\ UNCHANGED <<clientVars, backlog, owner, fds, ret, reading, listVars, misled, reused>>

Accept ==
  /\ Has("in") /\ Fd = LSock /\ OpenFds # Fds
  /\ LET f == Min(Fds \ OpenFds) IN
       /\ owner' = [owner EXCEPT ![f] = Head(backlog)]
       /\ \E g \in Garbage :
            fds' = Append(fds, [fd |-> f, revents |-> g, polled |-> FALSE])
       /\ reused' = (reused \/ \E k \in 1..Len(fds) : fds[k].fd = f)
  /\ backlog' = Tail(backlog)
  /\ Advance
  /\ UNCHANGED <<clientVars, reading, listVars, misled>>

\* No descriptor or file is left, in the daemon or in the system: the connection
\* stays in the backlog.
AcceptFails ==
  /\ Has("in") /\ Fd = LSock
  /\ Advance
  /\ UNCHANGED <<clientVars, backlog, owner, fds, reading, listVars, misled, reused>>

\* Nothing that the loop looks at.
Ignore ==
  /\ Scanning /\ fds[i].revents = {"other"}
  /\ Advance
  /\ UNCHANGED <<clientVars, backlog, owner, fds, reading, listVars, misled, reused>>

\* The connection that performance_read_data_from reads of: the one it waits for,
\* or the one behind the descriptor when it is called.
Source == IF reading # NoReq THEN reading ELSE Behind

\* It finds nothing yet and waits; a signal does not end the wait (EINTR).
Block ==
  /\ Has("in") /\ reading = NoReq /\ Behind # NoReq
  /\ unread[Behind] = <<>> /\ ~Gone(Behind)
  /\ reading' = Behind
  /\ UNCHANGED <<clientVars, backlog, owner, fds, i, ret, listVars, misled, reused>>

Message ==
  /\ Has("in") /\ Source # NoReq /\ unread[Source] # <<>>
  /\ queue' = Append(queue, Item(Head(unread[Source]), Source, Fd))
  /\ given' = [given EXCEPT ![Source] = @ + 1]
  /\ unread' = [unread EXCEPT ![Source] = Tail(@)]
  /\ reading' = NoReq
  /\ UNCHANGED <<client, backlog, owner, tids, misled, cut, reused>>

\* Seeded fault: the loop for POLLHUP is used for every descriptor.
ReadOnAndOn == Message /\ UNCHANGED <<fds, i, ret>>

\* It returns a message; on POLLHUP it is called again, and otherwise the other
\* events are looked at next.
Read ==
  /\ Message
  /\ CASE Has("hup") -> UNCHANGED <<fds, i, ret>>
       [] ~Has("hup") /\ (Has("nval") \/ Has("err")) ->
            fds' = [fds EXCEPT ![i].revents = @ \ {"in"}] /\ UNCHANGED <<i, ret>>
       [] OTHER -> Advance /\ UNCHANGED fds

\* It returns an error: the descriptor is not open, or the other side ended.
ReadFails == Source # NoReq => unread[Source] = <<>> /\ Gone(Source)

\* The slot goes, and the descriptor is closed or not.
Drop(close) ==
  /\ Scanning /\ Fd # LSock
  /\ queue' = Append(queue, Item("remove", NoReq, Fd))
  /\ owner' = IF close THEN [owner EXCEPT ![Fd] = NoReq] ELSE owner
  /\ reading' = NoReq
  /\ misled' = IF fds[i].polled \/ (close /\ Has("in")) THEN misled
               ELSE misled \cup ({Behind} \ {NoReq})
  /\ DropSlot
  /\ UNCHANGED <<clientVars, backlog, tids, cut, reused, given>>

\* Why a slot goes: the only read, or the last of POLLHUP's, has failed, or there
\* was none; POLLNVAL comes before POLLHUP and POLLERR.
Failed    == Has("in") /\ ~Has("hup") /\ ReadFails
Invalid   == Has("nval") /\ (Has("in") => Has("hup") /\ ReadFails)
Ended     == ~Has("nval") /\ (Has("hup") \/ Has("err")) /\ (Has("in") => Has("hup") /\ ReadFails)

\* Seeded fault: POLLHUP is acted on before POLLIN.
HangupUnread == (Failed \/ Has("hup")) /\ Drop(TRUE)

\* Seeded fault: the slot goes, the descriptor stays open.
HangupLeaks == (Failed \/ Ended) /\ Drop(FALSE)

Hangup == (Failed \/ Ended) /\ Drop(TRUE)

\* "Descriptor is not open. Just remove it from array."
NotOpen == Invalid /\ Drop(FALSE)

Listener == \/ Poll \/ Quiet \/ Ignore \/ Accept \/ AcceptFails
            \/ Block \/ Read \/ Hangup \/ NotOpen

-----------------------------------------------------------------------------
(* The cleaner: of its tables only what makes it close a descriptor.       *)

Handled == Head(queue)
Handles(c) == queue # <<>> /\ Handled.command = c /\ queue' = Tail(queue)

\* add_new_pid_tid_data_ut: an entry the worker still has gives its descriptor
\* up, whatever that stands for by now.
HandleBegin ==
  /\ Handles("begin")
  /\ LET w == Handled.req[1] IN
       /\ IF tids[w] # NoReq
          THEN /\ cut' = cut \cup ({owner[tids[w].fd]} \ {NoReq})
               /\ owner' = [owner EXCEPT ![tids[w].fd] = NoReq]
          ELSE UNCHANGED <<owner, cut>>
       /\ tids' = [tids EXCEPT ![w] = Handled]
  /\ UNCHANGED <<clientVars, backlog, fds, i, ret, reading, misled, reused, given>>

HandleEnd ==
  /\ Handles("end")
  /\ tids' = [tids EXCEPT ![Handled.req[1]] = NoReq]
  /\ UNCHANGED <<clientVars, backlog, owner, fds, i, ret, reading, misled, cut, reused, given>>

\* remove_pid_tid_data_fd_ut: one of the entries with the descriptor; which is
\* the first one is left open here.
HandleRemove ==
  /\ Handles("remove")
  /\ LET found == {w \in Workers : tids[w] # NoReq /\ tids[w].fd = Handled.fd} IN
       \/ found = {} /\ UNCHANGED tids
       \/ \E w \in found : tids' = [tids EXCEPT ![w] = NoReq]
  /\ UNCHANGED <<clientVars, backlog, owner, fds, i, ret, reading, misled, cut, reused, given>>

Cleaner == HandleBegin \/ HandleEnd \/ HandleRemove

Next == Clients \/ Listener \/ Cleaner

Spec == Init /\ [][Next]_vars

\* The listener and the cleaner loop for ever, and accept does not fail for ever.
\* A request that is being served ends; nobody has to begin one, and no process
\* has to end.
FairSpec == /\ Spec /\ WF_vars(Listener) /\ SF_vars(Accept) /\ WF_vars(Cleaner)
            /\ WF_vars(ClientMoves)
-----------------------------------------------------------------------------
\* What each variable may hold; the index runs at most two past the array's end,
\* when the last slot was dropped.
TypeOK ==
  /\ client \in [Requests -> {"none", "connected", "begun", "redirected", "ended", "closed"}]
  /\ \A r \in Requests : Range(unread[r]) \subseteq {"begin", "end"}
  /\ Range(backlog) \subseteq Requests
  /\ owner \in [Fds -> Requests \cup {NoReq}]
  /\ \A k \in 1..Len(fds) : fds[k].fd \in Fds \cup {LSock} /\ fds[k].revents \subseteq Revent
                          /\ fds[k].polled \in BOOLEAN
  /\ i \in 1..(Len(fds) + 2) /\ ret \in 0..Len(fds)
  /\ given \in [Requests -> 0..2]
  /\ reading \in Requests \cup {NoReq}
  /\ misled \subseteq Requests /\ cut \subseteq Requests /\ reused \in BOOLEAN

\* A descriptor that is open and that no poll will report any more.
Unwatched == {f \in OpenFds : \A k \in 1..Len(fds) : fds[k].fd # f}

\* No descriptor has two slots, and every open one has its slot, but for
\* connections dropped on garbage: POLLNVAL that was in the memory of a new slot
\* drops it and leaves the descriptor open (mod_performance.c:1521, 1570).  So it
\* is whatever the scan drops and skips, as long as no descriptor came back from
\* accept while a slot still had its number.
WatchedOnce ==
  ~reused => /\ \A k, l \in 1..Len(fds) : fds[k].fd = fds[l].fd => k = l
             /\ \A f \in Unwatched : owner[f] \in misled

\* What the client has sent for certain.
Sent(r)   == CASE client[r] \in {"begun", "redirected"} -> 1
               [] client[r] = "ended" -> 2
               [] client[r] = "closed" /\ r[1] \notin Mortal -> 2
               [] OTHER -> 0

\* The listener lets go of a connection only when it has read all of it: what was
\* sent has gone to the lists, once, in spite of skipped slots and of descriptors
\* that come back; but for connections that the cleaner cut, and for those of which
\* garbage says that they have hung up or failed and a read has not confirmed it.
ReadOut ==
  \A r \in Requests \ (cut \cup misled) :
     ~Connected(r) => /\ unread[r] = <<>>
                      /\ Sent(r) > 0 => given[r] = Sent(r)

\* The listener waits in read, deaf to everybody, only over a slot whose revents poll
\* did not write (mod_performance.c:1480 says "Wait max 1 second", of poll; revents
\* of an accepted slot is not set at 1521).
WaitsOnlyIfGarbled == reading # NoReq => reused \/ ~fds[i].polled

\* Every connection the other side has closed is taken down in the end, unless
\* its descriptor is no longer watched, or the listener waits for ever in a read:
\* what one scan has skipped, or could not accept, a later one finds.  From some
\* moment on it is so for all of them, since there are finitely many.  (With at least
\* as many descriptors as requests; with fewer, connections that stay open can keep
\* one in the backlog.)
TakenDown ==
  \/ <>[](reading # NoReq)
  \/ <>[](\A r \in Requests :
            client[r] = "closed" => ~Connected(r) \/ \E f \in Unwatched : owner[f] = r)
==============================================================================
