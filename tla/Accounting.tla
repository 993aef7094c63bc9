----------------------------- MODULE Accounting -----------------------------
(***************************************************************************)
(* From a worker's BEGIN and END messages to the rows of the database: the *)
(* daemon's listener, cleaner and saver threads over the lists and tables  *)
(* of tid_pid_list_ut.c.                                                   *)
(*                                                                         *)
(* A request <<w, k>> (the k-th of worker w) has one connection.  The      *)
(* listener accepts it on the lowest free descriptor, reads BEGIN and END, *)
(* queues each message, and when the client has closed queues the          *)
(* descriptor for removal and only then closes it.  The cleaner drains the *)
(* two message lists and then the two remove lists, entry by entry: BEGIN  *)
(* adds an entry to tids_ut, END turns it into a row of counters_ut, a     *)
(* remove item deletes the FIRST entry that carries that descriptor.  The  *)
(* saver moves rows to the database.                                       *)
(*                                                                         *)
(* A push is one step here; Handoff says when that is what happens.  The   *)
(* listener reads its connections in any order: its scan skips the slot    *)
(* after one it drops, so that what waits on a connection is read later    *)
(* than what came after it on another.  A thread's next request may thus   *)
(* be OVERTAKING the one before: its BEGIN is read first.  The entry that  *)
(* BEGIN then finds is overwritten and its descriptor closed, whichever    *)
(* connection has that number by now.  Slots whose revents are stale are   *)
(* PollLoop's.  A thread finishes one request before it begins the next,   *)
(* and no two threads report one tid: an internal redirect (a second BEGIN *)
(* before the END) and PerformanceUseTid Off under a threaded server are   *)
(* outside this model.                                                     *)
(***************************************************************************)
EXTENDS Naturals, Sequences, FiniteSets, SequencesExt, FiniteSetsExt

CONSTANTS Workers,    \* the threads of the web server that run requests
          TidOf,      \* the current_tid each of them reports
          Quota,      \* bound: how many requests each worker runs
          MaxFd,      \* bound: descriptors 1..MaxFd of the daemon
          Mortal      \* the workers whose process may die in mid-request

ASSUME AccountingAssumption ==
  /\ Quota \in [Workers -> Nat]
  /\ MaxFd \in Nat \ {0}
  /\ Mortal \subseteq Workers
  /\ DOMAIN TidOf = Workers /\ IsInjective(TidOf)

VARIABLES
  slot,       \* per request, its connection's slot: "cut" is watched, but closed
  got,        \* the last message read from it
  fdOf,       \* the descriptor its connection was accepted on, 0 before
  dead,       \* workers whose process has died
  hanging,    \* the request whose connection the listener is taking down
  list1, list2,      \* list_1_ut, list_2_ut: messages with their descriptor
  rem1, rem2,        \* remove_list_1_ut, remove_list_2_ut: descriptors
  cpc,        \* what the cleaner is walking
  tids,       \* tids_ut, in insertion order
  counters,   \* counters_ut: rows in the order of their global_id_ut
  db,         \* the rows saved, a bag
  overtaken,  \* history: requests still to be read when a later one's BEGIN was
  ended,      \* history: requests whose END the cleaner has handled
  removed     \* history: requests whose entry a remove item deleted

vars == <<slot, got, fdOf, dead, hanging, overtaken, list1, list2, rem1, rem2,
          cpc, tids, counters, db, ended, removed>>

Requests == UNION {{w} \X (1..Quota[w]) : w \in Workers}
Fds      == 1..MaxFd
NoReq    == <<>>

Tid(r) == TidOf[r[1]]
BagOf(rows) == [x \in Range(rows) |-> Cardinality({k \in DOMAIN rows : rows[k] = x})]
Message(c, r) == [command |-> c, req |-> r, fd |-> fdOf[r]]

listenerVars == <<got, fdOf, dead, hanging, overtaken>>
tables       == <<tids, counters, ended, removed>>

Init ==
  /\ slot = [r \in Requests |-> "none"] /\ got = [r \in Requests |-> "none"]
  /\ fdOf = [r \in Requests |-> 0]
  /\ dead = {} /\ hanging = NoReq /\ overtaken = {}
  /\ list1 = <<>> /\ list2 = <<>> /\ rem1 = <<>> /\ rem2 = <<>>
  /\ cpc = "idle"
  /\ tids = <<>> /\ counters = <<>> /\ db = EmptyBag
  /\ ended = {} /\ removed = {}

-----------------------------------------------------------------------------
(* The listener: performance_server_main_cycle.                            *)

\* Descriptors the daemon has open for connections.
OpenFds == {fdOf[r] : r \in {q \in Requests : slot[q] = "open"}}

Earlier(a, b) == a[1] = b[1] /\ a[2] < b[2]

\* The connection on which a worker died: nothing more comes from it.
Abandoned(r) == r[1] \in dead /\ \A s \in Requests : Earlier(r, s) => slot[s] = "none"

\* Seeded fault: the two lists are taken the wrong way round.
PushSwapped(m) ==
  IF cpc = "list1" THEN list1' = Append(list1, m) /\ UNCHANGED list2
                   ELSE list2' = Append(list2, m) /\ UNCHANGED list1

\* add_item_to_list_ut: list_2_ut takes the message while the cleaner holds
\* mutex_list_ut, list_1_ut otherwise.
Push(m) ==
  IF cpc = "list1" THEN list2' = Append(list2, m) /\ UNCHANGED list1
                   ELSE list1' = Append(list1, m) /\ UNCHANGED list2

\* add_item_to_removelist_ut, under mutex_remove_list_ut.
PushRemove(fd) ==
  IF cpc = "rem1" THEN rem2' = Append(rem2, fd) /\ UNCHANGED rem1
                  ELSE rem1' = Append(rem1, fd) /\ UNCHANGED rem2

\* A new connection gets the lowest free descriptor; a worker's connections
\* leave the backlog in the order in which it opened them.
Accept(r) ==
  /\ hanging = NoReq
  /\ slot[r] = "none" /\ r[1] \notin dead
  /\ \A s \in Requests : Earlier(s, r) => slot[s] # "none"
  /\ OpenFds # Fds
  /\ slot' = [slot EXCEPT ![r] = "open"]
  /\ fdOf' = [fdOf EXCEPT ![r] = Min(Fds \ OpenFds)]
  /\ UNCHANGED <<got, dead, hanging, overtaken, list1, list2, rem1, rem2, cpc, tables, db>>

\* What is still to be read of the worker's earlier requests is overtaken.
ReadBegin(r) ==
  /\ hanging = NoReq
  /\ slot[r] = "open" /\ got[r] = "none"
  /\ got' = [got EXCEPT ![r] = "begin"]
  /\ overtaken' = overtaken \cup
       {s \in Requests : Earlier(s, r) /\ slot[s] = "open" /\ got[s] # "end"}
  /\ Push(Message("begin", r))
  /\ UNCHANGED <<slot, fdOf, dead, hanging, rem1, rem2, cpc, tables, db>>

\* END arrives together with the client's close, POLLIN and POLLHUP, and the
\* connection is then taken down; or the close is found in a later round.
ReadEnd(r) ==
  /\ hanging = NoReq
  /\ slot[r] = "open" /\ got[r] = "begin" /\ ~Abandoned(r)
  /\ got' = [got EXCEPT ![r] = "end"]
  /\ hanging' \in {r, NoReq}
  /\ Push(Message("end", r))
  /\ UNCHANGED <<slot, fdOf, dead, overtaken, rem1, rem2, cpc, tables, db>>

\* The worker's process dies in a request, before it sends END.
Die(w) ==
  /\ w \in Mortal \ dead
  /\ \E r \in Requests :
       /\ r[1] = w /\ slot[r] \in {"open", "cut"} /\ got[r] # "end"
       /\ \A s \in Requests : Earlier(r, s) => slot[s] = "none"
  /\ dead' = dead \cup {w}
  /\ UNCHANGED <<slot, got, fdOf, hanging, overtaken, list1, list2, rem1, rem2, cpc, tables, db>>

\* POLLHUP alone: after END, or without one when the worker has died.
Disconnect(r) ==
  /\ hanging = NoReq
  /\ slot[r] = "open"
  /\ got[r] = "end" \/ Abandoned(r)
  /\ hanging' = r
  /\ UNCHANGED <<slot, got, fdOf, dead, overtaken, list1, list2, rem1, rem2, cpc, tables, db>>

\* add_item_to_removelist_ut first, the close after it.
TakeDown ==
  /\ hanging # NoReq
  /\ PushRemove(fdOf[hanging])
  /\ slot' = [slot EXCEPT ![hanging] = "closed"]
  /\ hanging' = NoReq
  /\ UNCHANGED <<got, fdOf, dead, overtaken, list1, list2, cpc, tables, db>>

\* POLLNVAL: the slot goes, what was on its connection is lost.
NotOpen(r) ==
  /\ hanging = NoReq
  /\ slot[r] = "cut" /\ fdOf[r] \notin OpenFds
  /\ PushRemove(fdOf[r])
  /\ slot' = [slot EXCEPT ![r] = "closed"]
  /\ UNCHANGED <<listenerVars, list1, list2, cpc, tables, db>>

Listener == \/ \E r \in Requests : \/ Accept(r) \/ ReadBegin(r) \/ ReadEnd(r)
                                     \/ Disconnect(r) \/ NotOpen(r)
            \/ TakeDown

-----------------------------------------------------------------------------
(* The cleaner: clean_item_list_ut.                                        *)

EntriesOf(t) == {k \in 1..Len(tids) : Tid(tids[k].req) = t}

\* The connection that has the descriptor now loses it.
Close(fd) ==
  slot' = [r \in Requests |-> IF slot[r] = "open" /\ fdOf[r] = fd THEN "cut" ELSE slot[r]]

\* add_new_pid_tid_data_ut: a second BEGIN of a thread overwrites its entry and
\* closes the descriptor that was in it.
AddNew(m) ==
  /\ LET old   == EntriesOf(Tid(m.req))
         entry == [req |-> m.req, fd |-> m.fd]
     IN  \/ old = {} /\ tids' = Append(tids, entry) /\ UNCHANGED slot
         \/ old # {} /\ tids' = [tids EXCEPT ![Min(old)] = entry] /\ Close(tids[Min(old)].fd)
  /\ UNCHANGED <<counters, ended, removed>>

\* Seeded fault: the entry is looked up by the descriptor.
SaveByFd(m) ==
  /\ LET found == {k \in 1..Len(tids) : tids[k].fd = m.fd} IN
       IF found = {} THEN UNCHANGED <<tids, counters>>
       ELSE /\ counters' = Append(counters, [begin |-> tids[Min(found)].req, end |-> m.req])
            /\ tids' = RemoveAt(tids, Min(found))
  /\ ended' = ended \cup {m.req}
  /\ UNCHANGED <<slot, removed>>

\* Seeded fault: remove_tid_pid_data_ut is not called.
EntryKept(m) ==
  /\ LET found == EntriesOf(Tid(m.req)) IN
       IF found = {} THEN UNCHANGED counters
       ELSE counters' = Append(counters, [begin |-> tids[Min(found)].req, end |-> m.req])
  /\ ended' = ended \cup {m.req}
  /\ UNCHANGED <<slot, tids, removed>>

\* get_tid_pid_data_ut, save_counters_ut and remove_tid_pid_data_ut.
SaveCounters(m) ==
  /\ LET found == EntriesOf(Tid(m.req)) IN
       IF found = {} THEN UNCHANGED <<tids, counters>>
       ELSE /\ counters' = Append(counters, [begin |-> tids[Min(found)].req, end |-> m.req])
            /\ tids' = RemoveAt(tids, Min(found))
  /\ ended' = ended \cup {m.req}
  /\ UNCHANGED <<slot, removed>>

\* One turn of proceed_list_need_ut.
Proceed(m) == IF m.command = "begin" THEN AddNew(m) ELSE SaveCounters(m)

\* remove_pid_tid_data_fd_ut: the first entry with the descriptor.
RemoveFd(fd) ==
  /\ LET found == {k \in 1..Len(tids) : tids[k].fd = fd} IN
       IF found = {} THEN UNCHANGED <<tids, removed>>
       ELSE /\ tids' = RemoveAt(tids, Min(found))
            /\ removed' = removed \cup {tids[Min(found)].req}
  /\ UNCHANGED <<counters, ended>>

StartPass ==
  /\ cpc = "idle" /\ cpc' = "list1"
  /\ UNCHANGED <<slot, listenerVars, list1, list2, rem1, rem2, tables, db>>

\* Seeded fault: the pass goes from list_1_ut to the remove lists.
List2Skipped ==
  /\ cpc = "list1"
  /\ IF list1 = <<>> THEN cpc' = "rem1" /\ UNCHANGED <<slot, list1, tables>>
     ELSE Proceed(Head(list1)) /\ list1' = Tail(list1) /\ UNCHANGED cpc
  /\ UNCHANGED <<listenerVars, list2, rem1, rem2, db>>

ProceedList1 ==
  /\ cpc = "list1"
  /\ IF list1 = <<>> THEN cpc' = "list2" /\ UNCHANGED <<slot, list1, tables>>
     ELSE Proceed(Head(list1)) /\ list1' = Tail(list1) /\ UNCHANGED cpc
  /\ UNCHANGED <<listenerVars, list2, rem1, rem2, db>>

ProceedList2 ==
  /\ cpc = "list2"
  /\ IF list2 = <<>> THEN cpc' = "rem1" /\ UNCHANGED <<slot, list2, tables>>
     ELSE Proceed(Head(list2)) /\ list2' = Tail(list2) /\ UNCHANGED cpc
  /\ UNCHANGED <<listenerVars, list1, rem1, rem2, db>>

ProceedRemove1 ==
  /\ cpc = "rem1"
  /\ IF rem1 = <<>> THEN cpc' = "rem2" /\ UNCHANGED <<rem1, tables>>
     ELSE RemoveFd(Head(rem1)) /\ rem1' = Tail(rem1) /\ UNCHANGED cpc
  /\ UNCHANGED <<slot, listenerVars, list1, list2, rem2, db>>

ProceedRemove2 ==
  /\ cpc = "rem2"
  /\ IF rem2 = <<>> THEN cpc' = "idle" /\ UNCHANGED <<rem2, tables>>
     ELSE RemoveFd(Head(rem2)) /\ rem2' = Tail(rem2) /\ UNCHANGED cpc
  /\ UNCHANGED <<slot, listenerVars, list1, list2, rem1, db>>

Cleaner == \/ StartPass \/ ProceedList1 \/ ProceedList2
           \/ ProceedRemove1 \/ ProceedRemove2

-----------------------------------------------------------------------------
(* The saver: remove_counters_ut, all rows under one hold of the mutex.    *)

\* Seeded fault: HASH_DEL is missing, the table keeps the saved rows.
RowsKept ==
  /\ counters # <<>>
  /\ db' = db (+) BagOf(counters)
  /\ UNCHANGED <<slot, listenerVars, list1, list2, rem1, rem2, cpc, tids, counters, ended, removed>>

RemoveCounters ==
  /\ counters # <<>>
  /\ db' = db (+) BagOf(counters)
  /\ counters' = <<>>
  /\ UNCHANGED <<slot, listenerVars, list1, list2, rem1, rem2, cpc, tids, ended, removed>>

Next == \/ Listener \/ Cleaner \/ RemoveCounters
        \/ \E w \in Workers : Die(w)

Spec == Init /\ [][Next]_vars

\* The cleaner and the saver loop for ever, and every loop ends; nothing is
\* asked of the web server, whose requests may run as long as they like.
FairSpec == /\ Spec
            /\ WF_vars(Cleaner)
            /\ WF_vars(RemoveCounters)
-----------------------------------------------------------------------------
Rows == BagOf(counters) (+) db

Slots    == {"none", "open", "cut", "closed"}
Commands == {"begin", "end"}
Messages == [command : Commands, req : Requests, fd : Fds]

\* What each variable may hold.  That an accepted connection has a descriptor
\* is part of it: messages and entries carry descriptors that exist.
TypeOK ==
  /\ slot \in [Requests -> Slots] /\ got \in [Requests -> Commands \cup {"none"}]
  /\ fdOf \in [Requests -> Fds \cup {0}]
  /\ dead \subseteq Mortal
  /\ hanging \in Requests \cup {NoReq}
  /\ Range(list1 \o list2) \subseteq Messages
  /\ Range(rem1 \o rem2) \subseteq Fds
  /\ cpc \in {"idle", "list1", "list2", "rem1", "rem2"}
  /\ Range(tids) \subseteq [req : Requests, fd : Fds]
  /\ BagToSet(Rows) \subseteq [begin : Requests, end : Requests]
  /\ overtaken \subseteq Requests /\ ended \subseteq Requests /\ removed \subseteq Requests

\* A row measures one request: the BEGIN it was made from and the END that
\* closed it belong together (save_counters_ut subtracts one from the other),
\* although they may have travelled through different lists.  They are of two
\* requests only when the listener read the later one's BEGIN before it had
\* read the earlier one to its end; the two are then of one thread.
Mixed(a, b) == Earlier(a, b) /\ a \in overtaken
RowsPairOneRequest ==
  \A x \in BagToSet(Rows) : x.begin = x.end \/ Mixed(x.begin, x.end) \/ Mixed(x.end, x.begin)

\* No request is recorded twice: a row leaves counters_ut when it is saved.
RecordedOnce == \A x \in BagToSet(Rows) : Rows[x] = 1

\* A request whose END was handled has its row, unless a remove item deleted
\* its entry first, or it or an earlier request of its thread was overtaken: a
\* request that is read in its turn is lost to remove items alone.
Recorded(r) == \E x \in BagToSet(Rows) : x.end = r
Disturbed(r) == \E s \in overtaken : s = r \/ Earlier(s, r)
LostOnlyByRemoval == \A r \in ended : r \in removed \/ Disturbed(r) \/ Recorded(r)

\* Once everything queued has been dealt with, no entry of the table of running
\* requests belongs to one whose END was read: what is left runs, or its worker
\* died, or its connection was cut.
AtRest ==
  /\ hanging = NoReq /\ cpc = "idle"
  /\ list1 = <<>> /\ list2 = <<>> /\ rem1 = <<>> /\ rem2 = <<>>

NoStaleEntries == AtRest => \A e \in Range(tids) : got[e.req] # "end"

\* Every request whose END the daemon has read is eventually in the database
\* or lost its entry to a remove item or to a request that overtook.
Saved(r) == \E x \in BagToSet(db) : x.end = r
EndedIsSaved ==
  \A r \in Requests : (got[r] = "end") ~> (r \in removed \/ Disturbed(r) \/ Saved(r))

\* Every completed request is recorded.
CompletedIsRecorded == \A r \in ended : Recorded(r)
==============================================================================
