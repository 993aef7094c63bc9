------------------------------- MODULE Handoff -------------------------------
(***************************************************************************)
(* The hand-off of accepted messages from the listener (main thread) to    *)
(* the cleaner thread, tid_pid_list_ut.c: add_item_to_list_ut against      *)
(* clean_item_list_ut / proceed_list_need_ut.                              *)
(*                                                                         *)
(* The listener never blocks: it tries mutex_list_ut, and when the cleaner *)
(* holds it the message goes to list_2_ut instead, WITHOUT any lock.  The  *)
(* cleaner empties list_1_ut under the mutex, releases it, and then walks  *)
(* and clears list_2_ut, again without a lock.  What keeps the two apart   *)
(* on list_2_ut is only that a busy push is expected to be over before the *)
(* cleaner lets go of the mutex.  `straddled' records that one was not.    *)
(*                                                                         *)
(* The pair remove_list_1_ut / remove_list_2_ut under mutex_remove_list_ut *)
(* (add_item_to_removelist_ut, proceed_remove_list_need_ut) is the same    *)
(* code over another element type; every statement here holds of it too.   *)
(*                                                                         *)
(* Steps are single memory accesses of the UT_array macros.  Messages are  *)
(* numbered by the order in which the listener accepted them.              *)
(***************************************************************************)
EXTENDS Naturals, Sequences

CONSTANTS MaxMsgs,   \* bound: how many messages the listener accepts
          Block,     \* elements in the first allocation of a UT_array (8)
          Junk       \* what a slot holds that was never written

ASSUME HandoffAssumption ==
  /\ MaxMsgs \in Nat
  /\ Block \in Nat \ {0}
  /\ Junk \notin Nat

VARIABLES
  mutex,      \* holder of mutex_list_ut, or "free"
  lpc,        \* where the listener is in add_item_to_list_ut
  sent,       \* messages accepted so far; the last is the one being pushed
  idx,        \* listener's register: list_2_ut->i as loaded for the push
  stores,     \* the stores of the current push that are still to be done
  list1,      \* list_1_ut
  slot2,      \* list_2_ut->d: the slots, also those beyond the count
  n2,         \* list_2_ut->i
  cap2,       \* list_2_ut->n
  cpc,        \* where the cleaner is in clean_item_list_ut
  cur,        \* elements of the list being walked already handled
  handled,    \* history: what proceed_list_need_ut was given, in order
  via1,       \* history: the messages that took list_1_ut
  straddled   \* history: a busy push was still going on at an unlock

vars == <<mutex, lpc, sent, idx, stores, list1, slot2, n2, cap2,
          cpc, cur, handled, via1, straddled>>

listenerVars == <<lpc, sent, idx, stores, via1>>
cleanerVars  == <<cpc, cur, handled, straddled>>

Msgs  == 1..MaxMsgs
Slots == 1..(MaxMsgs + 1)

\* The listener is in the branch of add_item_to_list_ut taken on EBUSY.
BusyPush == lpc \in {"reserve2", "load2", "store2"}

Init ==
  /\ mutex = "free"
  /\ lpc = "idle" /\ sent = 0 /\ idx = 0 /\ stores = {}
  /\ list1 = <<>>
  /\ slot2 = [k \in Slots |-> Junk] /\ n2 = 0 /\ cap2 = 0
  /\ cpc = "idle" /\ cur = 0 /\ handled = <<>>
  /\ via1 = {} /\ straddled = FALSE

-----------------------------------------------------------------------------
(* Seeded faults: single steps as a plausible mistake would have them.  The *)
(* properties below are checked to fail when one replaces the real step.   *)

\* A busy mutex makes the listener drop the message.
TrylockDrops ==
  /\ lpc = "idle" /\ sent < MaxMsgs
  /\ sent' = sent + 1
  /\ IF mutex = "free" THEN mutex' = "listener" /\ lpc' = "push1"
                       ELSE UNCHANGED <<mutex, lpc>>
  /\ UNCHANGED <<idx, stores, via1, list1, slot2, n2, cap2, cleanerVars>>

\* The utarray_clear after the walk over list_1_ut is missing.
Clear1Forgotten ==
  /\ cpc = "scan1" /\ cur >= Len(list1) /\ cur' = 0 /\ cpc' = "unlock"
  /\ UNCHANGED <<mutex, listenerVars, list1, slot2, n2, cap2, handled, straddled>>

\* The pass ends after list_1_ut; list_2_ut is never walked.
UnlockEndsPass ==
  /\ cpc = "unlock" /\ mutex' = "free" /\ cpc' = "idle"
  /\ straddled' = (straddled \/ BusyPush)
  /\ UNCHANGED <<listenerVars, list1, slot2, n2, cap2, cur, handled>>

\* The utarray_clear after the walk over list_2_ut is missing.
Clear2Forgotten ==
  /\ cpc = "clear2" /\ cpc' = "idle"
  /\ UNCHANGED <<mutex, listenerVars, list1, slot2, n2, cap2, cur, handled, straddled>>

-----------------------------------------------------------------------------
(* The listener: add_item_to_list_ut.                                      *)

\* apr_thread_mutex_trylock: a message is at hand, the mutex is tried once.
Trylock ==
  /\ lpc = "idle" /\ sent < MaxMsgs
  /\ sent' = sent + 1
  /\ \/ mutex = "free" /\ mutex' = "listener" /\ lpc' = "push1"
     \/ mutex # "free" /\ lpc' = "reserve2" /\ UNCHANGED mutex
  /\ UNCHANGED <<idx, stores, via1, list1, slot2, n2, cap2, cleanerVars>>

\* utarray_push_back(list_1_ut, ...) with the mutex held.
Push1 ==
  /\ lpc = "push1"
  /\ list1' = Append(list1, sent)
  /\ via1' = via1 \cup {sent}
  /\ lpc' = "unlock1"
  /\ UNCHANGED <<mutex, sent, idx, stores, slot2, n2, cap2, cleanerVars>>

Unlock1 ==
  /\ lpc = "unlock1"
  /\ mutex' = "free"
  /\ lpc' = "idle"
  /\ UNCHANGED <<sent, idx, stores, via1, list1, slot2, n2, cap2, cleanerVars>>

\* utarray_reserve(list_2_ut, 1): a full array is moved by realloc.  A cleaner
\* that is walking it then holds a pointer into freed memory, and its next
\* utarray_next computes some index of the new block from it.
Reserve2 ==
  /\ lpc = "reserve2"
  /\ lpc' = "load2"
  /\ \/ /\ n2 + 1 > cap2
        /\ cap2' = IF cap2 = 0 THEN Block ELSE 2 * cap2
        /\ IF cpc = "scan2" /\ cur > 0 THEN cur' \in 0..n2 ELSE UNCHANGED cur
     \/ n2 + 1 <= cap2 /\ UNCHANGED <<cap2, cur>>
  /\ UNCHANGED <<mutex, sent, idx, stores, via1, list1, slot2, n2,
                 cpc, handled, straddled>>

\* The load of (a)->i++.
Load2 ==
  /\ lpc = "load2"
  /\ idx' = n2
  /\ stores' = {"count", "copy"}
  /\ lpc' = "store2"
  /\ UNCHANGED <<mutex, sent, via1, list1, slot2, n2, cap2, cleanerVars>>

\* The store of (a)->i++ and the memcpy into the slot: the accesses race with
\* the cleaner's, so the build may perform them in either order.
Store2(s) ==
  /\ lpc = "store2" /\ s \in stores
  /\ stores' = stores \ {s}
  /\ lpc' = IF stores' = {} THEN "idle" ELSE "store2"
  /\ \/ s = "count" /\ n2' = idx + 1 /\ UNCHANGED slot2
     \/ s = "copy" /\ slot2' = [slot2 EXCEPT ![idx + 1] = sent] /\ UNCHANGED n2
  /\ UNCHANGED <<mutex, sent, idx, via1, list1, cap2, cleanerVars>>

Listener == \/ Trylock \/ Push1 \/ Unlock1 \/ Reserve2 \/ Load2
            \/ \E s \in {"count", "copy"} : Store2(s)

-----------------------------------------------------------------------------
(* The cleaner: clean_item_list_ut, with proceed_list_need_ut inlined.     *)

Lock ==
  /\ cpc = "idle" /\ mutex = "free"
  /\ mutex' = "cleaner"
  /\ cpc' = "scan1"
  /\ UNCHANGED <<listenerVars, list1, slot2, n2, cap2, cur, handled, straddled>>

\* One turn of the while loop over list_1_ut.
Handle1 ==
  /\ cpc = "scan1" /\ cur < Len(list1)
  /\ handled' = Append(handled, list1[cur + 1])
  /\ cur' = cur + 1
  /\ UNCHANGED <<mutex, listenerVars, list1, slot2, n2, cap2, cpc, straddled>>

\* utarray_next returns NULL, utarray_clear(list_1_ut).
Clear1 ==
  /\ cpc = "scan1" /\ cur >= Len(list1)
  /\ list1' = <<>>
  /\ cur' = 0
  /\ cpc' = "unlock"
  /\ UNCHANGED <<mutex, listenerVars, slot2, n2, cap2, handled, straddled>>

Unlock ==
  /\ cpc = "unlock"
  /\ mutex' = "free"
  /\ cpc' = "scan2"
  /\ straddled' = (straddled \/ BusyPush)
  /\ UNCHANGED <<listenerVars, list1, slot2, n2, cap2, cur, handled>>

\* One turn of the while loop over list_2_ut, without the mutex.
Handle2 ==
  /\ cpc = "scan2" /\ cur < n2
  /\ handled' = Append(handled, slot2[cur + 1])
  /\ cur' = cur + 1
  /\ UNCHANGED <<mutex, listenerVars, list1, slot2, n2, cap2, cpc, straddled>>

\* utarray_next found no further element of list_2_ut.
End2 ==
  /\ cpc = "scan2" /\ cur >= n2
  /\ cpc' = "clear2"
  /\ cur' = 0
  /\ UNCHANGED <<mutex, listenerVars, list1, slot2, n2, cap2, handled, straddled>>

\* utarray_clear(list_2_ut): only the count is reset.
Clear2 ==
  /\ cpc = "clear2"
  /\ n2' = 0
  /\ cpc' = "idle"
  /\ UNCHANGED <<mutex, listenerVars, list1, slot2, cap2, cur, handled, straddled>>

Cleaner == Lock \/ Handle1 \/ Clear1 \/ Unlock \/ Handle2 \/ End2 \/ Clear2

Next == Listener \/ Cleaner

Spec == Init /\ [][Next]_vars

\* Both threads keep running.  The cleaner asks for the mutex again and again
\* and the listener only ever holds it for one push, so the lock is not
\* refused for ever.
Fairness == /\ WF_vars(Listener)
            /\ WF_vars(Cleaner)
            /\ SF_vars(Lock)

FairSpec == Spec /\ Fairness

-----------------------------------------------------------------------------
\* What each variable may hold; list_2_ut never counts more than was accepted.
TypeOK ==
  /\ mutex \in {"free", "listener", "cleaner"}
  /\ lpc \in {"idle", "push1", "unlock1", "reserve2", "load2", "store2"}
  /\ sent \in 0..MaxMsgs
  /\ idx \in 0..MaxMsgs
  /\ stores \in SUBSET {"count", "copy"}
  /\ list1 \in Seq(Msgs)
  /\ slot2 \in [Slots -> Msgs \cup {Junk}]
  /\ n2 \in 0..(MaxMsgs + 1)
  /\ cap2 \in Nat
  /\ cpc \in {"idle", "scan1", "unlock", "scan2", "clear2"}
  /\ cur \in Nat
  /\ handled \in Seq(Msgs \cup {Junk})
  /\ via1 \in SUBSET Msgs
  /\ straddled \in BOOLEAN

\* list_1_ut is only touched by the holder of mutex_list_ut: while the listener
\* is between a successful trylock and its unlock, the cleaner is outside its
\* own critical section (tid_pid_list_ut.c:142-158, 238-240).
List1Exclusive ==
  /\ lpc \in {"push1", "unlock1"} => mutex = "listener"
  /\ cpc \in {"scan1", "unlock"} => mutex = "cleaner"

\* As long as no busy push was still going on when the cleaner released the
\* mutex, the cleaner has handled messages 1, 2, ..., n: nothing lost, nothing
\* twice, nothing out of order, although they travel through two lists.
InOrderUnlessStraddled ==
  ~straddled => \A k \in 1..Len(handled) : handled[k] = k

\* A message that took list_1_ut is handled exactly once whatever happens on
\* list_2_ut: it waits in the list and was not handled yet, or it was handled
\* once and has left the part of the list that is still to be walked.
Times(m) == {k \in 1..Len(handled) : handled[k] = m}

Waits(m) ==
  \E k \in 1..Len(list1) : list1[k] = m /\ (cpc = "scan1" => k > cur)

List1HandledOnce ==
  \A m \in via1 : \/ Waits(m) /\ Times(m) = {}
                  \/ ~Waits(m) /\ \E k \in Times(m) : Times(m) = {k}

\* Every message accepted is eventually handled, in the runs in which no busy
\* push outlives the cleaner's critical section.
AllHandled ==
  ([]~straddled) =>
     \A m \in Msgs : (sent >= m) ~> (Times(m) # {})

\* The hand-off implements the channel that is in order until it degrades.
Channel == INSTANCE InOrder
             WITH accepted <- sent, handled <- handled, exact <- ~straddled

ImplementsInOrder == Channel!Spec
==============================================================================
