------------------------------ MODULE AprLists ------------------------------
(***************************************************************************)
(* The hand-off of tid_pid_list.c, which PerformanceCustomPool Off selects  *)
(* instead of the one in Handoff: the same two lists and the same mutex,    *)
(* but the walk takes an element off the END of the array for every one it  *)
(* has handled, and counts up to the number that is left.                   *)
(*                                                                         *)
(* A push is one step here; one that is still going on when the mutex is    *)
(* given back is the matter of Handoff.  The remove lists are the same code *)
(* over another type of element.                                            *)
(***************************************************************************)
EXTENDS Naturals, Sequences, SequencesExt

CONSTANT MaxMessages   \* bound: how many messages arrive

ASSUME AprAssumption == MaxMessages \in Nat

VARIABLES
  accepted,        \* how many messages the listener has queued: 1, 2, 3, ...
  list_1, list_2,
  walking,         \* the list the cleaner is in, "none" between the passes
  i,               \* how far it is in that
  handled,         \* history: the messages handled, in order
  met, before,     \* history: the list this walk found, and what had been handled then
  piled            \* history: a walk found more than one message

vars == <<accepted, list_1, list_2, walking, i, handled, met, before, piled>>

Init ==
  /\ accepted = 0
  /\ list_1 = <<>> /\ list_2 = <<>>
  /\ walking = "none" /\ i = 0
  /\ handled = <<>> /\ met = <<>> /\ before = <<>>
  /\ piled = FALSE

-----------------------------------------------------------------------------
(* Seeded faults.                                                          *)

\* The busy list and the other one are taken the wrong way round.
PushSwapped ==
  /\ accepted < MaxMessages /\ accepted' = accepted + 1
  /\ IF walking = "list_1"
       THEN list_1' = Append(list_1, accepted + 1) /\ UNCHANGED list_2
       ELSE list_2' = Append(list_2, accepted + 1) /\ UNCHANGED list_1
  /\ UNCHANGED <<walking, i, handled, met, before, piled>>

\* The element at the front is taken off.
PopFront(list) == Tail(list)

\* The pass ends without the second list.
UnlockEndsPass ==
  /\ walking = "list_1" /\ i >= Len(list_1)
  /\ walking' = "none"
  /\ UNCHANGED <<accepted, list_1, list_2, i, handled, met, before, piled>>

-----------------------------------------------------------------------------
(* The listener: add_item_to_list.                                         *)

Push ==
  /\ accepted < MaxMessages /\ accepted' = accepted + 1
  /\ IF walking = "list_1"
       THEN list_2' = Append(list_2, accepted + 1) /\ UNCHANGED list_1
       ELSE list_1' = Append(list_1, accepted + 1) /\ UNCHANGED list_2
  /\ UNCHANGED <<walking, i, handled, met, before, piled>>

-----------------------------------------------------------------------------
(* The cleaner: clean_item_list and proceed_list_need.                     *)

\* proceed_list_need begins.
Walk(name, list) ==
  /\ walking' = name /\ i' = 0
  /\ met' = list /\ before' = handled
  /\ piled' = (piled \/ Len(list) > 1)
  /\ UNCHANGED <<accepted, list_1, list_2, handled>>

\* apr_array_pop, whatever element it is.
Pop(list) == SubSeq(list, 1, Len(list) - 1)

\* One turn of its loop.
Handle(list) ==
  /\ handled' = Append(handled, list[i + 1])
  /\ i' = i + 1
  /\ UNCHANGED <<accepted, walking, met, before, piled>>

Lock == walking = "none" /\ Walk("list_1", list_1)

Handle1 ==
  /\ walking = "list_1" /\ i < Len(list_1)
  /\ Handle(list_1)
  /\ list_1' = Pop(list_1) /\ UNCHANGED list_2

Unlock == walking = "list_1" /\ i >= Len(list_1) /\ Walk("list_2", list_2)

Handle2 ==
  /\ walking = "list_2" /\ i < Len(list_2)
  /\ Handle(list_2)
  /\ list_2' = Pop(list_2) /\ UNCHANGED list_1

EndOfPass ==
  /\ walking = "list_2" /\ i >= Len(list_2)
  /\ walking' = "none"
  /\ UNCHANGED <<accepted, list_1, list_2, i, handled, met, before, piled>>

Cleaner == Lock \/ Handle1 \/ Unlock \/ Handle2 \/ EndOfPass

Next == Push \/ Cleaner

Spec == Init /\ [][Next]_vars

\* The cleaner makes a pass every 100 ms; nothing makes a message arrive.
FairSpec == Spec /\ WF_vars(Cleaner)

-----------------------------------------------------------------------------
Current == IF walking = "list_1" THEN list_1 ELSE list_2

\* Types, and the bound on the messages.
TypeOK ==
  /\ accepted \in 0..MaxMessages
  /\ list_1 \in Seq(Nat) /\ list_2 \in Seq(Nat)
  /\ walking \in {"none", "list_1", "list_2"}
  /\ i \in Nat
  /\ handled \in Seq(Nat) /\ before \in Seq(Nat)
  /\ met \in Seq(Nat)
  /\ piled \in BOOLEAN

\* As long as no walk finds more than one message the lists are what they are
\* for: each message is handled once and in order, whichever list it came
\* through (tid_pid_list.c:206-247).
Channel == INSTANCE InOrder WITH accepted <- accepted, handled <- handled, exact <- ~piled

ImplementsInOrder == Channel!Spec

\* A walk over n messages handles the first half of them, rounded up; the rest
\* is thrown away unread, and the first half, rounded down, stays in the list to
\* be handled again (tid_pid_list.c:210, 238).
FirstHalfOnly ==
  walking # "none" =>
    LET n == Len(met)
    IN /\ handled = before \o SubSeq(met, 1, i)
       /\ Current = SubSeq(met, 1, n - i)
       /\ 2 * i <= n + 1
       /\ i >= Len(Current) => i = (n + 1) \div 2

\* What stays is handled and thrown away in the passes that follow: when no more
\* messages come the lists are empty in the end.
Drains == <>[](list_1 = <<>> /\ list_2 = <<>>)
==============================================================================
