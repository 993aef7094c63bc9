------------------------------- MODULE InOrder -------------------------------
(***************************************************************************)
(* What the two lists of a hand-off (Handoff, AprLists) are for: the       *)
(* listener numbers the messages 1, 2, 3, ... and the cleaner thread       *)
(* handles each of them exactly once, in that order - as long as the       *)
(* channel is `exact'.  Once it has degraded, all that is left is that     *)
(* what was handled stays handled.                                         *)
(***************************************************************************)
EXTENDS Naturals, Sequences

VARIABLES accepted,   \* how many messages the listener has accepted so far
          handled,    \* the messages handled, in order
          exact       \* nothing has happened yet that the lists cannot take

channel == <<accepted, handled, exact>>

Init == accepted = 0 /\ handled = <<>> /\ exact = TRUE

Accept == accepted' = accepted + 1 /\ UNCHANGED <<handled, exact>>

Handle == /\ exact /\ Len(handled) < accepted
          /\ handled' = Append(handled, Len(handled) + 1)
          /\ UNCHANGED <<accepted, exact>>

Degrade == exact' = FALSE /\ UNCHANGED <<accepted, handled>>

HandleAny == /\ ~exact
             /\ Len(handled') = Len(handled) + 1
             /\ \A k \in 1..Len(handled) : handled'[k] = handled[k]
             /\ UNCHANGED <<accepted, exact>>

Next == Accept \/ Handle \/ Degrade \/ HandleAny

Spec == Init /\ [][Next]_channel
==============================================================================
