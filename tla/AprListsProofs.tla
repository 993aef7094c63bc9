--------------------------- MODULE AprListsProofs ---------------------------
(***************************************************************************)
(* Theorems about AprLists, for any number of messages.                    *)
(***************************************************************************)
EXTENDS AprLists, Integers, TLAPS

-----------------------------------------------------------------------------
(* Sequences.                                                              *)

\* What is left after one turn more.
LEMMA Popped ==
  ASSUME NEW S, NEW s \in Seq(S), NEW n \in 0..(Len(s) - 1)
  PROVE  Pop(SubSeq(s, 1, Len(s) - n)) = SubSeq(s, 1, Len(s) - (n + 1))
BY DEF Pop

\* What has been handled after one turn more.
LEMMA OneMore ==
  ASSUME NEW S, NEW s \in Seq(S), NEW b \in Seq(S), NEW n \in 0..(Len(s) - 1)
  PROVE  Append(b \o SubSeq(s, 1, n), s[n + 1]) = b \o SubSeq(s, 1, n + 1)
OBVIOUS

-----------------------------------------------------------------------------
(* Types.                                                                  *)

Typed ==
  /\ accepted \in Nat /\ i \in Nat
  /\ list_1 \in Seq(Nat) /\ list_2 \in Seq(Nat)
  /\ handled \in Seq(Nat) /\ before \in Seq(Nat) /\ met \in Seq(Nat)
  /\ walking \in {"none", "list_1", "list_2"}

LEMMA TypedInitially == Init => Typed
BY DEF Init, Typed

LEMMA TypedStep == Typed /\ [Next]_vars => Typed'
<1> SUFFICES ASSUME Typed, [Next]_vars PROVE Typed'
  OBVIOUS
<1> USE DEF Typed
<1>1. CASE Push
  <2>1. Append(list_1, accepted + 1) \in Seq(Nat) /\ Append(list_2, accepted + 1) \in Seq(Nat)
    OBVIOUS
  <2>2. \/ list_1' = list_1 /\ list_2' = Append(list_2, accepted + 1)
        \/ list_2' = list_2 /\ list_1' = Append(list_1, accepted + 1)
    BY <1>1 DEF Push
  <2>3. list_1' \in Seq(Nat) /\ list_2' \in Seq(Nat)
    BY <2>1, <2>2
  <2>4. accepted' \in Nat /\ UNCHANGED <<walking, i, handled, met, before>>
    BY <1>1 DEF Push
  <2> QED
    BY <2>3, <2>4
<1>2. CASE Lock
  BY <1>2 DEF Lock, Walk
<1>3. CASE Handle1
  <2>1. list_1[i + 1] \in Nat /\ Pop(list_1) \in Seq(Nat)
    BY <1>3, SMTT(30) DEF Handle1, Pop
  <2> QED
    BY <1>3, <2>1 DEF Handle1, Handle
<1>4. CASE Unlock
  BY <1>4 DEF Unlock, Walk
<1>5. CASE Handle2
  <2>1. list_2[i + 1] \in Nat /\ Pop(list_2) \in Seq(Nat)
    BY <1>5, SMTT(30) DEF Handle2, Pop
  <2> QED
    BY <1>5, <2>1 DEF Handle2, Handle
<1>6. CASE EndOfPass
  BY <1>6 DEF EndOfPass
<1>7. CASE UNCHANGED vars
  BY <1>7 DEF vars
<1> QED
  BY <1>1, <1>2, <1>3, <1>4, <1>5, <1>6, <1>7 DEF Next, Cleaner

\* TypeOK adds the bound and the flag to that.
LEMMA BoundStep == Typed /\ TypeOK /\ [Next]_vars => TypeOK'
<1> SUFFICES ASSUME Typed, TypeOK, [Next]_vars PROVE TypeOK'
  OBVIOUS
<1>1. accepted' \in 0..MaxMessages
  BY AprAssumption
     DEF TypeOK, Next, Cleaner, Push, Lock, Handle1, Unlock, Handle2, EndOfPass, Walk, Handle, vars
<1>2. piled' \in BOOLEAN
  BY DEF TypeOK, Next, Cleaner, Push, Lock, Handle1, Unlock, Handle2, EndOfPass, Walk, Handle, vars
<1>3. Typed'
  BY TypedStep
<1> QED
  BY <1>1, <1>2, <1>3 DEF Typed, TypeOK

\* The variables stay in their types, and no more messages arrive than the bound
\* allows (tid_pid_list.c:134-156, 206-262).
THEOREM TypeCorrect == Spec => []TypeOK
<1>1. Init => TypeOK
  <2> SUFFICES ASSUME Init PROVE TypeOK
    OBVIOUS
  <2>1. accepted \in 0..MaxMessages
    BY AprAssumption DEF Init
  <2>2. piled \in BOOLEAN
    BY DEF Init
  <2> QED
    BY TypedInitially, <2>1, <2>2 DEF Typed, TypeOK
<1> QED
  BY <1>1, TypedInitially, TypedStep, BoundStep, PTL DEF Spec

-----------------------------------------------------------------------------
(* What a walk does.                                                       *)

\* A turn of the loop does to any list what FirstHalfOnly says.
LEMMA Turn ==
  ASSUME Typed, NEW list \in Seq(Nat), list = SubSeq(met, 1, Len(met) - i), 2 * i <= Len(met) + 1,
         handled = before \o SubSeq(met, 1, i), i < Len(list), Handle(list)
  PROVE  /\ handled' = before' \o SubSeq(met', 1, i')
         /\ Pop(list) = SubSeq(met', 1, Len(met') - i')
         /\ 2 * i' <= Len(met') + 1
         /\ i' >= Len(Pop(list)) => i' = (Len(met') + 1) \div 2
<1>1. i' = i + 1 /\ met' = met /\ before' = before /\ handled' = Append(handled, list[i + 1])
  BY DEF Handle
<1>2. i \in Nat /\ met \in Seq(Nat) /\ Len(met) \in Nat /\ before \in Seq(Nat)
  BY DEF Typed
<1>3. i <= Len(met)
  BY <1>2
<1>4. Len(list) = Len(met) - i
  BY <1>2, <1>3
<1>5. i \in 0..(Len(met) - 1) /\ 2 * (i + 1) <= Len(met) + 1
  BY <1>2, <1>4
<1>6. list[i + 1] = met[i + 1]
  BY <1>2, <1>4, <1>5
<1>7. handled' = before \o SubSeq(met, 1, i + 1)
  BY <1>1, <1>2, <1>5, <1>6, OneMore
<1>8. Pop(list) = SubSeq(met, 1, Len(met) - (i + 1))
  BY <1>2, <1>5, Popped
<1>9. Len(Pop(list)) = Len(met) - (i + 1)
  BY <1>2, <1>5, <1>8, SMTT(30)
<1>10. i + 1 >= Len(met) - (i + 1) => i + 1 = (Len(met) + 1) \div 2
  BY <1>2, <1>5, SMTT(30)
<1> QED
  BY <1>1, <1>5, <1>7, <1>8, <1>9, <1>10

\* A walk that begins.
LEMMA Begins ==
  ASSUME Typed, NEW name, NEW list \in Seq(Nat), Walk(name, list)
  PROVE  /\ handled' = before' \o SubSeq(met', 1, i')
         /\ list = SubSeq(met', 1, Len(met') - i')
         /\ 2 * i' <= Len(met') + 1
         /\ i' >= Len(list) => i' = (Len(met') + 1) \div 2
<1>1. i' = 0 /\ met' = list /\ before' = handled /\ handled' = handled
  BY DEF Walk
<1>2. handled = handled \o SubSeq(list, 1, 0) /\ list = SubSeq(list, 1, Len(list) - 0)
  BY DEF Typed
<1>3. 0 >= Len(list) => 0 = (Len(list) + 1) \div 2
  BY DEF Typed
<1> QED
  BY <1>1, <1>2, <1>3

LEMMA HalfStep == Typed /\ FirstHalfOnly /\ [Next]_vars => FirstHalfOnly'
<1> SUFFICES ASSUME Typed, FirstHalfOnly, [Next]_vars, walking' # "none"
             PROVE  /\ handled' = before' \o SubSeq(met', 1, i')
                    /\ Current' = SubSeq(met', 1, Len(met') - i')
                    /\ 2 * i' <= Len(met') + 1
                    /\ i' >= Len(Current') => i' = (Len(met') + 1) \div 2
  BY DEF FirstHalfOnly
<1>1. CASE Push
  BY <1>1 DEF Push, FirstHalfOnly, Current, Typed
<1>2. CASE Lock
  BY <1>2, Begins DEF Lock, Walk, Current, Typed
<1>3. CASE Handle1
  BY <1>3, Turn DEF Handle1, Handle, FirstHalfOnly, Current, Typed
<1>4. CASE Unlock
  BY <1>4, Begins DEF Unlock, Walk, Current, Typed
<1>5. CASE Handle2
  BY <1>5, Turn DEF Handle2, Handle, FirstHalfOnly, Current, Typed
<1>6. CASE EndOfPass
  BY <1>6 DEF EndOfPass
<1>7. CASE UNCHANGED vars
  BY <1>7 DEF vars, FirstHalfOnly, Current
<1> QED
  BY <1>1, <1>2, <1>3, <1>4, <1>5, <1>6, <1>7 DEF Next, Cleaner

\* However many messages a walk finds, it handles the first half and throws the
\* second away, and the first stays (tid_pid_list.c:206-240).
THEOREM HalfOfEach == Spec => []FirstHalfOnly
<1>1. Init => FirstHalfOnly
  BY DEF Init, FirstHalfOnly
<1> QED
  BY <1>1, TypedInitially, TypedStep, HalfStep, PTL DEF Spec

-----------------------------------------------------------------------------
(* The channel.                                                            *)

\* After h messages were handled the others up to n are numbered on, first those
\* of one list, then those of the other.
Numbered(h, first, second, n) ==
  /\ h + Len(first) + Len(second) = n
  /\ \A k \in 1..Len(first) : first[k] = h + k
  /\ \A k \in 1..Len(second) : second[k] = h + Len(first) + k

\* What a walk is in holds one message, before its only turn, or none.
Ordered ==
  /\ IF walking = "list_1" THEN Numbered(Len(handled), list_1, list_2, accepted)
                           ELSE Numbered(Len(handled), list_2, list_1, accepted)
  /\ walking = "none" => Len(list_2) = 0
  /\ walking # "none" => Len(Current) = 0 \/ (Len(Current) = 1 /\ i = 0)

ChannelInv == Typed /\ (~piled => Ordered)

\* A push numbers on.
LEMMA NumberedOn ==
  ASSUME NEW h \in Nat, NEW n \in Nat, NEW first \in Seq(Nat), NEW second \in Seq(Nat),
         Numbered(h, first, second, n)
  PROVE  Numbered(h, first, Append(second, n + 1), n + 1)
<1> DEFINE longer == Append(second, n + 1)
<1>1. Len(longer) = Len(second) + 1 /\ Len(second) \in Nat /\ Len(first) \in Nat
  OBVIOUS
<1>n. h + Len(first) + Len(second) = n
  BY DEF Numbered
<1>2. \A k \in 1..Len(second) : longer[k] = second[k]
  OBVIOUS
<1>3. longer[Len(second) + 1] = n + 1
  OBVIOUS
<1> HIDE DEF longer
<1>4. h + Len(first) + Len(longer) = n + 1
  BY <1>1, <1>n
<1>5. ASSUME NEW k \in 1..Len(longer)
      PROVE  longer[k] = h + Len(first) + k
  <2>1. CASE k = Len(second) + 1
    BY <1>1, <1>n, <1>3, <2>1, SMTT(30)
  <2>2. CASE k # Len(second) + 1
    <3>1. k \in 1..Len(second)
      BY <1>1, <1>5, <2>2
    <3> QED
      BY <1>2, <3>1 DEF Numbered
  <2> QED
    BY <2>1, <2>2
<1>6. Numbered(h, first, longer, n + 1)
  BY <1>4, <1>5 DEF Numbered
<1> QED
  BY <1>6 DEF longer

\* With one of the lists empty it does not matter which is first.
LEMMA NumberedTurned ==
  ASSUME NEW h \in Nat, NEW n \in Nat, NEW first \in Seq(Nat), NEW second \in Seq(Nat),
         Numbered(h, first, second, n), Len(first) = 0
  PROVE  Numbered(h, second, first, n)
<1>1. Len(second) \in Nat
  OBVIOUS
<1>2. h + Len(second) + Len(first) = n
  BY <1>1 DEF Numbered
<1>3. \A k \in 1..Len(second) : second[k] = h + k
  BY <1>1 DEF Numbered
<1>4. \A k \in 1..Len(first) : first[k] = h + Len(second) + k
  OBVIOUS
<1> QED
  BY <1>2, <1>3, <1>4 DEF Numbered

\* The only message of a list is handled.
LEMMA NumberedFrom ==
  ASSUME NEW h \in Nat, NEW n \in Nat, NEW first \in Seq(Nat), NEW second \in Seq(Nat),
         Numbered(h, first, second, n), Len(first) = 1
  PROVE  first[1] = h + 1 /\ Numbered(h + 1, <<>>, second, n)
<1>1. Len(second) \in Nat
  OBVIOUS
<1>2. first[1] = h + 1
  BY DEF Numbered
<1>3. (h + 1) + 0 + Len(second) = n
  BY <1>1 DEF Numbered
<1>4. \A k \in 1..Len(second) : second[k] = (h + 1) + 0 + k
  BY <1>1 DEF Numbered
<1>5. Len(<<>>) = 0
  OBVIOUS
<1>6. \A k \in 1..0 : <<>>[k] = (h + 1) + k
  OBVIOUS
<1> QED
  BY <1>2, <1>3, <1>4, <1>5, <1>6 DEF Numbered

\* A list of not more than one.
LEMMA OneOrNone ==
  ASSUME NEW s \in Seq(Nat), ~(Len(s) > 1)
  PROVE  Len(s) = 0 \/ Len(s) = 1
<1>1. Len(s) \in Nat
  OBVIOUS
<1>2. \A n \in Nat : ~(n > 1) => n = 0 \/ n = 1
  OBVIOUS
<1> QED
  BY <1>1, <1>2

LEMMA OrderedStep ==
  ASSUME Typed, ~piled => Ordered, [Next]_vars, ~piled'
  PROVE  Ordered'
<1>0. ~piled
  BY DEF Next, Cleaner, Push, Lock, Handle1, Unlock, Handle2, Handle, Walk, EndOfPass, vars
<1>t. /\ Len(handled) \in Nat /\ accepted \in Nat /\ list_1 \in Seq(Nat) /\ list_2 \in Seq(Nat)
      /\ Len(list_1) \in Nat /\ Len(list_2) \in Nat /\ handled \in Seq(Nat)
  BY DEF Typed
<1>w. walking \in {"none", "list_1", "list_2"} /\ i \in Nat
  BY DEF Typed
<1>o. Ordered
  BY <1>0
<1>1. CASE Push
  <2>1. accepted' = accepted + 1 /\ UNCHANGED <<walking, i, handled>>
    BY <1>1 DEF Push
  <2>2. CASE walking = "list_1"
    <3>1. list_1' = list_1 /\ list_2' = Append(list_2, accepted + 1)
      BY <1>1, <2>2 DEF Push
    <3>2. Numbered(Len(handled), list_1, Append(list_2, accepted + 1), accepted + 1)
      BY <1>t, <1>o, <2>2, NumberedOn DEF Ordered
    <3>3. Len(list_1) = 0 \/ (Len(list_1) = 1 /\ i = 0)
      BY <1>o, <2>2 DEF Ordered, Current
    <3> QED
      BY <2>1, <2>2, <3>1, <3>2, <3>3 DEF Ordered, Current
  <2>3. CASE walking # "list_1"
    <3>1. list_2' = list_2 /\ list_1' = Append(list_1, accepted + 1)
      BY <1>1, <2>3 DEF Push
    <3>2. Numbered(Len(handled), list_2, Append(list_1, accepted + 1), accepted + 1)
      BY <1>t, <1>o, <2>3, NumberedOn DEF Ordered
    <3>3. /\ walking = "none" => Len(list_2) = 0
          /\ walking # "none" => Len(list_2) = 0 \/ (Len(list_2) = 1 /\ i = 0)
      BY <1>o, <2>3 DEF Ordered, Current
    <3> QED
      BY <2>1, <2>3, <3>1, <3>2, <3>3 DEF Ordered, Current
  <2> QED
    BY <2>2, <2>3
<1>2. CASE Lock
  <2>1. /\ walking = "none" /\ walking' = "list_1" /\ i' = 0 /\ ~(Len(list_1) > 1)
        /\ UNCHANGED <<accepted, list_1, list_2, handled>>
    BY <1>2 DEF Lock, Walk
  <2>2. Numbered(Len(handled), list_1, list_2, accepted)
    BY <1>t, <1>o, <2>1, NumberedTurned DEF Ordered
  <2>3. Len(list_1) = 0 \/ Len(list_1) = 1
    BY <1>t, <2>1, OneOrNone
  <2> QED
    BY <2>1, <2>2, <2>3 DEF Ordered, Current
<1>3. CASE Handle1
  <2>1. walking = "list_1" /\ Len(list_1) = 1 /\ i = 0
    BY <1>t, <1>w, <1>o, <1>3 DEF Handle1, Ordered, Current
  <2>2. Numbered(Len(handled) + 1, <<>>, list_2, accepted)
    BY <1>t, <1>o, <2>1, NumberedFrom DEF Ordered
  <2>3. /\ list_1' = <<>> /\ list_2' = list_2 /\ accepted' = accepted /\ walking' = "list_1"
        /\ Len(handled') = Len(handled) + 1
    BY <1>t, <1>3, <2>1 DEF Handle1, Handle, Pop
  <2> QED
    BY <2>2, <2>3 DEF Ordered, Current
<1>4. CASE Unlock
  <2>1. /\ walking = "list_1" /\ walking' = "list_2" /\ i' = 0 /\ ~(Len(list_2) > 1)
        /\ i >= Len(list_1) /\ UNCHANGED <<accepted, list_1, list_2, handled>>
    BY <1>4 DEF Unlock, Walk
  <2>2. Len(list_1) = 0
    BY <1>t, <1>w, <1>o, <2>1 DEF Ordered, Current
  <2>3. Numbered(Len(handled), list_2, list_1, accepted)
    BY <1>t, <1>o, <2>1, <2>2, NumberedTurned DEF Ordered
  <2>4. Len(list_2) = 0 \/ Len(list_2) = 1
    BY <1>t, <2>1, OneOrNone
  <2> QED
    BY <2>1, <2>3, <2>4 DEF Ordered, Current
<1>5. CASE Handle2
  <2>1. walking = "list_2" /\ Len(list_2) = 1 /\ i = 0
    BY <1>t, <1>w, <1>o, <1>5 DEF Handle2, Ordered, Current
  <2>2. Numbered(Len(handled) + 1, <<>>, list_1, accepted)
    BY <1>t, <1>o, <2>1, NumberedFrom DEF Ordered
  <2>3. /\ list_2' = <<>> /\ list_1' = list_1 /\ accepted' = accepted /\ walking' = "list_2"
        /\ Len(handled') = Len(handled) + 1
    BY <1>t, <1>5, <2>1 DEF Handle2, Handle, Pop
  <2> QED
    BY <2>2, <2>3 DEF Ordered, Current
<1>6. CASE EndOfPass
  <2>1. /\ walking = "list_2" /\ walking' = "none" /\ i >= Len(list_2)
        /\ UNCHANGED <<accepted, list_1, list_2, handled>>
    BY <1>6 DEF EndOfPass
  <2>2. Len(list_2) = 0
    BY <1>t, <1>w, <1>o, <2>1 DEF Ordered, Current
  <2> QED
    BY <1>o, <2>1, <2>2 DEF Ordered, Current
<1>7. CASE UNCHANGED vars
  BY <1>o, <1>7 DEF vars, Ordered, Current
<1> QED
  BY <1>1, <1>2, <1>3, <1>4, <1>5, <1>6, <1>7 DEF Next, Cleaner

\* Every step is one of the channel, or is invisible to it.
LEMMA StepRefines ==
  ASSUME ChannelInv, [Next]_vars
  PROVE  [Channel!Next]_(Channel!channel)
<1> USE DEF Channel!Next, Channel!channel, Channel!Accept, Channel!Handle, Channel!HandleAny,
            Channel!Degrade
<1>1. CASE Push
  BY <1>1 DEF Push
<1>2. ASSUME NEW name, NEW list, Walk(name, list)
      PROVE  Channel!Degrade \/ UNCHANGED Channel!channel
  BY <1>2 DEF Walk
<1>3. CASE Lock
  BY <1>2, <1>3 DEF Lock
<1>4. CASE Unlock
  BY <1>2, <1>4 DEF Unlock
<1>5. ASSUME NEW list \in Seq(Nat), Handle(list), i < Len(list),
             ~piled => list[i + 1] = Len(handled) + 1 /\ Len(handled) < accepted
      PROVE  Channel!Next
  <2>1. handled' = Append(handled, list[i + 1]) /\ accepted' = accepted /\ piled' = piled
    BY <1>5 DEF Handle
  <2>2. handled \in Seq(Nat) /\ list[i + 1] \in Nat
    BY <1>5 DEF ChannelInv, Typed
  <2>3. CASE piled
    <3>1. Len(handled') = Len(handled) + 1 /\ \A k \in 1..Len(handled) : handled'[k] = handled[k]
      BY <2>1, <2>2
    <3> QED
      BY <2>1, <2>3, <3>1
  <2>4. CASE ~piled
    BY <1>5, <2>1, <2>4
  <2> QED
    BY <2>3, <2>4
<1>6. CASE Handle1
  <2>1. ~piled => list_1[i + 1] = Len(handled) + 1 /\ Len(handled) < accepted
    <3> SUFFICES ASSUME ~piled PROVE list_1[i + 1] = Len(handled) + 1 /\ Len(handled) < accepted
      OBVIOUS
    <3>1. Typed /\ Ordered /\ walking = "list_1" /\ i < Len(list_1)
      BY <1>6 DEF Handle1, ChannelInv
    <3>2. Numbered(Len(handled), list_1, list_2, accepted) /\ Len(list_1) = 1 /\ i = 0
      BY <3>1 DEF Ordered, Current, Typed
    <3> QED
      BY <3>1, <3>2 DEF Numbered, Typed
  <2> QED
    BY <1>5, <1>6, <2>1 DEF Handle1, ChannelInv, Typed
<1>7. CASE Handle2
  <2>1. ~piled => list_2[i + 1] = Len(handled) + 1 /\ Len(handled) < accepted
    <3> SUFFICES ASSUME ~piled PROVE list_2[i + 1] = Len(handled) + 1 /\ Len(handled) < accepted
      OBVIOUS
    <3>1. Typed /\ Ordered /\ walking = "list_2" /\ i < Len(list_2)
      BY <1>7 DEF Handle2, ChannelInv
    <3>2. Numbered(Len(handled), list_2, list_1, accepted) /\ Len(list_2) = 1 /\ i = 0
      BY <3>1 DEF Ordered, Current, Typed
    <3> QED
      BY <3>1, <3>2 DEF Numbered, Typed
  <2> QED
    BY <1>5, <1>7, <2>1 DEF Handle2, ChannelInv, Typed
<1>8. CASE EndOfPass
  BY <1>8 DEF EndOfPass
<1>9. CASE UNCHANGED vars
  BY <1>9 DEF vars
<1> QED
  BY <1>1, <1>3, <1>4, <1>6, <1>7, <1>8, <1>9 DEF Next, Cleaner

\* The lists implement the channel until a walk finds two messages in one.
THEOREM Refinement == Spec => ImplementsInOrder
<1>1. Init => Channel!Init
  BY DEF Init, Channel!Init
<1>2. Init => ChannelInv
  BY TypedInitially DEF Init, ChannelInv, Ordered, Numbered, Current
<1>3. ChannelInv /\ [Next]_vars => ChannelInv'
  BY TypedStep, OrderedStep DEF ChannelInv
<1> QED
  BY <1>1, <1>2, <1>3, StepRefines, PTL DEF Spec, ImplementsInOrder, Channel!Spec
=============================================================================
