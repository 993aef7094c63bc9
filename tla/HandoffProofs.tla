---------------------------- MODULE HandoffProofs ----------------------------
(***************************************************************************)
(* Proofs about the hand-off, for every number of messages and every       *)
(* initial allocation.  The inductive invariant has three parts:           *)
(*   Safe    types, how far the counts can have got, and who is inside     *)
(*           mutex_list_ut (enough for TypeOK and List1Exclusive),         *)
(*   Shape   where a busy push is that has not straddled an unlock,        *)
(*   Ordered which message each place holds while none has straddled.      *)
(* What is so of list_1_ut also when one has is OnceInv, at the end.       *)
(***************************************************************************)
EXTENDS Handoff, Integers, TLAPS

\* The count of list_2_ut never exceeds the messages accepted, and is one
\* less while a busy push has not stored it yet.
CountPending ==
  lpc \in {"reserve2", "load2"} \/ (lpc = "store2" /\ "count" \in stores)

Sizes ==
  /\ lpc # "idle" => sent >= 1
  /\ IF CountPending THEN n2 + 1 <= sent ELSE n2 <= sent
  /\ lpc = "store2" => idx + 1 <= sent

\* mutex_list_ut is held only for as long as its holder is inside.
Holder ==
  /\ mutex = "listener" => lpc \in {"push1", "unlock1"}
  /\ mutex = "cleaner" => cpc \in {"scan1", "unlock"}

\* Nothing but a straddling push is ever busy outside the critical section.
BusyInside == BusyPush => cpc \in {"scan1", "unlock"}

\* The register and the slot of a busy push that has not straddled.
Registers ==
  lpc = "store2" =>
    /\ stores # {}
    /\ idx = IF "count" \in stores THEN n2 ELSE n2 - 1
    /\ "copy" \notin stores => slot2[idx + 1] = sent

\* Elements of list_2_ut whose content is in place.
Settled == IF lpc = "store2" /\ "count" \notin stores THEN n2 - 1 ELSE n2

\* How many messages were handled before the list being walked was begun.
Base == Len(handled) - cur

\* The messages still to be handled are numbered on from the last one handled:
\* first the list being walked, then the other one, then the one in flight.
Cursor ==
  /\ cpc = "scan1" => cur <= Len(list1)
  /\ cpc = "scan2" => cur <= n2
  /\ cpc \in {"idle", "unlock", "clear2"} => cur = 0
  /\ cpc = "idle" => n2 = 0
  /\ cpc = "unlock" => list1 = <<>>
  /\ cur <= Len(handled)

\* How many of the waiting messages come before those of each list, how many
\* wait in list_2_ut, and how many are accepted but in no list yet.
Before1  == IF cpc = "scan2" THEN n2 ELSE 0
Before2  == IF cpc = "scan1" THEN Len(list1) ELSE 0
Unread2  == IF cpc = "clear2" THEN 0 ELSE n2
InFlight == IF lpc = "push1" \/ CountPending THEN 1 ELSE 0

Numbers1 == \A k \in 1..Len(list1) : list1[k] = Base + k + Before1

Numbers2 == cpc \in {"scan1", "unlock", "scan2"} =>
              \A k \in 1..Settled : slot2[k] = Base + k + Before2

Total == sent = Base + Len(list1) + Unread2 + InFlight

Shape   == BusyInside /\ Registers /\ Cursor
Ordered == Numbers1 /\ Numbers2 /\ Total

InOrderInv ==
  ~straddled => Shape /\ Ordered /\ InOrderUnlessStraddled

-----------------------------------------------------------------------------
(* Types, sizes and mutual exclusion.                                      *)

Safe == TypeOK /\ Sizes /\ List1Exclusive /\ Holder

\* The state the code starts in is well typed and at rest.
LEMMA InitSafe == Init => Safe
<1> SUFFICES ASSUME Init PROVE Safe
  OBVIOUS
<1>1. TypeOK
  <2>1. list1 \in Seq(Msgs) /\ handled \in Seq(Msgs \cup {Junk})
    BY DEF Init
  <2>2. slot2 \in [Slots -> Msgs \cup {Junk}]
    BY DEF Init
  <2>3. sent \in 0..MaxMsgs /\ idx \in 0..MaxMsgs /\ n2 \in 0..(MaxMsgs + 1)
    BY HandoffAssumption DEF Init
  <2>4. stores \in SUBSET {"count", "copy"} /\ via1 \in SUBSET Msgs
    BY DEF Init
  <2>5. /\ mutex \in {"free", "listener", "cleaner"} /\ straddled \in BOOLEAN
        /\ lpc \in {"idle", "push1", "unlock1", "reserve2", "load2", "store2"}
        /\ cpc \in {"idle", "scan1", "unlock", "scan2", "clear2"}
        /\ cap2 \in Nat /\ cur \in Nat
    BY DEF Init
  <2>6. QED
    BY <2>1, <2>2, <2>3, <2>4, <2>5 DEF TypeOK
<1>2. Sizes /\ List1Exclusive /\ Holder
  BY DEF Init, Sizes, CountPending, List1Exclusive, Holder
<1>3. QED
  BY <1>1, <1>2 DEF Safe

\* Every step of the listener and of the cleaner keeps the types, the bound on
\* the count of list_2_ut, and the exclusive use of list_1_ut.
LEMMA NextSafe == Safe /\ [Next]_vars => Safe'
<1> SUFFICES ASSUME Safe, [Next]_vars PROVE Safe'
  OBVIOUS
<1> USE HandoffAssumption DEF Safe, TypeOK, Sizes, CountPending, List1Exclusive, Holder,
                              Msgs, Slots, listenerVars, cleanerVars
<1>1. CASE Trylock
  BY <1>1 DEF Trylock
<1>2. CASE Push1
  BY <1>2 DEF Push1
<1>3. CASE Unlock1
  BY <1>3 DEF Unlock1
<1>4. CASE Reserve2
  BY <1>4 DEF Reserve2
<1>5. CASE Load2
  BY <1>5 DEF Load2
<1>6. CASE Lock
  BY <1>6 DEF Lock
<1>7. CASE Handle1
  BY <1>7, SMTT(30) DEF Handle1
<1>8. CASE Clear1
  BY <1>8 DEF Clear1
<1>9. CASE Unlock
  BY <1>9 DEF Unlock, BusyPush
<1>10. CASE Handle2
  BY <1>10 DEF Handle2
<1>11. CASE End2
  BY <1>11 DEF End2
<1>12. CASE Clear2
  BY <1>12 DEF Clear2
<1>13. ASSUME NEW s \in {"count", "copy"}, Store2(s) PROVE Safe'
  <2>1. CASE s = "count"
    <3>1. /\ n2' = idx + 1 /\ n2' <= sent' /\ sent' = sent
          /\ "count" \notin stores' /\ slot2' = slot2 /\ lpc = "store2"
      BY <1>13, <2>1 DEF Store2
    <3>2. TypeOK'
      BY <1>13, <2>1, <3>1 DEF Store2
    <3>3. QED
      BY <1>13, <2>1, <3>1, <3>2 DEF Store2
  <2>2. CASE s = "copy"
    <3>1. /\ n2' = n2 /\ idx + 1 \in Slots /\ sent \in Msgs /\ lpc = "store2"
          /\ slot2' = [slot2 EXCEPT ![idx + 1] = sent]
          /\ stores' = stores \ {"copy"}
      BY <1>13, <2>2 DEF Store2
    <3>2. slot2' \in [Slots -> Msgs \cup {Junk}]
      BY <3>1
    <3>3. TypeOK'
      BY <1>13, <2>2, <3>1, <3>2 DEF Store2
    <3>4. Sizes'
      <4>1. lpc' \in {"idle", "store2"} /\ sent' = sent /\ idx' = idx
        BY <1>13 DEF Store2
      <4>2. CASE "count" \in stores
        BY <1>13, <3>1, <4>1, <4>2 DEF Store2
      <4>3. CASE "count" \notin stores
        BY <1>13, <3>1, <4>1, <4>3 DEF Store2
      <4>4. QED
        BY <4>2, <4>3
    <3>5. List1Exclusive' /\ Holder'
      BY <1>13 DEF Store2
    <3>6. QED
      BY <3>3, <3>4, <3>5
  <2>3. QED
    BY <2>1, <2>2, <1>13
<1>14. CASE UNCHANGED vars
  BY <1>14 DEF vars
<1> QED
  BY <1>1, <1>2, <1>3, <1>4, <1>5, <1>6, <1>7, <1>8, <1>9, <1>10, <1>11, <1>12, <1>13, <1>14 DEF Next, Listener, Cleaner

\* Type correctness of the hand-off.
THEOREM TypeCorrect == Spec => []TypeOK
<1>1. Safe => TypeOK
  BY DEF Safe
<1>2. QED
  BY InitSafe, NextSafe, <1>1, PTL DEF Spec

\* The listener and the cleaner are never inside list_1_ut at the same time:
\* each is there only as the holder of mutex_list_ut.
THEOREM Exclusion == Spec => []List1Exclusive
<1>1. Safe => List1Exclusive
  BY DEF Safe
<1>2. QED
  BY InitSafe, NextSafe, <1>1, PTL DEF Spec

-----------------------------------------------------------------------------
(* The order in which messages are handled.                                *)

\* Nothing has been accepted and nothing straddles at the start.
LEMMA InitInOrder == Init => InOrderInv
BY DEF Init, InOrderInv, Shape, BusyInside, BusyPush, Registers, Cursor, Ordered,
       Numbers1, Numbers2, Total, Base, Settled, Before1, Before2, Unread2, InFlight,
       CountPending, InOrderUnlessStraddled

\* A step never clears `straddled'.
LEMMA StraddledStays == Safe /\ [Next]_vars /\ ~straddled' => ~straddled
BY DEF Safe, TypeOK, Next, Listener, Cleaner, Trylock, Push1, Unlock1, Reserve2,
       Load2, Store2, Lock, Handle1, Clear1, Unlock, Handle2, End2, Clear2, vars,
       cleanerVars

\* Where the two threads are with respect to each other and to the counts.
LEMMA NextShape == Safe /\ Shape /\ [Next]_vars /\ ~straddled' => Shape'
<1> SUFFICES ASSUME Safe, Shape, [Next]_vars, ~straddled' PROVE Shape'
  OBVIOUS
<1> USE HandoffAssumption DEF Safe, TypeOK, Sizes, CountPending, List1Exclusive, Holder,
        Shape, BusyInside, BusyPush, Registers, Cursor, Slots, Msgs,
        listenerVars, cleanerVars
<1>1. CASE Trylock
  BY <1>1 DEF Trylock
<1>2. CASE Push1
  BY <1>2 DEF Push1
<1>3. CASE Unlock1
  BY <1>3 DEF Unlock1
<1>4. CASE Reserve2
  BY <1>4 DEF Reserve2
<1>5. CASE Load2
  BY <1>5 DEF Load2
<1>6. CASE Lock
  BY <1>6 DEF Lock
<1>7. CASE Handle1
  BY <1>7 DEF Handle1
<1>8. CASE Clear1
  BY <1>8 DEF Clear1
<1>9. CASE Unlock
  <2>1. ~BusyPush
    <3> HIDE DEF BusyPush
    <3> QED
      BY <1>9, Zenon DEF Unlock
  <2>2. QED
    BY <1>9, <2>1 DEF Unlock
<1>10. CASE Handle2
  BY <1>10 DEF Handle2
<1>11. CASE End2
  BY <1>11 DEF End2
<1>12. CASE Clear2
  BY <1>12 DEF Clear2
<1>13. ASSUME NEW s \in {"count", "copy"}, Store2(s) PROVE Shape'
  <2>1. CASE s = "count"
    BY <1>13, <2>1 DEF Store2
  <2>2. CASE s = "copy"
    BY <1>13, <2>2 DEF Store2
  <2>3. QED
    BY <1>13, <2>1, <2>2
<1>14. CASE UNCHANGED vars
  BY <1>14 DEF vars
<1> QED
  BY <1>1, <1>2, <1>3, <1>4, <1>5, <1>6, <1>7, <1>8, <1>9, <1>10, <1>11, <1>12, <1>13, <1>14
     DEF Next, Listener, Cleaner

\* Appending to a sequence: the length, the new element and the old ones.
LEMMA Appended ==
  ASSUME NEW S, NEW q \in Seq(S), NEW e \in S
  PROVE  /\ Len(Append(q, e)) = Len(q) + 1
         /\ Append(q, e)[Len(q) + 1] = e
         /\ \A k \in 1..Len(q) : Append(q, e)[k] = q[k]
OBVIOUS

\* The numbering of the waiting messages, action by action: which of the six
\* quantities it is stated with an action changes, and then the arithmetic.
LEMMA NextOrdered ==
  Safe /\ Shape /\ Shape' /\ Ordered /\ InOrderUnlessStraddled /\ [Next]_vars /\ ~straddled'
     => Ordered' /\ InOrderUnlessStraddled'
<1> SUFFICES ASSUME Safe, Shape, Shape', Ordered, InOrderUnlessStraddled, [Next]_vars,
                    ~straddled'
             PROVE  Ordered' /\ InOrderUnlessStraddled'
  OBVIOUS
<1>n. ~straddled
  BY StraddledStays
<1>q. list1 \in Seq(Msgs) /\ handled \in Seq(Msgs \cup {Junk}) /\ sent \in Nat
  BY HandoffAssumption DEF Safe, TypeOK
<1>t. /\ Len(list1) \in Nat /\ Len(handled) \in Nat /\ n2 \in Nat /\ cur \in Nat
      /\ Base \in Int /\ Before1 \in Nat /\ Before2 \in Nat /\ Unread2 \in Nat
      /\ InFlight \in Nat /\ Settled \in Int
  BY HandoffAssumption, <1>q DEF Safe, TypeOK, Base, Before1, Before2, Unread2, InFlight, Settled
<1>o. \A k \in 1..Len(handled) : handled[k] = k
  BY <1>n DEF InOrderUnlessStraddled
<1> DEFINE Moves(b, b1, b2, u, f) ==
              /\ Base' = b /\ Before1' = b1 /\ Before2' = b2 /\ Unread2' = u /\ InFlight' = f
<1>1. CASE Trylock
  <2>1. /\ Moves(Base, Before1, Before2, Unread2, InFlight + 1) /\ Settled' = Settled
        /\ sent' = sent + 1
    <3>1. CASE mutex = "free"
      BY <1>1, <3>1 DEF Trylock, Base, Before1, Before2, Unread2, InFlight, Settled,
                        CountPending, cleanerVars
    <3>2. CASE mutex # "free"
      BY <1>1, <3>2 DEF Trylock, Base, Before1, Before2, Unread2, InFlight, Settled,
                        CountPending, cleanerVars
    <3>3. QED
      BY <3>1, <3>2
  <2>2. UNCHANGED <<list1, slot2, cpc, handled>>
    BY <1>1 DEF Trylock, cleanerVars
  <2>3. QED
    BY <2>1, <2>2, <1>t, <1>q, <1>o DEF Ordered, Numbers1, Numbers2, Total,
                                        InOrderUnlessStraddled
<1>2. CASE Push1
  <2>1. cpc \in {"idle", "scan2", "clear2"} /\ ~CountPending
    BY <1>2 DEF Push1, Safe, TypeOK, List1Exclusive, CountPending
  <2>2. cpc = "idle" => n2 = 0
    BY DEF Shape, Cursor
  <2>3. /\ Moves(Base, Before1, Before2, Unread2, InFlight - 1) /\ Settled' = Settled
        /\ InFlight = 1 /\ Unread2 = Before1
    BY <1>2, <2>1, <2>2 DEF Push1, Base, Before1, Before2, Unread2, InFlight, Settled,
                            CountPending, cleanerVars
  <2>4. UNCHANGED <<sent, slot2, cpc, handled>> /\ list1' = Append(list1, sent) /\ sent \in Msgs
    BY <1>2 DEF Push1, cleanerVars, Safe, TypeOK, Sizes, Msgs
  <2>5. /\ Len(list1') = Len(list1) + 1 /\ list1'[Len(list1) + 1] = sent
        /\ \A k \in 1..Len(list1) : list1'[k] = list1[k]
    BY <2>4, <1>q, Appended
  <2>6. sent = Base + Len(list1) + 1 + Before1
    BY <2>3, <1>t DEF Ordered, Total
  <2>7. Numbers1'
    <3>1. SUFFICES ASSUME NEW k \in 1..(Len(list1) + 1)
                   PROVE  list1'[k] = Base + k + Before1
      BY <2>3, <2>5 DEF Numbers1
    <3>2. CASE k = Len(list1) + 1
      BY <2>5, <2>6, <1>t, <3>2
    <3>3. CASE k # Len(list1) + 1
      BY <2>5, <3>3, <1>t DEF Ordered, Numbers1
    <3>4. QED
      BY <3>2, <3>3
  <2>8. Numbers2' /\ Total' /\ InOrderUnlessStraddled'
    BY <2>1, <2>3, <2>4, <2>5, <1>t, <1>o DEF Ordered, Numbers2, Total, InOrderUnlessStraddled
  <2>9. QED
    BY <2>7, <2>8 DEF Ordered
<1>3. CASE Unlock1
  <2>1. Moves(Base, Before1, Before2, Unread2, InFlight) /\ Settled' = Settled
    BY <1>3, <1>t DEF Unlock1, Base, Before1, Before2, Unread2, InFlight, Settled,
             CountPending,
             listenerVars, cleanerVars
  <2>2. UNCHANGED <<sent, list1, slot2, cpc, handled>>
    BY <1>3 DEF Unlock1, listenerVars, cleanerVars
  <2>3. QED
    BY <2>1, <2>2, <1>t, <1>q, <1>o DEF Ordered, Numbers1, Numbers2, Total,
                                        InOrderUnlessStraddled
<1>4. CASE Reserve2
  <2>1. cpc \in {"scan1", "unlock"} /\ UNCHANGED cur
    BY <1>4 DEF Reserve2, Shape, BusyInside, BusyPush
  <2>2. Moves(Base, Before1, Before2, Unread2, InFlight) /\ Settled' = Settled
    BY <1>4, <2>1 DEF Reserve2, Base, Before1, Before2, Unread2, InFlight, Settled, CountPending
  <2>3. UNCHANGED <<sent, list1, slot2, cpc, handled>>
    BY <1>4 DEF Reserve2
  <2>4. QED
    BY <2>2, <2>3, <1>t, <1>q, <1>o DEF Ordered, Numbers1, Numbers2, Total,
                                        InOrderUnlessStraddled
<1>5. CASE Load2
  <2>1. Moves(Base, Before1, Before2, Unread2, InFlight) /\ Settled' = Settled
    BY <1>5, <1>t DEF Load2, Base, Before1, Before2, Unread2, InFlight, Settled,
             CountPending,
             listenerVars, cleanerVars
  <2>2. UNCHANGED <<sent, list1, slot2, cpc, handled>>
    BY <1>5 DEF Load2, listenerVars, cleanerVars
  <2>3. QED
    BY <2>1, <2>2, <1>t, <1>q, <1>o DEF Ordered, Numbers1, Numbers2, Total,
                                        InOrderUnlessStraddled
<1>6. CASE Lock
  <2>1. cpc = "idle" /\ n2 = 0 /\ cpc' = "scan1" /\ lpc # "store2"
    BY <1>6 DEF Lock, Shape, Cursor, BusyInside, BusyPush
  <2>2. Moves(Base, Before1, Len(list1), Unread2, InFlight) /\ Settled' = 0
    BY <1>6, <2>1 DEF Lock, Base, Before1, Before2, Unread2, InFlight, Settled,
                      CountPending, listenerVars
  <2>3. UNCHANGED <<sent, list1, slot2, handled>>
    BY <1>6 DEF Lock, listenerVars
  <2>4. QED
    BY <2>2, <2>3, <1>t, <1>q, <1>o DEF Ordered, Numbers1, Numbers2, Total,
                                        InOrderUnlessStraddled
<1>7. CASE Handle1
  <2>1. /\ cpc = "scan1" /\ cur + 1 \in 1..Len(list1) /\ Base = Len(handled) - cur
        /\ handled' = Append(handled, list1[cur + 1]) /\ cur' = cur + 1
    BY <1>7, <1>t DEF Handle1, Base
  <2>2. list1[cur + 1] = Len(handled) + 1
    BY <2>1, <1>t DEF Ordered, Numbers1, Before1
  <2>3. /\ Len(handled') = Len(handled) + 1 /\ handled'[Len(handled) + 1] = Len(handled) + 1
        /\ \A k \in 1..Len(handled) : handled'[k] = handled[k]
    BY <2>1, <2>2, <1>q, Appended
  <2>4. Moves(Base, Before1, Before2, Unread2, InFlight) /\ Settled' = Settled
    BY <1>7, <2>1, <2>3, <1>t DEF Handle1, Base, Before1, Before2, Unread2, InFlight, Settled,
                                  CountPending, listenerVars
  <2>5. UNCHANGED <<sent, list1, slot2, cpc>>
    BY <1>7 DEF Handle1, listenerVars
  <2>6. QED
    BY <2>3, <2>4, <2>5, <1>t, <1>o DEF Ordered, Numbers1, Numbers2, Total, InOrderUnlessStraddled
<1>8. CASE Clear1
  <2>1. /\ cpc = "scan1" /\ cpc' = "unlock" /\ cur = Len(list1) /\ cur' = 0 /\ list1' = <<>>
    BY <1>8, <1>t DEF Clear1, Shape, Cursor
  <2>2. /\ Moves(Base + Len(list1), Before1, 0, Unread2, InFlight) /\ Settled' = Settled
        /\ Before2 = Len(list1) /\ Len(list1') = 0
    BY <1>8, <2>1, <1>t DEF Clear1, Base, Before1, Before2, Unread2, InFlight, Settled,
                            CountPending, listenerVars
  <2>3. UNCHANGED <<sent, slot2, handled>>
    BY <1>8 DEF Clear1, listenerVars
  <2>4. QED
    BY <2>1, <2>2, <2>3, <1>t, <1>o DEF Ordered, Numbers1, Numbers2, Total, InOrderUnlessStraddled
<1>9. CASE Unlock
  <2>1. cpc = "unlock" /\ cpc' = "scan2" /\ list1 = <<>> /\ cur = 0
    BY <1>9 DEF Unlock, Shape, Cursor
  <2>2. Moves(Base, n2, Before2, Unread2, InFlight) /\ Settled' = Settled /\ Len(list1) = 0
    BY <1>9, <2>1, <1>t DEF Unlock, Base, Before1, Before2, Unread2, InFlight, Settled,
                            CountPending, listenerVars
  <2>3. UNCHANGED <<sent, list1, slot2, handled>>
    BY <1>9 DEF Unlock, listenerVars
  <2>4. QED
    BY <2>1, <2>2, <2>3, <1>t, <1>o DEF Ordered, Numbers1, Numbers2, Total, InOrderUnlessStraddled
<1>10. CASE Handle2
  <2>1. /\ cpc = "scan2" /\ cur + 1 \in 1..n2 /\ Base = Len(handled) - cur
        /\ handled' = Append(handled, slot2[cur + 1]) /\ cur' = cur + 1
    BY <1>10, <1>t DEF Handle2, Base
  <2>2. Settled = n2 /\ n2 \in Slots
    BY <2>1 DEF Settled, Shape, BusyInside, BusyPush, Safe, TypeOK, Slots
  <2>3. slot2[cur + 1] = Len(handled) + 1
    BY <2>1, <2>2, <1>t DEF Ordered, Numbers2, Before2
  <2>4. slot2[cur + 1] \in Msgs \cup {Junk}
    BY <2>1, <2>2, HandoffAssumption DEF Safe, TypeOK, Slots
  <2>5. /\ Len(handled') = Len(handled) + 1 /\ handled'[Len(handled) + 1] = Len(handled) + 1
        /\ \A k \in 1..Len(handled) : handled'[k] = handled[k]
    BY <2>1, <2>3, <2>4, <1>q, Appended
  <2>6. Moves(Base, Before1, Before2, Unread2, InFlight) /\ Settled' = Settled
    BY <1>10, <2>1, <2>5, <1>t DEF Handle2, Base, Before1, Before2, Unread2, InFlight, Settled,
                                   CountPending, listenerVars
  <2>7. UNCHANGED <<sent, list1, slot2, cpc>>
    BY <1>10 DEF Handle2, listenerVars
  <2>8. QED
    BY <2>5, <2>6, <2>7, <1>t, <1>o DEF Ordered, Numbers1, Numbers2, Total, InOrderUnlessStraddled
<1>11. CASE End2
  <2>1. cpc = "scan2" /\ cpc' = "clear2" /\ cur = n2 /\ cur' = 0
    BY <1>11, <1>t DEF End2, Shape, Cursor
  <2>2. /\ Moves(Base + n2, 0, Before2, 0, InFlight) /\ Before1 = n2 /\ Unread2 = n2
    BY <1>11, <2>1, <1>t DEF End2, Base, Before1, Before2, Unread2, InFlight,
                             CountPending, listenerVars
  <2>3. UNCHANGED <<sent, list1, slot2, handled>>
    BY <1>11 DEF End2, listenerVars
  <2>4. QED
    BY <2>1, <2>2, <2>3, <1>t, <1>o DEF Ordered, Numbers1, Numbers2, Total, InOrderUnlessStraddled
<1>12. CASE Clear2
  <2>1. cpc = "clear2" /\ cpc' = "idle" /\ n2' = 0
    BY <1>12 DEF Clear2
  <2>2. Moves(Base, Before1, Before2, Unread2, InFlight)
    BY <1>12, <2>1, <1>t DEF Clear2, Base, Before1, Before2, Unread2, InFlight,
                             CountPending, listenerVars
  <2>3. UNCHANGED <<sent, list1, slot2, handled>>
    BY <1>12 DEF Clear2, listenerVars
  <2>4. QED
    BY <2>1, <2>2, <2>3, <1>t, <1>o DEF Ordered, Numbers1, Numbers2, Total, InOrderUnlessStraddled
<1>13. ASSUME NEW s \in {"count", "copy"}, Store2(s)
       PROVE  Ordered' /\ InOrderUnlessStraddled'
  <2>1. /\ lpc = "store2" /\ lpc' = (IF stores' = {} THEN "idle" ELSE "store2")
        /\ stores' = stores \ {s} /\ s \in stores /\ UNCHANGED <<sent, list1, cpc, cur, handled>>
    BY <1>13 DEF Store2, cleanerVars
  <2>2. /\ cpc \in {"scan1", "unlock"} /\ Before1 = 0 /\ Unread2 = n2
        /\ idx = IF "count" \in stores THEN n2 ELSE n2 - 1
        /\ "copy" \notin stores => slot2[idx + 1] = sent
    BY <2>1 DEF Shape, BusyInside, BusyPush, Registers, Before1, Unread2
  <2>3. /\ Base' = Base /\ Before1' = Before1 /\ Before2' = Before2
    BY <2>1, <2>2 DEF Base, Before1, Before2
  <2>4. idx \in Nat /\ idx + 1 \in Slots /\ stores \subseteq {"count", "copy"}
    BY <2>1, HandoffAssumption DEF Safe, TypeOK, Sizes, Slots
  <2>5. sent = Base + Len(list1) + n2 + (IF "count" \in stores THEN 1 ELSE 0)
    BY <2>1, <2>2 DEF Ordered, Total, InFlight, CountPending
  <2>6. Before2 = Len(list1)
    <3>1. CASE cpc = "scan1"
      BY <3>1 DEF Before2
    <3>2. CASE cpc = "unlock"
      <4>1. list1 = <<>>
        BY <3>2 DEF Shape, Cursor
      <4>2. QED
        BY <3>2, <4>1 DEF Before2
    <3>3. QED
      BY <2>2, <3>1, <3>2
  <2>7. CASE s = "count"
    <3>1. n2' = n2 + 1 /\ slot2' = slot2 /\ "count" \in stores /\ "count" \notin stores'
      BY <1>13, <2>1, <2>2, <2>7 DEF Store2
    <3>2. Unread2' = n2 + 1 /\ InFlight' = 0 /\ InFlight = 1
      BY <2>1, <2>2, <3>1 DEF Unread2, InFlight, CountPending
    <3>3. \A k \in 1..Settled' : slot2[k] = Base + k + Before2
      <4>1. Settled = n2
        BY <3>1 DEF Settled
      <4>2. CASE "copy" \in stores
        <5>1. Settled' = n2
          BY <2>1, <2>7, <3>1, <4>2, <1>t DEF Settled
        <5>2. QED
          BY <2>2, <4>1, <5>1 DEF Ordered, Numbers2
      <4>3. CASE "copy" \notin stores
        <5>1. Settled' = n2 + 1
          BY <2>1, <2>4, <2>7, <3>1, <4>3 DEF Settled
        <5>2. slot2[n2 + 1] = Base + (n2 + 1) + Before2
          <6>1. slot2[n2 + 1] = sent
            BY <2>2, <3>1, <4>3
          <6>2. QED
            BY <2>5, <2>6, <3>1, <6>1, <1>t
        <5>3. QED
          BY <2>2, <4>1, <5>1, <5>2, <1>t DEF Ordered, Numbers2
      <4>4. QED
        BY <4>2, <4>3
    <3>4. QED
      BY <2>1, <2>3, <2>5, <3>1, <3>2, <3>3, <1>t, <1>o
         DEF Ordered, Numbers1, Numbers2, Total, InOrderUnlessStraddled
  <2>8. CASE s = "copy"
    <3>1. n2' = n2 /\ slot2' = [slot2 EXCEPT ![idx + 1] = sent] /\ "copy" \in stores
          /\ "copy" \notin stores'
      BY <1>13, <2>1, <2>8 DEF Store2
    <3>2. /\ slot2'[idx + 1] = sent
          /\ \A k \in Slots : k # idx + 1 => slot2'[k] = slot2[k]
      BY <3>1, <2>4 DEF Safe, TypeOK
    <3>3. /\ Unread2' = Unread2 /\ InFlight' = InFlight /\ Settled' = n2 /\ n2 \in Slots \cup {0}
      <4>1. CASE "count" \in stores
        BY <2>1, <2>2, <2>8, <3>1, <4>1, <1>t, HandoffAssumption
           DEF Unread2, InFlight, CountPending, Settled, Safe, TypeOK, Slots
      <4>2. CASE "count" \notin stores
        BY <2>1, <2>2, <2>8, <3>1, <4>2, <1>t, HandoffAssumption
           DEF Unread2, InFlight, CountPending, Settled, Safe, TypeOK, Slots
      <4>3. QED
        BY <4>1, <4>2
    <3>4. \A k \in 1..n2 : slot2'[k] = Base + k + Before2
      <4>1. CASE "count" \in stores
        <5>1. Settled = n2 /\ idx = n2
          BY <2>2, <4>1 DEF Settled
        <5>2. \A k \in 1..n2 : slot2'[k] = slot2[k]
          BY <3>2, <5>1, HandoffAssumption, <1>t DEF Safe, TypeOK, Slots
        <5>3. QED
          BY <2>2, <5>1, <5>2 DEF Ordered, Numbers2
      <4>2. CASE "count" \notin stores
        <5>1. Settled = n2 - 1 /\ idx = n2 - 1
          BY <2>1, <2>2, <4>2 DEF Settled
        <5>2. sent = Base + n2 + Before2
          BY <2>5, <2>6, <4>2, <1>t
        <5>3. \A k \in 1..(n2 - 1) : slot2'[k] = slot2[k]
          BY <3>2, <5>1, HandoffAssumption, <1>t DEF Safe, TypeOK, Slots
        <5>4. slot2'[n2] = Base + n2 + Before2
          BY <3>2, <5>1, <5>2, <1>t
        <5>5. QED
          BY <2>2, <5>1, <5>3, <5>4, <1>t DEF Ordered, Numbers2
      <4>3. QED
        BY <4>1, <4>2
    <3>5. QED
      BY <2>1, <2>3, <3>3, <3>4, <1>t, <1>o
         DEF Ordered, Numbers1, Numbers2, Total, InOrderUnlessStraddled
  <2>9. QED
    BY <1>13, <2>7, <2>8
<1>14. CASE UNCHANGED vars
  BY <1>14 DEF vars, Ordered, Numbers1, Numbers2, Total, Base, Before1, Before2, Unread2,
               InFlight, Settled, CountPending, InOrderUnlessStraddled
<1> QED
  BY <1>1, <1>2, <1>3, <1>4, <1>5, <1>6, <1>7, <1>8, <1>9, <1>10, <1>11, <1>12, <1>13, <1>14
     DEF Next, Listener, Cleaner

\* The messages are handled once each and in the order in which they were
\* accepted, unless a busy push outlives the cleaner's critical section.
LEMMA NextInOrder == Safe /\ InOrderInv /\ [Next]_vars => InOrderInv'
BY NextSafe, StraddledStays, NextShape, NextOrdered DEF InOrderInv

\* While no busy push has straddled an unlock, message k is the k-th handled.
THEOREM InOrderHandling == Spec => []InOrderUnlessStraddled
<1>1. Safe /\ InOrderInv => InOrderUnlessStraddled
  BY DEF InOrderInv, InOrderUnlessStraddled
<1>2. QED
  BY InitSafe, NextSafe, InitInOrder, NextInOrder, <1>1, PTL DEF Spec

-----------------------------------------------------------------------------
(* Refinement: the hand-off is the channel that is in order until a busy   *)
(* push outlives a critical section.                                       *)

\* Trylock accepts, Handle1 and Handle2 handle, Unlock may degrade the channel,
\* every other step stutters.
LEMMA StepRefines == Safe /\ InOrderInv /\ [Next]_vars => [Channel!Next]_(Channel!channel)
<1> SUFFICES ASSUME Safe, InOrderInv, [Next]_vars
             PROVE  [Channel!Next]_(Channel!channel)
  OBVIOUS
<1> USE DEF Channel!Next, Channel!channel, Channel!Accept, Channel!Handle, Channel!Degrade,
            Channel!HandleAny
<1>1. straddled \in BOOLEAN /\ (~straddled => Shape /\ Ordered)
  BY DEF InOrderInv, Safe, TypeOK
<1>2. /\ list1 \in Seq(Msgs) /\ handled \in Seq(Msgs \cup {Junk}) /\ cur \in Nat /\ n2 \in Nat
      /\ Len(list1) \in Nat /\ Len(handled) \in Nat /\ sent \in Nat
  BY HandoffAssumption DEF Safe, TypeOK
<1>3. CASE Trylock
  BY <1>3 DEF Trylock, cleanerVars
<1>4. CASE Handle1
  <2>1. /\ cpc = "scan1" /\ cur < Len(list1) /\ handled' = Append(handled, list1[cur + 1])
        /\ UNCHANGED <<sent, straddled>> /\ list1[cur + 1] \in Msgs \cup {Junk}
    BY <1>2, <1>4 DEF Handle1, listenerVars
  <2>2. CASE straddled
    <3>1. /\ Len(handled') = Len(handled) + 1
          /\ \A k \in 1..Len(handled) : handled'[k] = handled[k]
      BY <1>2, <2>1, Appended
    <3>2. QED
      BY <2>1, <2>2, <3>1
  <2>3. CASE ~straddled
    <3>1. list1[cur + 1] = Len(handled) + 1
      BY <1>1, <1>2, <2>1, <2>3 DEF Ordered, Numbers1, Before1, Base
    <3>2. Len(handled) < sent
      BY <1>1, <1>2, <2>1, <2>3 DEF Ordered, Total, Unread2, InFlight, Base
    <3>3. QED
      BY <2>1, <2>3, <3>1, <3>2
  <2>4. QED
    BY <2>2, <2>3
<1>5. CASE Handle2
  <2>1. /\ cpc = "scan2" /\ cur < n2 /\ handled' = Append(handled, slot2[cur + 1])
        /\ UNCHANGED <<sent, straddled>>
    BY <1>5 DEF Handle2, listenerVars
  <2>2. slot2[cur + 1] \in Msgs \cup {Junk}
    <3>1. cur + 1 \in Slots
      BY <2>1, HandoffAssumption DEF Safe, TypeOK, Slots
    <3>2. QED
      BY <3>1 DEF Safe, TypeOK
  <2>3. CASE straddled
    <3>1. /\ Len(handled') = Len(handled) + 1
          /\ \A k \in 1..Len(handled) : handled'[k] = handled[k]
      BY <1>2, <2>1, <2>2, Appended
    <3>2. QED
      BY <2>1, <2>3, <3>1
  <2>4. CASE ~straddled
    <3>1. Settled = n2
      BY <1>1, <2>1, <2>4 DEF Shape, BusyInside, BusyPush, Settled
    <3>2. slot2[cur + 1] = Len(handled) + 1
      BY <1>1, <1>2, <2>1, <2>4, <3>1 DEF Ordered, Numbers2, Before2, Base
    <3>3. Len(handled) < sent
      BY <1>1, <1>2, <2>1, <2>4 DEF Ordered, Total, Unread2, InFlight, Base
    <3>4. QED
      BY <2>1, <2>4, <3>2, <3>3
  <2>5. QED
    BY <2>3, <2>4
<1>6. CASE Unlock
  <2>1. UNCHANGED <<sent, handled>> /\ (straddled => straddled')
    BY <1>6 DEF Unlock, listenerVars
  <2>2. straddled' \in BOOLEAN
    BY NextSafe DEF Safe, TypeOK
  <2>3. QED
    BY <1>1, <2>1, <2>2
<1>7. CASE UNCHANGED <<sent, handled, straddled>>
  BY <1>7
<1>8. QED
  BY <1>3, <1>4, <1>5, <1>6, <1>7
     DEF Next, Listener, Cleaner, Push1, Unlock1, Reserve2, Load2, Store2, Lock,
         Clear1, End2, Clear2, vars, listenerVars, cleanerVars

\* The two lists implement the in-order channel: every step accepts, handles the
\* next message, degrades the channel by straddling, or is invisible.
THEOREM Refinement == Spec => ImplementsInOrder
<1>1. Init => Channel!Init
  BY DEF Init, Channel!Init
<1>2. QED
  BY InitSafe, NextSafe, InitInOrder, NextInOrder, StepRefines, <1>1, PTL
     DEF Spec, ImplementsInOrder, Channel!Spec
-----------------------------------------------------------------------------
(* The messages of list_1_ut, also when a push has straddled.              *)

\* Only accepted messages are anywhere.
Accepted ==
  /\ via1 \in SUBSET (1..sent)
  /\ \A k \in Slots : slot2[k] \in (1..sent) \cup {Junk}
  /\ \A k \in 1..Len(handled) : handled[k] \in (1..sent) \cup {Junk}

\* No message takes both lists, and one that is pushed to list_1_ut is new.
OneList ==
  /\ \A k \in Slots : slot2[k] \notin via1
  /\ BusyPush => sent \notin via1
  /\ lpc = "push1" => /\ sent \notin via1
                      /\ \A k \in Slots : slot2[k] # sent
                      /\ \A k \in 1..Len(handled) : handled[k] # sent

Distinct1 ==
  /\ \A k \in 1..Len(list1) : list1[k] \in via1
  /\ \A k, l \in 1..Len(list1) : list1[k] = list1[l] => k = l

AtRest == cpc \notin {"scan1", "scan2"} => cur = 0

OnceInv == Accepted /\ OneList /\ Distinct1 /\ AtRest /\ List1HandledOnce

\* A message is handled once more if it is the one appended, else as before.
LEMMA TimesAppend ==
  ASSUME NEW S, NEW s \in Seq(S), NEW x \in S, NEW m
  PROVE  {k \in 1..Len(Append(s, x)) : Append(s, x)[k] = m} =
           {k \in 1..Len(s) : s[k] = m} \cup (IF x = m THEN {Len(s) + 1} ELSE {})
<1>1. Len(s) \in Nat /\ Len(Append(s, x)) = Len(s) + 1
  OBVIOUS
<1>2. \A k \in 1..Len(s) : Append(s, x)[k] = s[k]
  OBVIOUS
<1>3. Append(s, x)[Len(s) + 1] = x
  OBVIOUS
<1>4. 1..(Len(s) + 1) = (1..Len(s)) \cup {Len(s) + 1}
  BY <1>1
<1>5. CASE x = m
  BY <1>1, <1>2, <1>3, <1>4, <1>5, Zenon
<1>6. CASE x # m
  BY <1>1, <1>2, <1>3, <1>4, <1>6, Zenon
<1> QED
  BY <1>5, <1>6

\* A step of list_2_ut or of a mutex changes nothing for list_1_ut.
LEMMA OnceElsewhere ==
  ASSUME List1HandledOnce, UNCHANGED <<via1, handled, list1>>,
         cpc = "scan1" <=> cpc' = "scan1", cpc = "scan1" => cur' = cur
  PROVE  List1HandledOnce'
<1>1. \A m : (Waits(m) <=> Waits(m)') /\ Times(m)' = Times(m)
  BY DEF Waits, Times
<1> QED
  BY <1>1 DEF List1HandledOnce

LEMMA OnceStep == Safe /\ OnceInv /\ [Next]_vars => OnceInv'
<1> SUFFICES ASSUME Safe, OnceInv, [Next]_vars PROVE OnceInv'
  OBVIOUS
<1>0. /\ sent \in Nat /\ Junk \notin Nat /\ list1 \in Seq(Msgs) /\ handled \in Seq(Msgs \cup {Junk})
      /\ slot2 \in [Slots -> Msgs \cup {Junk}] /\ cur \in Nat /\ n2 \in Nat /\ Len(list1) \in Nat
      /\ Len(handled) \in Nat
  BY HandoffAssumption DEF Safe, TypeOK
<1>i. Accepted /\ OneList /\ Distinct1 /\ AtRest /\ List1HandledOnce
  BY DEF OnceInv
<1> USE DEF listenerVars, cleanerVars
<1>1. CASE Trylock
  <2>1. /\ sent' = sent + 1 /\ lpc = "idle" /\ lpc' \in {"push1", "reserve2"}
        /\ UNCHANGED <<via1, list1, slot2, handled, cpc, cur>>
    BY <1>1 DEF Trylock
  <2>2. Accepted'
    BY <1>0, <1>i, <2>1 DEF Accepted
  <2>3. OneList'
    BY <1>0, <1>i, <2>1 DEF Accepted, OneList, BusyPush
  <2>4. List1HandledOnce'
    BY <1>i, <2>1, OnceElsewhere
  <2> QED
    BY <1>i, <2>1, <2>2, <2>3, <2>4 DEF OnceInv, Distinct1, AtRest
<1>2. CASE Push1
  <2>1. /\ list1' = Append(list1, sent) /\ via1' = via1 \cup {sent} /\ lpc = "push1"
        /\ lpc' = "unlock1" /\ UNCHANGED <<sent, slot2, handled, cpc, cur>>
    BY <1>2 DEF Push1
  <2>2. sent \in Msgs /\ cpc \notin {"scan1", "unlock"} /\ sent \in 1..sent
    BY <2>1, HandoffAssumption DEF Safe, TypeOK, Sizes, List1Exclusive, Msgs
  <2>3. Accepted' /\ OneList' /\ AtRest'
    BY <1>i, <2>1, <2>2 DEF Accepted, OneList, AtRest, BusyPush
  <2>4. /\ Len(list1') = Len(list1) + 1 /\ list1'[Len(list1) + 1] = sent
        /\ \A k \in 1..Len(list1) : list1'[k] = list1[k]
    BY <1>0, <2>1, <2>2
  <2>5. \A k \in 1..Len(list1') : k \in 1..Len(list1) \/ k = Len(list1) + 1
    BY <1>0, <2>4
  <2>6. Distinct1'
    BY <1>i, <2>1, <2>4, <2>5 DEF Distinct1, OneList
  <2>7. ASSUME NEW m \in via1'
        PROVE  \/ Waits(m)' /\ Times(m)' = {}
               \/ ~Waits(m)' /\ \E k \in Times(m)' : Times(m)' = {k}
    <3>1. Times(m)' = Times(m)
      BY <2>1 DEF Times
    <3>2. CASE m = sent
      <4>1. Times(m) = {}
        BY <1>i, <2>1, <3>2 DEF Times, OneList
      <4>2. Waits(m)'
        BY <1>0, <2>1, <2>2, <2>4, <3>2 DEF Waits
      <4> QED
        BY <3>1, <4>1, <4>2
    <3>3. CASE m # sent
      <4>1. m \in via1 /\ (Waits(m)' <=> Waits(m))
        BY <1>0, <2>1, <2>2, <2>4, <2>5, <3>3 DEF Waits
      <4> QED
        BY <1>i, <3>1, <4>1 DEF List1HandledOnce
    <3> QED
      BY <3>2, <3>3
  <2> QED
    BY <2>3, <2>6, <2>7 DEF OnceInv, List1HandledOnce
<1>3. CASE Unlock1
  <2>1. List1HandledOnce'
    BY <1>3, <1>i, OnceElsewhere DEF Unlock1
  <2> QED
    BY <1>3, <1>i, <2>1 DEF Unlock1, OnceInv, Accepted, OneList, Distinct1, AtRest, BusyPush
<1>4. CASE Reserve2
  <2>1. /\ UNCHANGED <<sent, via1, list1, slot2, handled, cpc>> /\ lpc = "reserve2" /\ lpc' = "load2"
        /\ cpc # "scan2" => cur' = cur
    BY <1>4 DEF Reserve2
  <2>2. List1HandledOnce'
    BY <1>i, <2>1, OnceElsewhere
  <2> QED
    BY <1>i, <2>1, <2>2 DEF OnceInv, Accepted, OneList, Distinct1, AtRest, BusyPush
<1>5. CASE Load2
  <2>1. List1HandledOnce'
    BY <1>5, <1>i, OnceElsewhere DEF Load2
  <2> QED
    BY <1>5, <1>i, <2>1 DEF Load2, OnceInv, Accepted, OneList, Distinct1, AtRest, BusyPush
<1>6. ASSUME NEW s \in {"count", "copy"}, Store2(s)
      PROVE  OnceInv'
  <2>1. /\ lpc = "store2" /\ lpc' \in {"idle", "store2"}
        /\ UNCHANGED <<sent, via1, list1, handled, cpc, cur>>
        /\ slot2' = slot2 \/ slot2' = [slot2 EXCEPT ![idx + 1] = sent]
    BY <1>6 DEF Store2
  <2>2. sent \in 1..sent /\ sent \notin via1
    BY <1>0, <1>i, <2>1 DEF Safe, Sizes, OneList, BusyPush
  <2>3. \A k \in Slots : slot2'[k] = slot2[k] \/ slot2'[k] = sent
    BY <1>0, <2>1
  <2>4. Accepted' /\ OneList'
    BY <1>i, <2>1, <2>2, <2>3 DEF Accepted, OneList, BusyPush
  <2>5. List1HandledOnce'
    BY <1>i, <2>1, OnceElsewhere
  <2> QED
    BY <1>i, <2>1, <2>4, <2>5 DEF OnceInv, Distinct1, AtRest
<1>7. CASE Lock
  <2>1. /\ UNCHANGED <<sent, via1, list1, slot2, handled, cur, lpc>> /\ cpc = "idle" /\ cpc' = "scan1"
        /\ cur = 0
    BY <1>7, <1>i DEF Lock, AtRest
  <2>2. \A m : (Waits(m) <=> Waits(m)') /\ Times(m)' = Times(m)
    BY <1>0, <2>1 DEF Waits, Times
  <2> QED
    BY <1>i, <2>1, <2>2
       DEF OnceInv, Accepted, OneList, Distinct1, AtRest, BusyPush, List1HandledOnce
<1>8. CASE Handle1
  <2> DEFINE it == list1[cur + 1]
  <2>1. /\ cpc = "scan1" /\ cpc' = "scan1" /\ cur' = cur + 1 /\ handled' = Append(handled, it)
        /\ UNCHANGED <<sent, via1, list1, slot2, lpc>> /\ cur + 1 \in 1..Len(list1)
        /\ mutex = "cleaner"
    BY <1>0, <1>8 DEF Handle1, Safe, List1Exclusive
  <2>2. it \in via1 /\ it \in Msgs /\ it \in 1..sent /\ lpc # "push1"
    <3>1. it \in via1
      BY <1>i, <2>1 DEF Distinct1
    <3>2. it \in Msgs
      BY <1>0, <2>1
    <3>3. it \in 1..sent
      BY <1>i, <3>1 DEF Accepted
    <3>4. lpc # "push1"
      BY <2>1 DEF Safe, List1Exclusive
    <3> QED
      BY <3>1, <3>2, <3>3, <3>4
  <2> HIDE DEF it
  <2>3. Len(handled') = Len(handled) + 1 /\ handled'[Len(handled) + 1] = it
        /\ \A k \in 1..Len(handled) : handled'[k] = handled[k]
    BY <1>0, <2>1, <2>2
  <2>4. \A k \in 1..Len(handled') : k \in 1..Len(handled) \/ k = Len(handled) + 1
    BY <1>0, <2>3
  <2>5. Accepted' /\ OneList' /\ AtRest' /\ Distinct1'
    BY <1>i, <2>1, <2>2, <2>3, <2>4 DEF Accepted, OneList, AtRest, Distinct1, BusyPush
  <2>6. ASSUME NEW m \in via1
        PROVE  \/ Waits(m)' /\ Times(m)' = {}
               \/ ~Waits(m)' /\ \E k \in Times(m)' : Times(m)' = {k}
    <3>1. Times(m)' = Times(m) \cup (IF it = m THEN {Len(handled) + 1} ELSE {})
      BY <1>0, <2>1, <2>2, TimesAppend DEF Times
    <3>2. CASE m = it
      <4>1. Waits(m)
        BY <1>0, <2>1, <3>2 DEF Waits, it
      <4>2. Times(m) = {}
        BY <1>i, <4>1 DEF List1HandledOnce
      <4>3. ~Waits(m)'
        BY <1>0, <1>i, <2>1, <3>2 DEF Waits, it, Distinct1
      <4> QED
        BY <3>1, <3>2, <4>2, <4>3
    <3>3. CASE m # it
      <4>1. Waits(m)' <=> Waits(m)
        <5>1. \A k \in 1..Len(list1) : list1[k] = m => (k > cur <=> k > cur + 1)
          BY <1>0, <3>3 DEF it
        <5> QED
          BY <2>1, <5>1 DEF Waits
      <4> QED
        BY <1>i, <3>1, <3>3, <4>1 DEF List1HandledOnce
    <3> QED
      BY <3>2, <3>3
  <2> QED
    BY <2>1, <2>5, <2>6 DEF OnceInv, List1HandledOnce
<1>9. CASE Clear1
  <2>1. /\ cpc = "scan1" /\ cpc' = "unlock" /\ cur >= Len(list1) /\ list1' = <<>> /\ cur' = 0
        /\ UNCHANGED <<sent, via1, slot2, handled, lpc>>
    BY <1>9 DEF Clear1
  <2>2. \A m : ~Waits(m) /\ ~Waits(m)' /\ Times(m)' = Times(m)
    BY <1>0, <2>1 DEF Waits, Times
  <2> QED
    BY <1>i, <2>1, <2>2
       DEF OnceInv, Accepted, OneList, Distinct1, AtRest, BusyPush, List1HandledOnce
<1>10. CASE Unlock
  <2>1. List1HandledOnce'
    BY <1>10, <1>i, OnceElsewhere DEF Unlock
  <2> QED
    BY <1>10, <1>i, <2>1 DEF Unlock, OnceInv, Accepted, OneList, Distinct1, AtRest, BusyPush
<1>11. CASE Handle2
  <2> DEFINE it == slot2[cur + 1]
  <2>1. /\ cpc = "scan2" /\ cpc' = "scan2" /\ handled' = Append(handled, it) /\ cur < n2
        /\ UNCHANGED <<sent, via1, list1, slot2, lpc>>
    BY <1>11 DEF Handle2
  <2>2. cur + 1 \in Slots
    BY <1>0, <2>1, HandoffAssumption DEF Safe, TypeOK, Slots
  <2>3. it \in Msgs \cup {Junk} /\ it \notin via1 /\ it \in (1..sent) \cup {Junk}
    BY <1>0, <1>i, <2>2 DEF OneList, Accepted
  <2>4. lpc = "push1" => it # sent
    BY <1>i, <2>2 DEF OneList
  <2> HIDE DEF it
  <2>5. Len(handled') = Len(handled) + 1 /\ handled'[Len(handled) + 1] = it
        /\ \A k \in 1..Len(handled) : handled'[k] = handled[k]
    BY <1>0, <2>1, <2>3
  <2>6. \A k \in 1..Len(handled') : k \in 1..Len(handled) \/ k = Len(handled) + 1
    BY <1>0, <2>5
  <2>7. Accepted' /\ OneList' /\ AtRest' /\ Distinct1'
    BY <1>i, <2>1, <2>3, <2>4, <2>5, <2>6 DEF Accepted, OneList, AtRest, Distinct1, BusyPush
  <2>8. \A m \in via1 : Times(m)' = Times(m)
    BY <1>0, <2>1, <2>3, TimesAppend DEF Times
  <2>9. \A m : Waits(m)' <=> Waits(m)
    BY <2>1 DEF Waits
  <2> QED
    BY <1>i, <2>1, <2>7, <2>8, <2>9 DEF OnceInv, List1HandledOnce
<1>12. CASE End2
  <2>1. List1HandledOnce'
    BY <1>12, <1>i, OnceElsewhere DEF End2
  <2> QED
    BY <1>12, <1>i, <2>1 DEF End2, OnceInv, Accepted, OneList, Distinct1, AtRest, BusyPush
<1>13. CASE Clear2
  <2>1. List1HandledOnce'
    BY <1>13, <1>i, OnceElsewhere DEF Clear2
  <2> QED
    BY <1>13, <1>i, <2>1 DEF Clear2, OnceInv, Accepted, OneList, Distinct1, AtRest, BusyPush
<1>14. CASE UNCHANGED vars
  <2>1. List1HandledOnce'
    BY <1>14, <1>i, OnceElsewhere DEF vars
  <2> QED
    BY <1>14, <1>i, <2>1 DEF vars, OnceInv, Accepted, OneList, Distinct1, AtRest, BusyPush
<1> QED
  BY <1>1, <1>2, <1>3, <1>4, <1>5, <1>6, <1>7, <1>8, <1>9, <1>10, <1>11, <1>12, <1>13, <1>14
     DEF Next, Listener, Cleaner

\* A message that takes list_1_ut is handled exactly once, whatever a push
\* without the lock does to list_2_ut (tid_pid_list_ut.c:206-240).
THEOREM List1Once == Spec => []List1HandledOnce
<1>1. Init => OnceInv
  BY HandoffAssumption
     DEF Init, OnceInv, Accepted, OneList, Distinct1, AtRest, List1HandledOnce, BusyPush
<1>2. OnceInv => List1HandledOnce
  BY DEF OnceInv
<1> QED
  BY <1>1, <1>2, InitSafe, NextSafe, OnceStep, PTL DEF Spec
==============================================================================
