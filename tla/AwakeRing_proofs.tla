-------------------------- MODULE AwakeRing_proofs --------------------------
(***************************************************************************)
(* Proofs about AwakeRing, for every ring size, pipe size and set of       *)
(* worker threads.                                                         *)
(***************************************************************************)
EXTENDS AwakeRing, FiniteSetTheorems, TLAPS

\* Indices stay in the ring.
LEMMA SuccInSlots ==
    \A i \in Slots : Succ(i) \in Slots
BY RingAssumption DEF Slots, Succ

\* Type correctness of the ring, the pipe and the program counters.
THEOREM TypeCorrect == Spec => []TypeOK
<1>1. Init => TypeOK
  BY RingAssumption DEF Init, TypeOK, Slots
<1>2. TypeOK /\ [Next]_vars => TypeOK'
  <2> SUFFICES ASSUME TypeOK, [Next]_vars PROVE TypeOK'
    OBVIOUS
  <2> USE RingAssumption DEF TypeOK
  <2>1. ASSUME NEW t \in Callers, Register(t) PROVE TypeOK'
    BY <2>1, SuccInSlots DEF Register
  <2>2. ASSUME NEW t \in Callers, Wake(t) PROVE TypeOK'
    BY <2>2 DEF Wake, Written
  <2>3. ASSUME NEW t \in Callers, Post(t) PROVE TypeOK'
    BY <2>3 DEF Post, Written
  <2>4. CASE SelectPipe
    BY <2>4 DEF SelectPipe
  <2>5. CASE CallOther
    BY <2>5 DEF CallOther
  <2>6. CASE PollReturns
    BY <2>6 DEF PollReturns
  <2>7. CASE ReadPipe
    BY <2>7 DEF ReadPipe
  <2>8. CASE TakeHandler
    BY <2>8, SuccInSlots DEF TakeHandler
  <2>9. CASE RingDrained
    BY <2>9 DEF RingDrained, Caller
  <2>10. CASE CallbackReturns
    <3>1. calls # <<>> /\ Front(calls) \in Seq({"handler", "before", "other"})
      BY <2>10 DEF CallbackReturns, Front
    <3>2. Last(calls) \in {"handler", "before", "other"}
      BY <3>1 DEF Last
    <3>3. mpc' \in {"poll", "read", "drain", "call"} /\ (mpc' = "call" => Front(calls) # <<>>)
      BY <2>10, <3>2 DEF CallbackReturns, Caller
    <3> QED
      BY <2>10, <3>1, <3>3 DEF CallbackReturns
  <2>11. CASE CallbackWaits
    BY <2>11 DEF CallbackWaits
  <2>12. CASE UNCHANGED vars
    BY <2>12 DEF vars
  <2> QED
    BY <2>1, <2>2, <2>3, <2>4, <2>5, <2>6, <2>7, <2>8, <2>9, <2>10, <2>11, <2>12
    DEF Next, MainStep, Callback
<1> QED
  BY <1>1, <1>2, PTL DEF Spec

-----------------------------------------------------------------------------
(***************************************************************************)
(* No handler is lost.  The invariant is inductive by itself; what it      *)
(* needs from the environment is that a call is made only while at most    *)
(* RingSize - 2 registrations are outstanding, for the code's full test    *)
(* misses the wrapped case.                                                *)
(***************************************************************************)
LOCAL LostInv == TypeOK /\ NoHandlerLost

\* The empty ring satisfies the invariant.
LEMMA LostInit == Init => LostInv
BY RingAssumption DEF Init, LostInv, TypeOK, NoHandlerLost, InRing, Distance, Slots

\* Appending a handler at the head keeps the ring's contents in order.
LEMMA RegisterKeeps ==
    ASSUME LostInv, MaxPending <= RingSize - 1, NEW t \in Callers, Register(t)
    PROVE  NoHandlerLost'
<1> USE RingAssumption
<1>0. /\ head \in Slots /\ tail \in Slots /\ accepted \in Nat /\ started \in Nat
      /\ ring \in [Slots -> Nat] /\ InRing + started = accepted
      /\ \A i \in 0 .. InRing - 1 : ring[Slot(i)] = started + 1 + i
  BY DEF LostInv, TypeOK, NoHandlerLost
<1>a. accepted - started < MaxPending
  BY DEF Register
<1>1. InRing \in 0 .. RingSize - 2
  <2>1. InRing \in Nat
    BY <1>0 DEF InRing, Distance, Slots
  <2> QED
    BY <1>0, <1>a, <2>1
<1>2. ~Full
  BY <1>0, <1>1 DEF Full, InRing, Distance, Slots
<1>3. /\ ring' = [ring EXCEPT ![head] = accepted + 1] /\ accepted' = accepted + 1
      /\ head' = Succ(head) /\ tail' = tail /\ started' = started
  BY <1>2 DEF Register
<1>4. InRing' = InRing + 1
  BY <1>0, <1>1, <1>3 DEF InRing, Distance, Slots, Succ
<1>5. \A i \in 0 .. InRing - 1 : Slot(i) # head /\ Slot(i) \in Slots
  BY <1>0, <1>1 DEF Slot, InRing, Distance, Slots
<1>6. Slot(InRing) = head
  BY <1>0, <1>1 DEF Slot, InRing, Distance, Slots
<1>7. \A i : Slot(i)' = Slot(i)
  BY <1>3 DEF Slot
<1>8. \A i \in 0 .. InRing : ring'[Slot(i)] = started + 1 + i
  BY <1>0, <1>1, <1>3, <1>5, <1>6
<1> QED
  BY <1>0, <1>1, <1>3, <1>4, <1>7, <1>8 DEF NoHandlerLost

\* Taking the handler at the tail leaves the others in order.
LEMMA TakeKeeps ==
    ASSUME LostInv, TakeHandler
    PROVE  NoHandlerLost'
<1> USE RingAssumption DEF LostInv, TypeOK, NoHandlerLost
<1>1. InRing \in 1 .. RingSize - 1
  BY DEF TakeHandler, InRing, Distance, Slots, Empty
<1>2. InRing' = InRing - 1
  BY <1>1 DEF TakeHandler, InRing, Distance, Slots, Succ, Empty
<1>3. Slot(0) = tail
  BY DEF Slot, Slots
<1>4. \A i \in 0 .. InRing - 2 : Slot(i)' = Slot(i + 1)
  BY <1>1 DEF TakeHandler, Slot, Succ, Slots
<1>5. started' = started + 1 /\ ring' = ring /\ accepted' = accepted
  BY <1>1, <1>3 DEF TakeHandler
<1> QED
  BY <1>1, <1>2, <1>4, <1>5

\* Every accepted handler is in the ring, in order, until it is called: for
\* every ring size, as long as callers leave one slot of the ring unused.
THEOREM HandlersKept ==
    ASSUME MaxPending <= RingSize - 1
    PROVE  Spec => []NoHandlerLost
<1>1. LostInv /\ [Next]_vars => NoHandlerLost'
  <2> SUFFICES ASSUME LostInv, [Next]_vars PROVE NoHandlerLost'
    OBVIOUS
  <2> DEFINE ringVars == <<ring, head, tail, accepted, started>>
  <2>1. ASSUME UNCHANGED ringVars PROVE NoHandlerLost'
    BY <2>1 DEF LostInv, NoHandlerLost, InRing, Distance, Slot
  <2>2. ASSUME NEW t \in Callers, Register(t) PROVE NoHandlerLost'
    BY <2>2, RegisterKeeps
  <2>3. CASE TakeHandler
    BY <2>3, TakeKeeps
  <2> QED
    BY <2>1, <2>2, <2>3
    DEF Next, MainStep, Callback, Wake, Post, SelectPipe, CallOther, ReadPipe, PollReturns,
        RingDrained, CallbackReturns, CallbackWaits, vars
<1> QED
  BY <1>1, LostInit, TypeCorrect, PTL DEF Spec, LostInv

-----------------------------------------------------------------------------
(***************************************************************************)
(* No handler is stranded.  The invariant counts: the handlers in the ring *)
(* are at most the pointers in the pipe, plus the callers about to write   *)
(* one, plus one while the drain loop of thread_awake_cb is running.       *)
(***************************************************************************)
LOCAL Waking == {t \in Callers : pc[t] = "wake"}
LOCAL Draining == IF mpc = "drain" THEN 1 ELSE 0
LOCAL WakeInv == InRing <= pipe + Cardinality(Waking) + Draining

\* The callers about to write can be counted.
LEMMA WakingFinite ==
    /\ IsFiniteSet(Waking) /\ Cardinality(Waking) \in Nat
    /\ IsFiniteSet(Waking)' /\ Cardinality(Waking)' \in Nat
<1>1. IsFiniteSet(Callers)
  BY RingAssumption, FS_AddElement DEF Callers
<1>2. Waking \subseteq Callers /\ Waking' \subseteq Callers
  BY DEF Waking
<1>3. IsFiniteSet(Waking) /\ IsFiniteSet(Waking')
  BY <1>1, <1>2, FS_Subset
<1> QED
  BY <1>3, FS_CardinalityType

\* How far apart two slots are, ...
LEMMA DistanceType ==
    \A i, j \in Slots : Distance(i, j) \in 0 .. RingSize - 1
BY RingAssumption DEF Slots, Distance

\* ... and how that changes when head or tail moves on.
LEMMA DistanceSucc ==
    \A i, j \in Slots : /\ Distance(i, Succ(j)) <= Distance(i, j) + 1
                        /\ i # j => Distance(Succ(i), j) = Distance(i, j) - 1
BY RingAssumption DEF Slots, Distance, Succ

\* Every step keeps the count of wake-ups.
LEMMA WakeStep ==
    ASSUME TypeOK, WakeInv, [Next]_vars
    PROVE  WakeInv'
<1> USE RingAssumption
<1>s. head \in Slots /\ tail \in Slots /\ Succ(head) \in Slots
  BY SuccInSlots DEF TypeOK
<1>0. InRing \in 0 .. RingSize - 1 /\ Distance(tail, Succ(head)) \in 0 .. RingSize - 1
  BY <1>s, DistanceType DEF InRing
<1>c. Cardinality(Waking) \in Nat
  BY WakingFinite
<1>p. pipe \in 0 .. PipeCap
  BY DEF TypeOK
<1>1. ASSUME NEW t \in Callers, Register(t) PROVE WakeInv'
  <2>1. t \notin Waking /\ Waking' = Waking \cup {t}
    BY <1>1 DEF Register, CanCall, Waking, TypeOK
  <2>2. Cardinality(Waking)' = Cardinality(Waking) + 1
    BY <2>1, WakingFinite, FS_AddElement
  <2>3. pipe' = pipe /\ Draining' = Draining /\ Draining \in {0, 1}
    BY <1>1 DEF Register, Draining
  <2>4. CASE Full
    <3>1. InRing' = InRing
      BY <1>1, <2>4 DEF Register, InRing, Distance
    <3> QED
      BY <1>0, <1>c, <1>p, <2>2, <2>3, <3>1 DEF WakeInv
  <2>5. CASE ~Full
    <3>1. InRing' = Distance(tail, Succ(head))
      BY <1>1, <2>5 DEF Register, InRing, Distance
    <3>2. Distance(tail, Succ(head)) <= InRing + 1
      BY <1>s, DistanceSucc DEF InRing
    <3> QED
      BY <1>0, <1>c, <1>p, <2>2, <2>3, <3>1, <3>2 DEF WakeInv
  <2> QED
    BY <2>4, <2>5
<1>2. ASSUME NEW t \in Callers, Wake(t) PROVE WakeInv'
  <2>1. t \in Waking /\ Waking' = Waking \ {t}
    BY <1>2 DEF Wake, Waking, TypeOK
  <2>2. Cardinality(Waking)' = Cardinality(Waking) - 1 /\ Cardinality(Waking) >= 1
    BY <2>1, WakingFinite, FS_RemoveElement, FS_EmptySet
  <2>3. InRing' = InRing /\ Draining' = Draining /\ Draining \in {0, 1}
    BY <1>2 DEF Wake, InRing, Distance, Draining
  <2>4. pipe' = Written
    BY <1>2 DEF Wake
  <2> QED
    BY <1>0, <1>c, <1>p, <2>2, <2>3, <2>4 DEF Written, WakeInv
<1>3. ASSUME NEW t \in Callers, Post(t) PROVE WakeInv'
  <2>1. Waking' = Waking /\ InRing' = InRing /\ Draining' = Draining
    BY <1>3 DEF Post, Waking, InRing, Distance, Draining
  <2>2. pipe' = Written /\ Draining \in {0, 1}
    BY <1>3 DEF Post, Draining
  <2> QED
    BY <1>0, <1>c, <1>p, <2>1, <2>2 DEF Written, WakeInv
<1>4. CASE TakeHandler
  <2>1. InRing' = InRing - 1
    <3>1. tail # head /\ InRing' = Distance(Succ(tail), head)
      BY <1>4 DEF TakeHandler, Empty, InRing, Distance
    <3> QED
      BY <3>1, <1>s, DistanceSucc DEF InRing
  <2>2. Waking' = Waking /\ pipe' = pipe /\ Draining' = 0 /\ Draining = 1
    BY <1>4 DEF TakeHandler, Waking, Draining
  <2> QED
    BY <1>0, <1>c, <1>p, <2>1, <2>2 DEF WakeInv
<1>5. CASE RingDrained
  <2>1. InRing' = 0 /\ pipe' = pipe /\ Waking' = Waking
    BY <1>5, <1>s DEF RingDrained, InRing, Distance, Empty, Waking, Slots
  <2>2. Draining' = 0
    BY <1>5 DEF RingDrained, Caller, Draining
  <2> QED
    BY <2>1, <2>2, <1>c, <1>p DEF WakeInv
<1>6. ASSUME UNCHANGED <<head, tail, pc>>,
             \/ pipe' = pipe /\ (Draining' = Draining \/ Draining' = Draining + 1)
             \/ pipe' = pipe - 1 /\ Draining' = Draining + 1
      PROVE  WakeInv'
  <2>1. Waking' = Waking /\ InRing' = InRing /\ Draining \in {0, 1}
    BY <1>6 DEF Waking, InRing, Distance, Draining
  <2> QED
    BY <1>0, <1>6, <1>c, <1>p, <2>1 DEF WakeInv
<1>7. CASE ReadPipe
  BY <1>6, <1>7 DEF ReadPipe, Draining
<1>8. CASE PollReturns
  BY <1>6, <1>8 DEF PollReturns, Draining
<1>9. CASE CallbackReturns
  <2>1. Draining = 0 /\ Draining' \in {0, 1} /\ pipe' = pipe /\ UNCHANGED <<head, tail, pc>>
    BY <1>9 DEF CallbackReturns, Draining
  <2> QED
    BY <1>6, <2>1
<1>10. CASE CallbackWaits \/ CallOther \/ SelectPipe
  BY <1>6, <1>10 DEF CallbackWaits, CallOther, SelectPipe, Draining
<1>11. CASE UNCHANGED vars
  BY <1>6, <1>11 DEF vars, Draining
<1> QED
  BY <1>1, <1>2, <1>3, <1>4, <1>5, <1>7, <1>8, <1>9, <1>10, <1>11
  DEF Next, MainStep, Callback

\* The main thread never blocks in select() or read() over a handler nobody will wake it
\* for: for every ring and pipe size with PipeCap >= RingSize - 1, whatever the
\* nesting of event loops and of the callbacks in between, and even when callers overload the ring.
THEOREM NoneStranded == Spec => []NoStrandedHandler
<1>1. Init => WakeInv
  <2> SUFFICES ASSUME Init PROVE WakeInv
    OBVIOUS
  <2> QED
    BY RingAssumption, WakingFinite DEF Init, WakeInv, InRing, Distance, Draining
<1>2. TypeOK /\ WakeInv => NoStrandedHandler
  <2> SUFFICES ASSUME TypeOK, WakeInv, mpc \in {"poll", "read"}, ~Empty, pipe = 0
               PROVE  \E t \in Callers : pc[t] = "wake"
    BY DEF NoStrandedHandler, TypeOK
  <2>1. InRing \in Nat /\ InRing # 0 /\ Draining = 0
    BY RingAssumption DEF InRing, Distance, Empty, TypeOK, Slots, Draining
  <2>2. Cardinality(Waking) # 0
    BY <2>1, WakingFinite DEF WakeInv
  <2>3. Waking # {}
    BY <2>2, FS_EmptySet
  <2> QED
    BY <2>3 DEF Waking
<1> QED
  BY <1>1, <1>2, WakeStep, TypeCorrect, PTL DEF Spec
-----------------------------------------------------------------------------
(***************************************************************************)
(* The ring is a queue.                                                    *)
(***************************************************************************)

\* The handlers of the ring, from the tail on, as AwakeQueue sees them.
LOCAL Waiting == [i \in 1 .. InRing |-> ring[Slot(i - 1)]]

\* They are numbered one by one, from the last one called on.
LOCAL Numbered == InRing \in Nat /\ Waiting = [i \in 1 .. InRing |-> started + i]

\* The invariant numbers the queue before a step ...
LEMMA WaitingNumbered == LostInv => Numbered
<1> SUFFICES ASSUME LostInv
             PROVE  Numbered
  OBVIOUS
<1>1. InRing \in Nat
  BY DistanceType DEF LostInv, TypeOK, InRing, Slots
<1>2. ASSUME NEW i \in 1 .. InRing
      PROVE  ring[Slot(i - 1)] = started + i
  <2>1. i - 1 \in 0 .. InRing - 1 /\ started \in Nat
    BY <1>1 DEF LostInv, TypeOK
  <2>2. ring[Slot(i - 1)] = started + 1 + (i - 1)
    BY <2>1 DEF LostInv, NoHandlerLost
  <2> QED
    BY <1>1, <2>1, <2>2
<1> QED
  BY <1>1, <1>2 DEF Numbered, Waiting

\* ... and after it.
LEMMA WaitingNumberedNext == LostInv' => Numbered'
BY WaitingNumbered, PTL

\* add_awake_handler_ puts a handler at the end of the queue, or the ring is
\* full and it changes nothing.
LEMMA RegisterAccepts ==
    ASSUME LostInv, LostInv', NEW t \in Callers, Register(t)
    PROVE  Queue!Accept \/ UNCHANGED <<Waiting, accepted, started>>
<1> DEFINE n == InRing
           m == InRing'
<1>1. n \in Nat /\ Waiting = [i \in 1 .. n |-> started + i]
  BY WaitingNumbered DEF Numbered
<1>2. m \in Nat /\ Waiting' = [i \in 1 .. m |-> started' + i]
  BY WaitingNumberedNext DEF Numbered
<1>3. /\ started' = started /\ started \in Nat /\ accepted \in Nat
      /\ n + started = accepted /\ m + started' = accepted'
  BY DEF Register, LostInv, NoHandlerLost, TypeOK
<1> HIDE DEF n, m
<1>4. CASE accepted' = accepted
  <2>1. m = n
    BY <1>1, <1>2, <1>3, <1>4
  <2> QED
    BY <1>1, <1>2, <1>3, <1>4, <2>1
<1>5. CASE accepted' = accepted + 1
  <2>1. m = n + 1
    BY <1>1, <1>2, <1>3, <1>5
  <2>2. Waiting' = [i \in 1 .. n + 1 |-> started + i]
    BY <1>2, <1>3, <2>1
  <2>3. Waiting' = Append(Waiting, accepted + 1)
    <3> DEFINE w == [i \in 1 .. n |-> started + i]
    <3>1. w \in Seq(Nat) /\ Len(w) = n /\ \A i \in 1 .. n : w[i] = started + i
      <4>1. \A i \in 1 .. n : started + i \in Nat
        BY <1>1, <1>3
      <4> QED
        BY <1>1, <4>1
    <3> HIDE DEF w
    <3>2. Append(w, accepted + 1) = [i \in 1 .. n + 1 |-> IF i = n + 1 THEN accepted + 1 ELSE w[i]]
      BY <3>1, <1>1
    <3>3. \A i \in 1 .. n + 1 : (IF i = n + 1 THEN accepted + 1 ELSE w[i]) = started + i
      BY <1>1, <1>3, <3>1
    <3>4. Append(w, accepted + 1) = [i \in 1 .. n + 1 |-> started + i]
      BY <3>2, <3>3
    <3> QED
      BY <1>1, <2>2, <3>4 DEF w
  <2> QED
    BY <1>3, <1>5, <2>3 DEF Queue!Accept, Waiting
<1>6. accepted' = accepted \/ accepted' = accepted + 1
  BY DEF Register
<1> QED
  BY <1>4, <1>5, <1>6

\* get_awake_handler_ takes the handler at the front of the queue.
LEMMA TakeDelivers ==
    ASSUME LostInv, LostInv', TakeHandler
    PROVE  Queue!Deliver
<1> DEFINE n == InRing
           m == InRing'
           w == [i \in 1 .. n |-> started + i]
<1>1. n \in Nat /\ Waiting = w
  BY WaitingNumbered DEF Numbered
<1>2. m \in Nat /\ Waiting' = [i \in 1 .. m |-> started' + i]
  BY WaitingNumberedNext DEF Numbered
<1>3. n # 0
  BY RingAssumption DEF TakeHandler, LostInv, TypeOK, InRing, Distance, Slots, Empty
<1>4. started' = started + 1
  <2>1. Slot(0) = tail
    BY RingAssumption DEF LostInv, TypeOK, Slot, Slots
  <2>2. ring[Slot(0)] = started + 1 + 0
    BY <1>1, <1>3 DEF LostInv, NoHandlerLost
  <2> QED
    BY <2>1, <2>2 DEF TakeHandler, LostInv, TypeOK
<1>5. accepted' = accepted /\ started \in Nat /\ m = n - 1
  <2>1. accepted' = accepted /\ accepted \in Nat /\ started \in Nat
    BY DEF TakeHandler, LostInv, TypeOK
  <2>2. n + started = accepted /\ m + started' = accepted'
    BY DEF LostInv, NoHandlerLost
  <2> HIDE DEF n, m
  <2> QED
    BY <1>1, <1>2, <1>4, <2>1, <2>2
<1> HIDE DEF n, m
<1>6. w \in Seq(Nat) /\ Len(w) = n /\ \A i \in 1 .. n : w[i] = started + i
  <2>1. \A i \in 1 .. n : started + i \in Nat
    BY <1>1, <1>5
  <2> QED
    BY <1>1, <2>1
<1> HIDE DEF w
<1>7. w # <<>> /\ Head(w) = started + 1
  BY <1>1, <1>3, <1>6
<1>8. Tail(w) = [i \in 1 .. n - 1 |-> started + 1 + i]
  <2>1. Tail(w) = [i \in 1 .. n - 1 |-> w[i + 1]]
    <3>1. Tail(w) \in Seq(Nat) /\ Len(Tail(w)) = n - 1
      BY <1>1, <1>3, <1>6
    <3>2. ASSUME NEW i \in 1 .. n - 1
          PROVE  Tail(w)[i] = w[i + 1]
      <4>1. i \in 1 .. Len(w) - 1 /\ w # <<>> /\ w \in Seq(Nat)
        BY <1>6, <1>7
      <4> HIDE DEF n
      <4> QED
        BY <4>1
    <3>3. Tail(w) = [i \in 1 .. n - 1 |-> Tail(w)[i]]
      <4> DEFINE u == Tail(w)
      <4>1. u \in Seq(Nat) /\ Len(u) = n - 1
        BY <3>1
      <4> HIDE DEF u
      <4>2. u = [i \in 1 .. Len(u) |-> u[i]]
        BY <4>1
      <4> QED
        BY <4>1, <4>2 DEF u
    <3> QED
      BY <3>2, <3>3
  <2>2. \A i \in 1 .. n - 1 : w[i + 1] = started + 1 + i
    BY <1>1, <1>5, <1>6
  <2> QED
    BY <2>1, <2>2
<1>9. Waiting' = Tail(w)
  BY <1>2, <1>4, <1>5, <1>8
<1> QED
  BY <1>1, <1>4, <1>5, <1>7, <1>9 DEF Queue!Deliver, Waiting

\* Fl::awake(func, data) is a first-in first-out queue: each handler accepted is
\* called by the main thread, once and in order, for every ring size, as long as
\* callers leave one slot of the ring unused.
THEOREM RingIsQueue ==
    ASSUME MaxPending <= RingSize - 1
    PROVE  Spec => Queue!Spec
<1>1. Init => Queue!Init
  <2> SUFFICES ASSUME Init
               PROVE  Queue!Init
    OBVIOUS
  <2>1. InRing = 0
    BY RingAssumption DEF Init, InRing, Distance
  <2>2. Waiting = <<>>
    BY <2>1 DEF Waiting
  <2> QED
    BY <2>2 DEF Init, Queue!Init, Waiting
<1>2. LostInv /\ LostInv' /\ [Next]_vars => [Queue!Next]_(Queue!vars)
  <2> SUFFICES ASSUME LostInv, LostInv', [Next]_vars
               PROVE  Queue!Next \/ UNCHANGED <<Waiting, accepted, started>>
    BY DEF Queue!vars, Waiting
  <2>1. ASSUME UNCHANGED <<ring, head, tail, accepted, started>>
        PROVE  UNCHANGED <<Waiting, accepted, started>>
    BY <2>1 DEF Waiting, InRing, Distance, Slot
  <2>2. ASSUME NEW t \in Callers, Register(t)
        PROVE  Queue!Next \/ UNCHANGED <<Waiting, accepted, started>>
    BY <2>2, RegisterAccepts DEF Queue!Next
  <2>3. CASE TakeHandler
    BY <2>3, TakeDelivers DEF Queue!Next
  <2> QED
    BY <2>1, <2>2, <2>3
    DEF Next, MainStep, Callback, Wake, Post, SelectPipe, CallOther, ReadPipe, PollReturns,
        RingDrained, CallbackReturns, CallbackWaits, vars
<1>3. Spec => []LostInv
  BY HandlersKept, TypeCorrect, PTL DEF LostInv
<1> QED
  BY <1>1, <1>2, <1>3, PTL DEF Spec, Queue!Spec
=============================================================================
