------------------------------ MODULE AwakeRing ------------------------------
(***************************************************************************)
(* Fl::awake(func, data): how a worker thread gets a function called by    *)
(* the main thread (src/fltk/src/Fl_lock.cxx, the POSIX build).            *)
(*                                                                         *)
(* The caller stores the handler in a ring of RingSize slots under the     *)
(* ring mutex and then writes one pointer to a pipe whose write end does   *)
(* not block.  The main thread selects in fl_wait(), and when it was told  *)
(* that the pipe is readable it reads one pointer, on the end that does    *)
(* block, and calls handlers until the ring is empty.  A handler, or a     *)
(* callback of another descriptor, may call Fl::wait() itself, which       *)
(* selects and drains again one level down; fl_wait() above it goes on     *)
(* with what its own select() said.                                        *)
(*                                                                         *)
(* A handler is named by its serial number: the n-th registration that     *)
(* awake() accepted (returned 0 for) is handler n.  The mutex makes        *)
(* add_awake_handler_ and get_awake_handler_ one step each; its lazy       *)
(* creation (a race between two first calls) is not modelled.              *)
(***************************************************************************)
EXTENDS Naturals, Sequences, SequencesExt, FiniteSets

CONSTANTS
    Threads,     \* the worker threads
    Main,        \* the thread that runs Fl::run()
    RingSize,    \* AWAKE_RING_SIZE (1024 in the code)
    PipeCap,     \* pointers the pipe holds before write() fails
    MaxPending,  \* bound: registrations outstanding when awake() is called
    MaxAwakes,   \* bound: registrations accepted in a behaviour
    MaxNest      \* bound: callbacks that wait, one inside the other

ASSUME RingAssumption ==
    /\ RingSize \in Nat /\ RingSize >= 2
    /\ PipeCap \in Nat /\ PipeCap >= RingSize - 1
    /\ MaxPending \in Nat /\ MaxAwakes \in Nat /\ MaxNest \in Nat
    /\ IsFiniteSet(Threads) /\ Main \notin Threads

VARIABLES
    ring,      \* awake_ring_ / awake_data_: the serial in each slot, 0 = never set
    head,      \* awake_ring_head_: next slot to fill
    tail,      \* awake_ring_tail_: next slot to call
    pipe,      \* pointers written to thread_filedes and not yet read
    pc,        \* per caller: "idle", or "wake" between the add and the write
    mpc,       \* main thread: "poll" in fl_wait, "read" and "drain" in
               \* thread_awake_cb, or "call": in the callback on top of calls
    calls,     \* callbacks on the main thread's stack, innermost last
    accepted,  \* registrations that returned 0
    started    \* serial of the last handler called

vars == <<ring, head, tail, pipe, pc, mpc, calls, accepted, started>>

Callers == Threads \cup {Main}
Slots == 0 .. RingSize - 1

Init ==
    /\ ring = [i \in Slots |-> 0]
    /\ head = 0 /\ tail = 0
    /\ pipe = 0
    /\ pc = [t \in Callers |-> "idle"]
    /\ mpc = "poll" /\ calls = <<>>
    /\ accepted = 0 /\ started = 0

-----------------------------------------------------------------------------
Succ(i) == IF i + 1 = RingSize THEN 0 ELSE i + 1

\* The code's test for a full ring (both halves compare the same two numbers).
Full == head = tail - 1 \/ head + 1 = tail

Empty == head = tail

\* Main runs its own code only while no wake-up of its own is half done, and
\* registers handlers only from inside a callback.
CanCall(t) == pc[t] = "idle" /\ (t = Main => mpc = "call")

\* Mutant: the trailing Fl::awake() is left out.
RegisterOnly(t) ==
    /\ CanCall(t)
    /\ accepted - started < MaxPending /\ accepted < MaxAwakes
    /\ ~Full
    /\ ring' = [ring EXCEPT ![head] = accepted + 1]
    /\ head' = Succ(head)
    /\ accepted' = accepted + 1
    /\ UNCHANGED <<tail, pipe, pc, mpc, calls, started>>

\* Mutant: no wake-up is sent while the main thread is awake anyway.
RegisterQuietly(t) ==
    /\ CanCall(t)
    /\ accepted - started < MaxPending /\ accepted < MaxAwakes
    /\ ~Full
    /\ ring' = [ring EXCEPT ![head] = accepted + 1]
    /\ head' = Succ(head)
    /\ accepted' = accepted + 1
    /\ pc' = IF mpc \in {"poll", "read"} THEN [pc EXCEPT ![t] = "wake"] ELSE pc
    /\ UNCHANGED <<tail, pipe, mpc, calls, started>>

\* Fl::awake(func, data), first half: add_awake_handler_.
Register(t) ==
    /\ CanCall(t)
    /\ accepted - started < MaxPending
    /\ accepted < MaxAwakes
    /\ IF Full
         THEN UNCHANGED <<ring, head, accepted>>
         ELSE /\ ring' = [ring EXCEPT ![head] = accepted + 1]
              /\ head' = Succ(head)
              /\ accepted' = accepted + 1
    /\ pc' = [pc EXCEPT ![t] = "wake"]
    /\ UNCHANGED <<tail, pipe, mpc, calls, started>>

\* write() on the non-blocking end: a full pipe drops the pointer.
Written == IF pipe = PipeCap THEN pipe ELSE pipe + 1

\* Fl::awake(func, data), second half: Fl::awake().  It follows the add
\* whether or not the handler was accepted.
Wake(t) ==
    /\ pc[t] = "wake"
    /\ pipe' = Written
    /\ pc' = [pc EXCEPT ![t] = "idle"]
    /\ UNCHANGED <<ring, head, tail, mpc, calls, accepted, started>>

\* Fl::awake(msg): a pointer without a handler.
Post(t) ==
    /\ CanCall(t)
    /\ pipe' = Written
    /\ UNCHANGED <<ring, head, tail, pc, mpc, calls, accepted, started>>

\* select() reports the pipe, and it is the first descriptor with something to do.
SelectPipe ==
    /\ mpc = "poll" /\ pipe > 0
    /\ mpc' = "read"
    /\ UNCHANGED <<ring, head, tail, pipe, pc, calls, accepted, started>>

\* fl_wait calls back for something else: "other", or "before", when it comes
\* before the pipe in the array and select() has reported both.
CallOther ==
    /\ mpc = "poll"
    /\ \E k \in {"other"} \cup {b \in {"before"} : pipe > 0} : calls' = Append(calls, k)
    /\ mpc' = "call"
    /\ UNCHANGED <<ring, head, tail, pipe, pc, accepted, started>>

\* A nested fl_wait that times out.
PollReturns ==
    /\ mpc = "poll" /\ pipe = 0 /\ calls # <<>>
    /\ mpc' = "call"
    /\ UNCHANGED <<ring, head, tail, pipe, pc, calls, accepted, started>>

\* thread_awake_cb reads one pointer.  It blocks if there is none any more,
\* because a nested fl_wait has read it.
ReadPipe ==
    /\ mpc = "read" /\ pipe > 0
    /\ pipe' = pipe - 1
    /\ mpc' = "drain"
    /\ UNCHANGED <<ring, head, tail, pc, calls, accepted, started>>

\* Mutant: the tail is advanced before the slot is read.
TakeAfterIncrement ==
    /\ mpc = "drain" /\ ~Empty
    /\ started' = ring[Succ(tail)]
    /\ tail' = Succ(tail)
    /\ calls' = Append(calls, "handler")
    /\ mpc' = "call"
    /\ UNCHANGED <<ring, head, pipe, pc, accepted>>

\* Mutant: the newest handler is taken, as the function's comment says.
TakeNewest ==
    /\ mpc = "drain" /\ ~Empty
    /\ LET last == IF head = 0 THEN RingSize - 1 ELSE head - 1 IN
         started' = ring[last] /\ head' = last
    /\ calls' = Append(calls, "handler")
    /\ mpc' = "call"
    /\ UNCHANGED <<ring, tail, pipe, pc, accepted>>

\* get_awake_handler_ returns 0: the handler is called.
TakeHandler ==
    /\ mpc = "drain" /\ ~Empty
    /\ started' = ring[tail]
    /\ tail' = Succ(tail)
    /\ calls' = Append(calls, "handler")
    /\ mpc' = "call"
    /\ UNCHANGED <<ring, head, pipe, pc, accepted>>

\* Where fl_wait returns to: the callback that called Fl::wait(), or Fl::run(),
\* which calls it again.
Caller(stack) == IF stack = <<>> THEN "poll" ELSE "call"

\* get_awake_handler_ returns -1: thread_awake_cb and fl_wait return.
RingDrained ==
    /\ mpc = "drain" /\ Empty
    /\ mpc' = Caller(calls)
    /\ UNCHANGED <<ring, head, tail, pipe, pc, calls, accepted, started>>

\* The callback returns: a handler to the loop of thread_awake_cb, one that came
\* before the pipe to fl_wait's loop, which turns to the pipe.
CallbackReturns ==
    /\ mpc = "call" /\ pc[Main] = "idle"
    /\ calls' = Front(calls)
    /\ mpc' = CASE Last(calls) = "handler" -> "drain"
                 [] Last(calls) = "before" -> "read"
                 [] Last(calls) = "other" -> Caller(Front(calls))
    /\ UNCHANGED <<ring, head, tail, pipe, pc, accepted, started>>

\* The callback calls Fl::wait().
CallbackWaits ==
    /\ mpc = "call" /\ pc[Main] = "idle"
    /\ Len(calls) <= MaxNest
    /\ mpc' = "poll"
    /\ UNCHANGED <<ring, head, tail, pipe, pc, calls, accepted, started>>

MainStep == SelectPipe \/ PollReturns \/ ReadPipe \/ TakeHandler \/ RingDrained
Callback == CallOther \/ CallbackReturns \/ CallbackWaits

Next ==
    \/ \E t \in Callers : Register(t) \/ Wake(t) \/ Post(t)
    \/ MainStep
    \/ Callback

\* The scheduler runs every thread that can run, callbacks return, and select()
\* reports the pipe although other events keep coming.
Fairness ==
    /\ \A t \in Callers : WF_vars(Wake(t))
    /\ WF_vars(MainStep)
    /\ SF_vars(SelectPipe)
    /\ SF_vars(CallbackReturns)

Spec == Init /\ [][Next]_vars
FairSpec == Spec /\ Fairness

-----------------------------------------------------------------------------
(* Properties *)

\* Types: awake_ring_head_ and awake_ring_tail_ stay inside the ring across
\* every wrap, and a callback is on the stack while one is being called.
TypeOK ==
    /\ ring \in [Slots -> Nat]
    /\ head \in Slots /\ tail \in Slots
    /\ pipe \in 0 .. PipeCap
    /\ pc \in [Callers -> {"idle", "wake"}]
    /\ mpc \in {"poll", "read", "drain", "call"}
    /\ calls \in Seq({"handler", "before", "other"})
    /\ mpc = "call" => calls # <<>>
    /\ accepted \in Nat /\ started \in Nat

\* Slot i places after the tail, and the number of handlers in the ring.
Slot(i) == IF tail + i < RingSize THEN tail + i ELSE tail + i - RingSize
Distance(from, to) == IF from <= to THEN to - from ELSE to + RingSize - from
InRing == Distance(tail, head)

\* No accepted handler is lost (add_awake_handler_ / get_awake_handler_): the
\* ring holds exactly the handlers accepted and not yet called, oldest first.
NoHandlerLost ==
    /\ InRing + started = accepted
    /\ \A i \in 0 .. InRing - 1 : ring[Slot(i)] = started + 1 + i

\* No handler waits unnoticed: whenever the main thread, at any depth, is about
\* to block in select(), or in read(), while the ring is not empty, there is a
\* pointer in the pipe or a caller about to write one.  Dropped writes and nested
\* loops, which read one pointer for several handlers, are what could break it.
NoStrandedHandler ==
    mpc \in {"poll", "read"} /\ ~Empty => pipe > 0 \/ \E t \in Callers : pc[t] = "wake"

\* Every handler awake() accepted is called in the end ("called by the main
\* thread during the next message handling cycle").
EveryHandlerRuns ==
    \A n \in 1 .. MaxAwakes : (accepted >= n) ~> (started >= n)

-----------------------------------------------------------------------------
(* Refinement: while registrations stay within the ring, it is a queue,     *)
(* first in, first out.  (The comment on get_awake_handler_, which "gets    *)
(* the last stored awake handler", describes TakeNewest instead: last in,   *)
(* first out.)                                                              *)

Queue == INSTANCE AwakeQueue WITH
    queue <- [i \in 1 .. InRing |-> ring[Slot(i - 1)]],
    delivered <- started

QueueSpec == Queue!FairSpec
=============================================================================
