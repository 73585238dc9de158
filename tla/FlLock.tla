------------------------------- MODULE FlLock -------------------------------
(***************************************************************************)
(* Fl::lock() and Fl::unlock() where the system has no recursive mutex:    *)
(* lock_function_std and unlock_function_std of src/fltk/src/Fl_lock.cxx,  *)
(* which build one from a plain mutex, an owner and a counter, and the     *)
(* event loop of the main thread, which gives the lock up while it polls   *)
(* (fl_wait in src/fltk/src/Fl_x.cxx).                                     *)
(*                                                                         *)
(* lock_function_std reads counter and owner before it holds the mutex, so *)
(* each of its reads and writes is a step of its own here.                 *)
(***************************************************************************)
EXTENDS Naturals

CONSTANTS
    Threads,      \* all threads that call Fl::lock()
    Main,         \* the thread that runs the event loop
    NoThread,     \* owner before anyone has locked
    MaxDepth,     \* bound: nested Fl::lock() calls of a worker
    MaxMainDepth  \* bound: nested Fl::lock() calls of the main thread

ASSUME LockAssumption ==
    /\ Main \in Threads /\ NoThread \notin Threads
    /\ MaxDepth \in Nat /\ MaxMainDepth \in Nat

VARIABLES
    mutex,    \* holder of fltk_mutex, or NoThread
    owner,    \* owner
    counter,  \* counter
    pc,       \* where each thread is, "run" outside the two functions
    depth,    \* Fl::lock() calls a thread has returned from and not undone
    inWait    \* Main is inside fl_wait, between its unlock and its lock

lockVars == <<mutex, owner, counter, pc, depth, inWait>>

Locations == {"run", "testCounter", "testOwner", "acquire", "setOwner",
              "increment", "decrement", "release", "poll"}

Bound(t) == IF t = Main THEN MaxMainDepth ELSE MaxDepth

LockInit ==
    /\ mutex = NoThread /\ owner = NoThread /\ counter = 0
    /\ pc = [t \in Threads |-> "run"]
    /\ depth = [t \in Threads |-> 0]
    /\ inWait = FALSE

Goto(t, from, to) == pc[t] = from /\ pc' = [pc EXCEPT ![t] = to]

-----------------------------------------------------------------------------
(* lock_function_std *)

Lock(t) ==
    /\ depth[t] < Bound(t)
    /\ Goto(t, "run", "testCounter")
    /\ UNCHANGED <<mutex, owner, counter, depth, inWait>>

\* Mutant: a locked lock is taken to be this thread's own.
TestCounterOnly(t) ==
    /\ Goto(t, "testCounter", IF counter = 0 THEN "acquire" ELSE "increment")
    /\ UNCHANGED <<mutex, owner, counter, depth, inWait>>

\* Mutant: a thread waits for the counter to drop, its own calls included.
TestCounterSpins(t) ==
    /\ Goto(t, "testCounter", IF counter = 0 THEN "acquire" ELSE "testCounter")
    /\ UNCHANGED <<mutex, owner, counter, depth, inWait>>

\* !counter
TestCounter(t) ==
    /\ Goto(t, "testCounter", IF counter = 0 THEN "acquire" ELSE "testOwner")
    /\ UNCHANGED <<mutex, owner, counter, depth, inWait>>

\* owner != pthread_self()
TestOwner(t) ==
    /\ Goto(t, "testOwner", IF owner = t THEN "increment" ELSE "acquire")
    /\ UNCHANGED <<mutex, owner, counter, depth, inWait>>

\* pthread_mutex_lock(&fltk_mutex)
Acquire(t) ==
    /\ mutex = NoThread
    /\ mutex' = t
    /\ Goto(t, "acquire", "setOwner")
    /\ UNCHANGED <<owner, counter, depth, inWait>>

\* owner = pthread_self()
SetOwner(t) ==
    /\ owner' = t
    /\ Goto(t, "setOwner", "increment")
    /\ UNCHANGED <<mutex, counter, depth, inWait>>

\* counter++; the function returns (in fl_wait too, which then goes on).
Increment(t) ==
    /\ counter' = counter + 1
    /\ Goto(t, "increment", "run")
    /\ depth' = [depth EXCEPT ![t] = @ + 1]
    /\ inWait' = IF t = Main THEN FALSE ELSE inWait
    /\ UNCHANGED <<mutex, owner>>

-----------------------------------------------------------------------------
(* unlock_function_std, and the part of fl_wait around poll() *)

Unlock(t) ==
    /\ depth[t] > 0
    /\ Goto(t, "run", "decrement")
    /\ UNCHANGED <<mutex, owner, counter, depth, inWait>>

\* fl_wait: fl_unlock_function() before poll().
BeginPoll ==
    /\ depth[Main] > 0
    /\ Goto(Main, "run", "decrement")
    /\ inWait' = TRUE
    /\ UNCHANGED <<mutex, owner, counter, depth>>

Returned(t) == IF t = Main /\ inWait THEN "poll" ELSE "run"

\* Mutant: the mutex is released whatever the counter says.
DecrementAlways(t) ==
    /\ counter' = counter - 1
    /\ depth' = [depth EXCEPT ![t] = @ - 1]
    /\ Goto(t, "decrement", "release")
    /\ UNCHANGED <<mutex, owner, inWait>>

\* !--counter
Decrement(t) ==
    /\ counter' = counter - 1
    /\ depth' = [depth EXCEPT ![t] = @ - 1]
    /\ Goto(t, "decrement", IF counter = 1 THEN "release" ELSE Returned(t))
    /\ UNCHANGED <<mutex, owner, inWait>>

\* pthread_mutex_unlock(&fltk_mutex)
Release(t) ==
    /\ mutex' = NoThread
    /\ Goto(t, "release", Returned(t))
    /\ UNCHANGED <<owner, counter, depth, inWait>>

\* poll() returns; fl_lock_function().
EndPoll ==
    /\ Goto(Main, "poll", "testCounter")
    /\ UNCHANGED <<mutex, owner, counter, depth, inWait>>

-----------------------------------------------------------------------------
\* The steps of a thread once it is inside one of the two functions.
Step(t) ==
    \/ TestCounter(t) \/ TestOwner(t) \/ Acquire(t) \/ SetOwner(t)
    \/ Increment(t) \/ Decrement(t) \/ Release(t)

LockNext ==
    \/ \E t \in Threads : Lock(t) \/ Unlock(t) \/ Step(t)
    \/ BeginPoll \/ EndPoll

\* Threads are scheduled, every thread undoes its outermost Fl::lock() in the
\* end, poll() returns, and the mutex does not starve a thread that keeps asking.
LockFairness ==
    /\ \A t \in Threads : /\ WF_lockVars(Step(t))
                          /\ SF_lockVars(Acquire(t))
                          /\ WF_lockVars(Unlock(t))
                          /\ SF_lockVars(depth[t] = 1 /\ Unlock(t))
    /\ WF_lockVars(EndPoll)

LockSpec == LockInit /\ [][LockNext]_lockVars
FairLockSpec == LockSpec /\ LockFairness

-----------------------------------------------------------------------------
(* Properties *)

\* Types: counter never goes below 0.
LockTypeOK ==
    /\ mutex \in Threads \cup {NoThread}
    /\ owner \in Threads \cup {NoThread}
    /\ counter \in Nat
    /\ pc \in [Threads -> Locations]
    /\ depth \in [Threads -> Nat]
    /\ inWait \in BOOLEAN

\* Fl::lock() excludes: two threads are never both between the return of
\* lock() and the matching unlock() (lock_function_std).
MutualExclusion ==
    \A t, u \in Threads : depth[t] > 0 /\ depth[u] > 0 => t = u

\* The counter is what the owner's nested calls add up to, and the mutex is
\* released exactly at the last unlock, by the thread that holds it.
ReleasedByHolder ==
    /\ \A t \in Threads : pc[t] = "release" => mutex = t /\ depth[t] = 0
    /\ \A t \in Threads : depth[t] > 0 => mutex = t
    /\ mutex = NoThread => counter = 0

\* A thread that asks for the lock gets it.
EveryLockGranted ==
    \A t \in Threads : (pc[t] = "testCounter") ~> (pc[t] = "run" /\ depth[t] > 0)
=============================================================================
