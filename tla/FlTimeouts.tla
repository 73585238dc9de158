----------------------------- MODULE FlTimeouts -----------------------------
(***************************************************************************)
(* FLTK's timeouts on X11 (src/fltk/src/Fl.cxx): the sorted list of        *)
(* pending timeouts, the clock that is read only when there is one, and    *)
(* the part of Fl::wait() that calls what has expired and decides how long *)
(* to sleep.  Callbacks may add, repeat and remove timeouts and call       *)
(* Fl::wait() themselves.                                                  *)
(*                                                                         *)
(* Time is counted in whole units.  The times in the list are relative to  *)
(* prevclock, the last reading of the clock; lag is how long ago that was. *)
(* Every entry also carries "due", the true time left until the moment the *)
(* program asked for, which the code does not know.                        *)
(***************************************************************************)
EXTENDS Integers, Sequences, SequencesExt, Lists

CONSTANTS
    Args,           \* arguments of the timeout callback; they tell entries apart
    AnyArg,         \* the null argument, which removes every timeout
    Delays,         \* delays programs ask for
    MaxList,        \* bound: pending timeouts
    MaxLag,         \* bound: time between two readings of the clock
    MaxLate,        \* bound: how late a timeout may be
    MaxTimeoutNest         \* bound: timeout callbacks on the stack

ASSUME TimeoutsAssumption ==
    /\ Delays \subseteq Nat
    /\ {MaxList, MaxLag, MaxLate, MaxTimeoutNest} \subseteq Nat
    /\ AnyArg \notin Args

VARIABLES
    busy,        \* whether the program's timeout callbacks take time, call
                 \* Fl::wait(), or ask for timeouts without delay
    list,        \* first_timeout and what follows it
    lag,         \* now - prevclock
    resetClock,  \* reset_clock
    missed,      \* missed_timeout_by
    tpc,          \* "user": program code, "loop" and "sleep": inside Fl::wait()
    tdepth,       \* timeout callbacks on the stack
    called,      \* the argument of the last callback
    wakeAt       \* the lag at which the system call gives up waiting

timeoutsVars == <<busy, list, lag, resetClock, missed, tpc, tdepth, called, wakeAt>>

TimeoutsInit ==
    /\ busy \in BOOLEAN
    /\ list = <<>> /\ lag = 0 /\ resetClock = TRUE /\ missed = 0
    /\ tpc = "user" /\ tdepth = 0 /\ called = AnyArg /\ wakeAt = 0

\* Mutant: prevclock keeps its old value.
ElapseKeepsClock ==
    /\ lag' = lag
    /\ resetClock' = FALSE

\* Mutant: the flag is never cleared.
ElapseStaysReset ==
    /\ lag' = 0
    /\ UNCHANGED resetClock

\* elapse_timeouts() on the clock...
ReadClock ==
    /\ lag' = 0
    /\ resetClock' = FALSE

\* ... and on the list.
Elapsed == IF resetClock THEN list
           ELSE [i \in DOMAIN list |-> [list[i] EXCEPT !.left = @ - lag]]

\* Mutant: the new timeout goes after all others.
InsertedLast(l, e) == Append(l, e)

\* The insertion in repeat_timeout: after every entry that is not later.
Inserted(l, e) ==
    LET p == CHOOSE i \in 1 .. Len(l) + 1 :
                /\ \A j \in 1 .. i - 1 : l[j].left <= e.left
                /\ i <= Len(l) => l[i].left > e.left
    IN  InsertAt(l, p, e)

\* time += missed_timeout_by; if (time < -.05) time = 0
Corrected(t) == IF t + missed < 0 THEN 0 ELSE t + missed

-----------------------------------------------------------------------------
(* What the program does, inside timeout callbacks or outside *)

\* The delays it asks for there.  A callback that asks for 0 is called again by
\* the same loop of Fl::wait().
Asks(t) == t \in Delays /\ (t = 0 /\ tdepth > 0 => busy)

\* Fl::add_timeout
AddTimeout(t, a) ==
    /\ tpc = "user" /\ Len(list) < MaxList /\ Asks(t)
    /\ ReadClock
    /\ list' = Inserted(Elapsed, [left |-> Corrected(t), due |-> t, arg |-> a, rep |-> FALSE])
    /\ UNCHANGED <<busy, missed, tpc, tdepth, called, wakeAt>>

\* Fl::repeat_timeout, which may only be called in a timeout callback.  What
\* is asked for is t after the expiration of the last timeout called.
RepeatTimeout(t, a) ==
    /\ tpc = "user" /\ tdepth > 0 /\ Len(list) < MaxList /\ Asks(t)
    /\ list' = Inserted(list, [left |-> Corrected(t), due |-> t + missed - lag,
                               arg |-> a, rep |-> TRUE])
    /\ UNCHANGED <<busy, lag, resetClock, missed, tpc, tdepth, called, wakeAt>>

\* Fl::remove_timeout: all matching timeouts.
RemoveTimeout(a) ==
    /\ tpc = "user" /\ list # <<>>
    /\ list' = Keep(list, {x \in Range(list) : ~(x.arg = a \/ a = AnyArg)})
    /\ UNCHANGED <<busy, lag, resetClock, missed, tpc, tdepth, called, wakeAt>>

\* The timeout callback returns to the loop in Fl::wait() that called it.
TimeoutReturns ==
    /\ tpc = "user" /\ tdepth > 0
    /\ tdepth' = tdepth - 1
    /\ tpc' = "loop"
    /\ UNCHANGED <<busy, list, lag, resetClock, missed, called, wakeAt>>

-----------------------------------------------------------------------------
(* Fl::wait() *)

\* The clock is read if there is a timeout.
CheckClock ==
    IF list # <<>>
      THEN ReadClock /\ list' = Elapsed
      ELSE resetClock' = TRUE /\ UNCHANGED <<list, lag>>

\* The program calls Fl::wait().
EnterWait ==
    /\ tpc = "user" /\ tdepth < MaxTimeoutNest /\ (tdepth > 0 => busy)
    /\ CheckClock
    /\ tpc' = "loop"
    /\ UNCHANGED <<busy, missed, tdepth, called, wakeAt>>

\* The program calls Fl::ready(), which calls nothing.
Ready ==
    /\ tpc = "user"
    /\ CheckClock
    /\ UNCHANGED <<busy, missed, tpc, tdepth, called, wakeAt>>

\* The test of the loop.
Expired(e) == e.left <= 0

\* Mutant: the error is recorded only when the timeout is late.
FireFirstKeepsError ==
    /\ tpc = "loop" /\ list # <<>>
    /\ Expired(list[1])
    /\ missed' = IF list[1].left < 0 THEN list[1].left ELSE missed
    /\ list' = Tail(list)
    /\ tpc' = "user" /\ tdepth' = tdepth + 1 /\ called' = list[1].arg
    /\ UNCHANGED <<busy, lag, resetClock, wakeAt>>

\* The first timeout has expired: it leaves the list and is called.
FireFirst ==
    /\ tpc = "loop" /\ list # <<>>
    /\ Expired(list[1])
    /\ missed' = list[1].left
    /\ list' = Tail(list)
    /\ tpc' = "user" /\ tdepth' = tdepth + 1 /\ called' = list[1].arg
    /\ UNCHANGED <<busy, lag, resetClock, wakeAt>>

\* time_to_wait, when the caller asks for w.
SleepFor(w) == IF list # <<>> /\ list[1].left < w THEN list[1].left ELSE w

\* Nothing (more) has expired: Fl::wait() calls fl_wait().  The caller wants
\* no wait at all (Fl::check(), idle callbacks) or an endless one (Fl::run()).
Sleep(w) ==
    /\ tpc = "loop" /\ (list # <<>> => ~Expired(list[1]))
    /\ tpc' = "sleep"
    /\ wakeAt' = lag + SleepFor(w)
    /\ UNCHANGED <<busy, list, lag, resetClock, missed, tdepth, called>>

\* fl_wait() returns because the time is over ...
SleepTimesOut ==
    /\ tpc = "sleep" /\ lag >= wakeAt
    /\ tpc' = "user" /\ wakeAt' = 0
    /\ UNCHANGED <<busy, list, lag, resetClock, missed, tdepth, called>>

\* ... or because something happened.
EventArrives ==
    /\ tpc = "sleep" /\ lag < wakeAt
    /\ tpc' = "user" /\ wakeAt' = 0
    /\ UNCHANGED <<busy, list, lag, resetClock, missed, tdepth, called>>

-----------------------------------------------------------------------------

\* One unit of time passes, in the program or in the system call.
Tick ==
    /\ tpc = "sleep" \/ (tpc = "user" /\ (tdepth > 0 => busy))
    /\ lag < MaxLag /\ (tpc = "sleep" => lag < wakeAt)
    /\ \A i \in DOMAIN list : list[i].left - lag > -MaxLate /\ list[i].due > -2 * MaxLate
    /\ lag' = lag + 1
    /\ list' = [i \in DOMAIN list |-> [list[i] EXCEPT !.due = @ - 1]]
    /\ UNCHANGED <<busy, resetClock, missed, tpc, tdepth, called, wakeAt>>

WaitStep == EnterWait \/ FireFirst \/ (\E w \in {0, MaxLag} : Sleep(w)) \/ SleepTimesOut

TimeoutsNext ==
    \/ \E t \in Delays, a \in Args : AddTimeout(t, a) \/ RepeatTimeout(t, a)
    \/ \E a \in Args \cup {AnyArg} : RemoveTimeout(a)
    \/ TimeoutReturns \/ Ready \/ WaitStep \/ EventArrives \/ Tick

\* The program calls Fl::wait() again and again, callbacks return, and time
\* goes by, however often the program polls.
TimeoutsSpec ==
    /\ TimeoutsInit /\ [][TimeoutsNext]_timeoutsVars
    /\ WF_timeoutsVars(WaitStep) /\ WF_timeoutsVars(TimeoutReturns) /\ SF_timeoutsVars(Tick)

-----------------------------------------------------------------------------
(* Properties *)

\* The first timeout is the next to expire, as Fl::wait() takes for granted:
\* the list stays sorted whatever corrections and clock readings come between
\* two insertions.
SortedList == \A i, j \in DOMAIN list : i < j => list[i].left <= list[j].left

\* How long until Fl::wait() would call the entry.
Remaining(e) == e.left - (IF resetClock THEN 0 ELSE lag)

\* repeat_timeout(t) never fires sooner than t after the expiration of the
\* last timeout called, also when waits are nested and callbacks take time.
RepeatNotEarly == \A i \in DOMAIN list : list[i].rep => list[i].due <= Remaining(list[i])

\* A call of Fl::wait() comes to an end, although callbacks keep adding and
\* repeating timeouts from inside it, as long as they take no time themselves
\* and every delay they ask for is positive: a callback that does
\* add_timeout(0) or repeat_timeout(0) is called for ever by one Fl::wait().
WaitReturns == (~busy /\ tpc = "loop") ~> tpc = "sleep"

\* Every timeout is called in the end, unless the program removes it, in the
\* same programs (others may be kept busy by other timeouts).
Pending(a) == \E i \in DOMAIN list : list[i].arg = a
TimeoutCalled ==
    \A a \in Args : (~busy /\ Pending(a)) ~> (~Pending(a) \/ (tpc = "user" /\ tdepth > 0 /\ called = a))
=============================================================================
