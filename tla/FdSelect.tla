------------------------------ MODULE FdSelect ------------------------------
(***************************************************************************)
(* FLTK's file descriptors on X11 (src/fltk/src/Fl_x.cxx, built with       *)
(* USE_POLL 0): the array of callbacks, the sets and maxfd given to        *)
(* select(), and fl_wait(), which runs over the array while callbacks add  *)
(* and remove descriptors, or call Fl::wait() again.  select() is called   *)
(* without the lock; a worker thread that has the lock may change the      *)
(* array then.                                                             *)
(*                                                                         *)
(* Readiness is level-triggered: it stays until the callback of the        *)
(* descriptor reads or writes.                                             *)
(***************************************************************************)
EXTENDS Integers, Sequences, SequencesExt, Lists

CONSTANTS
    Fds,         \* file descriptors, small integers
    Events,      \* POLLIN, POLLOUT, POLLERR or some of them
    CalmEvents,  \* bound: the events of programs that are not free (see there)
    MaxWaitNest, \* bound: their calls of fl_wait() on the stack
    WorkerEvents \* bound: the events of the second thread's calls

ASSUME FdAssumption ==
    Fds \subseteq Nat /\ CalmEvents \subseteq Events /\ WorkerEvents \subseteq Events
    /\ MaxWaitNest \in Nat

VARIABLES
    free,     \* TRUE: the program has a second thread that adds and removes
              \* descriptors, and calls add_fd for what is registered already
    fd,       \* fd[0 .. nfds-1]: records with the descriptor and its events
    fdsets,   \* fdsets[e]: descriptors to watch for event e
    maxfd,
    frames,   \* calls of fl_wait(), innermost last: fdt, i and the descriptor called
    fdpc,     \* the main thread: "user", "unlocked", "select", "dispatch"
    limit,    \* the maxfd that was passed to select()
    worker,   \* what the second thread is adding or removing, or NoWork
    ready     \* ready[f]: the events descriptor f is ready for

fdVars == <<free, fd, fdsets, maxfd, frames, fdpc, limit, worker, ready>>

NoWork == [op |-> "none", fd |-> -1, events |-> {}]
Top == frames[Len(frames)]
Pop == SubSeq(frames, 1, Len(frames) - 1)

\* What the bounds allow this program.
Used == IF free THEN Events ELSE CalmEvents
Nesting == IF free THEN 1 ELSE MaxWaitNest

\* The descriptor whose callback is running, or -1.
Called == IF fdpc = "user" /\ frames # <<>> THEN Top.fd ELSE -1

EventSets == (SUBSET Used) \ {{}}

FdInit ==
    /\ free \in BOOLEAN
    /\ fd = <<>> /\ fdsets = [e \in Events |-> {}] /\ maxfd = 0
    /\ frames = <<>> /\ fdpc = "user" /\ limit = -1
    /\ worker = NoWork /\ ready = [f \in Fds |-> {}]

-----------------------------------------------------------------------------
(* add_fd and remove_fd *)

\* Mutant: a descriptor with any of the events is forgotten altogether.
RemovedAll(n, events) == SelectSeq(fd, LAMBDA x : x.fd # n \/ x.events \cap events = {})

\* The array after remove_fd: entries without events left are taken out and
\* the others move down.
Removed(n, events) ==
    LET less == [i \in DOMAIN fd |-> IF fd[i].fd = n THEN [fd[i] EXCEPT !.events = @ \ events] ELSE fd[i]]
    IN  Keep(less, {x \in Range(less) : x.events # {}})

\* maxfd, recalculated on the fly.
Highest(a) ==
    IF a = <<>> THEN -1
    ELSE CHOOSE m \in Fds : (\E i \in DOMAIN a : a[i].fd = m) /\ \A i \in DOMAIN a : a[i].fd <= m

\* FD_CLR
Cleared(n, events) == [e \in Events |-> IF e \in events THEN fdsets[e] \ {n} ELSE fdsets[e]]

\* Fl::remove_fd(n, events); with all events it is Fl::remove_fd(n).
DoRemove(n, events) ==
    /\ fd' = Removed(n, events)
    /\ fdsets' = Cleared(n, events)
    /\ maxfd' = Highest(Removed(n, events))

\* Fl::add_fd(n, events, ...)
DoAdd(n, events) ==
    LET rest == Removed(n, events) IN
    /\ fd' = Append(rest, [fd |-> n, events |-> events])
    /\ fdsets' = [e \in Events |-> IF e \in events THEN fdsets[e] \cup {n} ELSE fdsets[e]]
    /\ maxfd' = IF n > Highest(rest) THEN n ELSE Highest(rest)

Registered(n) == \E i \in DOMAIN fd : fd[i].fd = n

AddFd(n, events) ==
    /\ fdpc = "user" /\ (free \/ ~Registered(n))
    /\ DoAdd(n, events)
    /\ UNCHANGED <<free, frames, fdpc, limit, worker, ready>>

RemoveFd(n, events) ==
    /\ fdpc = "user"
    /\ DoRemove(n, events)
    /\ UNCHANGED <<free, frames, fdpc, limit, worker, ready>>

-----------------------------------------------------------------------------
(* The second thread, which has the lock while the main thread has not *)

\* remove_fd, and so add_fd, begins by setting maxfd to -1 ...
WorkerStarts(op, n, events) ==
    /\ free /\ fdpc \in {"unlocked", "select"} /\ worker = NoWork
    /\ maxfd' = -1
    /\ worker' = [op |-> op, fd |-> n, events |-> events]
    /\ UNCHANGED <<free, fd, fdsets, frames, fdpc, limit, ready>>

\* ... and ends with the new value.
WorkerDone ==
    /\ \/ worker.op = "remove" /\ DoRemove(worker.fd, worker.events)
       \/ worker.op = "add" /\ DoAdd(worker.fd, worker.events)
    /\ worker' = NoWork
    /\ UNCHANGED <<free, frames, fdpc, limit, ready>>

-----------------------------------------------------------------------------
(* fl_wait() *)

\* The sets are copied, the lock is given up ...
BeginSelect ==
    /\ fdpc = "user" /\ Len(frames) < Nesting
    /\ frames' = Append(frames, [fdt |-> fdsets, i |-> 1, fd |-> -1])
    /\ fdpc' = "unlocked"
    /\ UNCHANGED <<free, fd, fdsets, maxfd, limit, worker, ready>>

\* ... and select() is called.
CallSelect ==
    /\ fdpc = "unlocked"
    /\ limit' = maxfd
    /\ fdpc' = "select"
    /\ UNCHANGED <<free, fd, fdsets, maxfd, frames, worker, ready>>

\* What select() finds.
Result == [e \in Events |-> {f \in Top.fdt[e] : f <= limit /\ e \in ready[f]}]

\* select() found something; the main thread has to get the lock back.
SelectReturns ==
    /\ fdpc = "select" /\ worker = NoWork
    /\ \E e \in Events : Result[e] # {}
    /\ frames' = Append(Pop, [Top EXCEPT !.fdt = Result])
    /\ fdpc' = "dispatch" /\ limit' = -1
    /\ UNCHANGED <<free, fd, fdsets, maxfd, worker, ready>>

\* select() found nothing before the time was over, or was interrupted.
SelectTimesOut ==
    /\ fdpc = "select" /\ worker = NoWork
    /\ frames' = Pop
    /\ fdpc' = "user" /\ limit' = -1
    /\ UNCHANGED <<free, fd, fdsets, maxfd, worker, ready>>

\* fd[i].events & revents
Due(i) == \E e \in fd[i].events : fd[i].fd \in Top.fdt[e]

\* The loop: entry i is called if select() found it ready ...
CallEntry ==
    /\ fdpc = "dispatch" /\ Top.i <= Len(fd) /\ Due(Top.i)
    /\ frames' = Append(Pop, [Top EXCEPT !.fd = fd[Top.i].fd])
    /\ fdpc' = "user"
    /\ UNCHANGED <<free, fd, fdsets, maxfd, limit, worker, ready>>

\* Mutant: the loop starts over after a callback.
AgainFromStart == [Top EXCEPT !.i = 1, !.fd = -1]

\* i++
NextEntry == [Top EXCEPT !.i = @ + 1, !.fd = -1]

\* ... or passed over,
SkipEntry ==
    /\ fdpc = "dispatch" /\ Top.i <= Len(fd) /\ ~Due(Top.i)
    /\ frames' = Append(Pop, NextEntry)
    /\ UNCHANGED <<free, fd, fdsets, maxfd, fdpc, limit, worker, ready>>

\* the callback returns,
FdReturns ==
    /\ fdpc = "user" /\ frames # <<>>
    /\ frames' = Append(Pop, NextEntry)
    /\ fdpc' = "dispatch"
    /\ UNCHANGED <<free, fd, fdsets, maxfd, limit, worker, ready>>

\* and fl_wait() ends.
WaitEnds ==
    /\ fdpc = "dispatch" /\ Top.i > Len(fd)
    /\ frames' = Pop
    /\ fdpc' = "user"
    /\ UNCHANGED <<free, fd, fdsets, maxfd, limit, worker, ready>>

-----------------------------------------------------------------------------

\* Data arrives, or room to write.
BecomesReady(f, e) ==
    /\ e \in Used \ ready[f]
    /\ ready' = [ready EXCEPT ![f] = @ \cup {e}]
    /\ UNCHANGED <<free, fd, fdsets, maxfd, frames, fdpc, limit, worker>>

\* The callback of f reads what there is, or writes until there is no room.
Consumes(f) ==
    /\ fdpc = "user" /\ Called = f /\ ready[f] # {}
    /\ ready' = [ready EXCEPT ![f] = {}]
    /\ UNCHANGED <<free, fd, fdsets, maxfd, frames, fdpc, limit, worker>>

Waiting == BeginSelect \/ CallSelect \/ SelectReturns \/ CallEntry \/ SkipEntry \/ WaitEnds

FdNext ==
    \/ \E n \in Fds, events \in EventSets : AddFd(n, events) \/ RemoveFd(n, events)
    \/ \E n \in Fds, events \in (SUBSET WorkerEvents) \ {{}}, op \in {"add", "remove"} :
          WorkerStarts(op, n, events)
    \/ \E f \in Fds : Consumes(f) \/ \E e \in Events : BecomesReady(f, e)
    \/ Waiting \/ FdReturns \/ SelectTimesOut \/ WorkerDone

\* The program calls Fl::wait() again and again, callbacks return, a thread in
\* add_fd or remove_fd goes on, and select() reports what it sees.
FdSpec ==
    /\ FdInit /\ [][FdNext]_fdVars
    /\ WF_fdVars(Waiting) /\ SF_fdVars(SelectReturns) /\ WF_fdVars(WorkerDone)
    /\ \A d \in 1 .. MaxWaitNest : SF_fdVars(Len(frames) = d /\ FdReturns)

-----------------------------------------------------------------------------
(* Properties *)

\* select() is given exactly what is registered: the sets and maxfd follow the
\* array through every partial and complete removal, except that maxfd is 0
\* until add_fd or remove_fd is first called; and "there can only be one
\* callback of each type for a file descriptor".
SetsFollowArray ==
    /\ \A e \in Events :
          fdsets[e] = {f \in Fds : \E i \in DOMAIN fd : fd[i].fd = f /\ e \in fd[i].events}
    /\ worker = NoWork => maxfd = Highest(fd) \/ (fd = <<>> /\ maxfd = 0)
    /\ \A i, j \in DOMAIN fd : fd[i].fd = fd[j].fd /\ i # j => fd[i].events \cap fd[j].events = {}

\* "When the fd becomes ready for reading Fl::wait() will call the callback":
\* also when callbacks remove entries of the array the loop runs over, so that
\* others move past the index.  (A second thread in remove_fd or add_fd can hide every
\* descriptor from select(), and re-adding moves entries, so free is FALSE.)
Waits(f) == \E e \in Events : f \in fdsets[e] /\ e \in ready[f]
ReadyServed == \A f \in Fds : (~free /\ Waits(f)) ~> (Called = f \/ ~Waits(f))
=============================================================================
