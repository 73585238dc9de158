---------------------------- MODULE IdleService -----------------------------
(***************************************************************************)
(* What Fl::add_idle promises, without the ring: a bag of callbacks, one   *)
(* of which is called at a time, never inside another one, for as long as  *)
(* there is any.                                                           *)
(***************************************************************************)
EXTENDS Naturals

CONSTANTS Cbs, NoCb

VARIABLES
    count,    \* how often each callback is installed
    running   \* the callback that is being called, or NoCb

Init == count = [c \in Cbs |-> 0] /\ running = NoCb

Install(c) == count' = [count EXCEPT ![c] = @ + 1] /\ UNCHANGED running

Uninstall(c) ==
    /\ count[c] > 0
    /\ count' = [count EXCEPT ![c] = @ - 1]
    /\ UNCHANGED running

Call(c) == running = NoCb /\ count[c] > 0 /\ running' = c /\ UNCHANGED count

Return == running # NoCb /\ running' = NoCb /\ UNCHANGED count

Next == Return \/ \E c \in Cbs : Install(c) \/ Uninstall(c) \/ Call(c)

Spec == Init /\ [][Next]_<<count, running>>
=============================================================================
