----------------------------- MODULE AwakeQueue -----------------------------
(***************************************************************************)
(* What Fl::awake(func, data) promises: a first-in first-out queue of      *)
(* handlers, each called once by the main thread.  Handlers are named by   *)
(* their serial number.                                                    *)
(***************************************************************************)
EXTENDS Naturals, Sequences

VARIABLES
    queue,      \* handlers accepted and not yet called
    accepted,   \* number of handlers accepted so far
    delivered   \* the last handler called

vars == <<queue, accepted, delivered>>

Init == queue = <<>> /\ accepted = 0 /\ delivered = 0

Accept ==
    /\ accepted' = accepted + 1
    /\ queue' = Append(queue, accepted + 1)
    /\ UNCHANGED delivered

Deliver ==
    /\ queue # <<>>
    /\ delivered' = Head(queue)
    /\ queue' = Tail(queue)
    /\ UNCHANGED accepted

Next == Accept \/ Deliver

Spec == Init /\ [][Next]_vars
FairSpec == Spec /\ WF_vars(Deliver)
=============================================================================
