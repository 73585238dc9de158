------------------------------- MODULE FlIdle -------------------------------
(***************************************************************************)
(* FLTK's idle callbacks (src/fltk/src/Fl_add_idle.cxx and the part of     *)
(* Fl::wait() in src/fltk/src/Fl.cxx that calls them), pointer by pointer: *)
(* the callbacks are linked in a ring, last->next == first, and the ring   *)
(* is turned by one with every call.                                       *)
(***************************************************************************)
EXTENDS Naturals, FiniteSets

CONSTANTS
    IdleCbs,      \* (callback, data) pairs
    IdleNodes,    \* memory for idle_cb; bounds how many there are
    Nil

ASSUME IdleAssumption ==
    Nil \notin IdleNodes \cup IdleCbs /\ IsFiniteSet(IdleNodes)

VARIABLES
    removeOthers,  \* FALSE: the program installs a callback once, and only the
                   \* callback removes itself, before it adds others
    first, last, freelist,  \* the static pointers
    link,    \* p->next
    idleCb,  \* p->cb with p->data
    idle,    \* Fl::idle is call_idle
    inIdle,  \* in_idle
    running  \* history: the callback that is being called

idleVars == <<removeOthers, first, last, freelist, link, idleCb, idle, inIdle, running>>

IdleInit ==
    /\ removeOthers \in BOOLEAN
    /\ first = Nil /\ last = Nil /\ freelist = Nil
    /\ link = [n \in IdleNodes |-> Nil] /\ idleCb = [n \in IdleNodes |-> Nil]
    /\ idle = FALSE /\ inIdle = FALSE /\ running = Nil

-----------------------------------------------------------------------------

\* The walk first, first->next, ... that has_idle and remove_idle make.
Walk[i \in 1 .. Cardinality(IdleNodes)] == IF i = 1 THEN first ELSE link[Walk[i - 1]]
RingSize == IF first = Nil THEN 0
            ELSE CHOOSE i \in 1 .. Cardinality(IdleNodes) :
                    Walk[i] = last /\ \A j \in 1 .. i - 1 : Walk[j] # last
RingNodes == {Walk[i] : i \in 1 .. RingSize}
Installed(c) == Cardinality({n \in RingNodes : idleCb[n] = c})

\* The node add_idle uses: a freed one, or memory never used before.
IsNewIdle(p) == IF freelist # Nil THEN p = freelist ELSE p \in IdleNodes /\ idleCb[p] = Nil

\* Mutant: the new node closes the ring but the old last node does not lead
\* to it.
LinkedLate(p) == IF first # Nil THEN [link EXCEPT ![p] = first] ELSE [link EXCEPT ![p] = p]

\* The links of add_idle: the new node comes after last and before first.
Linked(p) == IF first # Nil THEN [link EXCEPT ![last] = p, ![p] = first]
                             ELSE [link EXCEPT ![p] = p]

\* Mutant: the new node becomes the next one to call.
AddIdleFirst(p, c) ==
    /\ IsNewIdle(p) /\ (removeOthers \/ Installed(c) = 0)
    /\ freelist' = IF freelist # Nil THEN link[p] ELSE Nil
    /\ idleCb' = [idleCb EXCEPT ![p] = c]
    /\ link' = Linked(p)
    /\ first' = p
    /\ last' = IF first = Nil THEN p ELSE last
    /\ idle' = IF first = Nil THEN TRUE ELSE idle
    /\ UNCHANGED <<removeOthers, inIdle, running>>

\* Fl::add_idle
AddIdle(p, c) ==
    /\ IsNewIdle(p) /\ (removeOthers \/ Installed(c) = 0)
    /\ freelist' = IF freelist # Nil THEN link[p] ELSE Nil
    /\ idleCb' = [idleCb EXCEPT ![p] = c]
    /\ link' = Linked(p)
    /\ first' = IF first = Nil THEN p ELSE first
    /\ last' = p
    /\ idle' = IF first = Nil THEN TRUE ELSE idle   \* set_idle(call_idle)
    /\ UNCHANGED <<removeOthers, inIdle, running>>

\* Position i is the first with callback c, if there is one.
Finds(i, c) == idleCb[Walk[i]] = c /\ \A j \in 1 .. i - 1 : idleCb[Walk[j]] # c

\* Mutant: l starts at first, so the first node is taken for the only one.
BeforeFirst(i) == IF i = 1 THEN first ELSE Walk[i - 1]

\* The pointer l of remove_idle when the node at position i is found.
NodeBefore(i) == IF i = 1 THEN last ELSE Walk[i - 1]

\* set_idle(0) when the last callback goes.
IdleAfterRemoval(l, p) == IF l = p THEN FALSE ELSE idle

\* Fl::remove_idle of an installed callback.
RemoveIdle(c) ==
    /\ first # Nil /\ (removeOthers \/ (running = c /\ idleCb[last] = c))
    /\ \E i \in 1 .. RingSize :
         LET p == Walk[i]
             l == NodeBefore(i) IN
         /\ Finds(i, c)
         /\ IF l = p THEN first' = Nil /\ last' = Nil
                     ELSE first' = link[p] /\ last' = l
         /\ link' = [n \in IdleNodes |-> IF n = p THEN freelist
                                     ELSE IF n = l THEN link[p] ELSE link[n]]
         /\ idle' = IdleAfterRemoval(l, p)
         /\ freelist' = p
    /\ UNCHANGED <<removeOthers, idleCb, inIdle, running>>

\* Fl::wait() calls call_idle(), unless it is called from an idle callback.
CallIdle ==
    /\ idle /\ ~inIdle
    /\ inIdle' = TRUE
    /\ last' = first /\ first' = link[first]
    /\ running' = idleCb[first]
    /\ UNCHANGED <<removeOthers, freelist, link, idleCb, idle>>

\* The callback returns to call_idle() and this to Fl::wait().
CallbackReturns ==
    /\ inIdle
    /\ inIdle' = FALSE /\ running' = Nil
    /\ UNCHANGED <<removeOthers, first, last, freelist, link, idleCb, idle>>

IdleNext ==
    \/ \E c \in IdleCbs : RemoveIdle(c) \/ \E p \in IdleNodes : AddIdle(p, c)
    \/ CallIdle \/ CallbackReturns

\* The program keeps calling Fl::wait() and idle callbacks return.
IdleSpec == IdleInit /\ [][IdleNext]_idleVars /\ WF_idleVars(CallIdle) /\ WF_idleVars(CallbackReturns)

-----------------------------------------------------------------------------
(* Properties *)

Free[i \in 1 .. Cardinality(IdleNodes)] ==
    IF i = 1 THEN freelist ELSE IF Free[i - 1] = Nil THEN Nil ELSE link[Free[i - 1]]
FreeNodes == {Free[i] : i \in 1 .. Cardinality(IdleNodes)} \ {Nil}

\* The pointers make one ring, closed at last, after any sequence of adds,
\* removals and calls: the walk from first reaches last and visits each node
\* once, and none of its nodes is on the free list.  call_idle() is installed
\* exactly while there is something to call: it would follow a null pointer, or
\* Fl::wait() would never call the callbacks.
OneRing ==
    /\ {first, last, freelist} \subseteq IdleNodes \cup {Nil}
    /\ link \in [IdleNodes -> IdleNodes \cup {Nil}] /\ idleCb \in [IdleNodes -> IdleCbs \cup {Nil}]
    /\ (first = Nil) <=> (last = Nil)
    /\ idle <=> first # Nil
    /\ first # Nil =>
          /\ \E i \in 1 .. Cardinality(IdleNodes) : Walk[i] = last
          /\ link[last] = first
          /\ Cardinality(RingNodes) = RingSize
    /\ RingNodes \cap FreeNodes = {}
    /\ Cardinality(RingNodes) + Cardinality(FreeNodes) = Cardinality({n \in IdleNodes : idleCb[n] # Nil})

\* The ring does what a bag of callbacks would: nothing is lost, doubled or
\* called that is not installed.
Service == INSTANCE IdleService WITH Cbs <- IdleCbs, NoCb <- Nil,
                                     count <- [c \in IdleCbs |-> Installed(c)]
Implements == Service!Spec

\* "... a callback function that is called every time by Fl::wait()": an idle
\* callback that stays installed is called again and again, in programs whose
\* callbacks only remove themselves (remove_idle turns the ring to the callback
\* after the removed one, so that removing others can pass one over for ever).
NoStarvation ==
    \A c \in IdleCbs : (~removeOthers /\ Installed(c) > 0) ~> (running = c \/ Installed(c) = 0)
=============================================================================
