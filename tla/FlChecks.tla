------------------------------ MODULE FlChecks ------------------------------
(***************************************************************************)
(* FLTK's check callbacks (src/fltk/src/Fl.cxx): Fl::wait() calls them all *)
(* before it flushes the display.  They may add and remove checks, and     *)
(* call Fl::wait(), which runs the checks again or not: next_check, one    *)
(* variable for all nested calls, decides.                                 *)
(*                                                                         *)
(* The linked lists are sequences of nodes; a node that leaves the list of *)
(* checks goes to the front of the free list and is the next to be reused. *)
(***************************************************************************)
EXTENDS Naturals, Sequences, SequencesExt, Lists

CONSTANTS
    Cbs,            \* (callback, argument) pairs
    Nodes,          \* memory for checks; bounds how many there are
    Null,
    MaxCheckNest    \* bound: check callbacks on the stack

ASSUME ChecksAssumption == Null \notin Nodes \cup Cbs /\ MaxCheckNest \in Nat

VARIABLES
    ops,     \* what the program's check callbacks do: add, remove, wait
    checks,  \* the nodes from first_check on
    next,    \* next_check
    freed,   \* the nodes from free_check on
    cb,      \* what each node calls
    cpc,     \* "user": program code, "loop": inside run_checks()
    cdepth,  \* check callbacks on the stack
    owed     \* history: checks of the outermost pass not called or removed yet

checksVars == <<ops, checks, next, freed, cb, cpc, cdepth, owed>>

First(l) == IF l = <<>> THEN Null ELSE l[1]
InList(n) == n \in Range(checks)
Position(n) == CHOOSE i \in DOMAIN checks : checks[i] = n

\* checkp->next of a node in the list.
After(n) == IF Position(n) = Len(checks) THEN Null ELSE checks[Position(n) + 1]

\* Program code may do op: always outside checks, else as ops says.
May(op) == cpc = "user" /\ (cdepth > 0 => op \in ops)

ChecksInit ==
    /\ ops \in SUBSET {"add", "remove", "wait"}
    /\ checks = <<>> /\ freed = <<>> /\ next = Null
    /\ cb = [n \in Nodes |-> Null]
    /\ cpc = "user" /\ cdepth = 0 /\ owed = {}

\* The node add_check uses: a freed one, or memory never used before.
IsNewNode(n) == IF freed # <<>> THEN n = freed[1] ELSE n \in Nodes /\ cb[n] = Null

\* Mutant: next_check stays where it is.
AddBehind(n, c) ==
    /\ May("add") /\ IsNewNode(n)
    /\ cb' = [cb EXCEPT ![n] = c]
    /\ freed' = IF freed # <<>> THEN Tail(freed) ELSE freed
    /\ next' = next
    /\ checks' = <<n>> \o checks
    /\ UNCHANGED <<ops, cpc, cdepth, owed>>

\* Mutant: the new check is always the next one.
AddNext(n, c) ==
    /\ May("add") /\ IsNewNode(n)
    /\ cb' = [cb EXCEPT ![n] = c]
    /\ freed' = IF freed # <<>> THEN Tail(freed) ELSE freed
    /\ next' = n
    /\ checks' = <<n>> \o checks
    /\ UNCHANGED <<ops, cpc, cdepth, owed>>

\* Fl::add_check
AddCheck(n, c) ==
    /\ May("add") /\ IsNewNode(n)
    /\ cb' = [cb EXCEPT ![n] = c]
    /\ freed' = IF freed # <<>> THEN Tail(freed) ELSE freed
    /\ next' = IF next = First(checks) THEN n ELSE next
    /\ checks' = <<n>> \o checks
    /\ UNCHANGED <<ops, cpc, cdepth, owed>>

\* Mutant: next_check stays at a node that is removed.
NextStays(c) == next

\* Mutant: the pass ends when the next check is removed.
NextDropped(c) == IF next # Null /\ cb[next] = c THEN Null ELSE next

\* Where next_check is after the removal of c: each time its node goes it
\* moves on, so it ends at the first node from there on that stays.
NextAfterRemoval(c) ==
    LET stay == {i \in DOMAIN checks : Position(next) <= i /\ cb[checks[i]] # c}
    IN  IF next = Null \/ stay = {} THEN Null ELSE checks[Min(stay)]

\* Fl::remove_check: every check with this callback.
RemoveCheck(c) ==
    LET gone == Keep(checks, {n \in Nodes : cb[n] = c}) IN
    /\ May("remove") /\ gone # <<>>
    /\ next' = NextAfterRemoval(c)
    /\ checks' = Keep(checks, {n \in Nodes : cb[n] # c})
    /\ freed' = Reverse(gone) \o freed
    /\ owed' = owed \ Range(gone)
    /\ UNCHANGED <<ops, cb, cpc, cdepth>>

-----------------------------------------------------------------------------
(* run_checks(), which Fl::wait() calls *)

\* Mutant: the test that keeps a nested call out is missing.
MayRunAlways == TRUE

\* The test that keeps a nested call out while a pass is under way.
MayRun == next = First(checks)

\* Fl::wait() gets to run_checks().
EnterRunChecks ==
    /\ May("wait") /\ cdepth < MaxCheckNest
    /\ MayRun
    /\ cpc' = "loop"
    /\ owed' = IF cdepth = 0 THEN Range(checks) ELSE owed
    /\ UNCHANGED <<ops, checks, next, freed, cb, cdepth>>

\* The loop: one check is called, after next_check moved on.
CallNext ==
    /\ cpc = "loop" /\ next # Null
    /\ next' = After(next)
    /\ owed' = owed \ {next}
    /\ cpc' = "user" /\ cdepth' = cdepth + 1
    /\ UNCHANGED <<ops, checks, freed, cb>>

CheckReturns ==
    /\ cpc = "user" /\ cdepth > 0
    /\ cpc' = "loop" /\ cdepth' = cdepth - 1
    /\ UNCHANGED <<ops, checks, next, freed, cb, owed>>

\* The loop ends and run_checks() returns.
LoopEnds ==
    /\ cpc = "loop" /\ next = Null
    /\ next' = First(checks)
    /\ cpc' = "user"
    /\ UNCHANGED <<ops, checks, freed, cb, cdepth, owed>>

ChecksNext ==
    \/ \E c \in Cbs : RemoveCheck(c) \/ \E n \in Nodes : AddCheck(n, c)
    \/ EnterRunChecks \/ CallNext \/ CheckReturns \/ LoopEnds

\* Every check callback returns to its caller, also when it calls Fl::wait().
ChecksSpec ==
    /\ ChecksInit /\ [][ChecksNext]_checksVars
    /\ WF_checksVars(CallNext \/ LoopEnds)
    /\ \A d \in 1 .. MaxCheckNest : SF_checksVars(cdepth = d /\ CheckReturns)

-----------------------------------------------------------------------------
(* Properties *)

\* The two lists share no node, no node is in one of them twice, and next_check
\* is never left at a node that was freed, whichever checks a check removes.
ChecksTypeOK ==
    /\ IsInjective(checks \o freed) /\ Range(checks \o freed) \subseteq Nodes
    /\ next # Null => InList(next)
    /\ \A n \in Nodes : InList(n) => cb[n] \in Cbs
    /\ cpc \in {"user", "loop"} /\ cdepth \in 0 .. MaxCheckNest /\ owed \subseteq Nodes

\* When no check is running, next_check is at the beginning: otherwise
\* run_checks() would never call a check again.
RestsAtFirst == cpc = "user" /\ cdepth = 0 => next = First(checks)

\* A pass calls every check that was there when it began and that nobody
\* removed, whatever the checks called before it did to the list.
EveryCheckCalled == cpc = "user" /\ cdepth = 0 => owed = {}

\* Where checks add but do not remove, a pass calls each check once, and none
\* that was added during the pass.
NoneTwice ==
    [][cpc = "loop" /\ next # Null /\ cdepth' > cdepth /\ "remove" \notin ops => next \in owed]_checksVars

\* "... so that add/remove and wait may be called from inside them without
\* causing an infinite loop": a pass of run_checks() comes to an end, unless
\* checks both remove and add (the first check that removes and adds itself is
\* called for ever).
PassEnds == (cpc = "loop" /\ ~({"add", "remove"} \subseteq ops)) ~> (cpc = "user" /\ cdepth = 0)
=============================================================================
