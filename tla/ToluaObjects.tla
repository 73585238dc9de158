---------------------------- MODULE ToluaObjects ----------------------------
(***************************************************************************)
(* How tolua++ ties C++ objects to Lua userdata (tolua_push.c, tolua_map.c *)
(* and tolua_event.c, with the constructors and collectors the generator   *)
(* writes to fltk.pkg.cpp).  A userdata holds the address of its object;   *)
(* a weak table tolua_ubox finds the userdata of an address, and tolua_gc  *)
(* tells which addresses Lua owns.  There is one tolua_ubox for each       *)
(* hierarchy of classes, and one tolua_gc.  Addresses are used again by    *)
(* C++ as soon as an object is deleted, while userdata die late: first the *)
(* collector takes them out of tolua_ubox, later it calls class_gc_event   *)
(* (module LuaGC; here Separate and Finalize).                             *)
(*                                                                         *)
(* What is asked of every program: C++ does not delete an object that Lua  *)
(* owns, and does not hand to Lua an owned object that the script has      *)
(* dropped; a script takes ownership of an object only by a userdata of    *)
(* the object's hierarchy.  What some programs do besides is chosen at the *)
(* start (prog): they use new_local, they delete objects that Lua does not *)
(* own (as Fl_Group does with its children), they cast to classes that an  *)
(* object does not have.  Some properties hold for some programs only.     *)
(***************************************************************************)
EXTENDS FiniteSets

CONSTANTS
    Addresses,   \* where C++ objects can be
    Uds,         \* userdata
    Classes,     \* the C++ classes the binding registers
    Super,       \* registry.tolua_super: all the classes a class derives from
    Root,        \* the class of its hierarchy that derives from no other
    None

(* None is nil, and the null address. *)
ASSUME NoneAssumption == None \notin Uds \cup Addresses \cup Classes

(* mapsuper gives a class the classes of its base; set_ubox gives it the    *)
(* tolua_ubox of its base, so that each hierarchy has the one of its root.  *)
ASSUME ClassAssumption ==
    /\ Super \in [Classes -> SUBSET Classes]
    /\ Root \in [Classes -> Classes]
    /\ \A c \in Classes : \A d \in Super[c] : Super[d] \subseteq Super[c] /\ Root[d] = Root[c]

IsA(c, d) == c = d \/ d \in Super[c]   \* tolua_fast_isa

VARIABLES
    prog,   \* what the program does: "locals", "deletes", "miscasts"
    mem,    \* mem[a]: class of the object at a, None = no object
    ud,     \* ud[i]: state, address and metatable of each userdata
    ubox,   \* ubox[r]: tolua_ubox of the hierarchy of r
    gc      \* tolua_gc: the metatable under which Lua owns the object

vars == <<prog, mem, ud, ubox, gc>>

FreeUd == [state |-> "free", addr |-> None, mt |-> None]

Init ==
    /\ prog \in SUBSET {"locals", "deletes", "miscasts"}
    /\ mem = [a \in Addresses |-> None]
    /\ ud = [i \in Uds |-> FreeUd]
    /\ ubox = [r \in Classes |-> [a \in Addresses |-> None]]
    /\ gc = [a \in Addresses |-> None]

InState(s) == {i \in Uds : ud[i].state = s}

\* The userdata is of the hierarchy of the object that is at its address.
IsFor(i) ==
    LET o == mem[ud[i].addr] IN o # None /\ Root[ud[i].mt] = Root[o]

Held(a) == \E i \in InState("held") : ud[i].addr = a /\ IsFor(i)

\* The tables of known userdata without those in S.
UboxWithout(S) ==
    [r \in Classes |-> [a \in Addresses |-> IF ubox[r][a] \in S THEN None ELSE ubox[r][a]]]

-----------------------------------------------------------------------------
(* tolua_pushusertype *)

\* Mutant: the table of known userdata is not looked up.
NotLookedUp(a, type) == None

Boxed(a, type) == ubox[Root[type]][a]

\* The metatable of a known userdata: a class the object is known to be
\* derived from changes nothing.
Specialized(i, type) == IF type \in Super[ud[i].mt] THEN ud[i].mt ELSE type

\* The userdata for the object at a is given to the script, a new one (u) if
\* none is known.
PushUsertype(a, type, u) ==
    IF Boxed(a, type) # None
      THEN /\ u = Boxed(a, type)
           /\ ud' = [ud EXCEPT ![u] = [state |-> "held", addr |-> @.addr, mt |-> Specialized(u, type)]]
           /\ UNCHANGED ubox
      ELSE /\ ud[u] = FreeUd
           /\ ud' = [ud EXCEPT ![u] = [state |-> "held", addr |-> a, mt |-> type]]
           /\ ubox' = [ubox EXCEPT ![Root[type]][a] = u]

\* The generated constructor "new", called by a script.
New(a, c, u) ==
    /\ mem[a] = None
    /\ mem' = [mem EXCEPT ![a] = c]
    /\ PushUsertype(a, c, u)
    /\ UNCHANGED <<prog, gc>>

\* "new_local": the new object is owned by Lua (tolua_register_gc).
NewLocal(a, c, u) ==
    /\ "locals" \in prog /\ mem[a] = None
    /\ mem' = [mem EXCEPT ![a] = c]
    /\ PushUsertype(a, c, u)
    /\ gc' = IF gc[a] = None THEN [gc EXCEPT ![a] = ud'[u].mt] ELSE gc
    /\ UNCHANGED prog

\* C++ makes an object of its own.
CxxNew(a, c) ==
    /\ mem[a] = None
    /\ mem' = [mem EXCEPT ![a] = c]
    /\ UNCHANGED <<prog, ud, ubox, gc>>

\* An object is returned to the script, or passed to a callback, as its own
\* class or a base; tolua.cast does the same with a userdata, as any class.
Push(a, type, u) ==
    /\ mem[a] # None
    /\ IsA(mem[a], type) \/ "miscasts" \in prog
    /\ gc[a] # None => Held(a)
    /\ PushUsertype(a, type, u)
    /\ UNCHANGED <<prog, mem, gc>>

\* The generated "delete", and C++ deleting what it owns.
Delete(a) ==
    /\ "deletes" \in prog /\ mem[a] # None /\ gc[a] = None
    /\ mem' = [mem EXCEPT ![a] = None]
    /\ UNCHANGED <<prog, ud, ubox, gc>>

\* The script loses its last reference to a userdata.
Drop(i) ==
    /\ ud[i].state = "held"
    /\ ud' = [ud EXCEPT ![i].state = "dropped"]
    /\ UNCHANGED <<prog, mem, ubox, gc>>

-----------------------------------------------------------------------------
(* The collector *)

\* Marking has ended: these dropped userdata are taken out of tolua_ubox and
\* their finalizers are due.
Separate(S) ==
    /\ ud' = [i \in Uds |-> IF i \in S THEN [ud[i] EXCEPT !.state = "due"] ELSE ud[i]]
    /\ ubox' = UboxWithout(S)
    /\ UNCHANGED <<prog, mem, gc>>

\* Objects that class_gc_event of the userdata in S deletes: the owned ones,
\* if the userdata's class is (or derives from) the one they are owned as.
Collected(S) == {a \in Addresses : \E i \in S :
                    ud[i].addr = a /\ gc[a] # None /\ IsA(ud[i].mt, gc[a])}

\* Mutant: the object stays owned.
StillOwned(S) == gc

\* class_gc_event: tolua_gc[u] = nil after the collector has deleted the object.
GcAfter(S) == [a \in Addresses |-> IF a \in Collected(S) THEN None ELSE gc[a]]
MemAfter(S) == [a \in Addresses |-> IF a \in Collected(S) THEN None ELSE mem[a]]
UdAfter(S) == [i \in Uds |-> IF i \in S THEN FreeUd ELSE ud[i]]

\* Mutant: no finalizer is called for an object owned as a base class.
FinalizeExact(i) ==
    /\ ud[i].state = "due"
    /\ LET a == ud[i].addr
           S == IF gc[a] = ud[i].mt THEN {i} ELSE {} IN
         /\ gc' = GcAfter(S)
         /\ mem' = MemAfter(S)
    /\ ud' = UdAfter({i})
    /\ UNCHANGED <<prog, ubox>>

Finalize(i) ==
    /\ ud[i].state = "due"
    /\ gc' = GcAfter({i})
    /\ mem' = MemAfter({i})
    /\ ud' = UdAfter({i})
    /\ UNCHANGED <<prog, ubox>>

\* Mutant: nothing is collected first.
NoCollection == {}

\* lua_gc(L, LUA_GCCOLLECT, 0): every userdata that is lost is finalized.
LostUserdata == InState("dropped") \cup InState("due")

-----------------------------------------------------------------------------
(* Ownership *)

\* tolua.takeownership of a userdata with a live object.
TakeOwnership(i) ==
    /\ ud[i].state = "held" /\ IsFor(i)
    /\ LET S == LostUserdata
           a == ud[i].addr IN
         /\ gc' = IF GcAfter(S)[a] = None THEN [GcAfter(S) EXCEPT ![a] = ud[i].mt] ELSE GcAfter(S)
         /\ mem' = MemAfter(S)
         /\ ud' = UdAfter(S)
         /\ ubox' = UboxWithout(S)
    /\ UNCHANGED prog

\* tolua.releaseownership: nothing is released when the metatable is no longer
\* the one the object is owned under.
ReleaseOwnership(i) ==
    /\ ud[i].state = "held"
    /\ LET S == LostUserdata
           a == ud[i].addr IN
         /\ gc' = IF GcAfter(S)[a] = ud[i].mt THEN [GcAfter(S) EXCEPT ![a] = None] ELSE GcAfter(S)
         /\ mem' = MemAfter(S)
         /\ ud' = UdAfter(S)
         /\ ubox' = UboxWithout(S)
    /\ UNCHANGED prog

SeparateSome == \E S \in SUBSET InState("dropped") : S # {} /\ Separate(S)

Next ==
    \/ \E a \in Addresses, c \in Classes :
          \/ CxxNew(a, c)
          \/ \E u \in Uds : New(a, c, u) \/ NewLocal(a, c, u) \/ Push(a, c, u)
    \/ \E a \in Addresses : Delete(a)
    \/ \E i \in Uds : Drop(i) \/ Finalize(i) \/ TakeOwnership(i) \/ ReleaseOwnership(i)
    \/ SeparateSome

(* LuaGC: cycles of the collector complete, so a lost userdata is separated *)
(* in the end, and the finalizers that are due are called.                  *)
Spec ==
    /\ Init /\ [][Next]_vars
    /\ WF_vars(Separate(InState("dropped")))
    /\ \A i \in Uds : WF_vars(Finalize(i))

-----------------------------------------------------------------------------
(* Properties *)

\* Programs that neither delete nor cast wrongly if they use new_local.  It
\* registers an address without collecting first, and a userdata of the object
\* that was there before may still wait for its finalizer.
Unmixed == "locals" \in prog => prog = {"locals"}

\* An object that Lua owns is not deleted while the script holds a userdata of
\* its hierarchy for it: no finalizer of an older userdata with the same address
\* does it (tolua_bnd_takeownership collects first).
HeldNotDeleted ==
    [][Unmixed =>
          \A i \in Uds :
             ud[i].state = "held" /\ ud'[i].state = "held" /\ IsFor(i) /\ gc[ud[i].addr] # None
                => mem'[ud[i].addr] = mem[ud[i].addr]]_vars

\* Lua owns only objects that exist, so no collector deletes one twice
\* (class_gc_event; and tolua_register_gc, which takes what its collection left).
OwnedExist == Unmixed => \A a \in Addresses : gc[a] # None => mem[a] # None

\* The script never holds two userdata of one hierarchy for one address: a
\* userdata compares equal to itself however often C++ returns the object
\* (tolua_pushusertype).  Two of different hierarchies it may hold, if one is a
\* left-over of a deleted object or the result of a wrong cast.
OneUserdata ==
    \A i, j \in InState("held") \cup InState("dropped") :
        ud[i].addr = ud[j].addr /\ Root[ud[i].mt] = Root[ud[j].mt] => i = j

\* An object that Lua owns, as a class that it has, and the script has lost is
\* deleted in the end, in programs without wrong casts: class_gc_event accepts
\* a metatable that was specialized after the object was taken.  (A userdata
\* left over from a deleted object may have another class, and take it as that.)
LostDeleted ==
    \A a \in Addresses :
        (/\ gc[a] # None /\ mem[a] # None /\ IsA(mem[a], gc[a])
         /\ ~Held(a) /\ "miscasts" \notin prog)
            ~> (gc[a] = None \/ Held(a))
=============================================================================
