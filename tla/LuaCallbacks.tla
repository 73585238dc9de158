---------------------------- MODULE LuaCallbacks ----------------------------
(***************************************************************************)
(* How a Lua script's callbacks are kept for FLTK                          *)
(* (src/libluafltk/fl_lua_misc.cpp): timeouts, idle callbacks, the two     *)
(* global handlers, menu items and the user data of widgets share the Lua  *)
(* registry.  FLTK holds only the int that luaL_ref returned; the script   *)
(* holds the same int as the handle it passes to Fl.remove_timeout and     *)
(* Fl.remove_idle.                                                         *)
(*                                                                         *)
(* FLTK's own lists are abstracted to how often each reference is in them; *)
(* their order is the subject of FlTimeouts and FlIdle.  Every callback    *)
(* the script registers is a Lua table (or function) of its own.           *)
(***************************************************************************)
EXTENDS LuaRegistry, FiniteSets

CONSTANTS
    NoTable,
    Handlers,     \* the global event handler, the focus-changing handler
    MenuItems,    \* menu items of the program
    Widgets,      \* widgets whose callbacks scripts set
    Misuse,       \* what a script does with the handle of a callback it removed:
                  \* "remove" it again, or "repeat" it when another has its index
    MaxRepeat,    \* bound: schedulings of one timeout at a time
    MaxNest       \* bound: timeout callbacks on the stack

ASSUME CallbacksAssumption ==
    /\ IsFiniteSet(Tables) /\ NoTable \notin Tables
    /\ MenuItems \cap Widgets = {}
    /\ Misuse \subseteq {"remove", "repeat"}

VARIABLES
    reg,       \* the registry
    pending,   \* pending[r]: entries of FLTK's timeout list with argument r
    idle,      \* idle[r]: entries of FLTK's idle ring with data r
    handlerRef,  \* fltk_global_event_handler_ref and its like
    userData,  \* user_data of each menu item and widget
    frames,    \* timeout callbacks running, innermost last
    repeat,    \* the "repeat" field of each table: "nil", "false" or "true"
    kind,      \* what the script did with each table
    handle,    \* the reference the script (or an item) got for it
    wanted     \* schedulings of the timeout the script is waiting for

vars == <<reg, pending, idle, handlerRef, userData, frames, repeat, kind,
          handle, wanted>>

Refs == 1 .. Cardinality(Tables) + 1   \* indices the registry can grow to

Init ==
    /\ reg = EmptyRegistry
    /\ pending = [r \in Refs |-> 0]
    /\ idle = [r \in Refs |-> 0]
    /\ handlerRef = [h \in Handlers |-> 0]
    /\ userData = [x \in MenuItems \cup Widgets |-> 0]
    /\ frames = <<>>
    /\ repeat = [o \in Tables |-> "nil"]
    /\ kind = [o \in Tables |-> "unused"]
    /\ handle = [o \in Tables |-> 0]
    /\ wanted = [o \in Tables |-> 0]

\* The script registers table o as a callback of the given kind.
Store(o, k) ==
    /\ kind[o] = "unused"
    /\ reg' = Referenced(reg, o)
    /\ handle' = [handle EXCEPT ![o] = NewRef(reg)]
    /\ kind' = [kind EXCEPT ![o] = k]

\* lua_rawgeti(L, LUA_REGISTRYINDEX, r) and lua_istable: the table, if there is
\* one.  A free slot holds a number, and a handler is a plain function.
Lookup(r) == IF reg.slot[r] \in Tables /\ kind[reg.slot[r]] # "handler" THEN reg.slot[r] ELSE NoTable

-----------------------------------------------------------------------------
(* Timeouts *)

\* set_fltk_fl_add_timeout
AddTimeout(o) ==
    /\ Store(o, "timeout")
    /\ repeat' = [repeat EXCEPT ![o] = "false"]
    /\ pending' = [pending EXCEPT ![NewRef(reg)] = @ + 1]
    /\ wanted' = [wanted EXCEPT ![o] = 1]
    /\ UNCHANGED <<idle, handlerRef, userData, frames>>

\* What the script may pass to Fl.repeat_timeout: the handle of a timeout it has
\* not removed, or one it has removed and whose index finds no table now.  Only
\* "repeat" in Misuse lets it go on using the index when another callback has it.
MayRepeat(o) ==
    \/ kind[o] = "timeout"
    \/ kind[o] = "removed" /\ ("repeat" \in Misuse \/ Lookup(handle[o]) = NoTable)

\* set_fltk_fl_repeat_timeout, with the handle the script has for o.
RepeatTimeout(o) ==
    /\ MayRepeat(o)
    /\ LET found == Lookup(handle[o]) IN
         \/ found = NoTable /\ UNCHANGED <<repeat, pending, wanted>>
         \/ /\ found # NoTable /\ pending[handle[o]] < MaxRepeat
            /\ repeat' = [repeat EXCEPT ![found] = "true"]
            /\ pending' = [pending EXCEPT ![handle[o]] = @ + 1]
            /\ wanted' = [wanted EXCEPT ![o] = IF kind[o] = "timeout" THEN @ + 1 ELSE @]
    /\ UNCHANGED <<reg, idle, handlerRef, userData, frames, kind, handle>>

\* What the script may pass to Fl.remove_timeout: the handle of a timeout it
\* has not removed yet or, with "remove" in Misuse, one it has removed already
\* and that no other callback has been given since.
MayRemove(o) ==
    \/ kind[o] = "timeout"
    \/ "remove" \in Misuse /\ kind[o] = "removed"
       /\ \A p \in Tables \ {o} : kind[p] # "unused" => handle[p] # handle[o]

\* Mutant: only one of the entries with the reference leaves FLTK's list.
RemoveOne(o) ==
    /\ MayRemove(o)
    /\ pending' = [pending EXCEPT ![handle[o]] = IF @ > 0 THEN @ - 1 ELSE 0]
    /\ reg' = Unreferenced(reg, handle[o])
    /\ kind' = [kind EXCEPT ![o] = "removed"]
    /\ wanted' = [wanted EXCEPT ![o] = 0]
    /\ UNCHANGED <<idle, handlerRef, userData, frames, repeat, handle>>

\* fltk_fl_remove_timeout: every matching entry goes, and the reference.
RemoveTimeout(o) ==
    /\ MayRemove(o)
    /\ pending' = [pending EXCEPT ![handle[o]] = 0]
    /\ reg' = Unreferenced(reg, handle[o])
    /\ kind' = [kind EXCEPT ![o] = "removed"]
    /\ wanted' = [wanted EXCEPT ![o] = 0]
    /\ UNCHANGED <<idle, handlerRef, userData, frames, repeat, handle>>

\* Fl::wait takes an entry off its list and calls lua_fltk_fl_timeout.
FireTimeout(r) ==
    /\ pending[r] > 0 /\ Len(frames) < MaxNest
    /\ pending' = [pending EXCEPT ![r] = @ - 1]
    /\ IF Lookup(r) # NoTable
         THEN /\ frames' = Append(frames, [ref |-> r, tbl |-> Lookup(r)])
              /\ wanted' = [wanted EXCEPT ![Lookup(r)] = IF @ > 0 THEN @ - 1 ELSE 0]
         ELSE UNCHANGED <<frames, wanted>>
    /\ UNCHANGED <<reg, idle, handlerRef, userData, repeat, kind, handle>>

\* Mutant: a timeout that was not repeated releases its reference when its
\* function returns, whether or not the function removed it already.
TimeoutDone(tbl) == repeat[tbl] # "true"

\* The test after the call, !lua_isboolean && !lua_toboolean: no table that was
\* made for a timeout passes it.
ReleasedAfterCall(tbl) == repeat[tbl] = "nil"

\* The script's function returns to lua_fltk_fl_timeout.
TimeoutReturns ==
    /\ frames # <<>>
    /\ LET top == frames[Len(frames)] IN
         reg' = IF ReleasedAfterCall(top.tbl) THEN Unreferenced(reg, top.ref) ELSE reg
    /\ frames' = SubSeq(frames, 1, Len(frames) - 1)
    /\ UNCHANGED <<pending, idle, handlerRef, userData, repeat, kind, handle, wanted>>

-----------------------------------------------------------------------------
(* Idle callbacks *)

\* set_fltk_fl_add_idle
AddIdle(o) ==
    /\ Store(o, "idle")
    /\ idle' = [idle EXCEPT ![NewRef(reg)] = @ + 1]
    /\ UNCHANGED <<pending, handlerRef, userData, frames, repeat, wanted>>

\* Mutant: the idle callback stays in FLTK's ring.
UnrefIdleOnly(o) ==
    /\ kind[o] = "idle"
    /\ reg' = Unreferenced(reg, handle[o])
    /\ kind' = [kind EXCEPT ![o] = "removed"]
    /\ UNCHANGED <<pending, idle, handlerRef, userData, frames, repeat, handle, wanted>>

\* fltk_fl_remove_idle
RemoveIdle(o) ==
    /\ kind[o] = "idle"
    /\ idle' = [idle EXCEPT ![handle[o]] = IF @ > 0 THEN @ - 1 ELSE 0]
    /\ reg' = Unreferenced(reg, handle[o])
    /\ kind' = [kind EXCEPT ![o] = "removed"]
    /\ UNCHANGED <<pending, handlerRef, userData, frames, repeat, handle, wanted>>

-----------------------------------------------------------------------------
(* The global handlers, menu items and widgets *)

\* set_fltk_fl_add_handler, fltk_fl_add_focus_changing_handler: the first
\* handler stays until it is removed.
AddHandler(h, o) ==
    /\ handlerRef[h] = 0
    /\ Store(o, "handler")
    /\ handlerRef' = [handlerRef EXCEPT ![h] = NewRef(reg)]
    /\ UNCHANGED <<pending, idle, userData, frames, repeat, wanted>>

\* kind' of the callback that held reference r for a user of the given kind.
Gives(r, k) == [o \in Tables |-> IF kind[o] = k /\ handle[o] = r THEN "removed" ELSE kind[o]]

\* fltk_fl_remove_handler, fltk_fl_remove_focus_changing_handler
RemoveHandler(h) ==
    /\ handlerRef[h] # 0
    /\ reg' = Unreferenced(reg, handlerRef[h])
    /\ handlerRef' = [handlerRef EXCEPT ![h] = 0]
    /\ kind' = Gives(handlerRef[h], "handler")
    /\ UNCHANGED <<pending, idle, userData, frames, repeat, handle, wanted>>

\* luaL_unref of user data, 0 being none.
Released(g, r) == IF r = 0 THEN g ELSE Unreferenced(g, r)

\* set_fltk_menu_item_callback: the new reference first, then the old one goes.
SetItem(m, o) ==
    /\ kind[o] = "unused"
    /\ reg' = Released(Referenced(reg, o), userData[m])
    /\ handle' = [handle EXCEPT ![o] = NewRef(reg)]
    /\ userData' = [userData EXCEPT ![m] = NewRef(reg)]
    /\ kind' = [Gives(userData[m], "item") EXCEPT ![o] = "item"]
    /\ UNCHANGED <<pending, idle, handlerRef, frames, repeat, wanted>>

\* set_fltk_widget_callback with data o: the old data goes first.
SetCallback(w, o) ==
    /\ kind[o] = "unused"
    /\ LET g == Released(reg, userData[w]) IN
         /\ reg' = Referenced(g, o)
         /\ handle' = [handle EXCEPT ![o] = NewRef(g)]
         /\ userData' = [userData EXCEPT ![w] = NewRef(g)]
    /\ kind' = [Gives(userData[w], "data") EXCEPT ![o] = "data"]
    /\ UNCHANGED <<pending, idle, handlerRef, frames, repeat, wanted>>

\* set_fltk_widget_callback with nil for the data.
SetCallbackNoData(w) ==
    /\ userData[w] # 0
    /\ reg' = Released(reg, userData[w])
    /\ userData' = [userData EXCEPT ![w] = 0]
    /\ kind' = Gives(userData[w], "data")
    /\ UNCHANGED <<pending, idle, handlerRef, frames, repeat, handle, wanted>>

\* The script drops the handle of a removed callback; the table is garbage.
Forget(o) ==
    /\ kind[o] = "removed" /\ \A i \in 1 .. Len(frames) : frames[i].tbl # o
    /\ kind' = [kind EXCEPT ![o] = "unused"]
    /\ handle' = [handle EXCEPT ![o] = 0]
    /\ repeat' = [repeat EXCEPT ![o] = "nil"]
    /\ UNCHANGED <<reg, pending, idle, handlerRef, userData, frames, wanted>>

Next ==
    \/ \E o \in Tables :
          \/ AddTimeout(o) \/ RepeatTimeout(o) \/ RemoveTimeout(o)
          \/ AddIdle(o) \/ RemoveIdle(o) \/ Forget(o)
          \/ \E h \in Handlers : AddHandler(h, o)
          \/ \E m \in MenuItems : SetItem(m, o)
          \/ \E w \in Widgets : SetCallback(w, o)
    \/ \E w \in Widgets : SetCallbackNoData(w)
    \/ \E h \in Handlers : RemoveHandler(h)
    \/ \E r \in 1 .. Len(reg.slot) : FireTimeout(r)
    \/ TimeoutReturns

Spec == Init /\ [][Next]_vars

-----------------------------------------------------------------------------
(* Properties *)

InUse(o) == kind[o] \in {"timeout", "idle", "handler", "item", "data"}

\* The registry finds for each registered callback the script's own table: no
\* two of them share a reference (lua_rawgeti in lua_fltk_fl_timeout and the
\* other trampolines).
HandleFindsTable == \A o \in Tables : InUse(o) => reg.slot[handle[o]] = o

\* A timeout the script waits for is in FLTK's list, as often as it was
\* scheduled, and a timeout it removed is not (lua_fltk_fl_timeout).  It takes a
\* script without Misuse: set_fltk_fl_repeat_timeout schedules whatever table
\* has the index of a removed timeout.
ScheduledAsAsked ==
    \A o \in Tables : kind[o] = "timeout" => pending[handle[o]] = wanted[o]

\* FLTK never holds a reference that has been released: what a pending
\* timeout, an idle callback, a handler, an item or a widget finds in the
\* registry is what the script registered there and has not removed, so a
\* removed callback is never called again.  (Without Misuse, as before; repeating
\* a removed timeout whose index is free is harmless.)
NothingDangles ==
    LET Finds(r, k) == LET o == reg.slot[r] IN
                       o \in Tables /\ kind[o] = k /\ handle[o] = r IN
    /\ \A r \in Refs : pending[r] > 0 => Finds(r, "timeout")
    /\ \A r \in Refs : idle[r] > 0 => Finds(r, "idle")
    /\ \A h \in Handlers : handlerRef[h] # 0 => Finds(handlerRef[h], "handler")
    /\ \A m \in MenuItems : userData[m] # 0 => Finds(userData[m], "item")
    /\ \A w \in Widgets : userData[w] # 0 => Finds(userData[w], "data")

RefClients == INSTANCE LuaRef
              WITH ref <- [o \in Tables |-> IF InUse(o) THEN handle[o] ELSE 0]

\* Scripts that remove a callback once, and do not repeat it when another has its
\* index, make all these functions together
\* clients luaL_ref can serve: each call is one reference made, released or
\* exchanged by its owner, and what is proved of LuaRef holds of them.
Disciplined == RefClients!Spec
=============================================================================
