------------------------------- MODULE LuaRef -------------------------------
(***************************************************************************)
(* What luaL_ref and luaL_unref promise to clients that release every      *)
(* reference once: the free list threaded through the registry never gives *)
(* one index to two owners.  Module LuaCallbacks has the clients of this   *)
(* repository, and implements this one as long as scripts keep that rule.  *)
(*                                                                         *)
(* Each client owns one value, and is named like it.                       *)
(***************************************************************************)
EXTENDS LuaRegistry

VARIABLES
    reg,    \* the registry
    ref     \* ref[c]: the reference client c holds, 0 = none

vars == <<reg, ref>>

Init ==
    /\ reg = EmptyRegistry
    /\ ref = [c \in Tables |-> 0]

\* Client c stores its value and keeps the reference.
Ref(c) ==
    /\ ref[c] = 0
    /\ ref' = [ref EXCEPT ![c] = NewRef(reg)]
    /\ reg' = Referenced(reg, c)

\* Client c releases its reference.
Unref(c) ==
    /\ ref[c] # 0
    /\ ref' = [ref EXCEPT ![c] = 0]
    /\ reg' = Unreferenced(reg, ref[c])

\* Client c takes the place of d: it stores its value, then d's goes.
Replace(c, d) ==
    /\ ref[c] = 0 /\ ref[d] # 0
    /\ ref' = [ref EXCEPT ![c] = NewRef(reg), ![d] = 0]
    /\ reg' = Unreferenced(Referenced(reg, c), ref[d])

\* The same in the other order: d's value goes, then c stores its own.
Renew(c, d) ==
    /\ ref[c] = 0 /\ ref[d] # 0
    /\ ref' = [ref EXCEPT ![d] = 0, ![c] = NewRef(Unreferenced(reg, ref[d]))]
    /\ reg' = Referenced(Unreferenced(reg, ref[d]), c)

Next ==
    \/ \E c \in Tables : Ref(c) \/ Unref(c)
    \/ \E c, d \in Tables : Replace(c, d) \/ Renew(c, d)

Spec == Init /\ [][Next]_vars

-----------------------------------------------------------------------------
(* Properties *)

\* Types: the registry holds values of clients and links of the free list.
TypeOK ==
    /\ reg \in [slot : Seq(Tables \cup Nat), free : Nat, chain : Seq(Nat)]
    /\ ref \in [Tables -> Nat]

\* A reference finds the value its owner stored until the owner releases it
\* (lua_rawgeti(L, LUA_REGISTRYINDEX, ref)); so no two owners share one.
RefFindsValue ==
    \A c \in Tables : ref[c] # 0 => ref[c] \in Indices(reg) /\ reg.slot[ref[c]] = c

\* The free list is well formed.
FreeList == FreeListOf(reg)
=============================================================================
