---------------------------- MODULE LuaRegistry ----------------------------
(***************************************************************************)
(* luaL_ref and luaL_unref on the Lua registry                             *)
(* (src/lua-5.1.4/src/lauxlib.c): the way the glue code keeps Lua values   *)
(* alive and names them by an int that fits in a void* of FLTK.            *)
(*                                                                         *)
(* A registry is a record: slot is the array part t[1], t[2], ... and free *)
(* is t[FREELIST_REF], FREELIST_REF being 0.  The free slots are a list    *)
(* linked through the array itself: a free slot holds the number of the    *)
(* next one, the last one 0.  A third field, chain, is a history of what   *)
(* that list should be: the released references, the last one first.       *)
(***************************************************************************)
EXTENDS Naturals, Sequences

CONSTANT Tables   \* the Lua values that are stored

ASSUME RefAssumption == Tables \cap Nat = {}

EmptyRegistry == [slot |-> <<>>, free |-> 0, chain |-> <<>>]

\* The reference luaL_ref returns for a value other than nil.
NewRef(reg) == IF reg.free # 0 THEN reg.free ELSE Len(reg.slot) + 1

\* luaL_ref: the registry with value o stored.
Referenced(reg, o) ==
    IF reg.free # 0
      THEN [slot |-> [reg.slot EXCEPT ![reg.free] = o], free |-> reg.slot[reg.free],
            chain |-> Tail(reg.chain)]
      ELSE [slot |-> Append(reg.slot, o), free |-> 0, chain |-> reg.chain]

\* luaL_unref of a reference that luaL_ref returned.  (Negative references are
\* ignored by the code and never reach it here.)
Unreferenced(reg, r) ==
    [slot |-> [reg.slot EXCEPT ![r] = reg.free], free |-> r, chain |-> <<r>> \o reg.chain]

-----------------------------------------------------------------------------

Indices(reg) == 1 .. Len(reg.slot)

\* The free list is what a walk from t[0] visits: the released references, each
\* once, in the order of chain.
FreeListOf(reg) ==
    /\ reg.free = IF reg.chain = <<>> THEN 0 ELSE reg.chain[1]
    /\ \A i \in 1 .. Len(reg.chain) :
          /\ reg.chain[i] \in Indices(reg)
          /\ reg.slot[reg.chain[i]] = IF i = Len(reg.chain) THEN 0 ELSE reg.chain[i + 1]
    /\ \A i, j \in 1 .. Len(reg.chain) : reg.chain[i] = reg.chain[j] => i = j
=============================================================================
