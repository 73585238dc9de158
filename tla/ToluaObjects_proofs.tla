------------------------- MODULE ToluaObjects_proofs -------------------------
(***************************************************************************)
(* For any addresses, userdata and hierarchies of classes: the script has  *)
(* one userdata of a hierarchy for an address, and in programs that do not *)
(* mix new_local with delete or wrong casts, no finalizer deletes an       *)
(* object that the script holds, or one that is already deleted.           *)
(***************************************************************************)
EXTENDS ToluaObjects, TLAPS

UdStates == {"free", "held", "dropped", "due"}
UdType == [state : UdStates, addr : Addresses \cup {None}, mt : Classes \cup {None}]
ObjectMap == [Addresses -> Classes \cup {None}]

TypeOK ==
    /\ prog \in SUBSET {"locals", "deletes", "miscasts"}
    /\ mem \in ObjectMap
    /\ ud \in [Uds -> UdType]
    /\ ubox \in [Classes -> [Addresses -> Uds \cup {None}]]
    /\ gc \in ObjectMap

\* A userdata that exists has an address and a metatable.
Complete == \A i \in Uds : ud[i].state # "free" => ud[i].addr \in Addresses /\ ud[i].mt \in Classes

Known(i) == ud[i].state \in {"held", "dropped"}

\* The table of a hierarchy knows its userdata that are held or dropped, and
\* no others.
BoxFollows ==
    /\ \A i \in Uds : Known(i) => ubox[Root[ud[i].mt]][ud[i].addr] = i
    /\ \A r \in Classes, a \in Addresses :
          LET i == ubox[r][a] IN i # None => Known(i) /\ ud[i].addr = a /\ Root[ud[i].mt] = r

BoxInv == TypeOK /\ Complete /\ BoxFollows

\* Lua owns an object as a class of the object's hierarchy.
OwnedRight == \A a \in Addresses : gc[a] # None => mem[a] # None /\ Root[gc[a]] = Root[mem[a]]

\* The userdata of the object at a, the ones whose finalizers are due included.
OfObject(i, a) == ud[i].state # "free" /\ ud[i].addr = a /\ IsFor(i)

\* An owned object has at most one.
OwnedOnce ==
    \A a \in Addresses : gc[a] # None =>
        \A i, j \in Uds : OfObject(i, a) /\ OfObject(j, a) => i = j

\* Where nothing is deleted but by its owner, and no cast is wrong, all
\* userdata have their object.
LocalsLive == "locals" \in prog => \A i \in Uds : ud[i].state # "free" => IsFor(i)

OwnInv == OwnedRight /\ OwnedOnce /\ LocalsLive

ObjInv == BoxInv /\ (Unmixed => OwnInv)

\* Without objects the invariant holds.
LEMMA ObjInit == Init => ObjInv
<1> SUFFICES ASSUME Init
             PROVE  ObjInv
  OBVIOUS
<1> USE NoneAssumption, ClassAssumption
<1>1. TypeOK
  BY DEF Init, TypeOK, ObjectMap, UdType, FreeUd, UdStates
<1>2. Complete /\ BoxFollows
  BY DEF Init, Complete, BoxFollows, Known, FreeUd
<1>3. OwnInv
  BY DEF Init, OwnInv, OwnedRight, OwnedOnce, LocalsLive, FreeUd
<1> QED
  BY <1>1, <1>2, <1>3 DEF ObjInv, BoxInv

-----------------------------------------------------------------------------
(* tolua_pushusertype gives the script the one userdata of the address in  *)
(* the hierarchy of the type.                                              *)

\* tolua_pushusertype finds that userdata, or makes it.
LEMMA PushFacts ==
    ASSUME BoxInv, NEW a \in Addresses, NEW type \in Classes, NEW u \in Uds, PushUsertype(a, type, u)
    PROVE  /\ ud' \in [Uds -> UdType]
           /\ ubox' = [ubox EXCEPT ![Root[type]][a] = u]
           /\ ud'[u].state = "held" /\ ud'[u].addr = a
           /\ ud'[u].mt \in Classes /\ Root[ud'[u].mt] = Root[type]
           /\ \A i \in Uds : i # u => ud'[i] = ud[i]
           /\ Boxed(a, type) = u \/ (Boxed(a, type) = None /\ ud[u].state = "free")
           /\ Boxed(a, type) = u => Known(u) /\ ud[u].addr = a /\ Root[ud[u].mt] = Root[type]
<1> USE NoneAssumption, ClassAssumption
<1>0. Root[type] \in Classes
  OBVIOUS
<1>1. CASE Boxed(a, type) # None
  <2>1. /\ u = Boxed(a, type) /\ ubox' = ubox
        /\ ud' = [ud EXCEPT ![u] = [state |-> "held", addr |-> @.addr, mt |-> Specialized(u, type)]]
    BY <1>1 DEF PushUsertype
  <2>2. Known(u) /\ ud[u].addr = a /\ Root[ud[u].mt] = Root[type]
    BY <1>0, <1>1, <2>1 DEF BoxInv, BoxFollows, Boxed
  <2>3. ud[u].mt \in Classes
    BY <2>2 DEF BoxInv, Complete, Known
  <2>4. Specialized(u, type) \in Classes /\ Root[Specialized(u, type)] = Root[type]
    BY <2>2, <2>3 DEF Specialized
  <2>5. ubox' = [ubox EXCEPT ![Root[type]][a] = u]
    BY <1>0, <2>1 DEF BoxInv, TypeOK, Boxed
  <2>6. ud' \in [Uds -> UdType]
    BY <2>1, <2>2, <2>4 DEF BoxInv, TypeOK, UdType, UdStates
  <2>7. ud'[u] = [state |-> "held", addr |-> a, mt |-> Specialized(u, type)]
    BY <2>1, <2>2 DEF BoxInv, TypeOK
  <2>8. \A i \in Uds : i # u => ud'[i] = ud[i]
    BY <2>1 DEF BoxInv, TypeOK
  <2> QED
    BY <2>1, <2>2, <2>4, <2>5, <2>6, <2>7, <2>8
<1>2. CASE Boxed(a, type) = None
  <2>1. /\ ud[u] = FreeUd /\ ubox' = [ubox EXCEPT ![Root[type]][a] = u]
        /\ ud' = [ud EXCEPT ![u] = [state |-> "held", addr |-> a, mt |-> type]]
    BY <1>2 DEF PushUsertype
  <2> QED
    BY <2>1, <1>2 DEF BoxInv, TypeOK, UdType, UdStates, FreeUd
<1> QED
  BY <1>1, <1>2

\* After a push the tables follow the userdata.
LEMMA PushBox ==
    ASSUME BoxInv, NEW a \in Addresses, NEW type \in Classes, NEW u \in Uds, PushUsertype(a, type, u),
           prog' = prog, mem' \in ObjectMap, gc' \in ObjectMap
    PROVE  BoxInv'
<1> USE NoneAssumption, ClassAssumption
<1> DEFINE r == Root[type]
<1>0. r \in Classes
  OBVIOUS
<1>1. /\ ud' \in [Uds -> UdType]
      /\ ubox' = [ubox EXCEPT ![r][a] = u]
      /\ ud'[u].state = "held" /\ ud'[u].addr = a
      /\ ud'[u].mt \in Classes /\ Root[ud'[u].mt] = r
      /\ \A i \in Uds : i # u => ud'[i] = ud[i]
      /\ ubox[r][a] = u \/ (ubox[r][a] = None /\ ud[u].state = "free")
      /\ ubox[r][a] = u => Known(u) /\ ud[u].addr = a /\ Root[ud[u].mt] = r
  BY PushFacts DEF Boxed
<1> HIDE DEF r
<1>2. /\ ubox'[r][a] = u
      /\ \A s \in Classes, b \in Addresses : s # r \/ b # a => ubox'[s][b] = ubox[s][b]
      /\ ubox' \in [Classes -> [Addresses -> Uds \cup {None}]]
  BY <1>0, <1>1 DEF BoxInv, TypeOK
<1>3. TypeOK'
  BY <1>1, <1>2 DEF BoxInv, TypeOK
<1>4. Complete'
  BY <1>1 DEF BoxInv, Complete
<1>5. ASSUME NEW i \in Uds, Known(i)'
      PROVE  ubox'[Root[ud'[i].mt]][ud'[i].addr] = i
  <2>1. CASE i = u
    BY <1>1, <1>2, <2>1
  <2>2. CASE i # u
    <3>1. /\ ud'[i] = ud[i] /\ ubox[Root[ud[i].mt]][ud[i].addr] = i
          /\ ud[i].addr \in Addresses /\ Root[ud[i].mt] \in Classes
      BY <1>1, <1>5, <2>2 DEF BoxInv, BoxFollows, Complete, Known
    <3>2. Root[ud[i].mt] # r \/ ud[i].addr # a
      BY <3>1, <1>1, <2>2
    <3> QED
      BY <3>1, <3>2, <1>2
  <2> QED
    BY <2>1, <2>2
<1>6. ASSUME NEW s \in Classes, NEW b \in Addresses, ubox'[s][b] # None
      PROVE  Known(ubox[s][b])' /\ ud'[ubox'[s][b]].addr = b /\ Root[ud'[ubox'[s][b]].mt] = s
  <2>1. CASE s = r /\ b = a
    BY <1>1, <1>2, <2>1 DEF Known
  <2>2. CASE s # r \/ b # a
    <3> DEFINE i == ubox[s][b]
    <3>1. ubox'[s][b] = i /\ i \in Uds
      BY <1>2, <1>6, <2>2 DEF BoxInv, TypeOK
    <3>2. Known(i) /\ ud[i].addr = b /\ Root[ud[i].mt] = s
      BY <3>1, <1>6 DEF BoxInv, BoxFollows
    <3>3. i # u
      BY <3>2, <1>1, <2>2 DEF Known
    <3> QED
      BY <3>1, <3>2, <3>3, <1>1 DEF Known
  <2> QED
    BY <2>1, <2>2
<1>7. BoxFollows'
  BY <1>5, <1>6 DEF BoxFollows
<1> QED
  BY <1>3, <1>4, <1>7 DEF BoxInv

\* What is owned stays owned right after a push, if its object is the one
\* pushed, or is not owned.
LEMMA PushOwn ==
    ASSUME BoxInv, OwnInv,
           NEW a \in Addresses, NEW type \in Classes, NEW u \in Uds, PushUsertype(a, type, u),
           prog' = prog,
           mem'[a] \in Classes,
           \A b \in Addresses : b # a => mem'[b] = mem[b] /\ gc'[b] = gc[b],
           "locals" \in prog => Root[type] = Root[mem'[a]],
           mem[a] # None => mem'[a] = mem[a],
           gc'[a] # None =>
              /\ Root[gc'[a]] = Root[mem'[a]]
              /\ \A i, j \in Uds : OfObject(i, a)' /\ OfObject(j, a)' => i = j
    PROVE  OwnInv'
<1> USE NoneAssumption, ClassAssumption
<1>1. /\ ud'[u].state = "held" /\ ud'[u].addr = a
      /\ ud'[u].mt \in Classes /\ Root[ud'[u].mt] = Root[type]
      /\ \A i \in Uds : i # u => ud'[i] = ud[i]
  BY PushFacts
<1>2. OwnedRight'
  BY DEF OwnInv, OwnedRight
<1>3. OwnedOnce'
  <2> SUFFICES ASSUME NEW b \in Addresses, gc'[b] # None, NEW i \in Uds, NEW j \in Uds,
                      OfObject(i, b)', OfObject(j, b)'
               PROVE  i = j
    BY DEF OwnedOnce
  <2>1. CASE b = a
    BY <2>1
  <2>2. CASE b # a
    <3>1. ud'[i] = ud[i] /\ ud'[j] = ud[j] /\ mem'[b] = mem[b] /\ gc[b] # None
      BY <2>2, <1>1 DEF OfObject
    <3>2. OfObject(i, b) /\ OfObject(j, b)
      BY <3>1 DEF OfObject, IsFor
    <3> QED
      BY <3>1, <3>2 DEF OwnInv, OwnedOnce
  <2> QED
    BY <2>1, <2>2
<1>4. LocalsLive'
  <2> SUFFICES ASSUME "locals" \in prog, NEW i \in Uds, (ud[i].state # "free")'
               PROVE  IsFor(i)'
    BY DEF LocalsLive
  <2>1. CASE i = u
    BY <1>1, <2>1 DEF IsFor
  <2>2. CASE i # u
    <3>1. ud'[i] = ud[i] /\ IsFor(i) /\ ud[i].addr \in Addresses
      BY <1>1, <2>2 DEF OwnInv, LocalsLive, BoxInv, Complete
    <3>2. mem'[ud[i].addr] = mem[ud[i].addr]
      BY <3>1 DEF IsFor
    <3> QED
      BY <3>1, <3>2 DEF IsFor
  <2> QED
    BY <2>1, <2>2
<1> QED
  BY <1>2, <1>3, <1>4 DEF OwnInv

-----------------------------------------------------------------------------
(* The finalizers of lost userdata, and the deletions they make. *)

\* An object that finalizers of S delete has no userdata but one of S.
LEMMA CollectedAlone ==
    ASSUME BoxInv, OwnInv, NEW S \in SUBSET LostUserdata,
           NEW a \in Addresses, a \in Collected(S), NEW i \in Uds, OfObject(i, a)
    PROVE  i \in S
<1>1. PICK k \in S : ud[k].addr = a /\ gc[a] # None /\ IsA(ud[k].mt, gc[a])
  BY DEF Collected
<1>2. k \in Uds /\ ud[k].state # "free"
  BY DEF LostUserdata, InState
<1>3. ud[k].mt \in Classes
  BY <1>2 DEF BoxInv, Complete
<1>4. Root[ud[k].mt] = Root[gc[a]]
  BY <1>1, <1>3, ClassAssumption DEF IsA
<1>5. IsFor(k)
  BY <1>1, <1>4 DEF IsFor, OwnInv, OwnedRight
<1> QED
  BY <1>1, <1>2, <1>5 DEF OfObject, OwnInv, OwnedOnce

\* The tables after the userdata in S are gone.
LEMMA CollectBox ==
    ASSUME BoxInv, NEW S \in SUBSET LostUserdata,
           prog' = prog, mem' \in ObjectMap, gc' \in ObjectMap,
           ud' = UdAfter(S), ubox' = UboxWithout(S)
    PROVE  BoxInv'
<1> USE NoneAssumption, ClassAssumption
<1>1. S \subseteq Uds /\ \A i \in Uds : ud'[i] = IF i \in S THEN FreeUd ELSE ud[i]
  BY DEF LostUserdata, InState, UdAfter
<1>2. \A i \in Uds : ud'[i].state # "free" => i \notin S /\ ud'[i] = ud[i]
  BY <1>1 DEF FreeUd
<1>3. \A r \in Classes, a \in Addresses :
         ubox'[r][a] = IF ubox[r][a] \in S THEN None ELSE ubox[r][a]
  BY DEF UboxWithout
<1>4. TypeOK'
  <2>1. ud' \in [Uds -> UdType]
    BY DEF BoxInv, TypeOK, UdAfter, FreeUd, UdType, UdStates
  <2>2. ubox' \in [Classes -> [Addresses -> Uds \cup {None}]]
    BY DEF BoxInv, TypeOK, UboxWithout
  <2> QED
    BY <2>1, <2>2 DEF BoxInv, TypeOK
<1>5. Complete'
  BY <1>2 DEF BoxInv, Complete
<1>6. ASSUME NEW i \in Uds, Known(i)'
      PROVE  ubox'[Root[ud'[i].mt]][ud'[i].addr] = i
  <2>1. i \notin S /\ ud'[i] = ud[i] /\ ud[i].addr \in Addresses /\ Root[ud[i].mt] \in Classes
    BY <1>2, <1>6 DEF Known, BoxInv, Complete
  <2>2. ubox[Root[ud[i].mt]][ud[i].addr] = i
    BY <1>6, <2>1 DEF BoxInv, BoxFollows, Known
  <2> QED
    BY <2>1, <2>2, <1>3
<1>7. ASSUME NEW r \in Classes, NEW a \in Addresses, ubox'[r][a] # None
      PROVE  Known(ubox[r][a])' /\ ud'[ubox'[r][a]].addr = a /\ Root[ud'[ubox'[r][a]].mt] = r
  <2> DEFINE i == ubox[r][a]
  <2>1. ubox'[r][a] = i /\ i \notin S /\ i # None
    BY <1>3, <1>7
  <2>2. i \in Uds
    BY <2>1 DEF BoxInv, TypeOK
  <2>3. Known(i) /\ ud[i].addr = a /\ Root[ud[i].mt] = r
    BY <2>1 DEF BoxInv, BoxFollows
  <2> HIDE DEF i
  <2> QED
    BY <2>1, <2>2, <2>3, <1>1 DEF Known
<1>8. BoxFollows'
  BY <1>6, <1>7 DEF BoxFollows
<1> QED
  BY <1>4, <1>5, <1>8 DEF BoxInv

\* What is owned after finalizers have run, or one more object, owned now by a
\* userdata of its hierarchy that is the only one left.
LEMMA CollectOwn ==
    ASSUME BoxInv, OwnInv, NEW S \in SUBSET LostUserdata,
           prog' = prog, mem' = MemAfter(S), ud' = UdAfter(S),
           \A b \in Addresses :
              \/ gc'[b] = GcAfter(S)[b]
              \/ gc'[b] = None
              \/ \E i \in Uds \ S :
                    /\ OfObject(i, b) /\ gc'[b] = ud[i].mt
                    /\ \A j \in Uds \ S : OfObject(j, b) => j = i
    PROVE  OwnInv'
<1> USE NoneAssumption, ClassAssumption
<1>1. S \subseteq Uds /\ \A i \in Uds : ud'[i] = IF i \in S THEN FreeUd ELSE ud[i]
  BY DEF LostUserdata, InState, UdAfter
<1>2. \A i \in Uds : ud'[i].state # "free" => i \notin S /\ ud'[i] = ud[i]
  BY <1>1 DEF FreeUd
<1>3. \A b \in Addresses : mem'[b] = IF b \in Collected(S) THEN None ELSE mem[b]
  BY DEF MemAfter
<1>4. ASSUME NEW i \in Uds, NEW b \in Addresses, OfObject(i, b)'
      PROVE  i \notin S /\ ud'[i] = ud[i] /\ OfObject(i, b) /\ mem'[b] = mem[b]
  <2>1. i \notin S /\ ud'[i] = ud[i]
    BY <1>2, <1>4 DEF OfObject
  <2>2. mem'[b] # None /\ mem'[b] = mem[b]
    BY <1>3, <1>4 DEF OfObject, IsFor
  <2> QED
    BY <2>1, <2>2, <1>4 DEF OfObject, IsFor
<1>5. ASSUME NEW b \in Addresses, gc'[b] # None
      PROVE  /\ mem'[b] # None /\ Root[gc'[b]] = Root[mem'[b]]
             /\ \A i, j \in Uds : OfObject(i, b)' /\ OfObject(j, b)' => i = j
  <2>1. CASE gc'[b] = GcAfter(S)[b]
    <3>1. b \notin Collected(S) /\ gc'[b] = gc[b]
      BY <1>5, <2>1 DEF GcAfter
    <3>2. mem'[b] = mem[b]
      BY <3>1, <1>3
    <3>3. mem[b] # None /\ Root[gc[b]] = Root[mem[b]]
      BY <3>1, <1>5 DEF OwnInv, OwnedRight
    <3> QED
      BY <3>1, <3>2, <3>3, <1>4, <1>5 DEF OwnInv, OwnedOnce
  <2>2. ASSUME NEW i \in Uds \ S, OfObject(i, b), gc'[b] = ud[i].mt,
               \A j \in Uds \ S : OfObject(j, b) => j = i
        PROVE  /\ mem'[b] # None /\ Root[gc'[b]] = Root[mem'[b]]
               /\ \A k, j \in Uds : OfObject(k, b)' /\ OfObject(j, b)' => k = j
    <3>1. b \notin Collected(S)
      BY <2>2, CollectedAlone
    <3>2. mem'[b] = mem[b]
      BY <3>1, <1>3
    <3>3. mem[b] # None /\ Root[ud[i].mt] = Root[mem[b]]
      BY <2>2 DEF OfObject, IsFor
    <3> QED
      BY <3>2, <3>3, <2>2, <1>4
  <2> QED
    BY <1>5, <2>1, <2>2
<1>6. OwnedRight' /\ OwnedOnce'
  BY <1>5 DEF OwnedRight, OwnedOnce
<1>7. LocalsLive'
  <2> SUFFICES ASSUME "locals" \in prog, NEW i \in Uds, (ud[i].state # "free")'
               PROVE  IsFor(i)'
    BY DEF LocalsLive
  <2>1. i \notin S /\ ud'[i] = ud[i] /\ ud[i].state # "free"
    BY <1>2
  <2>2. IsFor(i) /\ ud[i].addr \in Addresses
    BY <2>1 DEF OwnInv, LocalsLive, BoxInv, Complete
  <2>3. ud[i].addr \notin Collected(S)
    BY <2>1, <2>2, CollectedAlone DEF OfObject
  <2>4. mem'[ud[i].addr] = mem[ud[i].addr]
    BY <2>2, <2>3, <1>3
  <2> QED
    BY <2>1, <2>2, <2>4 DEF IsFor
<1> QED
  BY <1>6, <1>7 DEF OwnInv

\* Objects and their owners after class_gc_event.
LEMMA AfterTypes ==
    ASSUME BoxInv, NEW S
    PROVE  GcAfter(S) \in ObjectMap /\ MemAfter(S) \in ObjectMap
BY DEF BoxInv, TypeOK, GcAfter, MemAfter, ObjectMap

-----------------------------------------------------------------------------
(* The invariant holds in every step. *)

\* A constructor, with or without ownership, keeps it.
LEMMA MakeObject ==
    ASSUME ObjInv, NEW a \in Addresses, NEW c \in Classes, NEW u \in Uds,
           New(a, c, u) \/ NewLocal(a, c, u)
    PROVE  ObjInv'
<1> USE NoneAssumption, ClassAssumption
<1>1. /\ mem[a] = None /\ mem' = [mem EXCEPT ![a] = c]
      /\ PushUsertype(a, c, u) /\ prog' = prog
  BY DEF New, NewLocal
<1>2. BoxInv
  BY DEF ObjInv
<1>3. /\ ud'[u].mt \in Classes /\ Root[ud'[u].mt] = Root[c]
      /\ \A i \in Uds : i # u => ud'[i] = ud[i]
  BY <1>1, <1>2, PushFacts
<1>4. mem' \in ObjectMap /\ mem'[a] = c /\ \A b \in Addresses : b # a => mem'[b] = mem[b]
  BY <1>1, <1>2 DEF BoxInv, TypeOK, ObjectMap
<1>5. gc' \in ObjectMap /\ \A b \in Addresses : b # a => gc'[b] = gc[b]
  BY <1>2, <1>3 DEF New, NewLocal, BoxInv, TypeOK, ObjectMap
<1>6. BoxInv'
  BY <1>1, <1>2, <1>4, <1>5, PushBox
<1>7. ASSUME Unmixed, OwnInv
      PROVE  OwnInv'
  <2>1. gc[a] = None
    BY <1>1, <1>7 DEF OwnInv, OwnedRight
  <2>2. ASSUME gc'[a] # None
        PROVE  /\ Root[gc'[a]] = Root[mem'[a]]
               /\ \A i, j \in Uds : OfObject(i, a)' /\ OfObject(j, a)' => i = j
    <3>1. "locals" \in prog /\ gc' = [gc EXCEPT ![a] = ud'[u].mt]
      BY <2>1, <2>2 DEF New, NewLocal
    <3>2. Root[gc'[a]] = Root[mem'[a]]
      BY <3>1, <1>2, <1>3, <1>4 DEF BoxInv, TypeOK, ObjectMap
    <3>3. \A i \in Uds : ud[i].state # "free" => ud[i].addr # a
      BY <3>1, <1>1, <1>7 DEF OwnInv, LocalsLive, IsFor
    <3> QED
      BY <3>2, <3>3, <1>3 DEF OfObject
  <2> QED
    BY <1>1, <1>2, <1>4, <1>5, <1>7, <2>2, PushOwn
<1> QED
  BY <1>1, <1>6, <1>7 DEF ObjInv, Unmixed

\* Pushing an object keeps it.
LEMMA PushStep ==
    ASSUME ObjInv, NEW a \in Addresses, NEW c \in Classes, NEW u \in Uds, Push(a, c, u)
    PROVE  ObjInv'
<1> USE NoneAssumption, ClassAssumption
<1>1. /\ mem[a] # None /\ (IsA(mem[a], c) \/ "miscasts" \in prog)
      /\ gc[a] # None => Held(a)
      /\ PushUsertype(a, c, u) /\ mem' = mem /\ gc' = gc /\ prog' = prog
  BY DEF Push
<1>2. BoxInv
  BY DEF ObjInv
<1>3. BoxInv'
  BY <1>1, <1>2, PushBox DEF BoxInv, TypeOK
<1>4. mem[a] \in Classes
  BY <1>1, <1>2 DEF BoxInv, TypeOK, ObjectMap
<1>5. ASSUME Unmixed, OwnInv
      PROVE  OwnInv'
  <2>1. "locals" \in prog => Root[c] = Root[mem[a]]
    BY <1>1, <1>4, <1>5 DEF IsA, Unmixed
  <2>2. ASSUME gc[a] # None
        PROVE  /\ Root[gc[a]] = Root[mem[a]]
               /\ \A i, j \in Uds : OfObject(i, a)' /\ OfObject(j, a)' => i = j
    <3>1. Root[gc[a]] = Root[mem[a]]
      BY <1>5, <2>2 DEF OwnInv, OwnedRight
    <3>2. PICK k \in Uds : ud[k].state = "held" /\ ud[k].addr = a /\ IsFor(k)
      BY <1>1, <2>2 DEF Held, InState
    <3>3. \A i \in Uds : OfObject(i, a) => i = k
      BY <3>2, <1>5, <2>2 DEF OfObject, OwnInv, OwnedOnce
    <3>4. \A i \in Uds : OfObject(i, a)' /\ i # u => i = k
      BY <3>3, <1>1, <1>2, PushFacts DEF OfObject, IsFor
    <3>5. ubox[Root[mem[a]]][a] = k
      BY <3>2, <1>2 DEF BoxInv, BoxFollows, Known, IsFor
    <3>6. OfObject(u, a)' => u = k
      <4>1. OfObject(u, a)' => Root[c] = Root[mem[a]]
        BY <1>1, <1>2, PushFacts DEF OfObject, IsFor
      <4>2. k # None
        OBVIOUS
      <4> QED
        BY <4>1, <4>2, <3>5, <1>1, <1>2, PushFacts DEF Boxed
    <3> QED
      BY <3>1, <3>4, <3>6
  <2> QED
    BY <1>1, <1>2, <1>4, <1>5, <2>1, <2>2, PushOwn
<1> QED
  BY <1>1, <1>3, <1>5 DEF ObjInv, Unmixed

\* Finalizing, taking and releasing ownership keep it.
LEMMA CollectStep ==
    ASSUME ObjInv, NEW i \in Uds, Finalize(i) \/ TakeOwnership(i) \/ ReleaseOwnership(i)
    PROVE  ObjInv'
<1> USE NoneAssumption, ClassAssumption
<1>0. BoxInv
  BY DEF ObjInv
<1>1. CASE Finalize(i)
  <2>1. {i} \in SUBSET LostUserdata
    BY <1>1 DEF Finalize, LostUserdata, InState
  <2>2. \A r \in Classes, a \in Addresses : ubox[r][a] # i
    BY <1>0, <1>1 DEF Finalize, BoxInv, BoxFollows, Known
  <2>3. ubox' = UboxWithout({i})
    BY <1>0, <1>1, <2>2 DEF Finalize, UboxWithout, BoxInv, TypeOK
  <2>4. gc' = GcAfter({i}) /\ mem' = MemAfter({i}) /\ ud' = UdAfter({i}) /\ prog' = prog
    BY <1>1 DEF Finalize
  <2>5. BoxInv'
    BY <1>0, <2>1, <2>3, <2>4, AfterTypes, CollectBox
  <2>6. OwnInv => OwnInv'
    BY <1>0, <2>1, <2>4, CollectOwn
  <2> QED
    BY <2>4, <2>5, <2>6 DEF ObjInv, Unmixed
<1>2. CASE TakeOwnership(i) \/ ReleaseOwnership(i)
  <2> DEFINE S == LostUserdata
             a == ud[i].addr
  <2>1. /\ ud[i].state = "held" /\ mem' = MemAfter(S) /\ ud' = UdAfter(S) /\ prog' = prog
        /\ ubox' = UboxWithout(S)
    BY <1>2 DEF TakeOwnership, ReleaseOwnership
  <2>2. a \in Addresses /\ ud[i].mt \in Classes /\ i \notin S
    BY <1>0, <2>1 DEF BoxInv, Complete, LostUserdata, InState
  <2>3. GcAfter(S) \in ObjectMap /\ MemAfter(S) \in ObjectMap
    BY <1>0, AfterTypes
  <2>4. gc' \in ObjectMap
    BY <1>2, <2>2, <2>3 DEF TakeOwnership, ReleaseOwnership, ObjectMap
  <2>5. S \in SUBSET LostUserdata
    OBVIOUS
  <2>6. ASSUME NEW b \in Addresses
        PROVE  \/ gc'[b] = GcAfter(S)[b]
               \/ gc'[b] = None
               \/ \E k \in Uds \ S :
                     /\ OfObject(k, b) /\ gc'[b] = ud[k].mt
                     /\ \A j \in Uds \ S : OfObject(j, b) => j = k
    <3>1. CASE ReleaseOwnership(i) \/ GcAfter(S)[a] # None \/ b # a
      BY <1>2, <2>3, <3>1 DEF TakeOwnership, ReleaseOwnership, ObjectMap
    <3>2. CASE TakeOwnership(i) /\ b = a
      <4>1. OfObject(i, a)
        BY <2>1, <3>2 DEF TakeOwnership, OfObject
      <4>2. \A j \in Uds \ S : OfObject(j, a) => j = i
        <5>1. \A j \in Uds \ S : ud[j].state # "free" => ud[j].state = "held"
          BY <1>0 DEF LostUserdata, InState, BoxInv, TypeOK, UdType, UdStates
        <5>2. \A j \in Uds : ud[j].state = "held" /\ ud[j].addr = a /\ Root[ud[j].mt] = Root[ud[i].mt] => j = i
          BY <1>0, <2>1 DEF BoxInv, BoxFollows, Known
        <5> QED
          BY <4>1, <5>1, <5>2 DEF OfObject, IsFor
      <4>3. gc'[a] = GcAfter(S)[a] \/ gc'[a] = ud[i].mt
        BY <2>2, <2>3, <3>2 DEF TakeOwnership, ObjectMap
      <4> QED
        BY <2>2, <3>2, <4>1, <4>2, <4>3
    <3> QED
      BY <1>2, <3>1, <3>2
  <2> HIDE DEF S, a
  <2>7. BoxInv'
    BY <1>0, <2>1, <2>3, <2>4, <2>5, CollectBox
  <2>8. OwnInv => OwnInv'
    BY <1>0, <2>1, <2>5, <2>6, CollectOwn
  <2> QED
    BY <2>1, <2>7, <2>8 DEF ObjInv, Unmixed
<1> QED
  BY <1>1, <1>2

\* Every step keeps it.
LEMMA ObjStep == ObjInv /\ [Next]_vars => ObjInv'
<1> SUFFICES ASSUME ObjInv, [Next]_vars
             PROVE  ObjInv'
  OBVIOUS
<1> USE NoneAssumption, ClassAssumption
<1>0. BoxInv
  BY DEF ObjInv
<1>1. ASSUME NEW a \in Addresses, NEW c \in Classes, CxxNew(a, c)
      PROVE  ObjInv'
  <2>1. BoxInv'
    BY <1>0, <1>1 DEF CxxNew, BoxInv, TypeOK, ObjectMap, Complete, BoxFollows, Known
  <2>2. ASSUME OwnInv
        PROVE  OwnInv'
    <3>1. /\ mem[a] = None /\ UNCHANGED <<prog, ud, gc>>
          /\ \A b \in Addresses : b # a => mem'[b] = mem[b]
      BY <1>0, <1>1 DEF CxxNew, BoxInv, TypeOK, ObjectMap
    <3>2. gc[a] = None
      BY <2>2, <3>1 DEF OwnInv, OwnedRight
    <3>3. OwnedRight' /\ OwnedOnce'
      BY <2>2, <3>1, <3>2 DEF OwnInv, OwnedRight, OwnedOnce, OfObject, IsFor
    <3>4. LocalsLive'
      BY <1>0, <2>2, <3>1 DEF OwnInv, LocalsLive, IsFor, BoxInv, Complete
    <3> QED
      BY <3>3, <3>4 DEF OwnInv
  <2> QED
    BY <1>1, <2>1, <2>2 DEF CxxNew, ObjInv, Unmixed
<1>2. ASSUME NEW a \in Addresses, Delete(a)
      PROVE  ObjInv'
  <2>1. BoxInv'
    BY <1>0, <1>2 DEF Delete, BoxInv, TypeOK, ObjectMap, Complete, BoxFollows, Known
  <2>2. ASSUME OwnInv, Unmixed
        PROVE  OwnInv'
    <3>1. /\ gc[a] = None /\ UNCHANGED <<prog, ud, gc>> /\ "locals" \notin prog
          /\ \A b \in Addresses : b # a => mem'[b] = mem[b]
      BY <1>0, <1>2, <2>2 DEF Delete, BoxInv, TypeOK, ObjectMap, Unmixed
    <3> QED
      BY <2>2, <3>1 DEF OwnInv, OwnedRight, OwnedOnce, LocalsLive, OfObject, IsFor
  <2> QED
    BY <1>2, <2>1, <2>2 DEF Delete, ObjInv, Unmixed
<1>3. ASSUME NEW i \in Uds, Drop(i)
      PROVE  ObjInv'
  <2>1. \A j \in Uds : /\ ud'[j].addr = ud[j].addr /\ ud'[j].mt = ud[j].mt
                       /\ ud'[j].state # "free" <=> ud[j].state # "free"
                       /\ ud'[j].state \in {"held", "dropped"} <=> ud[j].state \in {"held", "dropped"}
    BY <1>0, <1>3 DEF Drop, BoxInv, TypeOK, UdType
  <2>2. ud' \in [Uds -> UdType] /\ UNCHANGED <<prog, mem, ubox, gc>>
    <3>1. ud \in [Uds -> UdType] /\ ud' = [ud EXCEPT ![i] = [ud[i] EXCEPT !.state = "dropped"]]
      BY <1>0, <1>3 DEF Drop, BoxInv, TypeOK
    <3>2. [ud[i] EXCEPT !.state = "dropped"] \in UdType
      BY <3>1 DEF UdType, UdStates
    <3>3. UNCHANGED <<prog, mem, ubox, gc>>
      BY <1>3 DEF Drop
    <3> QED
      BY <3>1, <3>2, <3>3
  <2>3. BoxInv'
    <3>1. TypeOK' /\ Complete'
      BY <1>0, <2>1, <2>2 DEF BoxInv, TypeOK, Complete
    <3>2. \A j \in Uds : Known(j)' <=> Known(j)
      BY <2>1 DEF Known
    <3>3. \A j \in Uds : Known(j)' => ubox'[Root[ud'[j].mt]][ud'[j].addr] = j
      BY <1>0, <2>1, <2>2, <3>2 DEF BoxInv, BoxFollows
    <3>4. ASSUME NEW r \in Classes, NEW a \in Addresses, ubox'[r][a] # None
          PROVE  Known(ubox[r][a])' /\ ud'[ubox'[r][a]].addr = a /\ Root[ud'[ubox'[r][a]].mt] = r
      <4>1. ubox'[r][a] = ubox[r][a] /\ ubox[r][a] \in Uds
        BY <1>0, <2>2, <3>4 DEF BoxInv, TypeOK
      <4>2. Known(ubox[r][a]) /\ ud[ubox[r][a]].addr = a /\ Root[ud[ubox[r][a]].mt] = r
        BY <1>0, <3>4, <4>1 DEF BoxInv, BoxFollows
      <4> QED
        BY <2>1, <3>2, <4>1, <4>2 DEF Known
    <3>5. BoxFollows'
      BY <3>3, <3>4 DEF BoxFollows
    <3> QED
      BY <3>1, <3>5 DEF BoxInv
  <2>4. OwnInv => OwnInv'
    <3>1. \A j \in Uds : IsFor(j)' <=> IsFor(j)
      BY <2>1, <2>2 DEF IsFor
    <3>2. \A j \in Uds, a \in Addresses : OfObject(j, a)' <=> OfObject(j, a)
      BY <2>1, <3>1 DEF OfObject
    <3> QED
      BY <2>1, <2>2, <3>1, <3>2 DEF OwnInv, OwnedRight, OwnedOnce, LocalsLive
  <2> QED
    BY <2>2, <2>3, <2>4 DEF ObjInv, Unmixed
<1>4. ASSUME NEW S \in SUBSET InState("dropped"), Separate(S)
      PROVE  ObjInv'
  <2>1. /\ UNCHANGED <<prog, mem, gc>> /\ ubox' = UboxWithout(S)
        /\ ud' = [i \in Uds |-> IF i \in S THEN [ud[i] EXCEPT !.state = "due"] ELSE ud[i]]
    BY <1>4 DEF Separate
  <2>2. \A j \in Uds : /\ ud'[j].addr = ud[j].addr /\ ud'[j].mt = ud[j].mt
                       /\ ud'[j].state # "free" <=> ud[j].state # "free"
                       /\ ud'[j].state \in {"held", "dropped"} <=> ud[j].state \in {"held", "dropped"} /\ j \notin S
    BY <1>0, <2>1 DEF BoxInv, TypeOK, UdType, InState
  <2>3. ud' \in [Uds -> UdType]
    BY <1>0, <2>1 DEF BoxInv, TypeOK, UdType, UdStates
  <2>4. ubox' \in [Classes -> [Addresses -> Uds \cup {None}]]
    BY <1>0, <2>1 DEF BoxInv, TypeOK, UboxWithout
  <2>5. TypeOK' /\ Complete'
    BY <1>0, <2>1, <2>2, <2>3, <2>4 DEF BoxInv, TypeOK, Complete
  <2>6. \A r \in Classes, a \in Addresses :
           ubox'[r][a] = IF ubox[r][a] \in S THEN None ELSE ubox[r][a]
    BY <2>1 DEF UboxWithout
  <2>7. \A j \in Uds : Known(j)' => ubox'[Root[ud'[j].mt]][ud'[j].addr] = j
    BY <1>0, <2>2, <2>6 DEF BoxInv, BoxFollows, Complete, Known
  <2>8. ASSUME NEW r \in Classes, NEW a \in Addresses, ubox'[r][a] # None
        PROVE  Known(ubox[r][a])' /\ ud'[ubox'[r][a]].addr = a /\ Root[ud'[ubox'[r][a]].mt] = r
    <3>1. ubox'[r][a] = ubox[r][a] /\ ubox[r][a] \notin S /\ ubox[r][a] \in Uds
      BY <1>0, <2>6, <2>8 DEF BoxInv, TypeOK
    <3> QED
      BY <1>0, <2>2, <2>8, <3>1 DEF BoxInv, BoxFollows, Known
  <2>9. BoxInv'
    BY <2>5, <2>7, <2>8 DEF BoxInv, BoxFollows
  <2>10. OwnInv => OwnInv'
    BY <2>1, <2>2 DEF OwnInv, OwnedRight, OwnedOnce, LocalsLive, OfObject, IsFor
  <2> QED
    BY <2>1, <2>9, <2>10 DEF ObjInv, Unmixed
<1>5. CASE UNCHANGED vars
  BY <1>5 DEF vars, ObjInv, Unmixed, BoxInv, TypeOK, Complete, BoxFollows, Known,
              OwnInv, OwnedRight, OwnedOnce, LocalsLive, OfObject, IsFor
<1> QED
  BY <1>1, <1>2, <1>3, <1>4, <1>5, MakeObject, PushStep, CollectStep DEF Next, SeparateSome

\* Userdata, the tables tolua_ubox and tolua_gc agree in every state (ObjInv).
THEOREM ObjectsAgree == Spec => []ObjInv
BY ObjInit, ObjStep, PTL DEF Spec

\* In programs that do not mix new_local with delete or wrong casts, what
\* tolua_gc says Lua owns exists: no collector deletes an object twice.
THEOREM OwnedObjectsExist == Spec => []OwnedExist
<1>1. ObjInv => OwnedExist
  BY DEF ObjInv, OwnInv, OwnedRight, OwnedExist
<1> QED
  BY <1>1, ObjectsAgree, PTL

\* tolua_pushusertype never makes a second userdata for an address in the
\* hierarchy of a first that the script may still reach, in any program.
THEOREM OneUserdataEach == Spec => []OneUserdata
<1>1. ObjInv => OneUserdata
  BY DEF ObjInv, BoxInv, BoxFollows, Known, OneUserdata, InState
<1> QED
  BY <1>1, ObjectsAgree, PTL

\* In programs that do not mix new_local with delete or wrong casts, no step
\* deletes an object that Lua owns while the script holds a userdata of its
\* hierarchy for it (class_gc_event, tolua_bnd_takeownership).
THEOREM HeldStayAlive == Spec => HeldNotDeleted
<1> DEFINE Kept(i) == ud[i].state = "held" /\ ud'[i].state = "held" /\ IsFor(i) /\ gc[ud[i].addr] # None
                         => mem'[ud[i].addr] = mem[ud[i].addr]
           A == Unmixed => \A i \in Uds : Kept(i)
<1>1. ObjInv /\ [Next]_vars => [A]_vars
  <2> SUFFICES ASSUME ObjInv, Next, Unmixed,
                      NEW i \in Uds, ud[i].state = "held", IsFor(i), gc[ud[i].addr] # None
               PROVE  mem'[ud[i].addr] = mem[ud[i].addr]
    OBVIOUS
  <2> DEFINE a == ud[i].addr
  <2>1. a \in Addresses /\ mem[a] # None /\ OfObject(i, a) /\ BoxInv /\ OwnInv
    BY DEF ObjInv, BoxInv, Complete, OfObject, IsFor
  <2>2. ASSUME NEW S \in SUBSET LostUserdata, mem' = MemAfter(S)
        PROVE  mem'[a] = mem[a]
    <3>1. i \notin S
      BY DEF LostUserdata, InState
    <3>2. a \notin Collected(S)
      BY <2>1, <3>1, CollectedAlone
    <3> QED
      BY <3>2, <2>1, <2>2 DEF MemAfter
  <2>3. ASSUME NEW b \in Addresses, NEW c \in Classes,
               CxxNew(b, c) \/ \E u \in Uds : New(b, c, u) \/ NewLocal(b, c, u) \/ Push(b, c, u)
        PROVE  mem'[a] = mem[a]
    BY <2>1, <2>3 DEF CxxNew, New, NewLocal, Push, BoxInv, TypeOK, ObjectMap
  <2>4. ASSUME NEW b \in Addresses, Delete(b)
        PROVE  mem'[a] = mem[a]
    BY <2>1, <2>4 DEF Delete, BoxInv, TypeOK, ObjectMap
  <2>5. ASSUME NEW j \in Uds, Drop(j)
        PROVE  mem'[a] = mem[a]
    BY <2>5 DEF Drop
  <2>6. ASSUME NEW j \in Uds, Finalize(j)
        PROVE  mem'[a] = mem[a]
    <3>1. {j} \in SUBSET LostUserdata /\ mem' = MemAfter({j})
      BY <2>6 DEF Finalize, LostUserdata, InState
    <3> QED
      BY <3>1, <2>2
  <2>7. ASSUME NEW j \in Uds, TakeOwnership(j) \/ ReleaseOwnership(j)
        PROVE  mem'[a] = mem[a]
    BY <2>7, <2>2 DEF TakeOwnership, ReleaseOwnership
  <2>8. ASSUME SeparateSome
        PROVE  mem'[a] = mem[a]
    BY <2>8 DEF SeparateSome, Separate
  <2> QED
    BY <2>3, <2>4, <2>5, <2>6, <2>7, <2>8 DEF Next
<1> QED
  BY <1>1, ObjectsAgree, PTL DEF Spec, HeldNotDeleted

==============================================================================
