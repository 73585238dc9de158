------------------------- MODULE LuaCallbacks_proofs -------------------------
(***************************************************************************)
(* Scripts that remove each callback once never make FLTK use a reference  *)
(* that is released, for any number of callbacks, handlers, menu items and *)
(* widgets.  The timeouts, idle callbacks, handlers, items and widgets are *)
(* clients of luaL_ref as LuaRef describes them, so its lemmas apply.      *)
(***************************************************************************)
EXTENDS LuaCallbacks, FiniteSetTheorems, SequenceTheorems, TLAPS

\* The reference the owner of each table holds.
held == [o \in Tables |-> IF InUse(o) THEN handle[o] ELSE 0]

R == INSTANCE LuaRef_proofs WITH ref <- held

LiveKinds == {"timeout", "idle", "handler", "item", "data"}

TypeInv ==
    /\ pending \in [Refs -> Nat]
    /\ idle \in [Refs -> {0, 1}]
    /\ handlerRef \in [Handlers -> Nat]
    /\ userData \in [MenuItems \cup Widgets -> Nat]
    /\ frames \in Seq([ref : Nat, tbl : Tables])
    /\ repeat \in [Tables -> {"nil", "false", "true"}]
    /\ kind \in [Tables -> LiveKinds \cup {"unused", "removed"}]
    /\ handle \in [Tables -> Nat]
    /\ wanted \in [Tables -> Nat]

\* Some callback of kind k has reference r.
UsedBy(r, k) == \E o \in Tables : kind[o] = k /\ handle[o] = r

\* What FLTK holds is the reference of a callback of the right kind.
UsesLive ==
    /\ \A r \in Refs : pending[r] > 0 => UsedBy(r, "timeout")
    /\ \A r \in Refs : idle[r] > 0 => UsedBy(r, "idle")
    /\ \A h \in Handlers : handlerRef[h] # 0 => UsedBy(handlerRef[h], "handler")
    /\ \A m \in MenuItems : userData[m] # 0 => UsedBy(userData[m], "item")
    /\ \A w \in Widgets : userData[w] # 0 => UsedBy(userData[w], "data")

\* Two handlers, items or widgets never hold one reference.
UsersApart ==
    /\ \A g, h \in Handlers : handlerRef[g] # 0 /\ handlerRef[g] = handlerRef[h] => g = h
    /\ \A m, n \in MenuItems : userData[m] # 0 /\ userData[m] = userData[n] => m = n
    /\ \A v, w \in Widgets : userData[v] # 0 /\ userData[v] = userData[w] => v = w

RegInv ==
    /\ R!RefInv
    /\ Len(reg.slot) <= Cardinality(Tables)
    /\ \A o \in Tables : InUse(o) => handle[o] # 0

\* Every table that was registered, or is being called, as a timeout has a boolean
\* in its "repeat" field.
Called == {frames[i].tbl : i \in 1 .. Len(frames)}
CalledInv ==
    /\ \A o \in Tables : kind[o] = "timeout" => repeat[o] # "nil"
    /\ \A o \in Called : o \in Tables /\ kind[o] # "unused" /\ repeat[o] # "nil"

CbInv == TypeInv /\ RegInv /\ UsesLive /\ UsersApart /\ ScheduledAsAsked

-----------------------------------------------------------------------------
(* What the registry's invariant says of callbacks *)

\* A reference in use is an index of the registry with its owner's value in it,
\* and nobody else's.
LEMMA HeldFacts ==
    ASSUME TypeInv, RegInv
    PROVE  /\ held \in [Tables -> Nat]
           /\ \A o \in Tables : InUse(o) =>
                 held[o] = handle[o] /\ handle[o] \in 1 .. Len(reg.slot) /\ reg.slot[handle[o]] = o
           /\ \A o \in Tables : ~InUse(o) => held[o] = 0
           /\ \A o, p \in Tables : InUse(o) /\ InUse(p) /\ handle[o] = handle[p] => o = p
           /\ Len(reg.slot) \in Nat /\ Cardinality(Tables) \in Nat
           /\ 1 .. Len(reg.slot) \subseteq Refs
<1>1. held \in [Tables -> Nat] /\ \A o \in Tables : ~InUse(o) => held[o] = 0
  BY DEF TypeInv, held
<1>2. \A o \in Tables : InUse(o) => held[o] = handle[o] /\ held[o] # 0
  BY DEF RegInv, held
<1>3. \A o \in Tables : held[o] # 0 => held[o] \in 1 .. Len(reg.slot) /\ reg.slot[held[o]] = o
  BY DEF RegInv, R!RefInv, R!Good, R!Indices
<1>4. Len(reg.slot) \in Nat
  BY DEF RegInv, R!RefInv, R!Good
<1>5. Cardinality(Tables) \in Nat
  BY CallbacksAssumption, FS_CardinalityType
<1>6. 1 .. Len(reg.slot) \subseteq Refs
  BY <1>4, <1>5 DEF RegInv, Refs
<1> QED
  BY <1>1, <1>2, <1>3, <1>4, <1>5, <1>6

\* The registry needs no more slots than there are tables.
LEMMA SlotsEnough ==
    ASSUME NEW g, NEW f, R!Good(g, f), R!Accounted(g, f), NEW o \in Tables, f[o] = 0,
           Len(g.slot) <= Cardinality(Tables)
    PROVE  NewRef(g) \in 1 .. Cardinality(Tables) /\ Len(Referenced(g, o).slot) <= Cardinality(Tables)
<1> DEFINE n == Len(g.slot)
           N == Cardinality(Tables)
<1>1. /\ n \in Nat
      /\ g.free = 0 => NewRef(g) = n + 1 /\ Len(Referenced(g, o).slot) = n + 1
      /\ g.free # 0 => NewRef(g) \in 1 .. n /\ Len(Referenced(g, o).slot) = n
  <2>1. R!NewRef(g) = NewRef(g) /\ R!Referenced(g, o) = Referenced(g, o)
    BY DEF R!NewRef, NewRef, R!Referenced, Referenced
  <2> QED
    BY <2>1, R!Lengths, RefAssumption
<1>2. N \in Nat
  BY FS_CardinalityType, CallbacksAssumption
<1>3. CASE g.free = 0
  <2>1. \A i \in 1 .. n : g.slot[i] \in Tables \ {o} /\ f[g.slot[i]] = i
    BY <1>3, R!AllInUse, RefAssumption
  <2> DEFINE h == [i \in 1 .. n |-> g.slot[i]]
  <2>2. h \in [1 .. n -> Tables \ {o}]
    BY <2>1
  <2>3. h \in Injection(1 .. n, Tables \ {o})
    BY <2>1, <2>2 DEF Injection, IsInjective
  <2>4. IsFiniteSet(Tables \ {o}) /\ Cardinality(Tables \ {o}) = N - 1
    BY FS_RemoveElement, CallbacksAssumption
  <2> HIDE DEF h, n, N
  <2>5. Cardinality(1 .. n) <= N - 1
    BY <2>3, <2>4, FS_Injection
  <2>6. Cardinality(1 .. n) = n
    <3>1. 1 \in Int /\ n \in Int
      BY <1>1
    <3>2. Cardinality(1 .. n) = IF 1 > n THEN 0 ELSE n - 1 + 1
      BY <3>1, FS_Interval, Zenon
    <3> QED
      BY <1>1, <3>2
  <2>7. n + 1 \in 1 .. N
    BY <1>1, <1>2, <2>5, <2>6
  <2> QED
    BY <1>1, <1>2, <1>3, <2>7 DEF n, N
<1>4. CASE g.free # 0
  BY <1>1, <1>2, <1>4
<1> QED
  BY <1>3, <1>4

\* A new reference is in range and is held by nobody.
LEMMA FreshRef ==
    ASSUME TypeInv, RegInv, NEW o \in Tables, ~InUse(o)
    PROVE  /\ NewRef(reg) \in 1 .. Cardinality(Tables)
           /\ NewRef(reg) \in Refs /\ NewRef(reg) # 0
           /\ \A p \in Tables : InUse(p) => handle[p] # NewRef(reg)
           /\ Len(Referenced(reg, o).slot) <= Cardinality(Tables)
<1> DEFINE f2 == [held EXCEPT ![o] = NewRef(reg)]
<1>1. R!Good(reg, held) /\ R!Accounted(reg, held) /\ held[o] = 0
  BY HeldFacts DEF RegInv, R!RefInv
<1>2. /\ R!NewRef(reg) = NewRef(reg)
      /\ R!Referenced(reg, o) = Referenced(reg, o)
  BY DEF R!NewRef, NewRef, R!Referenced, Referenced
<1>3. R!Good(Referenced(reg, o), f2)
  BY <1>1, <1>2, R!RefStep, RefAssumption
<1>4. NewRef(reg) \in 1 .. Cardinality(Tables) /\ Len(Referenced(reg, o).slot) <= Cardinality(Tables)
  BY <1>1, SlotsEnough DEF RegInv
<1>5. NewRef(reg) \in Refs /\ NewRef(reg) # 0
  BY <1>4, HeldFacts DEF Refs
<1>6. ASSUME NEW p \in Tables, InUse(p), handle[p] = NewRef(reg)
      PROVE  FALSE
  <2>1. p # o /\ f2[p] = held[p] /\ held[p] = NewRef(reg) /\ f2[o] = NewRef(reg)
    BY <1>6, HeldFacts
  <2>2. \A c \in Tables : f2[c] # 0 => Referenced(reg, o).slot[f2[c]] = c
    BY <1>3 DEF R!Good
  <2> QED
    BY <1>5, <2>1, <2>2
<1> QED
  BY <1>4, <1>5, <1>6

-----------------------------------------------------------------------------
(* Each way of using the registry is a step of its clients *)

\* Without callbacks the invariant holds.
LEMMA CbInit == Init => CbInv
<1> SUFFICES ASSUME Init PROVE CbInv
  OBVIOUS
<1>1. TypeInv
  BY DEF Init, TypeInv
<1>2. \A o \in Tables : ~InUse(o)
  BY DEF Init, InUse
<1>3. R!Init
  BY <1>2 DEF Init, R!Init, held, EmptyRegistry, R!EmptyRegistry
<1>4. R!RefInv
  BY <1>3, R!RefInit, RefAssumption
<1>5. Len(reg.slot) <= Cardinality(Tables)
  BY FS_CardinalityType, CallbacksAssumption DEF Init, EmptyRegistry
<1>6. UsesLive /\ UsersApart /\ ScheduledAsAsked
  BY DEF Init, UsesLive, UsersApart, ScheduledAsAsked
<1> QED
  BY <1>1, <1>2, <1>4, <1>5, <1>6 DEF CbInv, RegInv

\* A step of the clients keeps the registry in order.
LEMMA ClientStep ==
    ASSUME CbInv, [R!Next]_R!vars
    PROVE  R!RefInv'
BY R!RefNext, RefAssumption DEF CbInv, RegInv

\* A client that stores a value acts as one of LuaRef, ...
LEMMA StoreStep ==
    ASSUME CbInv, NEW o \in Tables, NEW k \in LiveKinds, kind[o] = "unused",
           reg' = Referenced(reg, o),
           handle' = [handle EXCEPT ![o] = NewRef(reg)],
           kind' = [kind EXCEPT ![o] = k]
    PROVE  R!Ref(o) /\ RegInv'
<1>1. ~InUse(o) /\ TypeInv /\ RegInv
  BY DEF CbInv, InUse
<1>2. NewRef(reg) \in Nat /\ NewRef(reg) # 0 /\ Len(Referenced(reg, o).slot) <= Cardinality(Tables)
  BY <1>1, FreshRef, HeldFacts
<1>3. \A p \in Tables : InUse(p)' <=> InUse(p) \/ p = o
  BY <1>1 DEF InUse, LiveKinds, TypeInv
<1>4. \A p \in Tables : handle'[p] = IF p = o THEN NewRef(reg) ELSE handle[p]
  BY <1>1 DEF TypeInv
<1>5. held[o] = 0 /\ held' = [held EXCEPT ![o] = NewRef(reg)]
  BY <1>1, <1>3, <1>4 DEF held
<1>6. R!Ref(o)
  BY <1>5 DEF R!Ref, R!NewRef, NewRef, R!Referenced, Referenced
<1>7. R!RefInv'
  BY <1>6, ClientStep DEF R!Next
<1>8. \A p \in Tables : InUse(p)' => handle'[p] # 0
  BY <1>1, <1>2, <1>3, <1>4 DEF RegInv
<1> QED
  BY <1>2, <1>6, <1>7, <1>8 DEF RegInv

\* ... and so does one that releases a reference in use.
LEMMA ReleaseStep ==
    ASSUME CbInv, NEW d \in Tables, InUse(d),
           reg' = Unreferenced(reg, handle[d]),
           handle' = handle,
           kind' = [kind EXCEPT ![d] = "removed"]
    PROVE  R!Unref(d) /\ RegInv'
<1>1. TypeInv /\ RegInv
  BY DEF CbInv
<1>2. held[d] = handle[d] /\ handle[d] # 0 /\ handle[d] \in 1 .. Len(reg.slot)
  BY <1>1, HeldFacts DEF RegInv
<1>3. \A p \in Tables : InUse(p)' <=> InUse(p) /\ p # d
  BY <1>1 DEF InUse, TypeInv
<1>4. held' = [held EXCEPT ![d] = 0]
  BY <1>3 DEF held
<1>5. R!Unref(d)
  BY <1>2, <1>4 DEF R!Unref, R!Unreferenced, Unreferenced
<1>6. R!RefInv'
  BY <1>5, ClientStep DEF R!Next
<1>7. Len(reg'.slot) = Len(reg.slot)
  BY <1>1, <1>2 DEF Unreferenced, RegInv, R!RefInv, R!Good
<1>8. \A p \in Tables : InUse(p)' => handle'[p] # 0
  BY <1>1, <1>3 DEF RegInv
<1> QED
  BY <1>1, <1>5, <1>6, <1>7, <1>8 DEF RegInv

\* The new reference is made before the old one goes.
LEMMA ReplaceStep ==
    ASSUME CbInv, NEW o \in Tables, NEW d \in Tables, NEW k \in LiveKinds, kind[o] = "unused", InUse(d),
           reg' = Unreferenced(Referenced(reg, o), handle[d]),
           handle' = [handle EXCEPT ![o] = NewRef(reg)],
           kind' = [[kind EXCEPT ![d] = "removed"] EXCEPT ![o] = k]
    PROVE  R!Replace(o, d) /\ RegInv'
<1>1. ~InUse(o) /\ TypeInv /\ RegInv /\ o # d
  BY DEF CbInv, InUse
<1>2. NewRef(reg) \in Nat /\ NewRef(reg) # 0 /\ Len(Referenced(reg, o).slot) <= Cardinality(Tables)
  BY <1>1, FreshRef, HeldFacts
<1>3. held[d] = handle[d] /\ handle[d] # 0
  BY <1>1, HeldFacts DEF RegInv
<1>4. \A p \in Tables : InUse(p)' <=> (InUse(p) /\ p # d) \/ p = o
  BY <1>1 DEF InUse, LiveKinds, TypeInv
<1>5. \A p \in Tables : handle'[p] = IF p = o THEN NewRef(reg) ELSE handle[p]
  BY <1>1 DEF TypeInv
<1>6. held[o] = 0 /\ held' = [held EXCEPT ![o] = NewRef(reg), ![d] = 0]
  BY <1>1, <1>4, <1>5 DEF held
<1>7. R!Replace(o, d)
  BY <1>3, <1>6 DEF R!Replace, R!NewRef, NewRef, R!Referenced, Referenced, R!Unreferenced, Unreferenced
<1>8. R!RefInv'
  BY <1>7, ClientStep DEF R!Next
<1>9. Len(reg'.slot) = Len(Referenced(reg, o).slot)
  <2> DEFINE g == Referenced(reg, o)
  <2>1. R!Good(g, [held EXCEPT ![o] = NewRef(reg)])
    BY <1>1, R!RefStep, RefAssumption DEF RegInv, R!RefInv, R!NewRef, NewRef, R!Referenced, Referenced
  <2>2. g.slot \in Seq(Tables \cup Nat)
    BY <2>1 DEF R!Good
  <2>3. Unreferenced(g, handle[d]).slot = [g.slot EXCEPT ![handle[d]] = g.free]
    BY DEF Unreferenced
  <2> HIDE DEF g
  <2>4. Len([g.slot EXCEPT ![handle[d]] = g.free]) = Len(g.slot)
    BY <2>2
  <2> QED
    BY <2>3, <2>4 DEF g
<1>10. \A p \in Tables : InUse(p)' => handle'[p] # 0
  BY <1>1, <1>2, <1>4, <1>5 DEF RegInv
<1> QED
  BY <1>2, <1>7, <1>8, <1>9, <1>10 DEF RegInv

\* The old reference goes before the new one is made.
LEMMA RenewStep ==
    ASSUME CbInv, NEW o \in Tables, NEW d \in Tables, NEW k \in LiveKinds, kind[o] = "unused", InUse(d),
           reg' = Referenced(Unreferenced(reg, handle[d]), o),
           handle' = [handle EXCEPT ![o] = NewRef(Unreferenced(reg, handle[d]))],
           kind' = [[kind EXCEPT ![d] = "removed"] EXCEPT ![o] = k]
    PROVE  R!Renew(o, d) /\ RegInv' /\ NewRef(Unreferenced(reg, handle[d])) \in Refs
<1> DEFINE g == Unreferenced(reg, handle[d])
           f == [held EXCEPT ![d] = 0]
<1>1. ~InUse(o) /\ TypeInv /\ RegInv /\ o # d
  BY DEF CbInv, InUse
<1>2. held[d] = handle[d] /\ handle[d] # 0 /\ handle[d] \in 1 .. Len(reg.slot)
  BY <1>1, HeldFacts DEF RegInv
<1>3. R!Good(g, f) /\ R!Accounted(g, f) /\ f[o] = 0
  <2>1. g = R!Unreferenced(reg, held[d])
    BY <1>2 DEF R!Unreferenced, Unreferenced
  <2>2. R!Good(reg, held) /\ R!Accounted(reg, held)
    BY <1>1 DEF RegInv, R!RefInv
  <2>3. R!Good(g, f) /\ R!Accounted(g, f)
    <3> HIDE DEF g
    <3> QED
      BY <1>2, <2>1, <2>2, R!UnrefStep, R!UnrefAccounts, RefAssumption
  <2> QED
    BY <1>1, <2>3, HeldFacts
<1>4. Len(g.slot) = Len(reg.slot)
  BY <1>1, <1>2 DEF Unreferenced, RegInv, R!RefInv, R!Good
<1> HIDE DEF g
<1>5. NewRef(g) \in 1 .. Cardinality(Tables) /\ Len(Referenced(g, o).slot) <= Cardinality(Tables)
  BY <1>1, <1>3, <1>4, SlotsEnough DEF RegInv
<1>6. NewRef(g) \in Refs /\ NewRef(g) # 0 /\ NewRef(g) \in Nat
  BY <1>1, <1>5, HeldFacts DEF Refs
<1>7. \A p \in Tables : InUse(p)' <=> (InUse(p) /\ p # d) \/ p = o
  BY <1>1 DEF InUse, LiveKinds, TypeInv
<1>8. \A p \in Tables : handle'[p] = IF p = o THEN NewRef(g) ELSE handle[p]
  BY <1>1 DEF TypeInv, g
<1>9. held[o] = 0 /\ held' = [held EXCEPT ![d] = 0, ![o] = NewRef(g)]
  BY <1>1, <1>7, <1>8 DEF held
<1>10. R!Renew(o, d)
  <2>1. g = R!Unreferenced(reg, held[d])
    BY <1>2 DEF R!Unreferenced, Unreferenced, g
  <2>2. NewRef(g) = R!NewRef(g) /\ Referenced(g, o) = R!Referenced(g, o)
    BY DEF R!NewRef, NewRef, R!Referenced, Referenced
  <2> QED
    BY <1>2, <1>9, <2>1, <2>2 DEF R!Renew, g
<1>11. R!RefInv'
  BY <1>10, ClientStep DEF R!Next
<1>12. \A p \in Tables : InUse(p)' => handle'[p] # 0
  BY <1>1, <1>6, <1>7, <1>8 DEF RegInv
<1> QED
  BY <1>5, <1>6, <1>10, <1>11, <1>12 DEF RegInv, g

\* Steps that leave registry, kinds and handles alone, or only those of tables
\* that nobody uses.
LEMMA QuietStep ==
    ASSUME CbInv, reg' = reg, \A o \in Tables : InUse(o)' = InUse(o) /\ (InUse(o) => handle'[o] = handle[o])
    PROVE  held' = held /\ RegInv'
<1>1. held' = held
  BY DEF held
<1>2. R!RefInv'
  BY <1>1, ClientStep DEF R!vars
<1> QED
  BY <1>1, <1>2 DEF RegInv, CbInv

\* Gives() takes from the one callback that holds the reference.
LEMMA GivesOne ==
    ASSUME TypeInv, RegInv, NEW k \in LiveKinds, NEW r, r # 0, UsedBy(r, k)
    PROVE  \E d \in Tables :
              /\ kind[d] = k /\ handle[d] = r /\ InUse(d)
              /\ Gives(r, k) = [kind EXCEPT ![d] = "removed"]
<1>1. PICK d \in Tables : kind[d] = k /\ handle[d] = r
  BY DEF UsedBy
<1>2. \A p \in Tables : kind[p] = k => InUse(p)
  BY DEF InUse, LiveKinds
<1>3. \A p \in Tables : kind[p] = k /\ handle[p] = r => p = d
  BY <1>1, <1>2, HeldFacts
<1>4. Gives(r, k) = [kind EXCEPT ![d] = "removed"]
  BY <1>1, <1>3 DEF Gives, TypeInv
<1> QED
  BY <1>1, <1>2, <1>4

\* The reference 0 belongs to nobody.
LEMMA GivesNone ==
    ASSUME TypeInv, RegInv, NEW k \in LiveKinds
    PROVE  Gives(0, k) = kind
<1>1. \A p \in Tables : kind[p] = k => handle[p] # 0
  BY DEF InUse, LiveKinds, RegInv
<1> QED
  BY <1>1 DEF Gives, TypeInv

\* A reference FLTK holds is not the new one.
LEMMA NewUnused ==
    ASSUME CbInv, NEW o \in Tables, kind[o] = "unused"
    PROVE  /\ NewRef(reg) \in Refs /\ NewRef(reg) \in Nat /\ NewRef(reg) # 0
           /\ \A k \in LiveKinds : ~UsedBy(NewRef(reg), k)
           /\ pending[NewRef(reg)] = 0 /\ idle[NewRef(reg)] = 0
<1>1. TypeInv /\ RegInv /\ ~InUse(o)
  BY DEF CbInv, InUse
<1>2. NewRef(reg) \in Refs /\ NewRef(reg) # 0 /\ NewRef(reg) \in Nat /\ \A p \in Tables : InUse(p) => handle[p] # NewRef(reg)
  BY <1>1, FreshRef DEF Refs
<1>3. \A k \in LiveKinds : ~UsedBy(NewRef(reg), k)
  BY <1>2 DEF UsedBy, InUse, LiveKinds
<1>4. pending[NewRef(reg)] = 0 /\ idle[NewRef(reg)] = 0
  BY <1>1, <1>2, <1>3 DEF CbInv, UsesLive, TypeInv, LiveKinds
<1> QED
  BY <1>2, <1>3, <1>4

-----------------------------------------------------------------------------
(* Timeouts and idle callbacks *)

\* Each function of the glue keeps the invariant, and is a step of the clients of
\* LuaRef or a stutter.  Fl.add_timeout:
LEMMA AddTimeoutStep ==
    ASSUME CbInv, NEW o \in Tables, AddTimeout(o)
    PROVE  CbInv' /\ R!Next
<1> DEFINE n == NewRef(reg)
<1>1. TypeInv /\ RegInv /\ UsesLive /\ UsersApart /\ ScheduledAsAsked
  BY DEF CbInv
<1>2. /\ kind[o] = "unused" /\ reg' = Referenced(reg, o)
      /\ handle' = [handle EXCEPT ![o] = n]
      /\ kind' = [kind EXCEPT ![o] = "timeout"]
      /\ repeat' = [repeat EXCEPT ![o] = "false"]
      /\ pending' = [pending EXCEPT ![n] = @ + 1]
      /\ wanted' = [wanted EXCEPT ![o] = 1]
      /\ UNCHANGED <<idle, handlerRef, userData, frames>>
  BY DEF AddTimeout, Store
<1>3. R!Ref(o) /\ RegInv'
  BY <1>2, StoreStep DEF LiveKinds
<1>4. /\ n \in Refs /\ n \in Nat /\ n # 0 /\ pending[n] = 0
      /\ \A k \in LiveKinds : ~UsedBy(n, k)
  BY <1>2, NewUnused
<1> HIDE DEF n
<1>5. TypeInv'
  BY <1>1, <1>2, <1>4 DEF TypeInv, LiveKinds
<1>6. /\ \A p \in Tables : p # o => kind'[p] = kind[p] /\ handle'[p] = handle[p]
      /\ kind'[o] = "timeout" /\ handle'[o] = n
  BY <1>1, <1>2 DEF TypeInv
<1>7. \A r, k : UsedBy(r, k) /\ k \in LiveKinds => UsedBy(r, k)'
  BY <1>2, <1>6 DEF UsedBy, LiveKinds
<1>8. \A r : r = n => UsedBy(r, "timeout")'
  BY <1>6 DEF UsedBy
<1>9. \A r \in Refs : r # n => pending'[r] = pending[r]
  BY <1>1, <1>2 DEF TypeInv
<1>10. UsesLive'
  BY <1>1, <1>2, <1>7, <1>8, <1>9 DEF UsesLive, LiveKinds
<1>11. UsersApart'
  BY <1>1, <1>2 DEF UsersApart
<1>12. ScheduledAsAsked'
  <2> SUFFICES ASSUME NEW p \in Tables, kind'[p] = "timeout"
               PROVE  pending'[handle'[p]] = wanted'[p]
    BY DEF ScheduledAsAsked
  <2>1. CASE p = o
    BY <1>1, <1>2, <1>4, <1>6, <2>1 DEF TypeInv
  <2>2. CASE p # o
    <3>1. kind[p] = "timeout" /\ handle'[p] = handle[p] /\ wanted'[p] = wanted[p]
      BY <1>1, <1>2, <1>6, <2>2 DEF TypeInv
    <3>2. handle[p] # n
      BY <1>4, <3>1 DEF UsedBy, LiveKinds
    <3>3. handle[p] \in Refs
      BY <1>1, <3>1, HeldFacts DEF InUse
    <3> QED
      BY <1>1, <1>9, <3>1, <3>2, <3>3 DEF ScheduledAsAsked
  <2> QED
    BY <2>1, <2>2
<1> QED
  BY <1>3, <1>5, <1>10, <1>11, <1>12 DEF CbInv, R!Next

\* Fl.add_idle:
LEMMA AddIdleStep ==
    ASSUME CbInv, NEW o \in Tables, AddIdle(o)
    PROVE  CbInv' /\ R!Next
<1> DEFINE n == NewRef(reg)
<1>1. TypeInv /\ RegInv /\ UsesLive /\ UsersApart /\ ScheduledAsAsked
  BY DEF CbInv
<1>2. /\ kind[o] = "unused" /\ reg' = Referenced(reg, o)
      /\ handle' = [handle EXCEPT ![o] = n]
      /\ kind' = [kind EXCEPT ![o] = "idle"]
      /\ idle' = [idle EXCEPT ![n] = @ + 1]
      /\ UNCHANGED <<pending, handlerRef, userData, frames, repeat, wanted>>
  BY DEF AddIdle, Store
<1>3. R!Ref(o) /\ RegInv'
  BY <1>2, StoreStep DEF LiveKinds
<1>4. /\ n \in Refs /\ n \in Nat /\ n # 0 /\ idle[n] = 0
      /\ \A k \in LiveKinds : ~UsedBy(n, k)
  BY <1>2, NewUnused
<1> HIDE DEF n
<1>5. TypeInv'
  BY <1>1, <1>2, <1>4 DEF TypeInv, LiveKinds
<1>6. /\ \A p \in Tables : p # o => kind'[p] = kind[p] /\ handle'[p] = handle[p]
      /\ kind'[o] = "idle" /\ handle'[o] = n
  BY <1>1, <1>2 DEF TypeInv
<1>7. \A r, k : UsedBy(r, k) /\ k \in LiveKinds => UsedBy(r, k)'
  BY <1>2, <1>6 DEF UsedBy, LiveKinds
<1>8. \A r : r = n => UsedBy(r, "idle")'
  BY <1>6 DEF UsedBy
<1>9. \A r \in Refs : r # n => idle'[r] = idle[r]
  BY <1>1, <1>2 DEF TypeInv
<1>10. UsesLive'
  BY <1>1, <1>2, <1>7, <1>8, <1>9 DEF UsesLive, LiveKinds
<1>11. UsersApart' /\ ScheduledAsAsked'
  BY <1>1, <1>2, <1>6 DEF UsersApart, ScheduledAsAsked
<1> QED
  BY <1>3, <1>5, <1>10, <1>11 DEF CbInv, R!Next

\* The table a pending reference finds.
LEMMA TimeoutFinds ==
    ASSUME CbInv, NEW o \in Tables, kind[o] = "timeout"
    PROVE  Lookup(handle[o]) = o /\ o # NoTable
BY HeldFacts, CallbacksAssumption DEF CbInv, InUse, Lookup

\* Fl.repeat_timeout does nothing to a removed timeout whose index is free, ...
LEMMA RepeatRemovedStep ==
    ASSUME CbInv, Misuse = {}, NEW o \in Tables, RepeatTimeout(o), kind[o] # "timeout"
    PROVE  UNCHANGED vars
BY DEF RepeatTimeout, MayRepeat, vars

\* ... and schedules one that is registered:
LEMMA RepeatTimeoutStep ==
    ASSUME CbInv, NEW o \in Tables, RepeatTimeout(o), kind[o] = "timeout"
    PROVE  CbInv' /\ UNCHANGED R!vars
<1>1. TypeInv /\ RegInv /\ UsesLive /\ UsersApart /\ ScheduledAsAsked
  BY DEF CbInv
<1>2. /\ kind[o] = "timeout"
      /\ pending' = [pending EXCEPT ![handle[o]] = @ + 1]
      /\ wanted' = [wanted EXCEPT ![o] = @ + 1]
      /\ UNCHANGED <<reg, idle, handlerRef, userData, frames, kind, handle>>
      /\ repeat' = [repeat EXCEPT ![o] = "true"]
  BY TimeoutFinds DEF RepeatTimeout
<1>2a. repeat' \in [Tables -> {"nil", "false", "true"}]
  BY <1>1, <1>2 DEF TypeInv
<1>3. InUse(o) /\ handle[o] \in Refs /\ \A p \in Tables : kind[p] = "timeout" => handle[p] \in Refs /\ (handle[p] = handle[o] => p = o)
  BY <1>1, <1>2, HeldFacts DEF InUse
<1>4. held' = held /\ RegInv'
  BY <1>2, QuietStep DEF InUse
<1>5. TypeInv'
  <2>1. pending' \in [Refs -> Nat] /\ wanted' \in [Tables -> Nat]
    BY <1>1, <1>2, <1>3 DEF TypeInv
  <2> QED
    BY <1>1, <1>2, <1>2a, <2>1 DEF TypeInv
<1>6. UsesLive'
  <2>1. \A r \in Refs : pending'[r] > 0 => pending[r] > 0 \/ r = handle[o]
    BY <1>1, <1>2 DEF TypeInv
  <2>2. UsedBy(handle[o], "timeout")
    BY <1>2 DEF UsedBy
  <2> QED
    BY <1>1, <1>2, <2>1, <2>2 DEF UsesLive, UsedBy
<1>7. UsersApart'
  BY <1>1, <1>2 DEF UsersApart
<1>8. ScheduledAsAsked'
  BY <1>1, <1>2, <1>3 DEF ScheduledAsAsked, TypeInv
<1> QED
  BY <1>2, <1>4, <1>5, <1>6, <1>7, <1>8 DEF CbInv, R!vars

\* The references of callbacks other than the one released stay used.
LEMMA OthersUsed ==
    ASSUME CbInv, NEW d \in Tables, InUse(d), kind' = [kind EXCEPT ![d] = "removed"], handle' = handle
    PROVE  \A k \in LiveKinds : \A r : UsedBy(r, k) /\ (r # handle[d] \/ k # kind[d]) => UsedBy(r, k)'
BY DEF UsedBy, LiveKinds, CbInv, TypeInv

\* Fl.remove_timeout, of what was not removed before:
LEMMA RemoveTimeoutStep ==
    ASSUME CbInv, Misuse = {}, NEW o \in Tables, RemoveTimeout(o)
    PROVE  CbInv' /\ R!Next
<1>1. TypeInv /\ RegInv /\ UsesLive /\ UsersApart /\ ScheduledAsAsked
  BY DEF CbInv
<1>2. /\ kind[o] = "timeout" /\ reg' = Unreferenced(reg, handle[o])
      /\ pending' = [pending EXCEPT ![handle[o]] = 0]
      /\ kind' = [kind EXCEPT ![o] = "removed"]
      /\ wanted' = [wanted EXCEPT ![o] = 0]
      /\ UNCHANGED <<idle, handlerRef, userData, frames, repeat, handle>>
  BY DEF RemoveTimeout, MayRemove
<1>3. InUse(o) /\ handle[o] \in Refs /\ \A p \in Tables : kind[p] = "timeout" => handle[p] \in Refs /\ (handle[p] = handle[o] => p = o)
  BY <1>1, <1>2, HeldFacts DEF InUse
<1>4. R!Unref(o) /\ RegInv'
  BY <1>2, <1>3, ReleaseStep
<1>5. TypeInv'
  BY <1>1, <1>2, <1>3 DEF TypeInv
<1>6. UsesLive'
  <2>1. \A r \in Refs : pending'[r] > 0 => pending[r] > 0 /\ r # handle[o]
    BY <1>1, <1>2 DEF TypeInv
  <2>2. \A k \in LiveKinds : \A r : UsedBy(r, k) /\ (r # handle[o] \/ k # kind[o]) => UsedBy(r, k)'
    BY <1>2, <1>3, OthersUsed
  <2> QED
    BY <1>1, <1>2, <2>1, <2>2 DEF UsesLive, LiveKinds
<1>7. UsersApart'
  BY <1>1, <1>2 DEF UsersApart
<1>8. ScheduledAsAsked'
  BY <1>1, <1>2, <1>3 DEF ScheduledAsAsked, TypeInv
<1> QED
  BY <1>4, <1>5, <1>6, <1>7, <1>8 DEF CbInv, R!Next

\* Fl.remove_idle, of what was not removed before:
LEMMA RemoveIdleStep ==
    ASSUME CbInv, NEW o \in Tables, RemoveIdle(o)
    PROVE  CbInv' /\ R!Next
<1>1. TypeInv /\ RegInv /\ UsesLive /\ UsersApart /\ ScheduledAsAsked
  BY DEF CbInv
<1>2. /\ kind[o] = "idle" /\ reg' = Unreferenced(reg, handle[o])
      /\ idle' = [idle EXCEPT ![handle[o]] = IF @ > 0 THEN @ - 1 ELSE 0]
      /\ kind' = [kind EXCEPT ![o] = "removed"]
      /\ UNCHANGED <<pending, handlerRef, userData, frames, repeat, handle, wanted>>
  BY DEF RemoveIdle
<1>3. InUse(o) /\ handle[o] \in Refs
  BY <1>1, <1>2, HeldFacts DEF InUse
<1>4. R!Unref(o) /\ RegInv'
  BY <1>2, <1>3, ReleaseStep
<1>5. idle'[handle[o]] = 0 /\ idle' \in [Refs -> {0, 1}] /\ \A r \in Refs : r # handle[o] => idle'[r] = idle[r]
  BY <1>1, <1>2, <1>3 DEF TypeInv
<1>6. TypeInv'
  BY <1>1, <1>2, <1>5 DEF TypeInv
<1>7. UsesLive'
  <2>1. \A k \in LiveKinds : \A r : UsedBy(r, k) /\ (r # handle[o] \/ k # kind[o]) => UsedBy(r, k)'
    BY <1>2, <1>3, OthersUsed
  <2> QED
    BY <1>1, <1>2, <1>5, <2>1 DEF UsesLive, LiveKinds
<1>8. UsersApart' /\ ScheduledAsAsked'
  BY <1>1, <1>2 DEF UsersApart, ScheduledAsAsked, TypeInv
<1> QED
  BY <1>4, <1>6, <1>7, <1>8 DEF CbInv, R!Next

\* The table a pending reference finds.
LEMMA PendingFinds ==
    ASSUME CbInv, NEW r \in Refs, pending[r] > 0
    PROVE  /\ Lookup(r) \in Tables /\ Lookup(r) # NoTable
           /\ kind[Lookup(r)] = "timeout" /\ handle[Lookup(r)] = r
<1>1. PICK o \in Tables : kind[o] = "timeout" /\ handle[o] = r
  BY DEF CbInv, UsesLive, UsedBy
<1>2. reg.slot[r] = o
  BY <1>1, HeldFacts DEF CbInv, InUse
<1> QED
  BY <1>1, <1>2, CallbacksAssumption DEF Lookup

\* FLTK calls a timeout:
LEMMA FireTimeoutStep ==
    ASSUME CbInv, NEW r \in 1 .. Len(reg.slot), FireTimeout(r)
    PROVE  CbInv' /\ UNCHANGED R!vars
<1> DEFINE o == Lookup(r)
<1>1. TypeInv /\ RegInv /\ UsesLive /\ UsersApart /\ ScheduledAsAsked
  BY DEF CbInv
<1>2. r \in Refs /\ r \in Nat /\ \A p \in Tables : kind[p] = "timeout" => handle[p] \in Refs
  BY <1>1, HeldFacts DEF Refs, InUse
<1>3. o \in Tables /\ o # NoTable /\ kind[o] = "timeout" /\ handle[o] = r
  BY <1>2, PendingFinds DEF FireTimeout
<1>4. /\ pending[r] > 0
      /\ pending' = [pending EXCEPT ![r] = @ - 1]
      /\ frames' = Append(frames, [ref |-> r, tbl |-> o])
      /\ wanted' = [wanted EXCEPT ![o] = IF @ > 0 THEN @ - 1 ELSE 0]
      /\ UNCHANGED <<reg, idle, handlerRef, userData, repeat, kind, handle>>
  BY <1>3 DEF FireTimeout
<1> HIDE DEF o
<1>5. held' = held /\ RegInv'
  BY <1>4, QuietStep DEF InUse
<1>6. TypeInv'
  <2>1. pending' \in [Refs -> Nat] /\ wanted' \in [Tables -> Nat]
    BY <1>1, <1>2, <1>3, <1>4 DEF TypeInv
  <2>2. frames' \in Seq([ref : Nat, tbl : Tables])
    BY <1>1, <1>2, <1>3, <1>4 DEF TypeInv
  <2> QED
    BY <1>1, <1>4, <2>1, <2>2 DEF TypeInv
<1>7. UsesLive'
  <2>1. \A q \in Refs : pending'[q] > 0 => pending[q] > 0
    BY <1>1, <1>2, <1>4 DEF TypeInv
  <2> QED
    BY <1>1, <1>4, <2>1 DEF UsesLive, UsedBy
<1>8. UsersApart'
  BY <1>1, <1>4 DEF UsersApart
<1>9. ScheduledAsAsked'
  <2>1. \A p \in Tables : kind[p] = "timeout" /\ handle[p] = r => p = o
    BY <1>1, <1>3, HeldFacts DEF InUse
  <2>2. pending[r] = wanted[o]
    BY <1>1, <1>3 DEF ScheduledAsAsked
  <2> QED
    BY <1>1, <1>2, <1>3, <1>4, <2>1, <2>2 DEF ScheduledAsAsked, TypeInv
<1> QED
  BY <1>4, <1>5, <1>6, <1>7, <1>8, <1>9 DEF CbInv, R!vars

\* "repeat" is a boolean, so the trampoline releases nothing by itself.
LEMMA ReturnStep ==
    ASSUME CbInv, CalledInv, TimeoutReturns
    PROVE  CbInv' /\ UNCHANGED R!vars
<1>1. TypeInv /\ RegInv /\ UsesLive /\ UsersApart /\ ScheduledAsAsked
  BY DEF CbInv
<1>2. /\ frames # <<>> /\ frames' = SubSeq(frames, 1, Len(frames) - 1)
      /\ UNCHANGED <<pending, idle, handlerRef, userData, repeat, kind, handle, wanted>>
      /\ reg' = IF ReleasedAfterCall(frames[Len(frames)].tbl)
                  THEN Unreferenced(reg, frames[Len(frames)].ref) ELSE reg
  BY DEF TimeoutReturns
<1> DEFINE F == [ref : Nat, tbl : Tables]
<1>3. frames \in Seq(F) /\ frames[Len(frames)] \in F /\ SubSeq(frames, 1, Len(frames) - 1) \in Seq(F)
  <2>1. frames \in Seq(F)
    BY <1>1 DEF TypeInv
  <2> HIDE DEF F
  <2>2. Len(frames) \in 1 .. Len(frames) /\ Len(frames) \in Nat
    BY <1>2, <2>1
  <2>3. Len(frames) - 1 \in 0 .. Len(frames)
    BY <2>2
  <2> QED
    BY <2>1, <2>2, <2>3
<1>4. frames[Len(frames)].tbl \in Tables
  BY <1>3
<1>5. reg' = reg
  <2>1. Len(frames) \in 1 .. Len(frames)
    BY <1>2, <1>3
  <2>2. frames[Len(frames)].tbl \in Called
    BY <2>1 DEF Called
  <2> QED
    BY <1>2, <2>2 DEF CalledInv, ReleasedAfterCall
<1>6. frames' \in Seq(F)
  BY <1>2, <1>3
<1>7. held' = held /\ RegInv'
  BY <1>2, <1>5, QuietStep DEF InUse
<1>8. TypeInv' /\ UsesLive' /\ UsersApart' /\ ScheduledAsAsked'
  BY <1>1, <1>2, <1>5, <1>6 DEF TypeInv, UsesLive, UsedBy, UsersApart, ScheduledAsAsked
<1> QED
  BY <1>5, <1>7, <1>8 DEF CbInv, R!vars

\* The script loses a handle:
LEMMA ForgetStep ==
    ASSUME CbInv, NEW o \in Tables, Forget(o)
    PROVE  CbInv' /\ UNCHANGED R!vars
<1>1. TypeInv /\ RegInv /\ UsesLive /\ UsersApart /\ ScheduledAsAsked
  BY DEF CbInv
<1>2. /\ kind[o] = "removed"
      /\ kind' = [kind EXCEPT ![o] = "unused"]
      /\ handle' = [handle EXCEPT ![o] = 0]
      /\ repeat' = [repeat EXCEPT ![o] = "nil"]
      /\ UNCHANGED <<reg, pending, idle, handlerRef, userData, frames, wanted>>
  BY DEF Forget
<1>3. /\ \A p \in Tables : p # o => kind'[p] = kind[p] /\ handle'[p] = handle[p]
      /\ kind'[o] = "unused"
  BY <1>1, <1>2 DEF TypeInv
<1>4. \A p \in Tables : InUse(p)' = InUse(p) /\ (InUse(p) => handle'[p] = handle[p])
  BY <1>2, <1>3 DEF InUse
<1>5. held' = held /\ RegInv'
  BY <1>2, <1>4, QuietStep
<1>6. TypeInv'
  BY <1>1, <1>2 DEF TypeInv
<1>7. \A r, k : UsedBy(r, k) /\ k \in LiveKinds => UsedBy(r, k)'
  BY <1>2, <1>3 DEF UsedBy, LiveKinds
<1>8. UsesLive' /\ UsersApart' /\ ScheduledAsAsked'
  BY <1>1, <1>2, <1>3, <1>7 DEF UsesLive, UsersApart, ScheduledAsAsked, LiveKinds
<1> QED
  BY <1>2, <1>5, <1>6, <1>8 DEF CbInv, R!vars

-----------------------------------------------------------------------------
(* Handlers, menu items and widgets *)

\* No two callbacks share a reference.
HandlesApart == \A o, p \in Tables : InUse(o) /\ InUse(p) /\ handle[o] = handle[p] => o = p

\* No two owners have one reference, before a step ...
LEMMA ApartNow == TypeInv /\ RegInv => HandlesApart
BY HeldFacts DEF HandlesApart

\* ... and after it.
LEMMA ApartNext == TypeInv' /\ RegInv' => HandlesApart'
BY ApartNow, PTL

\* Fl.add_handler and its kin:
LEMMA AddHandlerStep ==
    ASSUME CbInv, NEW o \in Tables, NEW h \in Handlers, AddHandler(h, o)
    PROVE  CbInv' /\ R!Next
<1> DEFINE n == NewRef(reg)
<1>1. TypeInv /\ RegInv /\ UsesLive /\ UsersApart /\ ScheduledAsAsked
  BY DEF CbInv
<1>2. /\ kind[o] = "unused" /\ reg' = Referenced(reg, o)
      /\ handle' = [handle EXCEPT ![o] = n]
      /\ kind' = [kind EXCEPT ![o] = "handler"]
      /\ handlerRef' = [handlerRef EXCEPT ![h] = n]
      /\ UNCHANGED <<pending, idle, userData, frames, repeat, wanted>>
  BY DEF AddHandler, Store
<1>3. R!Ref(o) /\ RegInv'
  BY <1>2, StoreStep DEF LiveKinds
<1>4. /\ n \in Nat /\ n # 0
      /\ \A k \in LiveKinds : ~UsedBy(n, k)
  BY <1>2, NewUnused
<1> HIDE DEF n
<1>5. TypeInv'
  BY <1>1, <1>2, <1>4 DEF TypeInv, LiveKinds
<1>6. /\ \A p \in Tables : p # o => kind'[p] = kind[p] /\ handle'[p] = handle[p]
      /\ kind'[o] = "handler" /\ handle'[o] = n
  BY <1>1, <1>2 DEF TypeInv
<1>7. \A r, k : UsedBy(r, k) /\ k \in LiveKinds => UsedBy(r, k)'
  BY <1>2, <1>6 DEF UsedBy, LiveKinds
<1>8. \A r : r = n => UsedBy(r, "handler")'
  BY <1>6 DEF UsedBy
<1>9. handlerRef'[h] = n /\ \A g \in Handlers : g # h => handlerRef'[g] = handlerRef[g]
  BY <1>1, <1>2 DEF TypeInv
<1>10. UsesLive'
  BY <1>1, <1>2, <1>7, <1>8, <1>9 DEF UsesLive, LiveKinds
<1>11. UsersApart'
  <2>1. \A g \in Handlers : handlerRef[g] # 0 => handlerRef[g] # n
    BY <1>1, <1>4 DEF UsesLive, LiveKinds
  <2> QED
    BY <1>1, <1>2, <1>9, <2>1 DEF UsersApart
<1>12. ScheduledAsAsked'
  BY <1>1, <1>2, <1>6 DEF ScheduledAsAsked
<1> QED
  BY <1>3, <1>5, <1>10, <1>11, <1>12 DEF CbInv, R!Next

\* Their removal:
LEMMA RemoveHandlerStep ==
    ASSUME CbInv, NEW h \in Handlers, RemoveHandler(h)
    PROVE  CbInv' /\ R!Next
<1>1. TypeInv /\ RegInv /\ UsesLive /\ UsersApart /\ ScheduledAsAsked
  BY DEF CbInv
<1>2. /\ handlerRef[h] # 0 /\ reg' = Unreferenced(reg, handlerRef[h])
      /\ handlerRef' = [handlerRef EXCEPT ![h] = 0]
      /\ kind' = Gives(handlerRef[h], "handler")
      /\ UNCHANGED <<pending, idle, userData, frames, repeat, handle, wanted>>
  BY DEF RemoveHandler
<1>3. PICK d \in Tables : /\ kind[d] = "handler" /\ handle[d] = handlerRef[h] /\ InUse(d)
                          /\ kind' = [kind EXCEPT ![d] = "removed"]
  <2>1. UsedBy(handlerRef[h], "handler")
    BY <1>1, <1>2 DEF UsesLive
  <2>2. "handler" \in LiveKinds
    BY DEF LiveKinds
  <2> QED
    BY <1>1, <1>2, <2>1, <2>2, GivesOne
<1>4. R!Unref(d) /\ RegInv'
  BY <1>2, <1>3, ReleaseStep
<1>5. TypeInv'
  BY <1>1, <1>2, <1>3 DEF TypeInv
<1>6. /\ handlerRef'[h] = 0
      /\ \A g \in Handlers : g # h => handlerRef'[g] = handlerRef[g]
  BY <1>1, <1>2 DEF TypeInv
<1>7. \A k \in LiveKinds : \A r : UsedBy(r, k) /\ (r # handle[d] \/ k # kind[d]) => UsedBy(r, k)'
  BY <1>2, <1>3, OthersUsed
<1>8. UsesLive'
  <2>1. \A g \in Handlers : handlerRef'[g] # 0 => UsedBy(handlerRef[g], "handler") /\ handlerRef[g] # handle[d]
    BY <1>1, <1>2, <1>3, <1>6 DEF UsesLive, UsersApart
  <2> QED
    BY <1>1, <1>2, <1>3, <1>6, <1>7, <2>1 DEF UsesLive, LiveKinds
<1>9. UsersApart'
  BY <1>1, <1>2, <1>6 DEF UsersApart
<1>10. ScheduledAsAsked'
  BY <1>1, <1>2, <1>3 DEF ScheduledAsAsked, TypeInv
<1> QED
  BY <1>4, <1>5, <1>8, <1>9, <1>10 DEF CbInv, R!Next

(* Items and widgets differ in the order of the two steps only: what follows *)
(* from the exchange of one reference for another is the same.               *)
LEMMA UserStep ==
    ASSUME CbInv, NEW k \in {"item", "data"}, NEW x \in IF k = "item" THEN MenuItems ELSE Widgets,
           NEW o \in Tables, NEW n \in Nat, n # 0, kind[o] = "unused",
           handle' = [handle EXCEPT ![o] = n],
           userData' = [userData EXCEPT ![x] = n],
           kind' = [Gives(userData[x], k) EXCEPT ![o] = k],
           UNCHANGED <<pending, idle, handlerRef, frames, repeat, wanted>>,
           RegInv'
    PROVE  CbInv'
<1>1. TypeInv /\ RegInv /\ UsesLive /\ UsersApart /\ ScheduledAsAsked
  BY DEF CbInv
<1>2. MenuItems \cap Widgets = {}
  BY CallbacksAssumption
<1>3. x \in MenuItems \cup Widgets
  OBVIOUS
<1>4. /\ kind'[o] = k /\ handle'[o] = n
      /\ \A p \in Tables \ {o} :
            /\ handle'[p] = handle[p]
            /\ kind'[p] = IF kind[p] = k /\ handle[p] = userData[x] THEN "removed" ELSE kind[p]
  BY <1>1 DEF TypeInv, Gives
<1>5. kind' \in [Tables -> LiveKinds \cup {"unused", "removed"}]
  BY <1>1 DEF TypeInv, Gives, LiveKinds
<1>6. TypeInv'
  BY <1>1, <1>3, <1>5 DEF TypeInv
<1>7. \A q \in LiveKinds : \A r : UsedBy(r, q) /\ (r # userData[x] \/ q # k) => UsedBy(r, q)'
  <2> SUFFICES ASSUME NEW q \in LiveKinds, NEW r, UsedBy(r, q), r # userData[x] \/ q # k
               PROVE  UsedBy(r, q)'
    OBVIOUS
  <2>1. PICK p \in Tables : kind[p] = q /\ handle[p] = r
    BY DEF UsedBy
  <2>2. p # o
    BY <2>1 DEF LiveKinds
  <2>3. kind'[p] = q /\ handle'[p] = r
    BY <1>4, <2>1, <2>2
  <2> QED
    BY <2>3 DEF UsedBy
<1>8. UsedBy(n, k)'
  BY <1>4 DEF UsedBy
<1>9. /\ userData'[x] = n
      /\ \A y \in MenuItems \cup Widgets : y # x => userData'[y] = userData[y]
  BY <1>1, <1>3 DEF TypeInv
<1>10. ASSUME NEW q \in {"item", "data"}, NEW y \in IF q = "item" THEN MenuItems ELSE Widgets,
              y # x, userData'[y] # 0
       PROVE  UsedBy(userData[y], q)' /\ userData'[y] = userData[y] /\ (q = k => userData[y] # n)
  <2>1. userData'[y] = userData[y]
    BY <1>9, <1>10
  <2>2. UsedBy(userData[y], q)
    BY <1>1, <1>10, <2>1 DEF UsesLive
  <2>3. q = k => userData[y] # userData[x]
    BY <1>1, <1>10, <2>1 DEF UsersApart
  <2>4. PICK p \in Tables : kind[p] = q /\ handle[p] = userData[y]
    BY <2>2 DEF UsedBy
  <2>5. p # o
    BY <2>4
  <2>6. kind'[p] = q /\ handle'[p] = userData[y]
    BY <1>4, <2>3, <2>4, <2>5
  <2>7. HandlesApart'
    BY <1>6, ApartNext
  <2>8. userData[y] # n
    BY <1>4, <2>5, <2>6, <2>7 DEF HandlesApart, InUse
  <2>9. UsedBy(userData[y], q)'
    BY <2>1, <2>6 DEF UsedBy
  <2> QED
    BY <2>1, <2>8, <2>9
<1>11. UsesLive'
  <2>1. \A r \in Refs : pending'[r] > 0 => UsedBy(r, "timeout")'
    BY <1>1, <1>7 DEF UsesLive, LiveKinds
  <2>2. \A r \in Refs : idle'[r] > 0 => UsedBy(r, "idle")'
    BY <1>1, <1>7 DEF UsesLive, LiveKinds
  <2>3. \A h \in Handlers : handlerRef'[h] # 0 => UsedBy(handlerRef[h], "handler")'
    BY <1>1, <1>7 DEF UsesLive, LiveKinds
  <2>4. \A m \in MenuItems : userData'[m] # 0 => UsedBy(userData[m], "item")'
    BY <1>2, <1>8, <1>9, <1>10 DEF UsedBy
  <2>5. \A w \in Widgets : userData'[w] # 0 => UsedBy(userData[w], "data")'
    BY <1>2, <1>8, <1>9, <1>10 DEF UsedBy
  <2> QED
    BY <2>1, <2>2, <2>3, <2>4, <2>5 DEF UsesLive
<1>12. UsersApart'
  <2>1. \A g, h \in Handlers : handlerRef'[g] # 0 /\ handlerRef'[g] = handlerRef'[h] => g = h
    BY <1>1 DEF UsersApart
  <2>2. ASSUME NEW m \in MenuItems, NEW i \in MenuItems, userData'[m] # 0, userData'[m] = userData'[i], m # i
        PROVE  FALSE
    <3>1. CASE m = x
      BY <1>2, <1>9, <1>10, <2>2, <3>1
    <3>2. CASE i = x
      BY <1>2, <1>9, <1>10, <2>2, <3>2
    <3>3. CASE m # x /\ i # x
      BY <1>1, <1>9, <2>2, <3>3 DEF UsersApart
    <3> QED
      BY <3>1, <3>2, <3>3
  <2>3. ASSUME NEW v \in Widgets, NEW w \in Widgets, userData'[v] # 0, userData'[v] = userData'[w], v # w
        PROVE  FALSE
    <3>1. CASE v = x
      BY <1>2, <1>9, <1>10, <2>3, <3>1
    <3>2. CASE w = x
      BY <1>2, <1>9, <1>10, <2>3, <3>2
    <3>3. CASE v # x /\ w # x
      BY <1>1, <1>9, <2>3, <3>3 DEF UsersApart
    <3> QED
      BY <3>1, <3>2, <3>3
  <2> QED
    BY <2>1, <2>2, <2>3 DEF UsersApart
<1>13. ScheduledAsAsked'
  BY <1>1, <1>4 DEF ScheduledAsAsked
<1> QED
  BY <1>6, <1>11, <1>12, <1>13 DEF CbInv

\* A menu item gets a callback:
LEMMA SetItemStep ==
    ASSUME CbInv, NEW m \in MenuItems, NEW o \in Tables, SetItem(m, o)
    PROVE  CbInv' /\ R!Next
<1> DEFINE n == NewRef(reg)
<1>1. TypeInv /\ RegInv /\ UsesLive /\ UsersApart
  BY DEF CbInv
<1>2. /\ kind[o] = "unused"
      /\ reg' = Released(Referenced(reg, o), userData[m])
      /\ handle' = [handle EXCEPT ![o] = n]
      /\ userData' = [userData EXCEPT ![m] = n]
      /\ kind' = [Gives(userData[m], "item") EXCEPT ![o] = "item"]
      /\ UNCHANGED <<pending, idle, handlerRef, frames, repeat, wanted>>
  BY DEF SetItem
<1>3. "item" \in LiveKinds /\ n \in Nat /\ n # 0
  BY <1>2, NewUnused DEF LiveKinds
<1>4. CASE userData[m] = 0
  <2>1. reg' = Referenced(reg, o) /\ kind' = [kind EXCEPT ![o] = "item"]
    BY <1>1, <1>2, <1>3, <1>4, GivesNone DEF Released
  <2> QED
    BY <1>2, <1>3, <2>1, StoreStep, UserStep DEF R!Next
<1>5. CASE userData[m] # 0
  <2>1. PICK d \in Tables : /\ kind[d] = "item" /\ handle[d] = userData[m] /\ InUse(d)
                            /\ Gives(userData[m], "item") = [kind EXCEPT ![d] = "removed"]
    <3>1. UsedBy(userData[m], "item")
      BY <1>1, <1>5 DEF UsesLive
    <3> QED
      BY <1>1, <1>3, <1>5, <3>1, GivesOne
  <2>2. reg' = Unreferenced(Referenced(reg, o), handle[d])
    BY <1>2, <1>5, <2>1 DEF Released
  <2>3. R!Replace(o, d) /\ RegInv'
    BY <1>2, <1>3, <2>1, <2>2, ReplaceStep
  <2> QED
    BY <1>2, <1>3, <2>3, UserStep DEF R!Next
<1> QED
  BY <1>4, <1>5

\* A widget gets a callback:
LEMMA SetCallbackStep ==
    ASSUME CbInv, NEW w \in Widgets, NEW o \in Tables, SetCallback(w, o)
    PROVE  CbInv' /\ R!Next
<1> DEFINE g == Released(reg, userData[w])
           n == NewRef(g)
<1>1. TypeInv /\ RegInv /\ UsesLive /\ UsersApart
  BY DEF CbInv
<1>2. /\ kind[o] = "unused"
      /\ reg' = Referenced(g, o)
      /\ handle' = [handle EXCEPT ![o] = n]
      /\ userData' = [userData EXCEPT ![w] = n]
      /\ kind' = [Gives(userData[w], "data") EXCEPT ![o] = "data"]
      /\ UNCHANGED <<pending, idle, handlerRef, frames, repeat, wanted>>
  BY DEF SetCallback
<1>3. "data" \in LiveKinds /\ w \in IF "data" = "item" THEN MenuItems ELSE Widgets
  BY DEF LiveKinds
<1>4. CASE userData[w] = 0
  <2>1. /\ g = reg /\ n = NewRef(reg)
        /\ kind' = [kind EXCEPT ![o] = "data"]
    BY <1>1, <1>2, <1>3, <1>4, GivesNone DEF Released
  <2>2. n \in Nat /\ n # 0
    BY <1>2, <2>1, NewUnused
  <2> HIDE DEF g, n
  <2>3. R!Ref(o) /\ RegInv'
    BY <1>2, <1>3, <2>1, StoreStep
  <2> QED
    BY <1>2, <1>3, <2>2, <2>3, UserStep DEF R!Next
<1>5. CASE userData[w] # 0
  <2>1. PICK d \in Tables : /\ kind[d] = "data" /\ handle[d] = userData[w] /\ InUse(d)
                            /\ Gives(userData[w], "data") = [kind EXCEPT ![d] = "removed"]
    <3>1. UsedBy(userData[w], "data")
      BY <1>1, <1>5 DEF UsesLive
    <3> QED
      BY <1>1, <1>3, <1>5, <3>1, GivesOne
  <2>2. g = Unreferenced(reg, handle[d])
    BY <1>5, <2>1 DEF Released
  <2> HIDE DEF g
  <2>3. R!Renew(o, d) /\ RegInv' /\ n \in Refs
    BY <1>2, <1>3, <2>1, <2>2, RenewStep
  <2>4. n \in Nat /\ n # 0
    BY <2>3 DEF Refs
  <2> HIDE DEF n
  <2> QED
    BY <1>2, <1>3, <2>3, <2>4, UserStep DEF R!Next
<1> QED
  BY <1>4, <1>5

\* A widget gets a callback without data:
LEMMA NoDataStep ==
    ASSUME CbInv, NEW w \in Widgets, SetCallbackNoData(w)
    PROVE  CbInv' /\ R!Next
<1>1. TypeInv /\ RegInv /\ UsesLive /\ UsersApart /\ ScheduledAsAsked
  BY DEF CbInv
<1>2. /\ userData[w] # 0 /\ reg' = Unreferenced(reg, userData[w])
      /\ userData' = [userData EXCEPT ![w] = 0]
      /\ kind' = Gives(userData[w], "data")
      /\ UNCHANGED <<pending, idle, handlerRef, frames, repeat, handle, wanted>>
  BY DEF SetCallbackNoData, Released
<1>3. PICK d \in Tables : /\ kind[d] = "data" /\ handle[d] = userData[w] /\ InUse(d)
                          /\ kind' = [kind EXCEPT ![d] = "removed"]
  <2>1. UsedBy(userData[w], "data")
    BY <1>1, <1>2 DEF UsesLive
  <2>2. "data" \in LiveKinds
    BY DEF LiveKinds
  <2> QED
    BY <1>1, <1>2, <2>1, <2>2, GivesOne
<1>4. R!Unref(d) /\ RegInv'
  BY <1>2, <1>3, ReleaseStep
<1>5. TypeInv'
  BY <1>1, <1>2, <1>3 DEF TypeInv
<1>6. /\ userData'[w] = 0
      /\ \A y \in MenuItems \cup Widgets : y # w => userData'[y] = userData[y]
  BY <1>1, <1>2 DEF TypeInv
<1>7. \A k \in LiveKinds : \A r : UsedBy(r, k) /\ (r # handle[d] \/ k # kind[d]) => UsedBy(r, k)'
  BY <1>2, <1>3, OthersUsed
<1>8. UsesLive'
  <2>1. \A v \in Widgets : userData'[v] # 0 =>
           UsedBy(userData[v], "data") /\ userData[v] # handle[d] /\ userData'[v] = userData[v]
    BY <1>1, <1>2, <1>3, <1>6 DEF UsesLive, UsersApart
  <2>2. \A m \in MenuItems : userData'[m] = userData[m]
    BY <1>6, CallbacksAssumption
  <2> QED
    BY <1>1, <1>2, <1>3, <1>7, <2>1, <2>2 DEF UsesLive, LiveKinds
<1>9. UsersApart'
  <2>1. \A m \in MenuItems : userData'[m] = userData[m]
    BY <1>6, CallbacksAssumption
  <2> QED
    BY <1>1, <1>2, <1>6, <2>1 DEF UsersApart
<1>10. ScheduledAsAsked'
  BY <1>1, <1>2, <1>3 DEF ScheduledAsAsked, TypeInv
<1> QED
  BY <1>4, <1>5, <1>8, <1>9, <1>10 DEF CbInv, R!Next

-----------------------------------------------------------------------------
(* The theorems *)

\* A step that makes no timeout, forgets none and changes no "repeat" field to nil
\* leaves the fields alone.
LEMMA FieldsKept ==
    ASSUME CalledInv, frames' = frames,
           \A p \in Tables : /\ kind'[p] = "timeout" => kind[p] = "timeout"
                             /\ kind'[p] = "unused" => kind[p] = "unused"
                             /\ repeat'[p] = "nil" => repeat[p] = "nil"
    PROVE  CalledInv'
BY DEF CalledInv, Called

\* The "repeat" fields of timeouts stay booleans.
LEMMA CalledStep == CbInv /\ CalledInv /\ [Next]_vars => CalledInv'
<1> SUFFICES ASSUME CbInv, CalledInv, [Next]_vars PROVE CalledInv'
  OBVIOUS
<1>1. TypeInv /\ RegInv
  BY DEF CbInv
<1>2. ASSUME NEW o \in Tables, AddTimeout(o) PROVE CalledInv'
  <2>1. /\ \A p \in Tables \ {o} : kind'[p] = kind[p] /\ repeat'[p] = repeat[p]
        /\ kind'[o] = "timeout" /\ repeat'[o] = "false" /\ frames' = frames
    BY <1>1, <1>2 DEF AddTimeout, Store, TypeInv
  <2>2. Called' = Called
    BY <2>1 DEF Called
  <2> QED
    BY <2>1, <2>2 DEF CalledInv
<1>3. ASSUME NEW o \in Tables, RepeatTimeout(o) PROVE CalledInv'
  <2>1. kind' = kind /\ frames' = frames
    BY <1>3 DEF RepeatTimeout
  <2>2. repeat' = repeat \/ repeat' = [repeat EXCEPT ![Lookup(handle[o])] = "true"]
    BY <1>3 DEF RepeatTimeout
  <2>3. \A p \in Tables : repeat'[p] = "nil" => repeat[p] = "nil"
    BY <1>1, <2>2 DEF TypeInv
  <2> QED
    BY <2>1, <2>3, FieldsKept
<1>4. ASSUME NEW o \in Tables, Forget(o) PROVE CalledInv'
  <2>1. /\ \A p \in Tables \ {o} : kind'[p] = kind[p] /\ repeat'[p] = repeat[p]
        /\ kind'[o] = "unused" /\ frames' = frames
        /\ \A i \in 1 .. Len(frames) : frames[i].tbl # o
    BY <1>1, <1>4 DEF Forget, TypeInv
  <2>2. Called' = Called /\ o \notin Called
    BY <2>1 DEF Called
  <2> QED
    BY <2>1, <2>2 DEF CalledInv
<1>5. ASSUME NEW r \in 1 .. Len(reg.slot), FireTimeout(r) PROVE CalledInv'
  <2>1. r \in Refs /\ pending[r] > 0 /\ kind' = kind /\ repeat' = repeat
    BY <1>1, <1>5, HeldFacts DEF FireTimeout
  <2>2. Lookup(r) \in Tables /\ Lookup(r) # NoTable /\ kind[Lookup(r)] = "timeout"
    BY <2>1, PendingFinds
  <2>3. frames' = Append(frames, [ref |-> r, tbl |-> Lookup(r)]) /\ Len(frames) \in Nat
        /\ frames \in Seq([ref : Nat, tbl : Tables])
    BY <1>1, <1>5, <2>2 DEF FireTimeout, TypeInv
  <2>4. /\ Len(frames') = Len(frames) + 1 /\ frames'[Len(frames) + 1].tbl = Lookup(r)
        /\ \A i \in 1 .. Len(frames) : frames'[i] = frames[i]
    BY <2>3
  <2>5. Called' \subseteq Called \cup {Lookup(r)}
    BY <2>3, <2>4 DEF Called
  <2> QED
    BY <2>1, <2>2, <2>5 DEF CalledInv
<1>6. ASSUME TimeoutReturns PROVE CalledInv'
  <2>1. /\ frames # <<>> /\ frames' = SubSeq(frames, 1, Len(frames) - 1)
        /\ kind' = kind /\ repeat' = repeat /\ frames \in Seq([ref : Nat, tbl : Tables])
    BY <1>1, <1>6 DEF TimeoutReturns, TypeInv
  <2> DEFINE F == [ref : Nat, tbl : Tables]
  <2>f. frames \in Seq(F)
    BY <2>1
  <2> HIDE DEF F
  <2>2. Len(frames') = Len(frames) - 1 /\ Len(frames) \in Nat \ {0}
        /\ \A i \in 1 .. Len(frames) - 1 : frames'[i] = frames[i]
    <3>1. Len(frames) \in Nat \ {0}
      BY <2>1, <2>f
    <3> DEFINE n == Len(frames) - 1
    <3>2. n \in Nat /\ frames' = SubSeq(frames, 1, n) /\ \A i \in 1 .. n : frames[i] \in F
      BY <2>1, <2>f, <3>1
    <3> HIDE DEF n
    <3>3. /\ Len(frames') = IF 1 <= n THEN n - 1 + 1 ELSE 0
          /\ \A i \in 1 .. n - 1 + 1 : frames'[i] = frames[1 + i - 1]
      BY <3>2, SubSeqProperties
    <3>4. Len(frames') = n /\ \A i \in 1 .. n : frames'[i] = frames[i]
      BY <3>2, <3>3
    <3> QED
      BY <3>1, <3>4 DEF n
  <2>3. \A i \in 1 .. Len(frames') : i \in 1 .. Len(frames) /\ frames'[i].tbl = frames[i].tbl
    BY <2>2
  <2>4. Called' \subseteq Called
    BY <2>3 DEF Called
  <2> QED
    BY <2>1, <2>4 DEF CalledInv
<1>7. ASSUME NEW o \in Tables,
             RemoveTimeout(o) \/ AddIdle(o) \/ RemoveIdle(o) \/ (\E h \in Handlers : AddHandler(h, o))
      PROVE  CalledInv'
  <2>1. /\ frames' = frames /\ repeat' = repeat
        /\ \E k \in {"idle", "handler", "removed"} : kind' = [kind EXCEPT ![o] = k]
    BY <1>7 DEF RemoveTimeout, AddIdle, RemoveIdle, AddHandler, Store
  <2>2. \A p \in Tables : /\ kind'[p] = "timeout" => kind[p] = "timeout"
                          /\ kind'[p] = "unused" => kind[p] = "unused"
    BY <1>1, <2>1 DEF TypeInv
  <2> QED
    BY <2>1, <2>2, FieldsKept
<1>8. ASSUME \/ \E o \in Tables, m \in MenuItems : SetItem(m, o)
             \/ \E o \in Tables, w \in Widgets : SetCallback(w, o)
             \/ \E w \in Widgets : SetCallbackNoData(w)
             \/ \E h \in Handlers : RemoveHandler(h)
      PROVE  CalledInv'
  <2>1. frames' = frames /\ repeat' = repeat
    BY <1>8 DEF SetItem, SetCallback, SetCallbackNoData, RemoveHandler
  <2>2. PICK r, k : \/ kind' = Gives(r, k)
                    \/ \E o \in Tables, n \in {"item", "data"} : kind' = [Gives(r, k) EXCEPT ![o] = n]
    BY <1>8 DEF SetItem, SetCallback, SetCallbackNoData, RemoveHandler
  <2>3. \A p \in Tables : /\ Gives(r, k)[p] = "timeout" => kind[p] = "timeout"
                          /\ Gives(r, k)[p] = "unused" => kind[p] = "unused"
    BY DEF Gives
  <2>4. DOMAIN Gives(r, k) = Tables
    BY DEF Gives
  <2>5. \A p \in Tables : kind'[p] = Gives(r, k)[p] \/ kind'[p] \in {"item", "data"}
    BY <2>2, <2>4
  <2>6. \A p \in Tables : /\ kind'[p] = "timeout" => kind[p] = "timeout"
                          /\ kind'[p] = "unused" => kind[p] = "unused"
    BY <2>3, <2>5
  <2> QED
    BY <2>1, <2>6, FieldsKept
<1>9. CASE UNCHANGED vars
  BY <1>9, FieldsKept DEF vars
<1> QED
  BY <1>2, <1>3, <1>4, <1>5, <1>6, <1>7, <1>8, <1>9 DEF Next

\* All of them together.
LEMMA CbStep == Misuse = {} /\ CbInv /\ CalledInv /\ [Next]_vars => CbInv' /\ [R!Next]_R!vars
<1> SUFFICES ASSUME Misuse = {}, CbInv, CalledInv, [Next]_vars
             PROVE  CbInv' /\ [R!Next]_R!vars
  OBVIOUS
<1>1. CASE UNCHANGED vars
  <2>1. held' = held /\ RegInv'
    BY <1>1, QuietStep DEF vars, InUse
  <2> QED
    BY <1>1, <2>1 DEF vars, CbInv, TypeInv, UsesLive, UsedBy, UsersApart, ScheduledAsAsked, R!vars
<1>2. CASE \E o \in Tables : RepeatTimeout(o)
  BY <1>1, <1>2, RepeatRemovedStep, RepeatTimeoutStep
<1>3. CASE Next /\ ~\E o \in Tables : RepeatTimeout(o)
  BY <1>3, AddTimeoutStep, RemoveTimeoutStep, AddIdleStep, RemoveIdleStep,
     ForgetStep, AddHandlerStep, SetItemStep, SetCallbackStep, NoDataStep, RemoveHandlerStep,
     FireTimeoutStep, ReturnStep DEF Next
<1> QED
  BY <1>1, <1>2, <1>3

\* So the invariants always hold, for scripts without misuse.
LEMMA CallbacksInvariant ==
    ASSUME Misuse = {}
    PROVE  Spec => [](CbInv /\ CalledInv)
<1>1. CbInv /\ CalledInv /\ [Next]_vars => (CbInv /\ CalledInv)'
  BY CbStep, CalledStep
<1>2. Init => CbInv /\ CalledInv
  <2>1. Init => CalledInv
    BY DEF Init, CalledInv, Called
  <2> QED
    BY <2>1, CbInit
<1> QED
  BY <1>1, <1>2, PTL DEF Spec

\* Whatever else a script does that removes each callback once, and does not use
\* the handle of a removed timeout in Fl.repeat_timeout while another table has
\* its index, no timeout, idle callback, handler, item or widget holds a reference
\* that luaL_unref has released: a removed callback is never called.
THEOREM NoDanglingCallback ==
    ASSUME Misuse = {}
    PROVE  Spec => []NothingDangles
<1>1. CbInv => NothingDangles
  <2> SUFFICES ASSUME CbInv PROVE NothingDangles
    OBVIOUS
  <2>1. TypeInv /\ RegInv /\ UsesLive
    BY DEF CbInv
  <2>2. ASSUME NEW k \in LiveKinds, NEW r, UsedBy(r, k)
        PROVE  LET o == reg.slot[r] IN o \in Tables /\ kind[o] = k /\ handle[o] = r
    <3>1. PICK o \in Tables : kind[o] = k /\ handle[o] = r
      BY <2>2 DEF UsedBy
    <3>2. reg.slot[r] = o
      BY <2>1, <3>1, HeldFacts DEF InUse, LiveKinds
    <3> QED
      BY <3>1, <3>2
  <2> QED
    BY <2>1, <2>2 DEF NothingDangles, UsesLive, LiveKinds
<1> QED
  BY <1>1, CallbacksInvariant, PTL

\* Under the same rule FLTK's list holds each timeout as often as the script
\* has scheduled it and is still waiting for it (set_fltk_fl_add_timeout,
\* set_fltk_fl_repeat_timeout).
THEOREM TimeoutsAsAsked ==
    ASSUME Misuse = {}
    PROVE  Spec => []ScheduledAsAsked
<1>1. CbInv => ScheduledAsAsked
  BY DEF CbInv
<1> QED
  BY <1>1, CallbacksInvariant, PTL

\* The glue code refines the clients that luaL_ref can serve: each of its
\* functions makes, releases or exchanges one reference of one owner.
THEOREM GlueIsDisciplined ==
    ASSUME Misuse = {}
    PROVE  Spec => Disciplined
<1>1. Init => RefClients!Init
  <2>1. Init => \A o \in Tables : ~InUse(o)
    BY DEF Init, InUse
  <2> QED
    BY <2>1 DEF Init, RefClients!Init, EmptyRegistry, RefClients!EmptyRegistry
<1>2. [R!Next]_R!vars => [RefClients!Next]_RefClients!vars
  BY DEF R!Next, RefClients!Next, R!vars, RefClients!vars, R!Ref, RefClients!Ref, R!Unref,
         RefClients!Unref, R!Replace, RefClients!Replace, R!Renew, RefClients!Renew,
         R!NewRef, RefClients!NewRef, R!Referenced, RefClients!Referenced,
         R!Unreferenced, RefClients!Unreferenced, held
<1>3. CbInv /\ CalledInv /\ [Next]_vars => [RefClients!Next]_RefClients!vars
  BY <1>2, CbStep
<1> QED
  BY <1>1, <1>3, CallbacksInvariant, PTL DEF Spec, Disciplined, RefClients!Spec

=============================================================================
