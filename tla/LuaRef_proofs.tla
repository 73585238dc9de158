---------------------------- MODULE LuaRef_proofs ----------------------------
(***************************************************************************)
(* luaL_ref never gives one index to two owners, for any set of clients    *)
(* that release each reference once.                                       *)
(***************************************************************************)
EXTENDS LuaRef, TLAPS

(***************************************************************************)
(* The properties are inductive together: what a reference finds is a      *)
(* client's value, what a free slot holds is a number, so a slot cannot be *)
(* in use and free at once.  They are stated of any registry g and any     *)
(* owners' references f, since Replace and Renew take two steps in one.    *)
(***************************************************************************)
Good(g, f) ==
    /\ g \in [slot : Seq(Tables \cup Nat), free : Nat, chain : Seq(Nat)]
    /\ f \in [Tables -> Nat]
    /\ \A c \in Tables : f[c] # 0 => f[c] \in Indices(g) /\ g.slot[f[c]] = c
    /\ FreeListOf(g)

\* No slot is lost: each is in use by the client whose value it holds, or free.
Accounted(g, f) ==
    \A i \in Indices(g) :
        \/ g.slot[i] \in Tables /\ f[g.slot[i]] = i
        \/ \E k \in 1 .. Len(g.chain) : g.chain[k] = i

RefInv == Good(reg, ref) /\ Accounted(reg, ref)

\* The empty registry satisfies the invariant.
LEMMA RefInit == Init => RefInv
BY DEF Init, RefInv, Good, Accounted, FreeListOf, EmptyRegistry, Indices

\* What the free list says of each of its elements.
LEMMA FreeFacts ==
    ASSUME NEW g, NEW f, Good(g, f), NEW i \in 1 .. Len(g.chain)
    PROVE  /\ g.chain[i] \in 1 .. Len(g.slot)
           /\ i = Len(g.chain) => g.slot[g.chain[i]] = 0
           /\ i # Len(g.chain) => i + 1 \in 1 .. Len(g.chain) /\ g.slot[g.chain[i]] = g.chain[i + 1]
           /\ g.slot[g.chain[i]] \in Nat
<1>1. g.chain \in Seq(Nat) /\ Len(g.chain) \in Nat
  BY DEF Good
<1>2. /\ g.chain[i] \in Indices(g)
      /\ g.slot[g.chain[i]] = IF i = Len(g.chain) THEN 0 ELSE g.chain[i + 1]
  BY Zenon DEF Good, FreeListOf
<1>3. i # Len(g.chain) => i + 1 \in 1 .. Len(g.chain)
  BY <1>1
<1>4. CASE i = Len(g.chain)
  BY <1>2, <1>4 DEF Indices
<1>5. CASE i # Len(g.chain)
  <2>1. g.slot[g.chain[i]] = g.chain[i + 1]
    BY <1>2, <1>5
  <2> QED
    BY <1>1, <1>2, <1>3, <1>5, <2>1 DEF Indices
<1> QED
  BY <1>4, <1>5

\* luaL_ref with an empty free list appends.
LEMMA AppendStep ==
    ASSUME NEW g, NEW f, Good(g, f), NEW c \in Tables, g.free = 0
    PROVE  Good(Referenced(g, c), [f EXCEPT ![c] = NewRef(g)])
<1> DEFINE s == g.slot
           n == Len(s)
           g2 == Referenced(g, c)
           f2 == [f EXCEPT ![c] = NewRef(g)]
<1>1. n \in Nat /\ s \in Seq(Tables \cup Nat) /\ g.chain = <<>>
  BY DEF Good, FreeListOf, Indices
<1>2. /\ g2 = [slot |-> Append(s, c), free |-> 0, chain |-> <<>>]
      /\ f2 = [f EXCEPT ![c] = n + 1]
  BY <1>1 DEF Referenced, NewRef
<1> HIDE DEF g2, f2
<1>3. /\ Len(Append(s, c)) = n + 1
      /\ \A i \in 1 .. n : Append(s, c)[i] = s[i]
      /\ Append(s, c)[n + 1] = c
      /\ Append(s, c) \in Seq(Tables \cup Nat)
  BY <1>1
<1>4. g2 \in [slot : Seq(Tables \cup Nat), free : Nat, chain : Seq(Nat)] /\ f2 \in [Tables -> Nat]
  BY <1>1, <1>2, <1>3 DEF Good
<1>5. \A d \in Tables : f2[d] # 0 => f2[d] \in Indices(g2) /\ g2.slot[f2[d]] = d
  BY <1>1, <1>2, <1>3 DEF Good, Indices
<1>6. FreeListOf(g2)
  BY <1>2 DEF FreeListOf
<1> QED
  BY <1>4, <1>5, <1>6 DEF Good, g2, f2

\* luaL_ref with a free list takes its head.
LEMMA ReuseStep ==
    ASSUME NEW g, NEW f, Good(g, f), NEW c \in Tables, g.free # 0
    PROVE  Good(Referenced(g, c), [f EXCEPT ![c] = NewRef(g)])
<1> DEFINE s == g.slot
           n == Len(s)
           e == g.free
           g2 == Referenced(g, c)
           f2 == [f EXCEPT ![c] = NewRef(g)]
           k == Len(g.chain)
<1>1. n \in Nat /\ s \in Seq(Tables \cup Nat) /\ k \in Nat /\ g.chain \in Seq(Nat)
  BY DEF Good
<1>2. g.chain # <<>> /\ k >= 1 /\ e = g.chain[1] /\ e \in 1 .. n
  BY <1>1 DEF Good, FreeListOf, Indices
<1>3. 1 \in 1 .. k /\ s[e] \in Nat /\ (k = 1 => s[e] = 0) /\ (k # 1 => s[e] = g.chain[2])
  <2>1. 1 \in 1 .. k
    BY <1>1, <1>2
  <2>2. /\ s[g.chain[1]] \in Nat
        /\ 1 = k => s[g.chain[1]] = 0
        /\ 1 # k => s[g.chain[1]] = g.chain[1 + 1]
    BY <2>1, FreeFacts
  <2>3. 1 + 1 = 2
    OBVIOUS
  <2> QED
    BY <1>2, <2>1, <2>2, <2>3, Zenon
<1>4. /\ g2 = [slot |-> [s EXCEPT ![e] = c], free |-> s[e], chain |-> Tail(g.chain)]
      /\ f2 = [f EXCEPT ![c] = e]
  BY DEF Referenced, NewRef
<1> HIDE DEF g2, f2
<1>5. /\ Len([s EXCEPT ![e] = c]) = n
      /\ [s EXCEPT ![e] = c] \in Seq(Tables \cup Nat)
      /\ \A i \in 1 .. n : [s EXCEPT ![e] = c][i] = IF i = e THEN c ELSE s[i]
  BY <1>1, <1>2
<1>6. /\ Len(Tail(g.chain)) = k - 1 /\ Tail(g.chain) \in Seq(Nat)
      /\ \A i \in 1 .. k - 1 : Tail(g.chain)[i] = g.chain[i + 1]
  BY <1>1, <1>2
<1>8. g2 \in [slot : Seq(Tables \cup Nat), free : Nat, chain : Seq(Nat)] /\ f2 \in [Tables -> Nat]
  BY <1>1, <1>2, <1>4, <1>5, <1>6, <1>3 DEF Good
<1>9. \A d \in Tables : f2[d] # 0 => f2[d] \in Indices(g2) /\ g2.slot[f2[d]] = d
  <2> SUFFICES ASSUME NEW d \in Tables, f2[d] # 0
               PROVE  f2[d] \in 1 .. n /\ [s EXCEPT ![e] = c][f2[d]] = d
    BY <1>4, <1>5 DEF Indices
  <2>1. CASE d = c
    BY <1>2, <1>4, <1>5, <2>1 DEF Good
  <2>2. CASE d # c
    <3>1. f2[d] = f[d] /\ f[d] # 0
      BY <1>4, <2>2 DEF Good
    <3>2. f[d] \in 1 .. n /\ s[f[d]] = d
      BY <3>1 DEF Good, Indices
    <3>3. f[d] # e
      BY <1>3, <3>2, RefAssumption
    <3> QED
      BY <1>5, <3>1, <3>2, <3>3
  <2> QED
    BY <2>1, <2>2
<1>10. FreeListOf(g2)
  <2> DEFINE s2 == [s EXCEPT ![e] = c]
             ch2 == Tail(g.chain)
  <2>0. /\ Len(ch2) = k - 1 /\ ch2 \in Seq(Nat)
        /\ \A i \in 1 .. k - 1 : ch2[i] = g.chain[i + 1]
    BY <1>6
  <2> HIDE DEF s2, ch2
  <2>1. s[e] = IF ch2 = <<>> THEN 0 ELSE ch2[1]
    <3>1. CASE k = 1
      <4>1. ch2 = <<>>
        BY <2>0, <3>1
      <4> QED
        BY <1>3, <3>1, <4>1
    <3>2. CASE k # 1
      <4>a. \A x \in Nat : x >= 1 /\ x # 1 => x >= 2
        OBVIOUS
      <4>0. k >= 2
        BY <1>1, <1>2, <3>2, <4>a, Zenon
      <4>1. 1 \in 1 .. k - 1 /\ 1 + 1 = 2
        BY <1>1, <4>0
      <4>2. ch2[1] = g.chain[1 + 1]
        BY <2>0, <4>1
      <4>3. Len(ch2) # 0
        BY <1>1, <2>0, <3>2
      <4>4. ch2 # <<>>
        BY <4>3
      <4> QED
        BY <1>3, <3>2, <4>1, <4>2, <4>4, Zenon
    <3> QED
      BY <3>1, <3>2
  <2>2. ASSUME NEW i \in 1 .. Len(ch2)
        PROVE  /\ ch2[i] \in 1 .. n
               /\ s2[ch2[i]] = IF i = Len(ch2) THEN 0 ELSE ch2[i + 1]
    <3>1. i \in 1 .. k - 1 /\ i + 1 \in 1 .. k /\ ch2[i] = g.chain[i + 1]
      <4> HIDE DEF k
      <4>1. i \in 1 .. k - 1
        BY <2>0, <2>2, Zenon
      <4>2. i + 1 \in 1 .. k
        BY <1>1, <4>1
      <4> QED
        BY <2>0, <4>1, <4>2, Zenon
    <3>2. g.chain[i + 1] \in 1 .. n /\ g.chain[i + 1] # e
      <4>1. g.chain[i + 1] = g.chain[1] => i + 1 = 1
        BY <1>3, <3>1 DEF Good, FreeListOf
      <4> QED
        BY <1>2, <3>1, <4>1, FreeFacts
    <3>3. /\ i + 1 = k => s[g.chain[i + 1]] = 0
          /\ i + 1 # k => s[g.chain[i + 1]] = g.chain[i + 1 + 1]
      BY <3>1, FreeFacts
    <3>4. s2[ch2[i]] = s[g.chain[i + 1]]
      BY <1>5, <3>1, <3>2 DEF s2
    <3>5. CASE i + 1 = k
      <4>1. i = Len(ch2)
        BY <1>1, <2>0, <3>1, <3>5
      <4> QED
        BY <3>1, <3>2, <3>3, <3>4, <3>5, <4>1, Zenon
    <3>6. CASE i + 1 # k
      <4>1. i + 1 \in 1 .. k - 1 /\ i # Len(ch2)
        BY <1>1, <2>0, <3>1, <3>6
      <4>2. ch2[i + 1] = g.chain[i + 1 + 1]
        BY <2>0, <4>1, Zenon
      <4> QED
        BY <3>1, <3>2, <3>3, <3>4, <3>6, <4>1, <4>2, Zenon
    <3> QED
      BY <3>5, <3>6
  <2>3. ASSUME NEW i \in 1 .. Len(ch2), NEW j \in 1 .. Len(ch2), ch2[i] = ch2[j]
        PROVE  i = j
    <3>1. i \in 1 .. k - 1 /\ j \in 1 .. k - 1 /\ i + 1 \in 1 .. k /\ j + 1 \in 1 .. k
      BY <1>1, <2>0, <2>3
    <3>2. g.chain[i + 1] = g.chain[j + 1]
      BY <2>0, <2>3, <3>1
    <3>3. i + 1 = j + 1
      BY <3>1, <3>2, Zenon DEF Good, FreeListOf
    <3> QED
      BY <1>1, <3>1, <3>3
  <2>4. g2 = [slot |-> s2, free |-> s[e], chain |-> ch2] /\ Len(s2) = n
    BY <1>4, <1>5 DEF s2, ch2
  <2> QED
    BY <2>1, <2>2, <2>3, <2>4 DEF FreeListOf, Indices
<1> QED
  BY <1>8, <1>9, <1>10 DEF Good, g2, f2

\* luaL_unref of a held reference puts it at the head of the free list.
LEMMA UnrefStep ==
    ASSUME NEW g, NEW f, Good(g, f), NEW c \in Tables, f[c] # 0
    PROVE  Good(Unreferenced(g, f[c]), [f EXCEPT ![c] = 0])
<1> DEFINE s == g.slot
           n == Len(s)
           r == f[c]
           k == Len(g.chain)
           s2 == [s EXCEPT ![r] = g.free]
           g2 == Unreferenced(g, r)
           f2 == [f EXCEPT ![c] = 0]
           ch2 == <<r>> \o g.chain
<1>1. /\ n \in Nat /\ s \in Seq(Tables \cup Nat) /\ k \in Nat /\ g.chain \in Seq(Nat)
      /\ g.free \in Nat /\ r \in Nat
  BY DEF Good
<1>2. r \in 1 .. n /\ s[r] = c
  BY DEF Good, Indices
<1>3. /\ g2 = [slot |-> s2, free |-> r, chain |-> ch2]
      /\ f2 = [f EXCEPT ![c] = 0]
  BY <1>2 DEF Unreferenced
<1>4. /\ Len(s2) = n /\ s2 \in Seq(Tables \cup Nat)
      /\ \A i \in 1 .. n : s2[i] = IF i = r THEN g.free ELSE s[i]
  BY <1>1, <1>2
<1>5. /\ Len(ch2) = k + 1 /\ ch2 \in Seq(Nat) /\ ch2[1] = r
      /\ \A i \in 1 .. k : ch2[i + 1] = g.chain[i]
  BY <1>1
<1> HIDE DEF s2, ch2, g2, f2
<1>6. g2 \in [slot : Seq(Tables \cup Nat), free : Nat, chain : Seq(Nat)] /\ f2 \in [Tables -> Nat]
  BY <1>1, <1>3, <1>4, <1>5 DEF Good
<1>7. \A d \in Tables : f2[d] # 0 => f2[d] \in Indices(g2) /\ g2.slot[f2[d]] = d
  <2> SUFFICES ASSUME NEW d \in Tables, f2[d] # 0
               PROVE  f2[d] \in 1 .. n /\ s2[f2[d]] = d
    BY <1>3, <1>4 DEF Indices
  <2>1. d # c /\ f2[d] = f[d]
    BY <1>3 DEF Good
  <2>2. f[d] \in 1 .. n /\ s[f[d]] = d
    BY <2>1 DEF Good, Indices
  <2> QED
    BY <1>2, <1>4, <2>1, <2>2
<1>8. FreeListOf(g2)
  <2>1. \A i \in 1 .. k : g.chain[i] \in 1 .. n /\ s[g.chain[i]] \in Nat
    BY FreeFacts
  <2>2. \A i \in 1 .. k : g.chain[i] # r
    BY <1>2, <2>1, RefAssumption
  <2>3. g.free = IF k = 0 THEN 0 ELSE g.chain[1]
    BY <1>1 DEF Good, FreeListOf
  <2>4. ASSUME NEW i \in 1 .. Len(ch2)
        PROVE  /\ ch2[i] \in 1 .. n
               /\ s2[ch2[i]] = IF i = Len(ch2) THEN 0 ELSE ch2[i + 1]
    <3>1. CASE i = 1
      <4>1. ch2[i] = r /\ s2[r] = g.free
        BY <1>2, <1>4, <1>5, <3>1
      <4>2. CASE k = 0
        BY <1>2, <1>5, <2>3, <3>1, <4>1, <4>2
      <4>3. CASE k # 0
        <5>1. 1 \in 1 .. k /\ i # Len(ch2)
          BY <1>1, <1>5, <3>1, <4>3
        <5>2. ch2[1 + 1] = g.chain[1]
          BY <1>5, <5>1, Zenon
        <5> QED
          BY <1>2, <2>3, <3>1, <4>1, <4>3, <5>1, <5>2, Zenon
      <4> QED
        BY <4>2, <4>3
    <3>2. CASE i # 1
      <4>1. PICK h \in 1 .. k : i = h + 1
        <5> HIDE DEF k
        <5>1. i \in 1 .. k + 1
          BY <1>5, <2>4, Zenon
        <5>2. i - 1 \in 1 .. k /\ i = (i - 1) + 1
          BY <1>1, <3>2, <5>1
        <5> QED
          BY <5>2, Zenon
      <4>2. ch2[i] = g.chain[h] /\ s2[g.chain[h]] = s[g.chain[h]]
        BY <1>4, <1>5, <2>1, <2>2, <4>1
      <4>3. CASE h = k
        <5>1. s[g.chain[h]] = 0 /\ i = Len(ch2)
          BY <1>5, <4>1, <4>3, FreeFacts
        <5> QED
          BY <2>1, <4>2, <5>1
      <4>4. CASE h # k
        <5>1. h + 1 \in 1 .. k /\ s[g.chain[h]] = g.chain[h + 1]
          BY <4>4, FreeFacts
        <5>2. ch2[h + 1 + 1] = g.chain[h + 1]
          BY <1>5, <5>1, Zenon
        <5>3. i # Len(ch2)
          BY <1>1, <1>5, <4>1, <4>4
        <5> QED
          BY <2>1, <4>1, <4>2, <5>1, <5>2, <5>3
      <4> QED
        BY <4>3, <4>4
    <3> QED
      BY <3>1, <3>2
  <2>5. ASSUME NEW i \in 1 .. Len(ch2), NEW j \in 1 .. Len(ch2), ch2[i] = ch2[j]
        PROVE  i = j
    <3>1. \A x, y \in 1 .. k : g.chain[x] = g.chain[y] => x = y
      BY DEF Good, FreeListOf
    <3>2. \A x \in 1 .. k + 1 : x # 1 => \E h \in 1 .. k : x = h + 1
      <4> SUFFICES ASSUME NEW x \in 1 .. k + 1, x # 1
                   PROVE  x - 1 \in 1 .. k /\ x = (x - 1) + 1
        OBVIOUS
      <4> QED
        BY <1>1
    <3>3. \A h \in 1 .. k : ch2[h + 1] # r
      BY <1>5, <2>2
    <3>4. CASE i = 1 \/ j = 1
      BY <1>5, <2>5, <3>2, <3>3, <3>4
    <3>5. CASE i # 1 /\ j # 1
      <4>1. PICK h \in 1 .. k : i = h + 1
        BY <1>5, <3>2, <3>5
      <4>2. PICK l \in 1 .. k : j = l + 1
        BY <1>5, <3>2, <3>5
      <4>3. g.chain[h] = g.chain[l]
        BY <1>5, <2>5, <4>1, <4>2
      <4> QED
        BY <3>1, <4>1, <4>2, <4>3
    <3> QED
      BY <3>4, <3>5
  <2>6. ch2 # <<>>
    BY <1>1, <1>5
  <2> QED
    BY <1>3, <1>4, <1>5, <2>4, <2>5, <2>6 DEF FreeListOf, Indices
<1> QED
  BY <1>6, <1>7, <1>8 DEF Good, g2, f2

\* luaL_ref, in both cases.
LEMMA RefStep ==
    ASSUME NEW g, NEW f, Good(g, f), NEW c \in Tables
    PROVE  Good(Referenced(g, c), [f EXCEPT ![c] = NewRef(g)])
BY AppendStep, ReuseStep

-----------------------------------------------------------------------------
(* No slot is lost *)

\* luaL_ref by a client that holds no reference.
LEMMA RefAccounts ==
    ASSUME NEW g, NEW f, Good(g, f), Accounted(g, f), NEW c \in Tables, f[c] = 0
    PROVE  Accounted(Referenced(g, c), [f EXCEPT ![c] = NewRef(g)])
<1> DEFINE s == g.slot
           n == Len(s)
           e == g.free
           k == Len(g.chain)
           g2 == Referenced(g, c)
           f2 == [f EXCEPT ![c] = NewRef(g)]
<1>1. n \in Nat /\ s \in Seq(Tables \cup Nat) /\ k \in Nat /\ g.chain \in Seq(Nat) /\ f \in [Tables -> Nat]
  BY DEF Good
<1>2. \A i \in 1 .. n : s[i] \in Tables /\ f[s[i]] = i => s[i] # c
  BY <1>1
<1>3. CASE e = 0
  <2>1. g.chain = <<>>
    BY <1>1, <1>3 DEF Good, FreeListOf, Indices
  <2>2. \A i \in 1 .. n : s[i] \in Tables /\ f[s[i]] = i
    BY <1>1, <2>1 DEF Accounted, Indices
  <2>3. g2.slot = Append(s, c) /\ f2 = [f EXCEPT ![c] = n + 1]
    BY <1>3 DEF Referenced, NewRef
  <2>4. /\ Len(Append(s, c)) = n + 1
        /\ \A i \in 1 .. n : Append(s, c)[i] = s[i]
        /\ Append(s, c)[n + 1] = c
    BY <1>1
  <2> HIDE DEF g2, f2
  <2>5. \A i \in 1 .. n + 1 : Append(s, c)[i] \in Tables /\ f2[Append(s, c)[i]] = i
    <3> SUFFICES ASSUME NEW i \in 1 .. n + 1
                 PROVE  Append(s, c)[i] \in Tables /\ f2[Append(s, c)[i]] = i
      OBVIOUS
    <3>1. CASE i = n + 1
      BY <1>1, <2>3, <2>4, <3>1
    <3>2. CASE i # n + 1
      <4>1. i \in 1 .. n
        BY <1>1, <3>2
      <4> QED
        BY <1>1, <1>2, <2>2, <2>3, <2>4, <4>1
    <3> QED
      BY <3>1, <3>2
  <2> QED
    BY <2>3, <2>4, <2>5 DEF Accounted, Indices, g2, f2
<1>4. CASE e # 0
  <2>1. g.chain # <<>> /\ k >= 1 /\ e = g.chain[1] /\ e \in 1 .. n
    BY <1>1, <1>4 DEF Good, FreeListOf, Indices
  <2>2. /\ g2.slot = [s EXCEPT ![e] = c] /\ g2.chain = Tail(g.chain)
        /\ f2 = [f EXCEPT ![c] = e]
    BY <1>4 DEF Referenced, NewRef
  <2>3. /\ Len([s EXCEPT ![e] = c]) = n
        /\ \A i \in 1 .. n : [s EXCEPT ![e] = c][i] = IF i = e THEN c ELSE s[i]
    BY <1>1, <2>1
  <2>4. /\ Len(Tail(g.chain)) = k - 1
        /\ \A i \in 1 .. k - 1 : Tail(g.chain)[i] = g.chain[i + 1]
    BY <1>1, <2>1
  <2> HIDE DEF g2, f2
  <2>5. ASSUME NEW i \in 1 .. n
        PROVE  \/ g2.slot[i] \in Tables /\ f2[g2.slot[i]] = i
               \/ \E h \in 1 .. Len(g2.chain) : g2.chain[h] = i
    <3>1. CASE i = e
      BY <1>1, <2>2, <2>3, <3>1
    <3>2. CASE i # e /\ s[i] \in Tables /\ f[s[i]] = i
      BY <1>1, <1>2, <2>2, <2>3, <3>2
    <3>3. CASE i # e /\ \E h \in 1 .. k : g.chain[h] = i
      <4>1. PICK h \in 1 .. k : g.chain[h] = i
        BY <3>3
      <4>2. h # 1
        BY <2>1, <3>3, <4>1
      <4>3. h - 1 \in 1 .. k - 1 /\ (h - 1) + 1 = h
        BY <1>1, <4>2
      <4>4. Tail(g.chain)[h - 1] = i
        BY <2>4, <4>1, <4>3
      <4> QED
        BY <2>2, <2>4, <4>3, <4>4
    <3> QED
      BY <3>1, <3>2, <3>3 DEF Accounted, Indices
  <2> QED
    BY <2>2, <2>3, <2>5 DEF Accounted, Indices, g2, f2
<1> QED
  BY <1>3, <1>4

\* luaL_unref of a held reference.
LEMMA UnrefAccounts ==
    ASSUME NEW g, NEW f, Good(g, f), Accounted(g, f), NEW c \in Tables, f[c] # 0
    PROVE  Accounted(Unreferenced(g, f[c]), [f EXCEPT ![c] = 0])
<1> DEFINE s == g.slot
           n == Len(s)
           r == f[c]
           k == Len(g.chain)
           s2 == [s EXCEPT ![r] = g.free]
           g2 == Unreferenced(g, r)
           f2 == [f EXCEPT ![c] = 0]
           ch2 == <<r>> \o g.chain
<1>1. /\ n \in Nat /\ s \in Seq(Tables \cup Nat) /\ k \in Nat /\ g.chain \in Seq(Nat)
      /\ f \in [Tables -> Nat] /\ r \in Nat
  BY DEF Good
<1>2. r \in 1 .. n /\ s[r] = c
  BY DEF Good, Indices
<1>3. g2.slot = s2 /\ g2.chain = ch2
  BY DEF Unreferenced
<1>4. /\ Len(s2) = n
      /\ \A i \in 1 .. n : i # r => s2[i] = s[i]
  BY <1>1, <1>2
<1>5. /\ Len(ch2) = k + 1 /\ ch2[1] = r
      /\ \A i \in 1 .. k : ch2[i + 1] = g.chain[i]
  BY <1>1
<1>6. f2 \in [Tables -> Nat] /\ \A d \in Tables : d # c => f2[d] = f[d]
  BY <1>1
<1> HIDE DEF s2, ch2, g2, f2
<1>7. ASSUME NEW i \in 1 .. n
      PROVE  \/ s2[i] \in Tables /\ f2[s2[i]] = i
             \/ \E h \in 1 .. Len(ch2) : ch2[h] = i
  <2>1. CASE i = r
    <3>1. 1 \in 1 .. Len(ch2)
      BY <1>1, <1>5
    <3> QED
      BY <1>5, <2>1, <3>1
  <2>2. CASE i # r /\ s[i] \in Tables /\ f[s[i]] = i
    BY <1>4, <1>6, <2>2
  <2>3. CASE \E h \in 1 .. k : g.chain[h] = i
    <3>1. PICK h \in 1 .. k : g.chain[h] = i
      BY <2>3
    <3>2. h + 1 \in 1 .. Len(ch2)
      BY <1>1, <1>5
    <3> QED
      BY <1>5, <3>1, <3>2
  <2> QED
    BY <2>1, <2>2, <2>3 DEF Accounted, Indices
<1> QED
  BY <1>3, <1>4, <1>7 DEF Accounted, Indices, g2, f2

\* A slot is added only when all are in use, by other clients.
LEMMA AllInUse ==
    ASSUME NEW g, NEW f, Good(g, f), Accounted(g, f), NEW c \in Tables, f[c] = 0, g.free = 0
    PROVE  \A i \in 1 .. Len(g.slot) : g.slot[i] \in Tables \ {c} /\ f[g.slot[i]] = i
<1>1. Len(g.slot) \in Nat /\ g.chain \in Seq(Nat)
  BY DEF Good
<1>2. g.chain = <<>>
  BY <1>1 DEF Good, FreeListOf, Indices
<1>3. \A i \in 1 .. Len(g.slot) : g.slot[i] \in Tables /\ f[g.slot[i]] = i
  BY <1>1, <1>2 DEF Accounted, Indices
<1> QED
  BY <1>1, <1>3

\* What luaL_ref does to the length of the registry.
LEMMA Lengths ==
    ASSUME NEW g, NEW f, Good(g, f)
    PROVE  /\ Len(g.slot) \in Nat
           /\ \A c \in Tables :
                 /\ g.free = 0 => NewRef(g) = Len(g.slot) + 1 /\ Len(Referenced(g, c).slot) = Len(g.slot) + 1
                 /\ g.free # 0 => NewRef(g) \in 1 .. Len(g.slot) /\ Len(Referenced(g, c).slot) = Len(g.slot)
           /\ \A r \in 1 .. Len(g.slot) : Len(Unreferenced(g, r).slot) = Len(g.slot)
<1>1. Len(g.slot) \in Nat /\ g.chain \in Seq(Nat) /\ g.slot \in Seq(Tables \cup Nat)
  BY DEF Good
<1>2. g.free # 0 => g.free \in 1 .. Len(g.slot)
  BY <1>1 DEF Good, FreeListOf, Indices
<1> QED
  BY <1>1, <1>2 DEF NewRef, Referenced, Unreferenced

-----------------------------------------------------------------------------
(* The clients *)

\* A new reference, then the release of another client's.
LEMMA ReplaceStep ==
    ASSUME RefInv, NEW c \in Tables, NEW d \in Tables, Replace(c, d)
    PROVE  RefInv'
<1> DEFINE g2 == Referenced(reg, c)
           f2 == [ref EXCEPT ![c] = NewRef(reg)]
<1>1. Good(g2, f2) /\ Accounted(g2, f2)
  BY RefStep, RefAccounts DEF RefInv, Replace
<1>2. f2[d] = ref[d] /\ [f2 EXCEPT ![d] = 0] = ref' /\ f2[d] # 0
  BY DEF RefInv, Good, Replace
<1>3. /\ Good(Unreferenced(g2, f2[d]), [f2 EXCEPT ![d] = 0])
      /\ Accounted(Unreferenced(g2, f2[d]), [f2 EXCEPT ![d] = 0])
  <2> HIDE DEF g2, f2
  <2> QED
    BY <1>1, <1>2, UnrefStep, UnrefAccounts
<1> QED
  BY <1>2, <1>3 DEF RefInv, Replace

\* The release of another client's reference, then a new one.
LEMMA RenewStep ==
    ASSUME RefInv, NEW c \in Tables, NEW d \in Tables, Renew(c, d)
    PROVE  RefInv'
<1> DEFINE g2 == Unreferenced(reg, ref[d])
           f2 == [ref EXCEPT ![d] = 0]
<1>1. Good(g2, f2) /\ Accounted(g2, f2)
  BY UnrefStep, UnrefAccounts DEF RefInv, Renew
<1>2. [f2 EXCEPT ![c] = NewRef(g2)] = ref' /\ Referenced(g2, c) = reg' /\ f2[c] = 0
  BY DEF RefInv, Good, Renew
<1>3. /\ Good(Referenced(g2, c), [f2 EXCEPT ![c] = NewRef(g2)])
      /\ Accounted(Referenced(g2, c), [f2 EXCEPT ![c] = NewRef(g2)])
  <2> HIDE DEF g2, f2
  <2> QED
    BY <1>1, <1>2, RefStep, RefAccounts
<1> QED
  BY <1>2, <1>3 DEF RefInv

\* Every step of every client keeps it.
LEMMA RefNext == RefInv /\ [Next]_vars => RefInv'
<1> SUFFICES ASSUME RefInv, [Next]_vars PROVE RefInv'
  OBVIOUS
<1>1. ASSUME NEW c \in Tables, Ref(c) PROVE RefInv'
  BY <1>1, RefStep, RefAccounts DEF RefInv, Ref
<1>2. ASSUME NEW c \in Tables, Unref(c) PROVE RefInv'
  BY <1>2, UnrefStep, UnrefAccounts DEF RefInv, Unref
<1>3. CASE UNCHANGED vars
  BY <1>3 DEF vars, RefInv
<1> QED
  BY <1>1, <1>2, <1>3, ReplaceStep, RenewStep DEF Next

\* So it always holds.
LEMMA RefInvariant == Spec => []RefInv
BY RefInit, RefNext, PTL DEF Spec

\* Whatever the order in which clients store, exchange and release values, a
\* reference finds the value of the client that holds it
\* (lua_rawgeti(L, LUA_REGISTRYINDEX, ref) after luaL_ref).
THEOREM RefsFindValues == Spec => []RefFindsValue
<1>1. RefInv => RefFindsValue
  BY DEF RefInv, Good, RefFindsValue
<1> QED
  BY <1>1, RefInvariant, PTL

\* The list of free slots that luaL_unref threads through the registry stays
\* well formed: it visits the released slots, each once, and ends.
THEOREM FreeListKept == Spec => []FreeList
<1>1. RefInv => FreeList
  BY DEF RefInv, Good, FreeList
<1> QED
  BY <1>1, RefInvariant, PTL

\* luaL_unref loses no slot: each one is in use by the client whose value it
\* holds, or luaL_ref will give it out again.
THEOREM NoSlotLost == Spec => []Accounted(reg, ref)
<1>1. RefInv => Accounted(reg, ref)
  BY DEF RefInv
<1> QED
  BY <1>1, RefInvariant, PTL
=============================================================================
