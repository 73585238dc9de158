---------------------------- MODULE Lists_proofs -----------------------------
(***************************************************************************)
(* What Keep keeps, and other facts about lists and about natural numbers  *)
(* that proofs about the components share.                                 *)
(***************************************************************************)
EXTENDS Lists, Integers, SequencesExt, FiniteSetTheorems, WellFoundedInduction, TLAPS

-----------------------------------------------------------------------------
(* Induction on the natural numbers, as a fact about sets of them *)

\* A set of numbers that is not empty has a least one.
LEMMA LeastNat ==
    ASSUME NEW T \in SUBSET Nat, T # {}
    PROVE  \E x \in T : \A y \in T : x <= y
<1> DEFINE R == OpToRel(<, Nat)
<1>1. IsWellFoundedOn(R, Nat)
  BY NatLessThanWellFounded
<1>2. \A x, y \in Nat : x < y => <<x, y>> \in R
  BY DEF OpToRel
<1> HIDE DEF R
<1>3. PICK x \in T : \A y \in T : ~ (<<y, x>> \in R)
  BY <1>1, WFMin
<1>4. ASSUME NEW y \in T
      PROVE  x <= y
  <2>1. ~(y < x)
    BY <1>2, <1>3
  <2> QED
    BY <2>1
<1> QED
  BY <1>4

\* Induction, for a set of numbers.
LEMMA AllNat ==
    ASSUME NEW T \in SUBSET Nat, 0 \in T, \A n \in T : n + 1 \in T
    PROVE  T = Nat
<1> DEFINE B == Nat \ T
<1>1. CASE B = {}
  BY <1>1
<1>2. CASE B # {}
  <2>1. PICK x \in B : \A y \in B : x <= y
    BY <1>2, LeastNat
  <2>2. x - 1 \in Nat /\ x - 1 \notin B
    BY <2>1
  <2>3. x - 1 \in T /\ x - 1 + 1 = x
    BY <2>1, <2>2
  <2> QED
    BY <2>1, <2>3
<1> QED
  BY <1>1, <1>2

-----------------------------------------------------------------------------
(* Lists *)

\* Keep is what it says: a walk along s.
LEMMA KeepWalk ==
    ASSUME NEW s, Len(s) \in Nat, NEW S
    PROVE  \E f : /\ f = [i \in 0 .. Len(s) |-> IF i = 0 THEN <<>>
                                                ELSE IF s[i] \in S THEN Append(f[i - 1], s[i]) ELSE f[i - 1]]
                  /\ Keep(s, S) = f[Len(s)]
<1> DEFINE Walk(f, m) == f = [i \in 0 .. m |-> IF i = 0 THEN <<>>
                                ELSE IF s[i] \in S THEN Append(f[i - 1], s[i]) ELSE f[i - 1]]
           T == {m \in Nat : \E f : Walk(f, m)}
<1>1. 0 \in T
  <2> DEFINE f == [i \in 0 .. 0 |-> <<>>]
  <2>1. Walk(f, 0)
    OBVIOUS
  <2> QED
    BY <2>1
<1>2. ASSUME NEW m \in T
      PROVE  m + 1 \in T
  <2>1. PICK f : Walk(f, m)
    OBVIOUS
  <2> DEFINE e == IF s[m + 1] \in S THEN Append(f[m], s[m + 1]) ELSE f[m]
             g == [i \in 0 .. m + 1 |-> IF i = m + 1 THEN e ELSE f[i]]
  <2>2. m \in Nat
    OBVIOUS
  <2>3. \A i \in 0 .. m : f[i] = IF i = 0 THEN <<>> ELSE IF s[i] \in S THEN Append(f[i - 1], s[i]) ELSE f[i - 1]
    BY <2>1
  <2>4. g[m + 1] = e /\ (\A i \in 0 .. m : g[i] = f[i]) /\ g = [i \in 0 .. m + 1 |-> g[i]]
    BY <2>2
  <2> HIDE DEF g
  <2>5. ASSUME NEW i \in 0 .. m + 1
        PROVE  g[i] = IF i = 0 THEN <<>> ELSE IF s[i] \in S THEN Append(g[i - 1], s[i]) ELSE g[i - 1]
    <3>1. CASE i = m + 1
      <4>1. i # 0 /\ i - 1 = m /\ m \in 0 .. m
        BY <2>2, <3>1
      <4> QED
        BY <2>4, <3>1, <4>1
    <3>2. CASE i # m + 1
      <4>1. i \in 0 .. m /\ (i # 0 => i - 1 \in 0 .. m)
        BY <2>2, <3>2
      <4> QED
        BY <2>3, <2>4, <4>1
    <3> QED
      BY <3>1, <3>2
  <2>6. Walk(g, m + 1)
    BY <2>4, <2>5
  <2> QED
    BY <2>2, <2>6
<1>3. Len(s) \in T
  <2> HIDE DEF T
  <2>1. T \in SUBSET Nat
    BY DEF T
  <2> QED
    BY <1>1, <1>2, <2>1, AllNat
<1>4. \E f : Walk(f, Len(s))
  BY <1>3
<1>5. Walk(CHOOSE f : Walk(f, Len(s)), Len(s))
  BY <1>4
<1>6. Keep(s, S) = (CHOOSE f : Walk(f, Len(s)))[Len(s)]
  BY DEF Keep
<1> QED
  BY <1>5, <1>6

\* Keep returns entries of the list that are in the set.
LEMMA KeepType ==
    ASSUME NEW U, NEW s \in Seq(U), NEW S
    PROVE  Keep(s, S) \in Seq(U) /\ \A i \in 1 .. Len(Keep(s, S)) : Keep(s, S)[i] \in U \cap S
<1>1. Len(s) \in Nat /\ \A i \in 1 .. Len(s) : s[i] \in U
  OBVIOUS
<1>2. PICK f : /\ f = [i \in 0 .. Len(s) |-> IF i = 0 THEN <<>>
                                 ELSE IF s[i] \in S THEN Append(f[i - 1], s[i]) ELSE f[i - 1]]
               /\ Keep(s, S) = f[Len(s)]
  BY <1>1, KeepWalk
<1> DEFINE T == {m \in Nat : m <= Len(s) => f[m] \in Seq(U \cap S)}
<1>3. 0 \in T
  BY <1>1, <1>2
<1>4. ASSUME NEW m \in T
      PROVE  m + 1 \in T
  <2> SUFFICES ASSUME m + 1 <= Len(s)
               PROVE  f[m + 1] \in Seq(U \cap S)
    OBVIOUS
  <2>1. m \in Nat /\ m + 1 \in 1 .. Len(s) /\ m + 1 \in 0 .. Len(s) /\ m + 1 # 0 /\ (m + 1) - 1 = m
    BY <1>1
  <2>2. f[m] \in Seq(U \cap S)
    BY <1>1, <2>1
  <2>3. f[m + 1] = IF s[m + 1] \in S THEN Append(f[m], s[m + 1]) ELSE f[m]
    BY <1>2, <2>1
  <2> QED
    BY <1>1, <2>1, <2>2, <2>3
<1>5. T \in SUBSET Nat
  OBVIOUS
<1>6. Len(s) \in T
  <2> HIDE DEF T
  <2> QED
    BY <1>1, <1>3, <1>4, <1>5, AllNat
<1>7. Keep(s, S) \in Seq(U \cap S)
  BY <1>1, <1>2, <1>6
<1> QED
  BY <1>7

\* t has the entries of s[1 .. m] that are in S: entry k is the one at p[k].
Picks(s, S, U, t, m, p) ==
    /\ t \in Seq(U) /\ p \in [1 .. Len(t) -> 1 .. m]
    /\ \A j, k \in 1 .. Len(t) : j < k => p[j] < p[k]
    /\ \A k \in 1 .. Len(t) : t[k] = s[p[k]] /\ s[p[k]] \in S
    /\ \A i \in 1 .. m : s[i] \in S => \E k \in 1 .. Len(t) : p[k] = i

\* Keep keeps the order of the entries, and leaves none out.
LEMMA KeepPicks ==
    ASSUME NEW U, NEW s \in Seq(U), NEW S
    PROVE  \E p : Picks(s, S, U, Keep(s, S), Len(s), p)
<1>1. Len(s) \in Nat /\ \A i \in 1 .. Len(s) : s[i] \in U
  OBVIOUS
<1>2. PICK f : /\ f = [i \in 0 .. Len(s) |-> IF i = 0 THEN <<>>
                                 ELSE IF s[i] \in S THEN Append(f[i - 1], s[i]) ELSE f[i - 1]]
               /\ Keep(s, S) = f[Len(s)]
  BY <1>1, KeepWalk
<1> DEFINE E(m) == \E p : Picks(s, S, U, f[m], m, p)
           T == {m \in Nat : m <= Len(s) => E(m)}
<1>3. 0 \in T
  <2>1. f[0] = <<>>
    BY <1>1, <1>2
  <2> DEFINE p == [k \in 1 .. 0 |-> 1]
  <2>2. 1 .. 0 = {} /\ Len(<<>>) = 0 /\ <<>> \in Seq(U)
    OBVIOUS
  <2>3. p \in [1 .. 0 -> 1 .. 0]
    BY <2>2
  <2> HIDE DEF p
  <2>4. Picks(s, S, U, <<>>, 0, p)
    BY <2>2, <2>3 DEF Picks
  <2>5. E(0)
    BY <2>1, <2>4
  <2> QED
    BY <2>5
<1>4. ASSUME NEW m \in T
      PROVE  m + 1 \in T
  <2> SUFFICES ASSUME m + 1 <= Len(s)
               PROVE  E(m + 1)
    <3> HIDE DEF E
    <3> QED
      OBVIOUS
  <2>1. m \in Nat /\ m + 1 \in 1 .. Len(s) /\ m + 1 \in 0 .. Len(s) /\ m + 1 # 0 /\ (m + 1) - 1 = m
    BY <1>1
  <2>2. PICK p : Picks(s, S, U, f[m], m, p)
    <3>1. E(m)
      <4> HIDE DEF E
      <4> QED
        BY <1>1, <2>1
    <3> QED
      BY <3>1
  <2>3. f[m + 1] = IF s[m + 1] \in S THEN Append(f[m], s[m + 1]) ELSE f[m]
    BY <1>2, <2>1
  <2> DEFINE t == f[m]
  <2>4. /\ t \in Seq(U) /\ Len(t) \in Nat /\ p \in [1 .. Len(t) -> 1 .. m]
        /\ \A j, k \in 1 .. Len(t) : j < k => p[j] < p[k]
        /\ \A k \in 1 .. Len(t) : t[k] = s[p[k]] /\ s[p[k]] \in S
        /\ \A i \in 1 .. m : s[i] \in S => \E k \in 1 .. Len(t) : p[k] = i
    BY <2>2 DEF Picks
  <2>5. CASE s[m + 1] \notin S
    <3>1. f[m + 1] = t
      BY <2>3, <2>5
    <3> HIDE DEF t
    <3>2. p \in [1 .. Len(t) -> 1 .. m + 1]
      BY <2>1, <2>4
    <3>3. \A i \in 1 .. m + 1 : s[i] \in S => i \in 1 .. m
      BY <2>1, <2>5
    <3>4. Picks(s, S, U, t, m + 1, p)
      BY <2>4, <3>2, <3>3 DEF Picks
    <3> QED
      BY <3>1, <3>4
  <2>6. CASE s[m + 1] \in S
    <3> DEFINE w == Append(t, s[m + 1])
               n == Len(t)
               q == [k \in 1 .. n + 1 |-> IF k = n + 1 THEN m + 1 ELSE p[k]]
    <3>1. f[m + 1] = w
      BY <2>3, <2>6
    <3> HIDE DEF t
    <3>2. w \in Seq(U) /\ Len(w) = n + 1 /\ n \in Nat /\ w[n + 1] = s[m + 1] /\ \A k \in 1 .. n : w[k] = t[k]
      BY <1>1, <2>1, <2>4
    <3>3. q \in [1 .. n + 1 -> 1 .. m + 1] /\ q[n + 1] = m + 1 /\ \A k \in 1 .. n : q[k] = p[k] /\ p[k] \in 1 .. m
      <4>1. n \in Nat /\ m \in Nat /\ \A k \in 1 .. n : p[k] \in 1 .. m
        BY <2>1, <2>4
      <4> HIDE DEF n, w
      <4>2. n + 1 \in 1 .. n + 1 /\ m + 1 \in 1 .. m + 1 /\ \A k \in 1 .. n + 1 : k # n + 1 => k \in 1 .. n
        BY <4>1
      <4>3. \A k \in 1 .. n + 1 : (IF k = n + 1 THEN m + 1 ELSE p[k]) \in 1 .. m + 1
        BY <4>1, <4>2
      <4>4. \A k \in 1 .. n : k \in 1 .. n + 1 /\ k # n + 1
        BY <4>1
      <4> QED
        BY <4>1, <4>2, <4>3, <4>4
    <3> HIDE DEF w, q
    <3>4. \A k \in 1 .. n + 1 : k = n + 1 \/ k \in 1 .. n
      BY <3>2
    <3> HIDE DEF n
    <3>5. \A j, k \in 1 .. n + 1 : j < k => q[j] < q[k]
      <4> SUFFICES ASSUME NEW j \in 1 .. n + 1, NEW k \in 1 .. n + 1, j < k
                   PROVE  q[j] < q[k]
        OBVIOUS
      <4>1. j \in 1 .. n
        BY <3>2
      <4>2. CASE k \in 1 .. n
        BY <2>4, <3>3, <4>1, <4>2 DEF n
      <4>3. CASE k = n + 1
        BY <2>1, <3>3, <4>1, <4>3
      <4> QED
        BY <3>4, <4>2, <4>3
    <3>6. \A k \in 1 .. n + 1 : w[k] = s[q[k]] /\ s[q[k]] \in S
      <4>1. \A k \in 1 .. n : w[k] = s[q[k]] /\ s[q[k]] \in S
        BY <2>4, <3>2, <3>3 DEF n
      <4> QED
        BY <2>6, <3>2, <3>3, <3>4, <4>1
    <3>7. \A i \in 1 .. m + 1 : s[i] \in S => \E k \in 1 .. n + 1 : q[k] = i
      <4> SUFFICES ASSUME NEW i \in 1 .. m + 1, s[i] \in S
                   PROVE  \E k \in 1 .. n + 1 : q[k] = i
        OBVIOUS
      <4>1. CASE i = m + 1
        <5>1. n + 1 \in 1 .. n + 1
          BY <3>2
        <5> QED
          BY <3>3, <4>1, <5>1
      <4>2. CASE i # m + 1
        <5>1. i \in 1 .. m
          BY <2>1, <4>2
        <5>2. PICK k \in 1 .. n : p[k] = i
          BY <2>4, <5>1 DEF n
        <5>3. k \in 1 .. n + 1 /\ q[k] = i
          BY <3>2, <3>3, <5>2
        <5> QED
          BY <5>3
      <4> QED
        BY <4>1, <4>2
    <3>8. Picks(s, S, U, w, m + 1, q)
      BY <3>2, <3>3, <3>5, <3>6, <3>7 DEF Picks
    <3> QED
      BY <3>1, <3>8
  <2> QED
    BY <2>5, <2>6
<1>5. E(Len(s))
  <2> HIDE DEF E
  <2>1. T \in SUBSET Nat
    OBVIOUS
  <2>2. Len(s) \in T
    <3> HIDE DEF T
    <3> QED
      BY <1>1, <1>3, <1>4, <2>1, AllNat
  <2> QED
    BY <1>1, <2>2
<1> QED
  BY <1>2, <1>5

\* The entries of a list, by their places.
LEMMA RangeIs ==
    ASSUME NEW U, NEW s \in Seq(U)
    PROVE  /\ Range(s) = {s[i] : i \in 1 .. Len(s)} /\ Range(s) \subseteq U
           /\ \A i \in 1 .. Len(s) : s[i] \in Range(s)
BY DEF Range

\* The entries of two lists one after the other.
LEMMA RangeConcat ==
    ASSUME NEW U, NEW s \in Seq(U), NEW t \in Seq(U)
    PROVE  s \o t \in Seq(U) /\ Range(s \o t) = Range(s) \cup Range(t)
<1>1. s \o t \in Seq(U) /\ Len(s) \in Nat /\ Len(t) \in Nat /\ Len(s \o t) = Len(s) + Len(t)
  OBVIOUS
<1>2. \A i \in 1 .. Len(s) : (s \o t)[i] = s[i]
  OBVIOUS
<1>3. \A i \in 1 .. Len(t) : (s \o t)[Len(s) + i] = t[i]
  OBVIOUS
<1>4. Range(s) \cup Range(t) \subseteq Range(s \o t)
  <2>1. \A i \in 1 .. Len(s) : i \in 1 .. Len(s \o t)
    BY <1>1
  <2>2. \A i \in 1 .. Len(t) : Len(s) + i \in 1 .. Len(s \o t)
    BY <1>1
  <2>3. Range(s) = {s[i] : i \in 1 .. Len(s)} /\ Range(t) = {t[i] : i \in 1 .. Len(t)}
    BY RangeIs
  <2>4. \A i \in 1 .. Len(s \o t) : (s \o t)[i] \in Range(s \o t)
    BY <1>1, RangeIs
  <2> QED
    BY <1>2, <1>3, <2>1, <2>2, <2>3, <2>4
<1>5. ASSUME NEW x \in Range(s \o t)
      PROVE  x \in Range(s) \cup Range(t)
  <2>0. Range(s \o t) = {(s \o t)[i] : i \in 1 .. Len(s \o t)}
    BY <1>1, RangeIs
  <2>1. PICK i \in 1 .. Len(s \o t) : x = (s \o t)[i]
    BY <2>0
  <2>2. CASE i <= Len(s)
    <3>1. i \in 1 .. Len(s)
      BY <1>1, <2>2
    <3>2. x = s[i]
      BY <1>2, <2>1, <3>1
    <3> QED
      BY <3>1, <3>2, RangeIs
  <2>3. CASE i > Len(s)
    <3>1. i - Len(s) \in 1 .. Len(t) /\ Len(s) + (i - Len(s)) = i
      BY <1>1, <2>3
    <3>2. x = t[i - Len(s)]
      BY <1>3, <2>1, <3>1
    <3> QED
      BY <3>1, <3>2, RangeIs
  <2> QED
    BY <1>1, <2>2, <2>3
<1> QED
  BY <1>1, <1>4, <1>5

-----------------------------------------------------------------------------
(* The order of lists *)

\* x comes before y in s.
Before(s, x, y) == \E i, j \in 1 .. Len(s) : i < j /\ s[i] = x /\ s[j] = y

\* What stands before what in two lists one after the other, ...
LEMMA BeforeConcat ==
    ASSUME NEW U, NEW s \in Seq(U), NEW t \in Seq(U), NEW x, NEW y
    PROVE  Before(s \o t, x, y) <=>
              Before(s, x, y) \/ Before(t, x, y) \/ (x \in Range(s) /\ y \in Range(t))
<1> DEFINE m == Len(s)
           n == Len(t)
           w == s \o t
<1>1. m \in Nat /\ n \in Nat /\ w \in Seq(U) /\ Len(w) = m + n
  OBVIOUS
<1>2. (\A i \in 1 .. m : w[i] = s[i]) /\ (\A i \in 1 .. n : w[m + i] = t[i])
  OBVIOUS
<1>3. Range(s) = {s[i] : i \in 1 .. m} /\ Range(t) = {t[i] : i \in 1 .. n}
  BY RangeIs
<1> HIDE DEF w
<1>4. \A i \in 1 .. m : i \in 1 .. Len(w)
  BY <1>1
<1>5. \A i \in 1 .. n : m + i \in 1 .. Len(w)
  BY <1>1
<1>6. \A i \in 1 .. Len(w) : i \in 1 .. m \/ \E k \in 1 .. n : i = m + k
  <2> TAKE i \in 1 .. Len(w)
  <2>1. i \notin 1 .. m => i - m \in 1 .. n /\ i = m + (i - m)
    BY <1>1
  <2> QED
    BY <2>1
<1>7. ASSUME Before(w, x, y)
      PROVE  Before(s, x, y) \/ Before(t, x, y) \/ (x \in Range(s) /\ y \in Range(t))
  <2>1. PICK i \in 1 .. Len(w), j \in 1 .. Len(w) : i < j /\ w[i] = x /\ w[j] = y
    BY <1>7 DEF Before
  <2>2. CASE i \in 1 .. m /\ j \in 1 .. m
    <3>1. s[i] = x /\ s[j] = y
      BY <1>2, <2>1, <2>2
    <3> QED
      BY <2>1, <2>2, <3>1 DEF Before
  <2>3. CASE i \in 1 .. m /\ j \notin 1 .. m
    <3>1. PICK k \in 1 .. n : j = m + k
      BY <1>6, <2>3
    <3>2. s[i] = x /\ t[k] = y
      BY <1>2, <2>1, <2>3, <3>1
    <3> QED
      BY <1>3, <2>3, <3>2
  <2>4. CASE i \notin 1 .. m
    <3>1. PICK k \in 1 .. n : i = m + k
      BY <1>6, <2>4
    <3>2. j \notin 1 .. m
      BY <1>1, <2>1, <3>1
    <3>3. PICK l \in 1 .. n : j = m + l
      BY <1>6, <3>2
    <3>4. k < l
      BY <1>1, <2>1, <3>1, <3>3
    <3>5. t[k] = x /\ t[l] = y
      BY <1>2, <2>1, <3>1, <3>3
    <3> QED
      BY <3>4, <3>5 DEF Before
  <2> QED
    BY <2>2, <2>3, <2>4
<1>8. ASSUME Before(s, x, y)
      PROVE  Before(w, x, y)
  <2>1. PICK i \in 1 .. m, j \in 1 .. m : i < j /\ s[i] = x /\ s[j] = y
    BY <1>8 DEF Before
  <2>2. w[i] = x /\ w[j] = y
    BY <1>2, <2>1
  <2> QED
    BY <1>4, <2>1, <2>2 DEF Before
<1>9. ASSUME Before(t, x, y)
      PROVE  Before(w, x, y)
  <2>1. PICK i \in 1 .. n, j \in 1 .. n : i < j /\ t[i] = x /\ t[j] = y
    BY <1>9 DEF Before
  <2>2. w[m + i] = x /\ w[m + j] = y
    BY <1>2, <2>1
  <2>3. m + i < m + j
    BY <1>1, <2>1
  <2> QED
    BY <1>5, <2>2, <2>3 DEF Before
<1>10. ASSUME x \in Range(s), y \in Range(t)
       PROVE  Before(w, x, y)
  <2>1. PICK i \in 1 .. m, j \in 1 .. n : s[i] = x /\ t[j] = y
    BY <1>3, <1>10
  <2>2. w[i] = x /\ w[m + j] = y
    BY <1>2, <2>1
  <2>3. i < m + j
    BY <1>1
  <2> QED
    BY <1>4, <1>5, <2>2, <2>3 DEF Before
<1> QED
  BY <1>7, <1>8, <1>9, <1>10 DEF w

\* ... and in a list with a new first entry.
LEMMA BeforeCons ==
    ASSUME NEW U, NEW s \in Seq(U), NEW o \in U, NEW x, NEW y
    PROVE  /\ <<o>> \o s \in Seq(U) /\ Range(<<o>> \o s) = {o} \cup Range(s)
           /\ Before(<<o>> \o s, x, y) <=> Before(s, x, y) \/ (x = o /\ y \in Range(s))
<1> DEFINE e == <<o>>
<1>1. e \in Seq(U) /\ Len(e) = 1 /\ e[1] = o
  OBVIOUS
<1>2. Range(e) = {o}
  <2>1. Range(e) = {e[i] : i \in 1 .. Len(e)}
    BY <1>1, RangeIs
  <2> HIDE DEF e
  <2> QED
    BY <1>1, <2>1
<1>3. ~Before(e, x, y)
  <2> HIDE DEF e
  <2> QED
    BY <1>1 DEF Before
<1> HIDE DEF e
<1>4. e \o s \in Seq(U) /\ Range(e \o s) = Range(e) \cup Range(s)
  BY <1>1, RangeConcat
<1>5. Before(e \o s, x, y) <=> Before(e, x, y) \/ Before(s, x, y) \/ (x \in Range(e) /\ y \in Range(s))
  BY <1>1, BeforeConcat
<1>6. Before(e \o s, x, y) <=> Before(s, x, y) \/ (x = o /\ y \in Range(s))
  BY <1>2, <1>3, <1>5
<1> QED
  BY <1>2, <1>4, <1>6 DEF e

\* Keep takes out entries and does nothing else.
LEMMA KeepBefore ==
    ASSUME NEW U, NEW s \in Seq(U), NEW S
    PROVE  /\ Keep(s, S) \in Seq(U) /\ Range(Keep(s, S)) = Range(s) \cap S
           /\ \A x, y : Before(Keep(s, S), x, y) <=> Before(s, x, y) /\ x \in S /\ y \in S
<1> DEFINE t == Keep(s, S)
<1>1. PICK p : Picks(s, S, U, t, Len(s), p)
  BY KeepPicks
<1> HIDE DEF t
<1>2. /\ t \in Seq(U) /\ p \in [1 .. Len(t) -> 1 .. Len(s)] /\ Len(t) \in Nat /\ Len(s) \in Nat
      /\ \A j, k \in 1 .. Len(t) : j < k => p[j] < p[k]
      /\ \A k \in 1 .. Len(t) : t[k] = s[p[k]] /\ s[p[k]] \in S
      /\ \A i \in 1 .. Len(s) : s[i] \in S => \E k \in 1 .. Len(t) : p[k] = i
  <2>1. t \in Seq(U) /\ p \in [1 .. Len(t) -> 1 .. Len(s)]
    BY <1>1 DEF Picks
  <2>2. \A j, k \in 1 .. Len(t) : j < k => p[j] < p[k]
    BY <1>1 DEF Picks
  <2>3. \A k \in 1 .. Len(t) : t[k] = s[p[k]] /\ s[p[k]] \in S
    BY <1>1 DEF Picks
  <2>4. \A i \in 1 .. Len(s) : s[i] \in S => \E k \in 1 .. Len(t) : p[k] = i
    BY <1>1 DEF Picks
  <2>5. Len(t) \in Nat /\ Len(s) \in Nat
    BY <2>1
  <2> QED
    BY <2>1, <2>2, <2>3, <2>4, <2>5
<1>3. Range(t) = {t[k] : k \in 1 .. Len(t)} /\ Range(s) = {s[i] : i \in 1 .. Len(s)}
  BY <1>2, RangeIs
<1>4. Range(t) = Range(s) \cap S
  <2>1. \A k \in 1 .. Len(t) : p[k] \in 1 .. Len(s)
    BY <1>2
  <2>2. Range(t) \subseteq Range(s) \cap S
    BY <1>2, <1>3, <2>1
  <2>3. ASSUME NEW i \in 1 .. Len(s), s[i] \in S
        PROVE  s[i] \in Range(t)
    <3>1. PICK k \in 1 .. Len(t) : p[k] = i
      BY <1>2, <2>3
    <3> QED
      BY <1>2, <1>3, <3>1
  <2> QED
    BY <1>3, <2>2, <2>3
<1>5. ASSUME NEW x, NEW y, Before(t, x, y)
      PROVE  Before(s, x, y) /\ x \in S /\ y \in S
  <2>1. PICK j \in 1 .. Len(t), k \in 1 .. Len(t) : j < k /\ t[j] = x /\ t[k] = y
    BY <1>5 DEF Before
  <2>2. p[j] \in 1 .. Len(s) /\ p[k] \in 1 .. Len(s) /\ p[j] < p[k] /\ s[p[j]] = x /\ s[p[k]] = y /\ x \in S /\ y \in S
    BY <1>2, <2>1
  <2> QED
    BY <2>2 DEF Before
<1>6. ASSUME NEW x, NEW y, Before(s, x, y), x \in S, y \in S
      PROVE  Before(t, x, y)
  <2>1. PICK i \in 1 .. Len(s), j \in 1 .. Len(s) : i < j /\ s[i] = x /\ s[j] = y
    BY <1>6 DEF Before
  <2>2. PICK k \in 1 .. Len(t) : p[k] = i
    BY <1>2, <1>6, <2>1
  <2>3. PICK l \in 1 .. Len(t) : p[l] = j
    BY <1>2, <1>6, <2>1
  <2>4. ~(k = l) /\ ~(l < k)
    <3>1. l < k => p[l] < p[k]
      BY <1>2
    <3> QED
      BY <2>1, <2>2, <2>3, <3>1
  <2>5. k < l
    BY <1>2, <2>4
  <2>6. t[k] = x /\ t[l] = y
    BY <1>2, <2>1, <2>2, <2>3
  <2> QED
    BY <2>5, <2>6 DEF Before
<1> QED
  BY <1>2, <1>4, <1>5, <1>6 DEF t

-----------------------------------------------------------------------------
(* Lists without repetition *)

\* What is kept of such a list has no repetition.
LEMMA KeepInjective ==
    ASSUME NEW U, NEW s \in Seq(U), IsInjective(s), NEW S
    PROVE  IsInjective(Keep(s, S))
<1> DEFINE t == Keep(s, S)
<1>1. PICK p : Picks(s, S, U, t, Len(s), p)
  BY KeepPicks
<1> HIDE DEF t
<1>2. /\ t \in Seq(U) /\ p \in [1 .. Len(t) -> 1 .. Len(s)]
      /\ \A j, k \in 1 .. Len(t) : j < k => p[j] < p[k]
      /\ \A k \in 1 .. Len(t) : t[k] = s[p[k]]
  BY <1>1 DEF Picks
<1>3. ASSUME NEW j \in DOMAIN t, NEW k \in DOMAIN t, t[j] = t[k]
      PROVE  j = k
  <2>1. j \in 1 .. Len(t) /\ k \in 1 .. Len(t) /\ Len(s) \in Nat
    BY <1>2
  <2>2. p[j] \in 1 .. Len(s) /\ p[k] \in 1 .. Len(s) /\ s[p[j]] = s[p[k]]
    BY <1>2, <1>3, <2>1
  <2>3. p[j] = p[k]
    BY <2>2 DEF IsInjective
  <2>4. ~(j < k) /\ ~(k < j)
    BY <1>2, <2>1, <2>2, <2>3
  <2> QED
    BY <2>1, <2>4
<1> QED
  BY <1>3 DEF IsInjective, t

\* Reverse turns the order around and nothing else.
LEMMA ReverseIs ==
    ASSUME NEW U, NEW s \in Seq(U)
    PROVE  /\ Reverse(s) \in Seq(U) /\ Range(Reverse(s)) = Range(s)
           /\ IsInjective(s) => IsInjective(Reverse(s))
<1> DEFINE n == Len(s)
           r == Reverse(s)
<1>1. n \in Nat /\ DOMAIN s = 1 .. n /\ \A i \in 1 .. n : s[i] \in U
  OBVIOUS
<1>2. r = [i \in 1 .. n |-> s[(n - i) + 1]]
  BY DEF Reverse
<1>3. \A i \in 1 .. n : (n - i) + 1 \in 1 .. n /\ (n - ((n - i) + 1)) + 1 = i
  BY <1>1
<1> HIDE DEF n, r
<1>4. r \in Seq(U) /\ DOMAIN r = 1 .. n /\ \A i \in 1 .. n : r[i] = s[(n - i) + 1]
  BY <1>1, <1>2, <1>3
<1>5. Range(r) = Range(s)
  <2>1. ASSUME NEW x \in Range(r) PROVE x \in Range(s)
    BY <1>1, <1>3, <1>4 DEF Range
  <2>2. ASSUME NEW x \in Range(s) PROVE x \in Range(r)
    <3>1. PICK i \in 1 .. n : x = s[i]
      BY <1>1 DEF Range
    <3>2. r[(n - i) + 1] = x /\ (n - i) + 1 \in DOMAIN r
      BY <1>3, <1>4, <3>1
    <3> QED
      BY <3>2 DEF Range
  <2> QED
    BY <2>1, <2>2
<1>6. ASSUME IsInjective(s) PROVE IsInjective(r)
  <2> SUFFICES ASSUME NEW i \in 1 .. n, NEW j \in 1 .. n, r[i] = r[j] PROVE i = j
    BY <1>4 DEF IsInjective
  <2>1. (n - i) + 1 = (n - j) + 1
    BY <1>1, <1>3, <1>4, <1>6 DEF IsInjective
  <2> QED
    BY <1>1, <2>1
<1> QED
  BY <1>4, <1>5, <1>6 DEF r

\* Two lists without repetition make one, if they share nothing.
LEMMA ConcatInjective ==
    ASSUME NEW U, NEW s \in Seq(U), NEW t \in Seq(U),
           IsInjective(s), IsInjective(t), Range(s) \cap Range(t) = {}
    PROVE  IsInjective(s \o t)
<1> DEFINE m == Len(s)
           n == Len(t)
           w == s \o t
<1>1. m \in Nat /\ n \in Nat /\ DOMAIN s = 1 .. m /\ DOMAIN t = 1 .. n /\ DOMAIN w = 1 .. m + n
  OBVIOUS
<1>2. \A i \in 1 .. m + n : w[i] = IF i <= m THEN s[i] ELSE t[i - m]
  OBVIOUS
<1> HIDE DEF m, n, w
<1>3. ASSUME NEW i \in 1 .. m, NEW j \in 1 .. n PROVE s[i] # t[j]
  BY <1>1 DEF Range
<1>4. \A i \in 1 .. m + n : i <= m => i \in 1 .. m
  BY <1>1
<1>5. \A i \in 1 .. m + n : ~(i <= m) => i - m \in 1 .. n
  BY <1>1
<1>6. ASSUME NEW i \in 1 .. m + n, NEW j \in 1 .. m + n, w[i] = w[j] PROVE i = j
  <2>1. CASE i <= m /\ j <= m
    BY <1>1, <1>2, <1>4, <1>6, <2>1 DEF IsInjective
  <2>2. CASE i <= m /\ ~(j <= m)
    BY <1>2, <1>3, <1>4, <1>5, <1>6, <2>2
  <2>3. CASE ~(i <= m) /\ j <= m
    <3>1. w[j] = s[j] /\ w[i] = t[i - m] /\ j \in 1 .. m /\ i - m \in 1 .. n
      BY <1>2, <1>4, <1>5, <2>3
    <3> QED
      BY <1>3, <1>6, <3>1
  <2>4. CASE ~(i <= m) /\ ~(j <= m)
    <3>1. i - m = j - m
      BY <1>1, <1>2, <1>5, <1>6, <2>4 DEF IsInjective
    <3> QED
      BY <1>1, <3>1
  <2> QED
    BY <2>1, <2>2, <2>3, <2>4
<1> QED
  BY <1>1, <1>6 DEF IsInjective, w

\* f walks m entries along the links g, from a on.
IsWalk(f, m, a, g) == f = [i \in 1 .. m |-> IF i = 1 THEN a ELSE g[f[i - 1]]]

\* There is such a walk, so that the recursive functions of the models have the
\* values they say.
LEMMA WalkExists ==
    ASSUME NEW m \in Nat, NEW a, NEW g
    PROVE  \E f : IsWalk(f, m, a, g)
<1> DEFINE T == {k \in Nat : \E f : IsWalk(f, k, a, g)}
<1>1. 0 \in T
  <2> DEFINE f == [i \in 1 .. 0 |-> a]
  <2>1. IsWalk(f, 0, a, g)
    BY DEF IsWalk
  <2> QED
    BY <2>1
<1>2. ASSUME NEW k \in T
      PROVE  k + 1 \in T
  <2>1. k \in Nat /\ \E f : IsWalk(f, k, a, g)
    OBVIOUS
  <2>2. PICK f : IsWalk(f, k, a, g)
    BY <2>1
  <2> DEFINE e == IF k = 0 THEN a ELSE g[f[k]]
             h == [i \in 1 .. k + 1 |-> IF i = k + 1 THEN e ELSE f[i]]
  <2>3. \A i \in 1 .. k : f[i] = IF i = 1 THEN a ELSE g[f[i - 1]]
    BY <2>2 DEF IsWalk
  <2>4. h[k + 1] = e /\ (\A i \in 1 .. k : h[i] = f[i]) /\ h = [i \in 1 .. k + 1 |-> h[i]]
    BY <2>1
  <2> HIDE DEF h
  <2>5. ASSUME NEW i \in 1 .. k + 1
        PROVE  h[i] = IF i = 1 THEN a ELSE g[h[i - 1]]
    <3>1. CASE i = k + 1
      <4>1. (i = 1 <=> k = 0) /\ i - 1 = k /\ (k # 0 => k \in 1 .. k)
        BY <2>1, <3>1
      <4> QED
        BY <2>4, <3>1, <4>1
    <3>2. CASE i # k + 1
      <4>1. i \in 1 .. k /\ (i # 1 => i - 1 \in 1 .. k)
        BY <2>1, <3>2
      <4> QED
        BY <2>3, <2>4, <4>1
    <3> QED
      BY <3>1, <3>2
  <2>6. IsWalk(h, k + 1, a, g)
    BY <2>4, <2>5 DEF IsWalk
  <2> QED
    BY <2>1, <2>6
<1>3. m \in T
  <2> HIDE DEF T
  <2>1. T \in SUBSET Nat
    BY DEF T
  <2> QED
    BY <1>1, <1>2, <2>1, AllNat
<1> QED
  BY <1>3

\* A list without repetition is as long as its set of entries.
LEMMA InjectiveLength ==
    ASSUME NEW U, IsFiniteSet(U), NEW s \in Seq(U), IsInjective(s)
    PROVE  /\ IsFiniteSet(Range(s)) /\ Cardinality(Range(s)) = Len(s)
           /\ Cardinality(U) \in Nat /\ Len(s) <= Cardinality(U)
<1>1. Len(s) \in Nat /\ DOMAIN s = 1 .. Len(s) /\ s = [i \in 1 .. Len(s) |-> s[i]]
  OBVIOUS
<1>2. Range(s) = {s[i] : i \in 1 .. Len(s)} /\ Range(s) \subseteq U
  BY RangeIs
<1>3. \A i, j \in 1 .. Len(s) : s[i] = s[j] => i = j
  BY <1>1 DEF IsInjective
<1>4. s \in [1 .. Len(s) -> Range(s)]
  BY <1>1, <1>2
<1>5. s \in Surjection(1 .. Len(s), Range(s)) /\ s \in Injection(1 .. Len(s), Range(s))
  BY <1>2, <1>3, <1>4 DEF Surjection, Injection
<1>6. IsFiniteSet(1 .. Len(s)) /\ Cardinality(1 .. Len(s)) = Len(s)
  <2> DEFINE n == Len(s)
  <2>1. n \in Nat /\ 1 \in Int /\ n \in Int
    BY <1>1
  <2> HIDE DEF n
  <2>2. IsFiniteSet(1 .. n) /\ Cardinality(1 .. n) = IF 1 > n THEN 0 ELSE n - 1 + 1
    BY <2>1, FS_Interval
  <2> QED
    BY <2>1, <2>2 DEF n
<1>7. IsFiniteSet(Range(s)) /\ Cardinality(Range(s)) = Len(s)
  BY <1>5, <1>6, FS_Surjection
<1>8. Cardinality(U) \in Nat /\ Cardinality(Range(s)) <= Cardinality(U)
  BY <1>2, FS_Subset, FS_CardinalityType
<1> QED
  BY <1>7, <1>8
=============================================================================
