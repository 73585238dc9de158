-------------------------- MODULE EventLoop_proofs ---------------------------
(***************************************************************************)
(* Theorems about what Fl::wait() does in turn: the timeouts, checks and   *)
(* idle callbacks it calls (FlTimeouts, FlChecks, FlIdle), and in          *)
(* fl_wait() the lock it gives up and takes (FlLock) and the file          *)
(* descriptors it watches (FdSelect).  These modules share no name; each   *)
(* theorem is about one of them.                                           *)
(***************************************************************************)
EXTENDS FlLock, FlTimeouts, FlChecks, FdSelect, FlIdle, Lists_proofs

-----------------------------------------------------------------------------
(* The lock: Fl::lock() is a recursive lock, for any set of threads and any
   nesting, although lock_function_std reads owner and counter without the mutex. *)

(***************************************************************************)
(* The inductive invariant.  Held ties the mutex to the counter and to the *)
(* nesting of its holder.  Located says where a thread may be with and     *)
(* without the mutex.  StaleOwner is why the unprotected test is safe: a   *)
(* thread that saw a nonzero counter without holding the mutex does not    *)
(* find itself in owner, because a holder records itself there before it   *)
(* raises the counter and only others overwrite it.                        *)
(***************************************************************************)
Held ==
    /\ mutex = NoThread => counter = 0
    /\ \A t \in Threads : mutex = t => counter = depth[t]
    /\ \A t \in Threads : mutex # t => depth[t] = 0

Located ==
    \A t \in Threads :
       /\ pc[t] = "acquire" => mutex # t
       /\ pc[t] \in {"setOwner", "increment", "decrement", "release"} => mutex = t
       /\ pc[t] \in {"setOwner", "release"} => depth[t] = 0
       /\ pc[t] = "decrement" => depth[t] # 0
       /\ mutex = t /\ depth[t] = 0 => pc[t] \in {"setOwner", "increment", "release"}

StaleOwner ==
    \A t \in Threads :
       /\ mutex = t /\ pc[t] # "setOwner" => owner = t
       /\ pc[t] = "testOwner" /\ mutex # t => owner # t

LockInv == LockTypeOK /\ Held /\ Located /\ StaleOwner

\* The state after Fl::lock() in main() satisfies the invariant.
LEMMA LockStarts == LockInit => LockInv
<1> SUFFICES ASSUME LockInit PROVE LockInv
  OBVIOUS
<1>1. inWait \in BOOLEAN
  BY Zenon DEF LockInit
<1>2. LockTypeOK
  BY <1>1 DEF LockInit, LockTypeOK, Locations
<1>3. Held /\ Located /\ StaleOwner
  BY LockAssumption DEF LockInit, Held, Located, StaleOwner
<1> QED
  BY <1>2, <1>3 DEF LockInv

\* Every read or write of every thread keeps it.
LEMMA LockStep == LockInv /\ [LockNext]_lockVars => LockInv'
<1> SUFFICES ASSUME LockInv, [LockNext]_lockVars PROVE LockInv'
  OBVIOUS
<1> USE LockAssumption DEF LockInv
<1>1. ASSUME NEW t \in Threads, Lock(t) PROVE LockInv'
  <2>1. LockTypeOK' /\ Held'
    BY <1>1 DEF Lock, Goto, LockTypeOK, Held, Locations
  <2>2. Located' /\ StaleOwner'
    BY <1>1 DEF Lock, Goto, LockTypeOK, Located, StaleOwner
  <2> QED
    BY <2>1, <2>2
<1>2. ASSUME NEW t \in Threads, TestCounter(t) PROVE LockInv'
  <2>1. LockTypeOK' /\ Held'
    BY <1>2 DEF TestCounter, Goto, LockTypeOK, Held, Locations
  <2>2. Located'
    BY <1>2 DEF TestCounter, Goto, LockTypeOK, Held, Located
  <2>3. StaleOwner'
    \* counter # 0 means that some h # t holds the mutex and is past setOwner
    BY <1>2 DEF TestCounter, Goto, LockTypeOK, Held, Located, StaleOwner
  <2> QED
    BY <2>1, <2>2, <2>3
<1>3. ASSUME NEW t \in Threads, TestOwner(t) PROVE LockInv'
  <2>1. LockTypeOK' /\ Held'
    BY <1>3 DEF TestOwner, Goto, LockTypeOK, Held, Locations
  <2>2. Located'
    BY <1>3 DEF TestOwner, Goto, LockTypeOK, Located, StaleOwner
  <2>3. StaleOwner'
    BY <1>3 DEF TestOwner, Goto, LockTypeOK, StaleOwner
  <2> QED
    BY <2>1, <2>2, <2>3
<1>4. ASSUME NEW t \in Threads, Acquire(t) PROVE LockInv'
  <2>1. LockTypeOK' /\ Held'
    BY <1>4 DEF Acquire, Goto, LockTypeOK, Held, Locations
  <2>2. Located'
    BY <1>4 DEF Acquire, Goto, LockTypeOK, Held, Located
  <2>3. StaleOwner'
    BY <1>4 DEF Acquire, Goto, LockTypeOK, StaleOwner
  <2> QED
    BY <2>1, <2>2, <2>3
<1>5. ASSUME NEW t \in Threads, SetOwner(t) PROVE LockInv'
  <2>1. LockTypeOK' /\ Held'
    BY <1>5 DEF SetOwner, Goto, LockTypeOK, Held, Locations
  <2>2. Located'
    BY <1>5 DEF SetOwner, Goto, LockTypeOK, Located
  <2>3. StaleOwner'
    BY <1>5 DEF SetOwner, Goto, LockTypeOK, Located, StaleOwner
  <2> QED
    BY <2>1, <2>2, <2>3
<1>6. ASSUME NEW t \in Threads, Increment(t) PROVE LockInv'
  <2>0. mutex = t /\ owner = t
    BY <1>6 DEF Increment, Goto, Located, StaleOwner
  <2>a. /\ counter' = counter + 1 /\ pc' = [pc EXCEPT ![t] = "run"]
        /\ depth' = [depth EXCEPT ![t] = @ + 1] /\ mutex' = mutex /\ owner' = owner
    BY <1>6 DEF Increment, Goto
  <2>b. inWait' \in BOOLEAN
    BY <1>6, Zenon DEF Increment, LockTypeOK
  <2>1. LockTypeOK' /\ Held'
    BY <2>0, <2>a, <2>b DEF LockTypeOK, Held, Locations
  <2>2. Located'
    BY <1>6, <2>0 DEF Increment, Goto, LockTypeOK, Located
  <2>3. StaleOwner'
    BY <1>6, <2>0 DEF Increment, Goto, LockTypeOK, StaleOwner
  <2> QED
    BY <2>1, <2>2, <2>3
<1>7. ASSUME NEW t \in Threads, Unlock(t) \/ (t = Main /\ BeginPoll) PROVE LockInv'
  <2>0. /\ pc[t] = "run" /\ depth[t] > 0
        /\ pc' = [pc EXCEPT ![t] = "decrement"]
        /\ UNCHANGED <<mutex, owner, counter, depth>> /\ inWait' \in BOOLEAN
    BY <1>7 DEF Unlock, BeginPoll, Goto, LockTypeOK
  <2>1. LockTypeOK' /\ Held'
    BY <2>0 DEF LockTypeOK, Held, Locations
  <2>2. Located'
    BY <2>0 DEF LockTypeOK, Held, Located
  <2>3. StaleOwner'
    BY <2>0 DEF LockTypeOK, StaleOwner
  <2> QED
    BY <2>1, <2>2, <2>3
<1>8. ASSUME NEW t \in Threads, Decrement(t) PROVE LockInv'
  <2>0. /\ mutex = t /\ depth[t] # 0 /\ counter = depth[t] /\ owner = t
        /\ Returned(t) \in {"run", "poll"}
    BY <1>8 DEF Decrement, Goto, Held, Located, StaleOwner, Returned
  <2>1. LockTypeOK' /\ Held'
    BY <1>8, <2>0 DEF Decrement, Goto, LockTypeOK, Held, Locations
  <2>2. Located'
    BY <1>8, <2>0 DEF Decrement, Goto, LockTypeOK, Located
  <2>3. StaleOwner'
    BY <1>8, <2>0 DEF Decrement, Goto, LockTypeOK, StaleOwner
  <2> QED
    BY <2>1, <2>2, <2>3
<1>9. ASSUME NEW t \in Threads, Release(t) PROVE LockInv'
  <2>0. /\ mutex = t /\ depth[t] = 0 /\ counter = 0 /\ owner = t
        /\ Returned(t) \in {"run", "poll"}
    BY <1>9 DEF Release, Goto, Held, Located, StaleOwner, Returned
  <2>1. LockTypeOK' /\ Held'
    BY <1>9, <2>0 DEF Release, Goto, LockTypeOK, Held, Locations
  <2>2. Located'
    BY <1>9, <2>0 DEF Release, Goto, LockTypeOK, Located
  <2>3. StaleOwner'
    BY <1>9, <2>0 DEF Release, Goto, LockTypeOK, StaleOwner
  <2> QED
    BY <2>1, <2>2, <2>3
<1>10. CASE EndPoll
  <2>1. LockTypeOK' /\ Held'
    BY <1>10 DEF EndPoll, Goto, LockTypeOK, Held, Locations
  <2>2. Located' /\ StaleOwner'
    BY <1>10 DEF EndPoll, Goto, LockTypeOK, Located, StaleOwner
  <2> QED
    BY <2>1, <2>2
<1>11. CASE UNCHANGED lockVars
  BY <1>11 DEF lockVars, LockTypeOK, Held, Located, StaleOwner
<1> QED
  BY <1>1, <1>2, <1>3, <1>4, <1>5, <1>6, <1>7, <1>8, <1>9, <1>10, <1>11
  DEF LockNext, Step

\* So it always holds.
LEMMA LockInvariant == LockSpec => []LockInv
BY LockStarts, LockStep, PTL DEF LockSpec

\* Two threads are never both inside Fl::lock(), whatever their number, their
\* nesting, and the interleaving of their unprotected reads.
THEOREM Exclusion == LockSpec => []MutualExclusion
<1>1. LockInv => MutualExclusion
  BY LockAssumption DEF LockInv, LockTypeOK, Held, MutualExclusion
<1> QED
  BY <1>1, LockInvariant, PTL

\* The mutex is released by its holder, at the holder's outermost unlock.
THEOREM HolderReleases == LockSpec => []ReleasedByHolder
<1>1. LockInv => ReleasedByHolder
  BY LockAssumption DEF LockInv, LockTypeOK, Held, Located, ReleasedByHolder
<1> QED
  BY <1>1, LockInvariant, PTL

-----------------------------------------------------------------------------
(* Timeouts *)

Entry == [left : Int, due : Int, arg : Args, rep : BOOLEAN]

Sorted(l) == \A i, j \in 1 .. Len(l) : i < j => l[i].left <= l[j].left

\* What InsertAt of SequencesExt returns.
LEMMA InsertAtIs ==
    ASSUME NEW U, NEW l \in Seq(U), NEW e \in U, NEW p \in 1 .. Len(l) + 1
    PROVE  /\ InsertAt(l, p, e) \in Seq(U) /\ Len(InsertAt(l, p, e)) = Len(l) + 1
           /\ \A i \in 1 .. Len(l) + 1 :
                 InsertAt(l, p, e)[i] = IF i < p THEN l[i] ELSE IF i = p THEN e ELSE l[i - 1]
<1> DEFINE a == SubSeq(l, 1, p - 1)
           b == SubSeq(l, p, Len(l))
           r == InsertAt(l, p, e)
<1>1. Len(l) \in Nat /\ p \in Nat
  OBVIOUS
<1>2. a \in Seq(U) /\ Len(a) = p - 1 /\ \A i \in 1 .. p - 1 : a[i] = l[i]
  BY <1>1
<1>3. b \in Seq(U) /\ Len(b) = Len(l) - p + 1 /\ \A i \in 1 .. Len(b) : b[i] = l[p + i - 1]
  BY <1>1
<1>4. r = a \o <<e>> \o b
  BY DEF InsertAt
<1> HIDE DEF a, b, r
<1> DEFINE c == a \o <<e>>
<1>5. c \in Seq(U) /\ Len(c) = p /\ (\A i \in 1 .. p - 1 : c[i] = a[i]) /\ c[p] = e
  BY <1>1, <1>2
<1>6. r = c \o b
  BY <1>4
<1> HIDE DEF c
<1>7. r \in Seq(U) /\ Len(r) = Len(l) + 1
  BY <1>1, <1>3, <1>5, <1>6
<1>8. ASSUME NEW i \in 1 .. Len(l) + 1
      PROVE  r[i] = IF i < p THEN l[i] ELSE IF i = p THEN e ELSE l[i - 1]
  <2>1. CASE i <= p
    BY <1>1, <1>2, <1>3, <1>5, <1>6, <2>1
  <2>2. CASE i > p
    <3>1. r[i] = b[i - p]
      BY <1>1, <1>3, <1>5, <1>6, <2>2
    <3>2. i - p \in 1 .. Len(b) /\ p + (i - p) - 1 = i - 1
      BY <1>1, <1>3, <2>2
    <3>3. b[i - p] = l[i - 1]
      BY <1>3, <3>2
    <3> QED
      BY <1>1, <2>2, <3>1, <3>3
  <2> QED
    BY <1>1, <2>1, <2>2
<1> QED
  BY <1>7, <1>8 DEF r

\* The times of an entry are integers.
LEMMA EntryIs ==
    ASSUME NEW x \in Entry
    PROVE  x.left \in Int /\ x.due \in Int
BY DEF Entry

\* Changing `left' changes nothing else of an entry, ...
LEMMA EntryLeft ==
    ASSUME NEW x \in Entry, NEW n \in Int, NEW y, y = [x EXCEPT !.left = n]
    PROVE  y \in Entry /\ y.left = n /\ y.due = x.due /\ y.rep = x.rep
BY DEF Entry

\* ... nor does changing `due'.
LEMMA EntryDue ==
    ASSUME NEW x \in Entry, NEW n \in Int, NEW y, y = [x EXCEPT !.due = n]
    PROVE  y \in Entry /\ y.due = n /\ y.left = x.left /\ y.rep = x.rep
BY DEF Entry

\* repeat_timeout puts the entry where the list stays sorted, and loses none.
LEMMA InsertedIs ==
    ASSUME NEW l \in Seq(Entry), NEW e \in Entry, Sorted(l)
    PROVE  /\ Inserted(l, e) \in Seq(Entry) /\ Sorted(Inserted(l, e))
           /\ \A i \in 1 .. Len(Inserted(l, e)) :
                 Inserted(l, e)[i] = e \/ \E j \in 1 .. Len(l) : Inserted(l, e)[i] = l[j]
<1> DEFINE P(i) == /\ \A j \in 1 .. i - 1 : l[j].left <= e.left
                   /\ i <= Len(l) => l[i].left > e.left
           p == CHOOSE i \in 1 .. Len(l) + 1 : P(i)
           r == Inserted(l, e)
<1> HIDE DEF p, r
<1>1. Len(l) \in Nat /\ (\A i \in 1 .. Len(l) : l[i].left \in Int) /\ e.left \in Int
  <2>1. \A x \in Entry : x.left \in Int
    BY DEF Entry
  <2>2. Len(l) \in Nat /\ \A i \in 1 .. Len(l) : l[i] \in Entry
    OBVIOUS
  <2> QED
    BY <2>1, <2>2
<1>2. \E i \in 1 .. Len(l) + 1 : P(i)
  <2> DEFINE B == {i \in 1 .. Len(l) + 1 : i <= Len(l) => l[i].left > e.left}
  <2>1. B \in SUBSET Nat /\ Len(l) + 1 \in B
    BY <1>1
  <2>2. PICK i \in B : \A j \in B : i <= j
    <3> HIDE DEF B
    <3> QED
      BY <2>1, LeastNat
  <2>3. i \in 1 .. Len(l) + 1
    OBVIOUS
  <2>4. ASSUME NEW j \in 1 .. i - 1
        PROVE  l[j].left <= e.left
    <3>1. j \in 1 .. Len(l) /\ ~(i <= j)
      BY <1>1, <2>3
    <3>2. j \notin B
      BY <2>2, <3>1
    <3> QED
      BY <1>1, <3>1, <3>2
  <2> QED
    BY <2>3, <2>4
<1>3. p \in 1 .. Len(l) + 1 /\ P(p)
  BY <1>2 DEF p
<1> HIDE DEF P
<1>0. p \in 1 .. Len(l) + 1 /\ p \in Int
  BY <1>1, <1>3
<1>4. r = InsertAt(l, p, e)
  BY DEF Inserted, InsertAt, r, p, P
<1>5. /\ r \in Seq(Entry) /\ Len(r) = Len(l) + 1
      /\ \A i \in 1 .. Len(l) + 1 : r[i] = IF i < p THEN l[i] ELSE IF i = p THEN e ELSE l[i - 1]
  <2>1. /\ InsertAt(l, p, e) \in Seq(Entry) /\ Len(InsertAt(l, p, e)) = Len(l) + 1
        /\ \A i \in 1 .. Len(l) + 1 :
              InsertAt(l, p, e)[i] = IF i < p THEN l[i] ELSE IF i = p THEN e ELSE l[i - 1]
    BY <1>0, InsertAtIs
  <2> QED
    BY <1>4, <2>1
<1>6. ASSUME NEW i \in 1 .. Len(r), NEW j \in 1 .. Len(r), i < j
      PROVE  r[i].left <= r[j].left
  <2>1. \A k \in 1 .. p - 1 : l[k].left <= e.left
    BY <1>3 DEF P
  <2>2. \A k \in 1 .. Len(l) : k >= p => l[k].left >= e.left
    <3> SUFFICES ASSUME NEW k \in 1 .. Len(l), k >= p
                 PROVE  l[k].left >= e.left
      OBVIOUS
    <3>1. p \in 1 .. Len(l) /\ l[p].left > e.left
      BY <1>1, <1>0, <1>3 DEF P
    <3>2. l[p].left <= l[k].left
      <4>1. CASE p = k
        BY <1>1, <3>1, <4>1
      <4>2. CASE p < k
        BY <3>1, <4>2 DEF Sorted
      <4> QED
        BY <1>0, <1>1, <4>1, <4>2
    <3> QED
      BY <1>1, <3>1, <3>2
  <2>3. \A k, m \in 1 .. Len(l) : k < m => l[k].left <= l[m].left
    BY DEF Sorted
  <2>4. CASE j < p
    <3>1. i \in 1 .. Len(l) /\ j \in 1 .. Len(l) /\ i < p
      BY <1>1, <1>0, <1>5, <1>6, <2>4
    <3>2. r[i] = l[i] /\ r[j] = l[j]
      BY <1>1, <1>5, <2>4, <3>1
    <3> QED
      BY <1>6, <2>3, <3>1, <3>2
  <2>5. CASE j = p
    <3>1. i \in 1 .. p - 1 /\ i \in 1 .. Len(l) + 1 /\ i < p /\ j \in 1 .. Len(l) + 1 /\ ~(j < p)
      BY <1>1, <1>0, <1>5, <1>6, <2>5
    <3>2. r[i] = l[i] /\ r[j] = e
      BY <1>5, <2>5, <3>1
    <3> QED
      BY <2>1, <3>1, <3>2
  <2>6. CASE j > p /\ i = p
    <3>1. r[i] = e /\ r[j] = l[j - 1] /\ j - 1 \in 1 .. Len(l) /\ j - 1 >= p
      BY <1>1, <1>0, <1>5, <2>6
    <3> QED
      BY <1>1, <2>2, <3>1
  <2>7. CASE j > p /\ i < p
    <3>1. r[i] = l[i] /\ r[j] = l[j - 1] /\ i \in 1 .. p - 1 /\ j - 1 \in 1 .. Len(l) /\ j - 1 >= p /\ i \in 1 .. Len(l)
      BY <1>1, <1>0, <1>5, <1>6, <2>7
    <3> QED
      BY <1>1, <2>1, <2>2, <3>1
  <2>8. CASE i > p
    <3>1. r[i] = l[i - 1] /\ r[j] = l[j - 1] /\ i - 1 \in 1 .. Len(l) /\ j - 1 \in 1 .. Len(l) /\ i - 1 < j - 1
      BY <1>1, <1>0, <1>5, <1>6, <2>8
    <3> QED
      BY <2>3, <3>1
  <2> QED
    BY <1>0, <1>5, <1>6, <2>4, <2>5, <2>6, <2>7, <2>8
<1>7. ASSUME NEW i \in 1 .. Len(r)
      PROVE  r[i] = e \/ \E j \in 1 .. Len(l) : r[i] = l[j]
  <2>1. i < p => i \in 1 .. Len(l)
    BY <1>0, <1>1, <1>5
  <2>2. i > p => i - 1 \in 1 .. Len(l)
    BY <1>0, <1>1, <1>5
  <2>3. i \in 1 .. Len(l) + 1
    BY <1>5
  <2>4. i < p \/ i = p \/ i > p
    BY <1>0, <1>1, <2>3
  <2>5. CASE i < p
    BY <1>5, <2>1, <2>3, <2>5
  <2>6. CASE i = p
    BY <1>0, <1>5, <2>3, <2>6
  <2>7. CASE i > p
    BY <1>0, <1>1, <1>5, <2>2, <2>3, <2>7
  <2> QED
    BY <2>4, <2>5, <2>6, <2>7
<1> QED
  BY <1>5, <1>6, <1>7 DEF r, Sorted

\* The list is sorted, and no repeated timeout will come early.
TimeoutsInv ==
    /\ list \in Seq(Entry) /\ Sorted(list)
    /\ lag \in Nat /\ resetClock \in BOOLEAN /\ missed \in Int
    /\ \A i \in 1 .. Len(list) :
          list[i].rep => list[i].due <= list[i].left - (IF resetClock THEN 0 ELSE lag)

\* elapse_timeouts keeps the list sorted, and no repeated entry gets early.
LEMMA Shifted ==
    ASSUME TimeoutsInv
    PROVE  /\ Elapsed \in Seq(Entry) /\ Sorted(Elapsed) /\ Len(Elapsed) = Len(list)
           /\ \A i \in 1 .. Len(list) : Elapsed[i].rep => Elapsed[i].due <= Elapsed[i].left
<1>1. list \in Seq(Entry) /\ Len(list) \in Nat /\ lag \in Int /\ resetClock \in BOOLEAN /\ DOMAIN list = 1 .. Len(list)
  BY DEF TimeoutsInv
<1>2. \A i \in 1 .. Len(list) : list[i] \in Entry
  BY <1>1
<1> DEFINE e(i) == [list[i] EXCEPT !.left = @ - lag]
           r == [i \in 1 .. Len(list) |-> e(i)]
<1>3. \A i \in 1 .. Len(list) : /\ e(i) \in Entry /\ e(i).left = list[i].left - lag
                                 /\ e(i).due = list[i].due /\ e(i).rep = list[i].rep
  <2> TAKE i \in 1 .. Len(list)
  <2>1. list[i] \in Entry /\ list[i].left - lag \in Int
    BY <1>1, <1>2, EntryIs
  <2> QED
    BY <2>1, EntryLeft
<1>4. \A i \in 1 .. Len(list) : list[i].left \in Int /\ list[i].due \in Int
  BY <1>2, EntryIs
<1> HIDE DEF e
<1>5. /\ r \in Seq(Entry) /\ Len(r) = Len(list) /\ \A i \in 1 .. Len(list) : r[i] = e(i)
  BY <1>1, <1>3
<1>6. ~resetClock => Elapsed = r
  BY <1>1 DEF Elapsed, e
<1>7. resetClock => Elapsed = list
  BY DEF Elapsed
<1> HIDE DEF r
<1>8. CASE resetClock
  <2>1. \A i \in 1 .. Len(list) : list[i].rep => list[i].due <= list[i].left
    BY <1>4, <1>8 DEF TimeoutsInv
  <2> QED
    BY <1>1, <1>7, <1>8, <2>1 DEF TimeoutsInv
<1>9. CASE ~resetClock
  <2>1. Sorted(r)
    <3> SUFFICES ASSUME NEW i \in 1 .. Len(list), NEW j \in 1 .. Len(list), i < j
                 PROVE  r[i].left <= r[j].left
      BY <1>5 DEF Sorted
    <3>1. list[i].left <= list[j].left
      BY DEF TimeoutsInv, Sorted
    <3>2. r[i].left = list[i].left - lag /\ r[j].left = list[j].left - lag
      BY <1>3, <1>5
    <3> QED
      BY <1>1, <1>4, <3>1, <3>2
  <2>2. \A i \in 1 .. Len(list) : r[i].rep => r[i].due <= r[i].left
    BY <1>1, <1>3, <1>4, <1>5, <1>9 DEF TimeoutsInv
  <2> QED
    BY <1>5, <1>6, <1>9, <2>1, <2>2
<1> QED
  BY <1>1, <1>8, <1>9

\* A new timeout is sorted in among entries that are in order.
LEMMA NewTimeout ==
    ASSUME NEW l \in Seq(Entry), Sorted(l), NEW d \in Nat, NEW e \in Entry,
           \A i \in 1 .. Len(l) : l[i].rep => l[i].due <= l[i].left - d,
           e.rep => e.due <= e.left - d, list' = Inserted(l, e)
    PROVE  /\ list' \in Seq(Entry) /\ Sorted(list')
           /\ \A i \in 1 .. Len(list') : list'[i].rep => list'[i].due <= list'[i].left - d
<1>1. /\ list' \in Seq(Entry) /\ Sorted(list')
      /\ \A i \in 1 .. Len(list') : list'[i] = e \/ \E j \in 1 .. Len(l) : list'[i] = l[j]
  BY InsertedIs
<1> QED
  BY <1>1

\* Every step keeps the invariant.
LEMMA TimeoutsStep ==
    ASSUME TimeoutsInv, [TimeoutsNext]_timeoutsVars
    PROVE  TimeoutsInv'
<1>1. /\ list \in Seq(Entry) /\ Sorted(list) /\ Len(list) \in Nat
      /\ lag \in Nat /\ resetClock \in BOOLEAN /\ missed \in Int
      /\ \A i \in 1 .. Len(list) :
            list[i].rep => list[i].due <= list[i].left - (IF resetClock THEN 0 ELSE lag)
  BY DEF TimeoutsInv
<1>2. Delays \subseteq Nat
  BY TimeoutsAssumption DEF TimeoutsAssumption
<1>3. ASSUME NEW t \in Delays, NEW a \in Args, AddTimeout(t, a)
      PROVE  TimeoutsInv'
  <2> DEFINE e == [left |-> Corrected(t), due |-> t, arg |-> a, rep |-> FALSE]
  <2>1. e \in Entry /\ ~e.rep
    BY <1>1, <1>2 DEF Corrected, Entry
  <2>2. list' = Inserted(Elapsed, e) /\ lag' = 0 /\ resetClock' = FALSE /\ missed' = missed
    BY <1>3 DEF AddTimeout, ReadClock
  <2> HIDE DEF e
  <2>3. /\ Elapsed \in Seq(Entry) /\ Sorted(Elapsed)
        /\ \A i \in 1 .. Len(Elapsed) : Elapsed[i].rep => Elapsed[i].due <= Elapsed[i].left - 0
    <3>1. /\ Elapsed \in Seq(Entry) /\ Sorted(Elapsed) /\ Len(Elapsed) = Len(list)
          /\ \A i \in 1 .. Len(list) : Elapsed[i].rep => Elapsed[i].due <= Elapsed[i].left
      BY Shifted
    <3>2. \A i \in 1 .. Len(Elapsed) : Elapsed[i].left \in Int
      BY <3>1, EntryIs
    <3> QED
      BY <3>1, <3>2
  <2>4. /\ list' \in Seq(Entry) /\ Sorted(list')
        /\ \A i \in 1 .. Len(list') : list'[i].rep => list'[i].due <= list'[i].left - 0
    BY <2>1, <2>2, <2>3, NewTimeout
  <2> QED
    BY <1>1, <2>2, <2>4 DEF TimeoutsInv, Sorted
<1>4. ASSUME NEW t \in Delays, NEW a \in Args, RepeatTimeout(t, a)
      PROVE  TimeoutsInv'
  <2> DEFINE d == IF resetClock THEN 0 ELSE lag
             e == [left |-> Corrected(t), due |-> t + missed - lag, arg |-> a, rep |-> TRUE]
  <2>1. e \in Entry /\ e.due <= e.left - d /\ d \in Nat
    BY <1>1, <1>2 DEF Corrected, Entry
  <2>2. list' = Inserted(list, e) /\ UNCHANGED <<lag, resetClock, missed>>
    BY <1>4 DEF RepeatTimeout
  <2> HIDE DEF e
  <2>3. \A i \in 1 .. Len(list) : list[i].rep => list[i].due <= list[i].left - d
    BY <1>1
  <2> HIDE DEF d
  <2>4. /\ list' \in Seq(Entry) /\ Sorted(list')
        /\ \A i \in 1 .. Len(list') : list'[i].rep => list'[i].due <= list'[i].left - d
    BY <1>1, <2>1, <2>2, <2>3, NewTimeout
  <2> QED
    BY <1>1, <2>2, <2>4 DEF TimeoutsInv, Sorted, d
<1>5. ASSUME NEW a, RemoveTimeout(a)
      PROVE  TimeoutsInv'
  <2> DEFINE S == {x \in Range(list) : ~(x.arg = a \/ a = AnyArg)}
  <2>1. list' = Keep(list, S) /\ UNCHANGED <<lag, resetClock, missed>>
    BY <1>5 DEF RemoveTimeout
  <2> HIDE DEF S
  <2>3. PICK p : Picks(list, S, Entry, list', Len(list), p)
    BY <1>1, <2>1, KeepPicks
  <2>4. /\ list' \in Seq(Entry) /\ p \in [1 .. Len(list') -> 1 .. Len(list)]
        /\ \A i, j \in 1 .. Len(list') : i < j => p[i] < p[j]
        /\ \A i \in 1 .. Len(list') : list'[i] = list[p[i]]
    BY <2>3 DEF Picks
  <2>5. Sorted(list')
    BY <1>1, <2>4 DEF Sorted
  <2> QED
    BY <1>1, <2>1, <2>4, <2>5 DEF TimeoutsInv
<1>6. ASSUME EnterWait \/ Ready
      PROVE  TimeoutsInv'
  <2>1. CheckClock /\ missed' = missed
    BY <1>6 DEF EnterWait, Ready
  <2>2. CASE list # <<>>
    <3>1. list' = Elapsed /\ lag' = 0 /\ resetClock' = FALSE
      BY <2>1, <2>2 DEF CheckClock, ReadClock
    <3>2. /\ list' \in Seq(Entry) /\ Sorted(list')
          /\ \A i \in 1 .. Len(list') : list'[i].rep => list'[i].due <= list'[i].left
      BY <3>1, Shifted
    <3>3. \A i \in 1 .. Len(list') : list'[i].left - 0 = list'[i].left
      BY <3>2, EntryIs
    <3> QED
      BY <1>1, <2>1, <3>1, <3>2, <3>3 DEF TimeoutsInv, Sorted
  <2>3. CASE list = <<>>
    <3>1. list' = list /\ lag' = lag /\ resetClock' = TRUE
      BY <2>1, <2>3 DEF CheckClock
    <3>2. Len(list) = 0
      BY <2>3
    <3> QED
      BY <1>1, <2>1, <3>1, <3>2 DEF TimeoutsInv, Sorted
  <2> QED
    BY <2>2, <2>3
<1>7. ASSUME FireFirst
      PROVE  TimeoutsInv'
  <2>1. list # <<>> /\ list' = Tail(list) /\ missed' = list[1].left /\ UNCHANGED <<lag, resetClock>>
    BY <1>7 DEF FireFirst
  <2>2. Len(list) >= 1 /\ list[1] \in Entry
    BY <1>1, <2>1
  <2>3. list' \in Seq(Entry) /\ Len(list') = Len(list) - 1 /\ \A i \in 1 .. Len(list') : list'[i] = list[i + 1]
    BY <1>1, <2>1
  <2>4. \A i \in 1 .. Len(list') : i + 1 \in 1 .. Len(list)
    BY <1>1, <2>3
  <2>5. missed' \in Int
    BY <2>1, <2>2, EntryIs
  <2>6. Sorted(list')
    <3> SUFFICES ASSUME NEW i \in 1 .. Len(list'), NEW j \in 1 .. Len(list'), i < j
                 PROVE  list'[i].left <= list'[j].left
      BY DEF Sorted
    <3>1. i + 1 \in 1 .. Len(list) /\ j + 1 \in 1 .. Len(list) /\ i + 1 < j + 1
      BY <2>4
    <3>2. list[i + 1].left <= list[j + 1].left
      BY <1>1, <3>1 DEF Sorted
    <3> QED
      BY <2>3, <3>2
  <2> QED
    BY <1>1, <2>1, <2>3, <2>4, <2>5, <2>6 DEF TimeoutsInv
<1>8. ASSUME Tick
      PROVE  TimeoutsInv'
  <2> DEFINE e(i) == [list[i] EXCEPT !.due = @ - 1]
  <2>1. list' = [i \in DOMAIN list |-> e(i)] /\ lag' = lag + 1 /\ UNCHANGED <<resetClock, missed>>
    BY <1>8 DEF Tick
  <2>2. \A i \in 1 .. Len(list) : list[i] \in Entry
    BY <1>1
  <2>3. \A i \in 1 .. Len(list) : /\ e(i) \in Entry /\ e(i).due = list[i].due - 1
                                   /\ e(i).left = list[i].left /\ e(i).rep = list[i].rep
    <3> TAKE i \in 1 .. Len(list)
    <3>1. list[i] \in Entry /\ list[i].due - 1 \in Int
      BY <2>2, EntryIs
    <3> QED
      BY <3>1, EntryDue
  <2>4. \A i \in 1 .. Len(list) : list[i].left \in Int /\ list[i].due \in Int
    BY <2>2, EntryIs
  <2> HIDE DEF e
  <2>5. list' \in Seq(Entry) /\ Len(list') = Len(list) /\ \A i \in 1 .. Len(list) : list'[i] = e(i)
    BY <1>1, <2>1, <2>3
  <2>6. Sorted(list')
    BY <1>1, <2>3, <2>4, <2>5 DEF Sorted
  <2>7. \A i \in 1 .. Len(list') :
           list'[i].rep => list'[i].due <= list'[i].left - (IF resetClock' THEN 0 ELSE lag')
    <3> SUFFICES ASSUME NEW i \in 1 .. Len(list), list[i].rep
                 PROVE  list[i].due - 1 <= list[i].left - (IF resetClock THEN 0 ELSE lag + 1)
      BY <2>1, <2>3, <2>5
    <3>1. list[i].due <= list[i].left - (IF resetClock THEN 0 ELSE lag)
      BY <1>1
    <3> QED
      BY <1>1, <2>4, <3>1
  <2>8. lag' \in Nat /\ resetClock' \in BOOLEAN /\ missed' \in Int
    BY <1>1, <2>1
  <2> QED
    BY <2>5, <2>6, <2>7, <2>8 DEF TimeoutsInv
<1>9. ASSUME UNCHANGED <<list, lag, resetClock, missed>>
      PROVE  TimeoutsInv'
  BY <1>9 DEF TimeoutsInv, Sorted
<1>10. CASE TimeoutsNext
  <2>1. ASSUME NEW w, Sleep(w)
        PROVE  TimeoutsInv'
    BY <1>9, <2>1 DEF Sleep
  <2>2. ASSUME TimeoutReturns \/ SleepTimesOut \/ EventArrives
        PROVE  TimeoutsInv'
    BY <1>9, <2>2 DEF TimeoutReturns, SleepTimesOut, EventArrives
  <2> QED
    BY <1>3, <1>4, <1>5, <1>6, <1>7, <1>8, <1>10, <2>1, <2>2 DEF TimeoutsNext, WaitStep
<1>11. CASE UNCHANGED timeoutsVars
  BY <1>9, <1>11 DEF timeoutsVars
<1> QED
  BY <1>10, <1>11

\* The empty list satisfies it.
LEMMA TimeoutsStart == TimeoutsInit => TimeoutsInv
<1> SUFFICES ASSUME TimeoutsInit PROVE TimeoutsInv
  OBVIOUS
<1>1. list = <<>> /\ lag = 0 /\ resetClock = TRUE /\ missed = 0
  BY DEF TimeoutsInit
<1> QED
  BY <1>1 DEF TimeoutsInv, Sorted

\* TimeoutsInv holds whatever timeouts add, repeat and remove, and whenever
\* Fl::wait() reads the clock (elapse_timeouts).
THEOREM TimeoutsInvariant == TimeoutsSpec => []TimeoutsInv
BY TimeoutsStart, TimeoutsStep, PTL DEF TimeoutsSpec

\* The first timeout of the list is the next to expire, which Fl::wait() relies
\* on when it looks at the first only.
THEOREM FirstIsNext == TimeoutsSpec => []SortedList
<1>1. TimeoutsInv => SortedList
  <2> SUFFICES ASSUME TimeoutsInv PROVE SortedList
    OBVIOUS
  <2>1. DOMAIN list = 1 .. Len(list)
    BY DEF TimeoutsInv
  <2> QED
    BY <2>1 DEF TimeoutsInv, Sorted, SortedList
<1> QED
  BY <1>1, TimeoutsInvariant, PTL

\* A timeout that Fl::repeat_timeout has scheduled is never called early, although
\* its time is corrected by the lateness of the call before (missed_timeout_by).
THEOREM RepeatedInTime == TimeoutsSpec => []RepeatNotEarly
<1>1. TimeoutsInv => RepeatNotEarly
  <2> SUFFICES ASSUME TimeoutsInv PROVE RepeatNotEarly
    OBVIOUS
  <2>1. DOMAIN list = 1 .. Len(list)
    BY DEF TimeoutsInv
  <2> QED
    BY <2>1 DEF TimeoutsInv, RepeatNotEarly, Remaining
<1> QED
  BY <1>1, TimeoutsInvariant, PTL

-----------------------------------------------------------------------------
(* Check callbacks *)

\* Node n is at next_check or behind it.
Ahead(n) == \E i, j \in 1 .. Len(checks) : i <= j /\ checks[i] = next /\ checks[j] = n

InPass == cpc = "loop" \/ cdepth > 0

\* The two lists of nodes are well formed, and next_check is in the first.
NodesInv ==
    /\ checks \in Seq(Nodes) /\ IsInjective(checks)
    /\ freed \in Seq(Nodes) /\ IsInjective(freed)
    /\ Range(checks) \cap Range(freed) = {}
    /\ cb \in [Nodes -> Cbs \cup {Null}]
    /\ \A n \in Range(checks) \cup Range(freed) : cb[n] \in Cbs
    /\ next # Null => next \in Range(checks)

\* What a pass still has to do: the checks it owes are ahead of it; where checks
\* remove nothing it owes all that are ahead, and no nested pass can begin.
PassInv ==
    /\ cpc \in {"user", "loop"} /\ cdepth \in 0 .. MaxCheckNest /\ owed \subseteq Nodes
    /\ cpc = "loop" => cdepth < MaxCheckNest
    /\ ~InPass => next = First(checks) /\ owed = {}
    /\ \A n \in owed : Ahead(n)
    /\ InPass /\ "remove" \notin ops =>
          /\ \A n \in Nodes : Ahead(n) => n \in owed
          /\ cdepth <= 1 /\ (cpc = "loop" => cdepth = 0)
          /\ cdepth > 0 => next # First(checks)

ChecksInv == NodesInv /\ PassInv

\* The list, as the proofs below use it.
LEMMA ChecksAre ==
    ASSUME NodesInv
    PROVE  /\ Len(checks) \in Nat /\ DOMAIN checks = 1 .. Len(checks)
           /\ \A i \in 1 .. Len(checks) : /\ checks[i] \in Nodes /\ checks[i] # Null
                                          /\ checks[i] \in Range(checks)
                                          /\ Position(checks[i]) = i
           /\ \A n \in Range(checks) : \E i \in 1 .. Len(checks) : checks[i] = n
           /\ \A i, j \in 1 .. Len(checks) : checks[i] = checks[j] => i = j
           /\ First(checks) = IF Len(checks) = 0 THEN Null ELSE checks[1]
<1>1. /\ Len(checks) \in Nat /\ DOMAIN checks = 1 .. Len(checks)
      /\ \A i \in 1 .. Len(checks) : checks[i] \in Nodes
  BY DEF NodesInv
<1>2. \A i, j \in 1 .. Len(checks) : checks[i] = checks[j] => i = j
  BY <1>1 DEF NodesInv, IsInjective
<1>3. \A i \in 1 .. Len(checks) : checks[i] # Null
  BY <1>1, ChecksAssumption
<1>4. \A n \in Range(checks) : \E i \in 1 .. Len(checks) : checks[i] = n
  BY <1>1 DEF Range
<1>5. ASSUME NEW i \in 1 .. Len(checks)
      PROVE  checks[i] \in Range(checks) /\ Position(checks[i]) = i
  BY <1>1, <1>2 DEF Position, Range
<1>6. First(checks) = IF Len(checks) = 0 THEN Null ELSE checks[1]
  <2>1. checks = <<>> <=> Len(checks) = 0
    BY DEF NodesInv
  <2> QED
    BY <2>1 DEF First
<1> QED
  BY <1>1, <1>2, <1>3, <1>4, <1>5, <1>6

\* Without checks the invariant holds.
LEMMA ChecksStart == ChecksInit => ChecksInv
<1> SUFFICES ASSUME ChecksInit PROVE ChecksInv
  OBVIOUS
<1>1. /\ checks = <<>> /\ freed = <<>> /\ next = Null /\ cb = [n \in Nodes |-> Null]
      /\ cpc = "user" /\ cdepth = 0 /\ owed = {}
  BY DEF ChecksInit
<1>2. Range(<<>>) = {} /\ IsInjective(<<>>)
  BY DEF Range, IsInjective
<1>3. NodesInv
  BY <1>1, <1>2 DEF NodesInv
<1>4. PassInv
  BY <1>1, ChecksAssumption DEF PassInv, InPass, First
<1> QED
  BY <1>3, <1>4 DEF ChecksInv

\* Fl::add_check: the new check is ahead of next_check only at rest.
LEMMA AddChecks ==
    ASSUME ChecksInv, NEW n \in Nodes, NEW c \in Cbs, AddCheck(n, c)
    PROVE  ChecksInv'
<1> DEFINE L == Len(checks)
<1>1. /\ cpc = "user" /\ IsNewNode(n) /\ cb' = [cb EXCEPT ![n] = c]
      /\ freed' = (IF freed # <<>> THEN Tail(freed) ELSE freed)
      /\ next' = (IF next = First(checks) THEN n ELSE next)
      /\ checks' = <<n>> \o checks /\ UNCHANGED <<ops, cpc, cdepth, owed>>
  BY DEF AddCheck, May
<1>2. /\ checks \in Seq(Nodes) /\ freed \in Seq(Nodes) /\ IsInjective(checks) /\ IsInjective(freed)
      /\ Range(checks) \cap Range(freed) = {} /\ cb \in [Nodes -> Cbs \cup {Null}]
      /\ \A m \in Range(checks) \cup Range(freed) : cb[m] \in Cbs
      /\ next # Null => next \in Range(checks)
  BY DEF ChecksInv, NodesInv
<1>3. /\ freed' \in Seq(Nodes) /\ IsInjective(freed') /\ Range(freed') \subseteq Range(freed)
      /\ n \notin Range(freed') /\ n \notin Range(checks)
  <2>1. CASE freed = <<>>
    <3>1. n \notin Range(checks) \cup Range(freed)
      BY <1>1, <1>2, <2>1, ChecksAssumption DEF IsNewNode
    <3> QED
      BY <1>1, <1>2, <2>1, <3>1
  <2>2. CASE freed # <<>>
    <3>1. n = freed[1] /\ freed' = Tail(freed) /\ Len(freed) \in Nat \ {0} /\ DOMAIN freed = 1 .. Len(freed)
      BY <1>1, <1>2, <2>2 DEF IsNewNode
    <3>2. /\ Tail(freed) \in Seq(Nodes) /\ DOMAIN Tail(freed) = 1 .. Len(freed) - 1
          /\ \A i \in 1 .. Len(freed) - 1 : Tail(freed)[i] = freed[i + 1] /\ i + 1 \in 1 .. Len(freed) /\ i + 1 # 1
      BY <1>2, <2>2, <3>1
    <3>3. \A i, j \in 1 .. Len(freed) : freed[i] = freed[j] => i = j
      BY <1>2, <3>1 DEF IsInjective
    <3>4. IsInjective(Tail(freed))
      <4> SUFFICES ASSUME NEW i \in 1 .. Len(freed) - 1, NEW j \in 1 .. Len(freed) - 1,
                          Tail(freed)[i] = Tail(freed)[j]
                   PROVE  i = j
        BY <3>2 DEF IsInjective
      <4>1. i + 1 = j + 1
        BY <3>2, <3>3
      <4> QED
        BY <4>1
    <3>5. Range(Tail(freed)) \subseteq Range(freed)
      BY <3>1, <3>2 DEF Range
    <3>6. n \notin Range(Tail(freed))
      <4> SUFFICES ASSUME NEW i \in 1 .. Len(freed) - 1, Tail(freed)[i] = freed[1] PROVE FALSE
        BY <3>1, <3>2 DEF Range
      <4>1. 1 \in 1 .. Len(freed)
        BY <3>1
      <4> QED
        BY <3>2, <3>3, <4>1
    <3>7. n \in Range(freed)
      BY <3>1 DEF Range
    <3> QED
      BY <1>2, <3>1, <3>2, <3>4, <3>5, <3>6, <3>7
  <2> QED
    BY <2>1, <2>2
<1>4. /\ checks' \in Seq(Nodes) /\ IsInjective(checks') /\ Range(checks') = {n} \cup Range(checks)
      /\ Len(checks') = L + 1 /\ checks'[1] = n
      /\ \A i \in 1 .. L : checks'[i + 1] = checks[i]
  <2>1. <<n>> \in Seq(Nodes) /\ IsInjective(<<n>>) /\ Range(<<n>>) = {n}
    BY DEF IsInjective, Range
  <2>2. IsInjective(<<n>> \o checks)
    BY <1>2, <1>3, <2>1, ConcatInjective
  <2>3. Range(<<n>> \o checks) = {n} \cup Range(checks)
    BY <1>2, BeforeCons
  <2>4. /\ <<n>> \o checks \in Seq(Nodes) /\ Len(<<n>> \o checks) = L + 1
        /\ (<<n>> \o checks)[1] = n /\ \A i \in 1 .. L : (<<n>> \o checks)[i + 1] = checks[i]
    BY <1>2
  <2> QED
    BY <1>1, <2>2, <2>3, <2>4
<1>5. NodesInv'
  <2>1. cb' \in [Nodes -> Cbs \cup {Null}] /\ \A m \in Nodes : cb'[m] = IF m = n THEN c ELSE cb[m]
    BY <1>1, <1>2
  <2>2. Range(checks') \cup Range(freed') \subseteq Nodes
    BY <1>3, <1>4, RangeIs
  <2>3. \A m \in Range(checks') \cup Range(freed') : cb'[m] \in Cbs
    BY <1>2, <1>3, <1>4, <2>1, <2>2
  <2>4. next' # Null => next' \in Range(checks')
    BY <1>1, <1>2, <1>4
  <2> QED
    BY <1>2, <1>3, <1>4, <2>1, <2>3, <2>4 DEF NodesInv
<1>6. L \in Nat /\ L + 1 \in Nat /\ \A i \in 1 .. L : i + 1 \in 1 .. L + 1
  BY <1>2
<1>7. ASSUME NEW m, Ahead(m) PROVE Ahead(m)'
  <2>1. PICK i \in 1 .. L, j \in 1 .. L : i <= j /\ checks[i] = next /\ checks[j] = m
    BY <1>7 DEF Ahead
  <2>2. /\ j + 1 \in 1 .. Len(checks') /\ checks'[j + 1] = m
        /\ i + 1 \in 1 .. Len(checks') /\ checks'[i + 1] = next /\ 1 \in 1 .. Len(checks')
        /\ i + 1 <= j + 1 /\ 1 <= j + 1
    BY <1>4, <1>6, <2>1
  <2>3. CASE next' = n
    BY <1>4, <2>2, <2>3 DEF Ahead
  <2>4. CASE next' = next
    BY <2>2, <2>4 DEF Ahead
  <2> QED
    BY <1>1, <2>3, <2>4
<1>8. ASSUME NEW m, Ahead(m)', next' = next PROVE Ahead(m)
  <2>1. PICK i \in 1 .. L + 1, j \in 1 .. L + 1 : i <= j /\ checks'[i] = next /\ checks'[j] = m
    BY <1>4, <1>8 DEF Ahead
  <2>2. next # n
    <3>1. next = Null \/ next \in Range(checks)
      BY <1>2
    <3> QED
      BY <1>3, <3>1, ChecksAssumption
  <2>3. i # 1
    BY <1>4, <2>1, <2>2
  <2>4. i - 1 \in 1 .. L /\ j - 1 \in 1 .. L /\ i - 1 <= j - 1 /\ (i - 1) + 1 = i /\ (j - 1) + 1 = j
    BY <1>6, <2>1, <2>3
  <2>5. checks[i - 1] = next /\ checks[j - 1] = m
    BY <1>4, <2>1, <2>4
  <2> QED
    BY <2>4, <2>5 DEF Ahead
<1>9. First(checks') = n
  BY <1>1, <1>4, <1>6 DEF First
<1>10. PassInv'
  <2>1. ~InPass' => next' = First(checks)' /\ owed' = {}
    BY <1>1, <1>9 DEF ChecksInv, PassInv, InPass
  <2>2. \A m \in owed' : Ahead(m)'
    BY <1>1, <1>7 DEF ChecksInv, PassInv
  <2>3. ASSUME InPass', "remove" \notin ops'
        PROVE  /\ \A m \in Nodes : Ahead(m)' => m \in owed'
               /\ cdepth' <= 1 /\ (cpc' = "loop" => cdepth' = 0)
               /\ cdepth' > 0 => next' # First(checks)'
    <3>1. /\ cdepth > 0 /\ cdepth <= 1 /\ next # First(checks) /\ cpc' = "user"
          /\ \A m \in Nodes : Ahead(m) => m \in owed
      BY <1>1, <2>3 DEF ChecksInv, PassInv, InPass
    <3>2. next' = next /\ next # n
      <4>1. next = Null \/ next \in Range(checks)
        BY <1>2
      <4> QED
        BY <1>1, <1>3, <3>1, <4>1, ChecksAssumption
    <3> QED
      BY <1>1, <1>8, <1>9, <3>1, <3>2
  <2>4. /\ cpc' \in {"user", "loop"} /\ cdepth' \in 0 .. MaxCheckNest /\ owed' \subseteq Nodes
        /\ cpc' = "loop" => cdepth' < MaxCheckNest
    BY <1>1 DEF ChecksInv, PassInv
  <2> QED
    BY <2>1, <2>2, <2>3, <2>4 DEF PassInv
<1> QED
  BY <1>5, <1>10 DEF ChecksInv

\* Fl::remove_check: next_check moves on to the first node that stays.
LEMMA RemoveChecks ==
    ASSUME ChecksInv, NEW c \in Cbs, RemoveCheck(c)
    PROVE  ChecksInv'
<1> DEFINE L == Len(checks)
           S == {n \in Nodes : cb[n] # c}
           G == {n \in Nodes : cb[n] = c}
           t == Keep(checks, S)
           g == Keep(checks, G)
           stay == {i \in DOMAIN checks : Position(next) <= i /\ cb[checks[i]] # c}
<1>1. /\ May("remove") /\ next' = NextAfterRemoval(c) /\ checks' = t /\ freed' = Reverse(g) \o freed
      /\ owed' = owed \ Range(g) /\ UNCHANGED <<ops, cb, cpc, cdepth>>
  BY DEF RemoveCheck
<1>2. /\ checks \in Seq(Nodes) /\ freed \in Seq(Nodes) /\ IsInjective(checks) /\ IsInjective(freed)
      /\ Range(checks) \cap Range(freed) = {} /\ cb \in [Nodes -> Cbs \cup {Null}]
      /\ \A m \in Range(checks) \cup Range(freed) : cb[m] \in Cbs
      /\ next # Null => next \in Range(checks)
  BY DEF ChecksInv, NodesInv
<1>3. /\ L \in Nat /\ DOMAIN checks = 1 .. L
      /\ \A i \in 1 .. L : /\ checks[i] \in Nodes /\ checks[i] # Null /\ checks[i] \in Range(checks)
                           /\ Position(checks[i]) = i
      /\ \A n \in Range(checks) : \E i \in 1 .. L : checks[i] = n
      /\ \A i, j \in 1 .. L : checks[i] = checks[j] => i = j
      /\ First(checks) = IF L = 0 THEN Null ELSE checks[1]
  BY ChecksAre DEF ChecksInv
<1>4. /\ t \in Seq(Nodes) /\ IsInjective(t) /\ Range(t) = Range(checks) \cap S
      /\ g \in Seq(Nodes) /\ IsInjective(g) /\ Range(g) = Range(checks) \cap G
  <2> HIDE DEF S, G
  <2> QED
    BY <1>2, KeepBefore, KeepInjective
<1>5. /\ Reverse(g) \o freed \in Seq(Nodes) /\ IsInjective(Reverse(g) \o freed)
      /\ Range(Reverse(g) \o freed) = Range(g) \cup Range(freed)
  <2> HIDE DEF g, G
  <2>1. Reverse(g) \in Seq(Nodes) /\ IsInjective(Reverse(g)) /\ Range(Reverse(g)) = Range(g)
    BY <1>4, ReverseIs
  <2>2. Range(Reverse(g)) \cap Range(freed) = {}
    BY <1>2, <1>4, <2>1
  <2>3. IsInjective(Reverse(g) \o freed)
    BY <1>2, <2>1, <2>2, ConcatInjective
  <2>4. Reverse(g) \o freed \in Seq(Nodes) /\ Range(Reverse(g) \o freed) = Range(Reverse(g)) \cup Range(freed)
    BY <1>2, <2>1, RangeConcat
  <2> QED
    BY <2>1, <2>3, <2>4
<1>6. PICK p : Picks(checks, S, Nodes, t, L, p)
  <2> HIDE DEF S
  <2> QED
    BY <1>2, KeepPicks
<1>7. S \cap G = {} /\ \A i \in 1 .. L : checks[i] \in S <=> cb[checks[i]] # c
  BY <1>3
<1>8. stay \subseteq 1 .. L
  BY <1>3
<1>9. next' = IF next = Null \/ stay = {} THEN Null ELSE checks[Min(stay)]
  BY <1>1 DEF NextAfterRemoval
<1>10. \A j \in stay : checks[j] \in S /\ Position(next) <= j
  BY <1>3, <1>7, <1>8
<1>11. \A j \in 1 .. L : checks[j] \in S /\ Position(next) <= j => j \in stay
  BY <1>3, <1>7
<1> HIDE DEF S, G, t, g, stay
<1>12. /\ p \in [1 .. Len(t) -> 1 .. L] /\ Len(t) \in Nat
       /\ \A i, j \in 1 .. Len(t) : i < j => p[i] < p[j]
       /\ \A k \in 1 .. Len(t) : t[k] = checks[p[k]] /\ checks[p[k]] \in S
       /\ \A i \in 1 .. L : checks[i] \in S => \E k \in 1 .. Len(t) : p[k] = i
  <2>1. Len(t) \in Nat
    BY <1>4
  <2> QED
    BY <1>6, <2>1 DEF Picks
<1>13. ASSUME next # Null, stay # {}
       PROVE  \E m \in stay, a \in 1 .. Len(t) :
                 /\ \A y \in stay : m <= y
                 /\ p[a] = m /\ t[a] = next'
  <2>1. \E m \in stay : \A y \in stay : m <= y
    <3>1. stay \in SUBSET Nat
      BY <1>3, <1>8
    <3> QED
      BY <1>13, <3>1, LeastNat
  <2>2. Min(stay) \in stay /\ \A y \in stay : Min(stay) <= y
    BY <2>1 DEF Min
  <2>3. next' = checks[Min(stay)]
    BY <1>9, <1>13
  <2>4. PICK a \in 1 .. Len(t) : p[a] = Min(stay)
    BY <1>8, <1>10, <1>12, <2>2
  <2> QED
    BY <1>12, <2>2, <2>3, <2>4
<1>14. next' # Null => next' \in Range(checks')
  <2> SUFFICES ASSUME next' # Null PROVE next' \in Range(t)
    BY <1>1
  <2>1. next # Null /\ stay # {}
    BY <1>9
  <2>2. PICK a \in 1 .. Len(t) : t[a] = next'
    BY <1>13, <2>1
  <2> QED
    BY <1>4, <2>2, RangeIs
<1>15. NodesInv'
  <2>1. \A m \in Range(checks') \cup Range(freed') : cb'[m] \in Cbs
    BY <1>1, <1>2, <1>4, <1>5
  <2>2. Range(checks') \cap Range(freed') = {}
    BY <1>1, <1>2, <1>4, <1>5, <1>7
  <2> QED
    BY <1>1, <1>2, <1>4, <1>5, <1>14, <2>1, <2>2 DEF NodesInv
<1>16. ASSUME NEW n \in owed' PROVE Ahead(n)'
  <2>1. n \in owed /\ n \notin Range(g)
    BY <1>1
  <2>2. PICK i \in 1 .. L, j \in 1 .. L : i <= j /\ checks[i] = next /\ checks[j] = n
    BY <2>1 DEF ChecksInv, PassInv, Ahead
  <2>3. next # Null /\ Position(next) = i /\ n \in Nodes
    BY <1>3, <2>2
  <2>4. checks[j] \in S
    BY <1>3, <1>4, <2>1, <2>2, <2>3 DEF S, G
  <2>5. j \in stay
    BY <1>11, <2>2, <2>3, <2>4
  <2>6. PICK m \in stay, a \in 1 .. Len(t) : m <= j /\ p[a] = m /\ t[a] = next'
    BY <1>13, <2>3, <2>5
  <2>7. PICK b \in 1 .. Len(t) : p[b] = j
    BY <1>12, <2>4
  <2>8. ~(b < a)
    <3>1. b < a => p[b] < p[a]
      BY <1>12
    <3>2. m \in 1 .. L
      BY <1>8
    <3> QED
      BY <1>3, <2>6, <2>7, <3>1, <3>2
  <2>9. a <= b /\ t[b] = n
    BY <1>12, <2>2, <2>7, <2>8
  <2> QED
    BY <1>1, <2>6, <2>9 DEF Ahead
<1>17. ASSUME next = First(checks) PROVE next' = First(t)
  <2>1. First(t) = IF Len(t) = 0 THEN Null ELSE t[1]
    <3>1. t = <<>> <=> Len(t) = 0
      BY <1>4
    <3> QED
      BY <3>1 DEF First
  <2>2. ASSUME Len(t) # 0 PROVE 1 \in 1 .. Len(t) /\ next # Null /\ p[1] \in stay
    <3>1. 1 \in 1 .. Len(t) /\ p[1] \in 1 .. L
      BY <1>12, <2>2
    <3>2. next = checks[1] /\ 1 \in 1 .. L
      BY <1>3, <1>17, <3>1
    <3>3. next # Null /\ Position(next) = 1
      BY <1>3, <3>2
    <3> QED
      BY <1>11, <1>12, <3>1, <3>3
  <2>3. ASSUME next # Null, stay # {} PROVE Len(t) # 0 /\ next' = t[1]
    <3>1. PICK m \in stay, a \in 1 .. Len(t) : /\ \A y \in stay : m <= y
                                                /\ p[a] = m /\ t[a] = next'
      BY <1>13, <2>3
    <3>2. Len(t) # 0
      BY <3>1
    <3>3. 1 \in 1 .. Len(t) /\ p[1] \in 1 .. L /\ m <= p[1] /\ m \in 1 .. L
      BY <1>8, <1>12, <2>2, <3>1, <3>2
    <3>4. 1 < a => p[1] < p[a]
      BY <1>12, <3>3
    <3>5. a = 1
      BY <1>12, <3>1, <3>3, <3>4
    <3> QED
      BY <3>1, <3>2, <3>5
  <2> QED
    BY <1>9, <2>1, <2>2, <2>3
<1>18. PassInv'
  <2>1. /\ cpc' = "user" /\ cpc = "user" /\ cdepth' = cdepth /\ ops' = ops
        /\ cdepth > 0 => "remove" \in ops
    BY <1>1 DEF May
  <2>2. ~InPass' => next' = First(checks)' /\ owed' = {}
    BY <1>1, <1>17, <2>1 DEF ChecksInv, PassInv, InPass
  <2>3. InPass' => "remove" \in ops'
    BY <2>1 DEF InPass
  <2>4. /\ cdepth' \in 0 .. MaxCheckNest /\ owed' \subseteq Nodes
    BY <1>1 DEF ChecksInv, PassInv
  <2> QED
    BY <1>16, <2>1, <2>2, <2>3, <2>4 DEF PassInv
<1> QED
  BY <1>15, <1>18 DEF ChecksInv

\* run_checks() begins, at the first check or not at all.
LEMMA EnterChecks ==
    ASSUME ChecksInv, EnterRunChecks
    PROVE  ChecksInv'
<1>1. /\ cpc = "user" /\ cdepth < MaxCheckNest /\ next = First(checks) /\ cpc' = "loop"
      /\ owed' = (IF cdepth = 0 THEN Range(checks) ELSE owed)
      /\ UNCHANGED <<ops, checks, next, freed, cb, cdepth>>
  BY DEF EnterRunChecks, May, MayRun
<1>2. NodesInv'
  BY <1>1 DEF ChecksInv, NodesInv
<1>3. \A n : Ahead(n)' <=> Ahead(n)
  BY <1>1 DEF Ahead
<1>4. \A n \in Range(checks) : Ahead(n)
  <2> TAKE n \in Range(checks)
  <2>1. PICK j \in 1 .. Len(checks) : checks[j] = n
    BY ChecksAre DEF ChecksInv
  <2>2. Len(checks) \in Nat /\ First(checks) = IF Len(checks) = 0 THEN Null ELSE checks[1]
    BY ChecksAre DEF ChecksInv
  <2>3. 1 \in 1 .. Len(checks) /\ 1 <= j /\ checks[1] = next
    BY <1>1, <2>2
  <2> QED
    BY <2>1, <2>3 DEF Ahead
<1>5. \A n : Ahead(n) => n \in Range(checks)
  BY ChecksAre DEF ChecksInv, Ahead
<1>6. Range(checks) \subseteq Nodes
  BY RangeIs DEF ChecksInv, NodesInv
<1>7. cdepth > 0 => "remove" \in ops
  BY <1>1 DEF ChecksInv, PassInv, InPass
<1>8. cdepth \in 0 .. MaxCheckNest /\ owed \subseteq Nodes /\ \A n \in owed : Ahead(n)
  BY DEF ChecksInv, PassInv
<1>9. \A n \in owed' : Ahead(n)'
  BY <1>1, <1>3, <1>4, <1>8
<1>10. owed' \subseteq Nodes /\ cdepth' < MaxCheckNest /\ cdepth' \in 0 .. MaxCheckNest
  BY <1>1, <1>6, <1>8
<1>11. "remove" \notin ops => cdepth = 0 /\ owed' = Range(checks)
  BY <1>1, <1>7, <1>8, ChecksAssumption
<1>12. "remove" \notin ops => cdepth' = 0 /\ \A n \in Nodes : Ahead(n)' => n \in owed'
  BY <1>1, <1>3, <1>5, <1>11
<1>13. PassInv'
  BY <1>1, <1>9, <1>10, <1>12 DEF PassInv, InPass
<1> QED
  BY <1>2, <1>13 DEF ChecksInv

\* The check at next_check is called, after next_check has moved on.
LEMMA CallChecks ==
    ASSUME ChecksInv, CallNext
    PROVE  ChecksInv'
<1> DEFINE L == Len(checks)
<1>1. /\ cpc = "loop" /\ next # Null /\ next' = After(next) /\ owed' = owed \ {next}
      /\ cpc' = "user" /\ cdepth' = cdepth + 1 /\ UNCHANGED <<ops, checks, freed, cb>>
  BY DEF CallNext
<1>2. /\ L \in Nat
      /\ \A i \in 1 .. L : /\ checks[i] \in Nodes /\ checks[i] # Null /\ checks[i] \in Range(checks)
                           /\ Position(checks[i]) = i
      /\ \A n \in Range(checks) : \E i \in 1 .. L : checks[i] = n
      /\ \A i, j \in 1 .. L : checks[i] = checks[j] => i = j
      /\ First(checks) = IF L = 0 THEN Null ELSE checks[1]
  BY ChecksAre DEF ChecksInv
<1>3. PICK k \in 1 .. L : checks[k] = next
  BY <1>1, <1>2 DEF ChecksInv, NodesInv
<1>4. next' = IF k = L THEN Null ELSE checks[k + 1]
  BY <1>1, <1>2, <1>3 DEF After
<1>5. k # L => k + 1 \in 1 .. L /\ k + 1 # 1
  BY <1>2
<1>6. NodesInv'
  <2>1. next' # Null => next' \in Range(checks)
    BY <1>2, <1>4, <1>5
  <2> QED
    BY <1>1, <2>1 DEF ChecksInv, NodesInv
<1>7. ASSUME NEW n, Ahead(n), n # next PROVE Ahead(n)'
  <2>1. PICK i \in 1 .. L, j \in 1 .. L : i <= j /\ checks[i] = next /\ checks[j] = n
    BY <1>7 DEF Ahead
  <2>2. i = k /\ j # k
    BY <1>2, <1>3, <1>7, <2>1
  <2>3. k # L /\ k + 1 <= j
    BY <1>2, <2>1, <2>2
  <2> QED
    BY <1>1, <1>4, <1>5, <2>1, <2>3 DEF Ahead
<1>8. ASSUME NEW n, Ahead(n)' PROVE Ahead(n) /\ n # next
  <2>1. PICK i \in 1 .. L, j \in 1 .. L : i <= j /\ checks[i] = next' /\ checks[j] = n
    BY <1>1, <1>8 DEF Ahead
  <2>2. k # L /\ i = k + 1
    BY <1>2, <1>4, <1>5, <2>1
  <2>3. k <= j /\ j # k
    BY <1>2, <2>1, <2>2
  <2> QED
    BY <1>2, <1>3, <2>1, <2>3 DEF Ahead
<1>9. next' # First(checks)
  BY <1>2, <1>3, <1>4, <1>5
<1>10. /\ cdepth \in 0 .. MaxCheckNest /\ cdepth < MaxCheckNest /\ owed \subseteq Nodes
       /\ \A n \in owed : Ahead(n)
       /\ "remove" \notin ops => cdepth = 0 /\ \A n \in Nodes : Ahead(n) => n \in owed
  BY <1>1 DEF ChecksInv, PassInv, InPass
<1>11. cdepth' \in 0 .. MaxCheckNest /\ cdepth' > 0 /\ ("remove" \notin ops => cdepth' <= 1)
  BY <1>1, <1>10, ChecksAssumption
<1>12. \A n \in owed' : Ahead(n)'
  BY <1>1, <1>7, <1>10
<1>13. "remove" \notin ops => \A n \in Nodes : Ahead(n)' => n \in owed'
  BY <1>1, <1>8, <1>10
<1>14. First(checks)' = First(checks)
  BY <1>1 DEF First
<1>15. PassInv'
  BY <1>1, <1>9, <1>10, <1>11, <1>12, <1>13, <1>14 DEF PassInv, InPass
<1> QED
  BY <1>6, <1>15 DEF ChecksInv

\* Every step keeps it.
LEMMA ChecksStep == ChecksInv /\ [ChecksNext]_checksVars => ChecksInv'
<1> SUFFICES ASSUME ChecksInv, [ChecksNext]_checksVars PROVE ChecksInv'
  OBVIOUS
<1>1. ASSUME CheckReturns PROVE ChecksInv'
  <2>1. /\ cpc = "user" /\ cdepth > 0 /\ cpc' = "loop" /\ cdepth' = cdepth - 1
        /\ UNCHANGED <<ops, checks, next, freed, cb, owed>>
    BY <1>1 DEF CheckReturns
  <2>2. NodesInv'
    BY <2>1 DEF ChecksInv, NodesInv
  <2>3. \A n : Ahead(n)' <=> Ahead(n)
    BY <2>1 DEF Ahead
  <2>4. /\ cdepth \in 0 .. MaxCheckNest /\ owed \subseteq Nodes /\ \A n \in owed : Ahead(n)
        /\ "remove" \notin ops => cdepth <= 1 /\ \A n \in Nodes : Ahead(n) => n \in owed
    BY <2>1 DEF ChecksInv, PassInv, InPass
  <2>5. cdepth' \in 0 .. MaxCheckNest /\ cdepth' < MaxCheckNest /\ ("remove" \notin ops => cdepth' = 0)
    BY <2>1, <2>4, ChecksAssumption
  <2>6. PassInv'
    BY <2>1, <2>3, <2>4, <2>5 DEF PassInv, InPass
  <2> QED
    BY <2>2, <2>6 DEF ChecksInv
<1>2. ASSUME LoopEnds PROVE ChecksInv'
  <2>1. /\ cpc = "loop" /\ next = Null /\ next' = First(checks) /\ cpc' = "user"
        /\ UNCHANGED <<ops, checks, freed, cb, cdepth, owed>>
    BY <1>2 DEF LoopEnds
  <2>2. owed = {}
    BY <2>1, ChecksAre DEF ChecksInv, PassInv, Ahead
  <2>3. next' # Null => next' \in Range(checks)
    <3>1. /\ Len(checks) \in Nat /\ \A i \in 1 .. Len(checks) : checks[i] \in Range(checks)
          /\ First(checks) = IF Len(checks) = 0 THEN Null ELSE checks[1]
      BY ChecksAre DEF ChecksInv
    <3> QED
      BY <2>1, <3>1
  <2>4. NodesInv'
    BY <2>1, <2>3 DEF ChecksInv, NodesInv
  <2>5. /\ cdepth \in 0 .. MaxCheckNest /\ ("remove" \notin ops => cdepth = 0)
    BY <2>1 DEF ChecksInv, PassInv, InPass
  <2>6. First(checks)' = First(checks)
    BY <2>1 DEF First
  <2>7. PassInv'
    BY <2>1, <2>2, <2>5, <2>6 DEF PassInv, InPass
  <2> QED
    BY <2>4, <2>7 DEF ChecksInv
<1>3. ASSUME UNCHANGED checksVars PROVE ChecksInv'
  BY <1>3 DEF checksVars, ChecksInv, NodesInv, PassInv, InPass, Ahead, First
<1> QED
  BY <1>1, <1>2, <1>3, AddChecks, RemoveChecks, EnterChecks, CallChecks DEF ChecksNext

\* ChecksInv holds whatever checks add and remove, and however passes nest.
THEOREM ChecksInvariant == ChecksSpec => []ChecksInv
BY ChecksStart, ChecksStep, PTL DEF ChecksSpec

\* A node is on one of the two lists at most, and next_check is never left at
\* one that Fl::remove_check has freed.
THEOREM NextCheckLives == ChecksSpec => []ChecksTypeOK
<1>1. ChecksInv => ChecksTypeOK
  <2> SUFFICES ASSUME ChecksInv PROVE ChecksTypeOK
    OBVIOUS
  <2>1. IsInjective(checks \o freed)
    BY ConcatInjective DEF ChecksInv, NodesInv
  <2>2. Range(checks \o freed) = Range(checks) \cup Range(freed) /\ checks \o freed \in Seq(Nodes)
    BY RangeConcat DEF ChecksInv, NodesInv
  <2>3. Range(checks \o freed) \subseteq Nodes
    BY <2>2, RangeIs
  <2> QED
    BY <2>1, <2>3 DEF ChecksTypeOK, ChecksInv, NodesInv, PassInv, InList
<1> QED
  BY <1>1, ChecksInvariant, PTL

\* Between two passes of run_checks(), next_check is first_check: the next pass
\* will begin, and at the beginning.
THEOREM PassesBegin == ChecksSpec => []RestsAtFirst
<1>1. ChecksInv => RestsAtFirst
  BY DEF ChecksInv, PassInv, InPass, RestsAtFirst
<1> QED
  BY <1>1, ChecksInvariant, PTL

\* A pass of run_checks() has called every check that was there when it began
\* and that nobody removed.
THEOREM NoCheckLeftOut == ChecksSpec => []EveryCheckCalled
<1>1. ChecksInv => EveryCheckCalled
  BY DEF ChecksInv, PassInv, InPass, EveryCheckCalled
<1> QED
  BY <1>1, ChecksInvariant, PTL

\* Where checks remove nothing, run_checks() calls none twice in a pass, and
\* none that was added during the pass.
THEOREM NoCheckTwice == ChecksSpec => NoneTwice
<1>1. ASSUME ChecksInv, cpc = "loop", next # Null, "remove" \notin ops
      PROVE  next \in owed
  <2>1. PICK k \in 1 .. Len(checks) : checks[k] = next
    BY <1>1, ChecksAre DEF ChecksInv, NodesInv
  <2>2. Len(checks) \in Nat /\ next \in Nodes
    BY <1>1, <2>1, ChecksAre DEF ChecksInv
  <2>3. Ahead(next)
    BY <2>1, <2>2 DEF Ahead
  <2> QED
    BY <1>1, <2>2, <2>3 DEF ChecksInv, PassInv, InPass
<1>2. ChecksInv => [cpc = "loop" /\ next # Null /\ cdepth' > cdepth /\ "remove" \notin ops
                       => next \in owed]_checksVars
  BY <1>1
<1> QED
  BY <1>2, ChecksInvariant, PTL DEF NoneTwice

-----------------------------------------------------------------------------
(* File descriptors *)

FdEntry == [fd : Fds, events : SUBSET Events]

\* What an entry is without some of its events.
LEMMA LessEvents ==
    ASSUME NEW x \in FdEntry, NEW events
    PROVE  LET y == [x EXCEPT !.events = @ \ events]
           IN  y \in FdEntry /\ y.fd = x.fd /\ y.events = x.events \ events
BY DEF FdEntry

\* An array that is not empty has a highest descriptor.
LEMMA HighestIs ==
    ASSUME NEW a \in Seq(FdEntry), Len(a) # 0
    PROVE  /\ Highest(a) \in Fds
           /\ \E i \in 1 .. Len(a) : a[i].fd = Highest(a)
           /\ \A i \in 1 .. Len(a) : a[i].fd <= Highest(a)
<1>1. /\ Len(a) \in Nat /\ DOMAIN a = 1 .. Len(a) /\ a # <<>>
      /\ \A i \in 1 .. Len(a) : a[i] \in FdEntry
  OBVIOUS
<1>2. \A i \in 1 .. Len(a) : a[i].fd \in Fds /\ a[i].fd \in Nat
  BY <1>1, FdAssumption DEF FdEntry
<1> DEFINE E(k) == \E j \in 1 .. k : \A i \in 1 .. k : a[i].fd <= a[j].fd
           T == {k \in Nat : k + 1 <= Len(a) => E(k + 1)}
<1>3. 0 \in T
  BY <1>1, <1>2
<1>4. ASSUME NEW k \in T PROVE k + 1 \in T
  <2> SUFFICES ASSUME k + 2 <= Len(a) PROVE E(k + 2)
    BY <1>1
  <2>1. k \in Nat /\ k + 1 <= Len(a) /\ k + 2 \in 1 .. Len(a)
    BY <1>1
  <2>2. PICK j \in 1 .. k + 1 : \A i \in 1 .. k + 1 : a[i].fd <= a[j].fd
    BY <2>1
  <2>3. \A i \in 1 .. k + 2 : i \in 1 .. k + 1 \/ i = k + 2
    BY <2>1
  <2>4. j \in 1 .. Len(a) /\ j \in 1 .. k + 2 /\ k + 2 \in 1 .. k + 2
    BY <1>1, <2>1
  <2>5. \A i \in 1 .. k + 2 : i \in 1 .. Len(a)
    BY <1>1, <2>1
  <2>6. CASE a[k + 2].fd <= a[j].fd
    BY <2>2, <2>3, <2>4, <2>6
  <2>7. CASE ~(a[k + 2].fd <= a[j].fd)
    <3>1. \A i \in 1 .. k + 2 : a[i].fd <= a[k + 2].fd
      BY <1>2, <2>1, <2>2, <2>3, <2>4, <2>5, <2>7
    <3> QED
      BY <2>4, <3>1
  <2> QED
    BY <2>6, <2>7
<1>5. E(Len(a))
  <2> HIDE DEF E
  <2>1. T = Nat
    <3>1. T \in SUBSET Nat
      OBVIOUS
    <3> HIDE DEF T
    <3> QED
      BY <1>3, <1>4, <3>1, AllNat
  <2>2. Len(a) - 1 \in T /\ (Len(a) - 1) + 1 = Len(a)
    <3>1. Len(a) - 1 \in Nat /\ (Len(a) - 1) + 1 = Len(a)
      BY <1>1
    <3> HIDE DEF T
    <3> QED
      BY <2>1, <3>1
  <2> QED
    BY <1>1, <2>2
<1>6. PICK j \in 1 .. Len(a) : \A i \in 1 .. Len(a) : a[i].fd <= a[j].fd
  BY <1>5
<1> DEFINE P(m) == (\E i \in DOMAIN a : a[i].fd = m) /\ \A i \in DOMAIN a : a[i].fd <= m
<1>7. \E m \in Fds : P(m)
  BY <1>1, <1>2, <1>6
<1>8. Highest(a) = CHOOSE m \in Fds : P(m)
  BY <1>1 DEF Highest
<1> HIDE DEF P
<1>9. Highest(a) \in Fds /\ P(Highest(a))
  BY <1>7, <1>8
<1> QED
  BY <1>1, <1>9 DEF P

\* Nothing else is the highest.
LEMMA HighestOnly ==
    ASSUME NEW a \in Seq(FdEntry), NEW m \in Fds,
           \E i \in 1 .. Len(a) : a[i].fd = m,
           \A i \in 1 .. Len(a) : a[i].fd <= m
    PROVE  Highest(a) = m
<1>1. PICK k \in 1 .. Len(a) : a[k].fd = m
  OBVIOUS
<1>2. Len(a) # 0
  BY <1>1
<1>3. /\ Highest(a) \in Fds
      /\ \E i \in 1 .. Len(a) : a[i].fd = Highest(a)
      /\ \A i \in 1 .. Len(a) : a[i].fd <= Highest(a)
  BY <1>2, HighestIs
<1>4. m \in Nat /\ Highest(a) \in Nat /\ m <= Highest(a) /\ Highest(a) <= m
  BY <1>1, <1>3, FdAssumption
<1> QED
  BY <1>4

\* The descriptors of array a with event e, and that no two entries of a
\* descriptor share an event.
Having(a, e) == {f \in Fds : \E i \in 1 .. Len(a) : a[i].fd = f /\ e \in a[i].events}
Split(a) == \A i, j \in 1 .. Len(a) : a[i].fd = a[j].fd /\ i # j => a[i].events \cap a[j].events = {}

\* fd_sets and maxfd follow the array.
FdInv ==
    /\ fd \in Seq(FdEntry) /\ Split(fd)
    /\ fdsets = [e \in Events |-> Having(fd, e)]
    /\ worker = NoWork => maxfd = Highest(fd) \/ (fd = <<>> /\ maxfd = 0)
    /\ worker # NoWork => worker.fd \in Fds /\ worker.events \subseteq Events

\* What remove_fd leaves of the array.
LEMMA RemovedIs ==
    ASSUME FdInv, NEW n \in Fds, NEW events \in SUBSET Events
    PROVE  /\ Removed(n, events) \in Seq(FdEntry) /\ Split(Removed(n, events))
           /\ \A e \in Events : Having(Removed(n, events), e)
                                  = IF e \in events THEN Having(fd, e) \ {n} ELSE Having(fd, e)
           /\ \A i \in 1 .. Len(Removed(n, events)) :
                 Removed(n, events)[i].fd = n => Removed(n, events)[i].events \cap events = {}
<1>1. fd \in Seq(FdEntry) /\ Split(fd) /\ Len(fd) \in Nat /\ DOMAIN fd = 1 .. Len(fd)
  BY DEF FdInv
<1>2. \A i \in 1 .. Len(fd) : fd[i] \in FdEntry
  BY <1>1
<1> DEFINE l(i) == IF fd[i].fd = n THEN [fd[i] EXCEPT !.events = @ \ events] ELSE fd[i]
           less == [i \in DOMAIN fd |-> l(i)]
           S == {x \in Range(less) : x.events # {}}
           r == Removed(n, events)
<1>3. \A i \in 1 .. Len(fd) : /\ l(i) \in FdEntry /\ l(i).fd = fd[i].fd
                               /\ l(i).events = IF fd[i].fd = n THEN fd[i].events \ events ELSE fd[i].events
  BY <1>2, LessEvents
<1>4. r = Keep(less, S)
  BY DEF Removed
<1> HIDE DEF l
<1>5. /\ less \in Seq(FdEntry) /\ Len(less) = Len(fd) /\ \A i \in 1 .. Len(fd) : less[i] = l(i)
  <2>1. less = [i \in 1 .. Len(fd) |-> l(i)]
    BY <1>1
  <2>2. [i \in 1 .. Len(fd) |-> l(i)] \in Seq(FdEntry)
    <3>1. Len(fd) \in Nat /\ \A i \in 1 .. Len(fd) : l(i) \in FdEntry
      BY <1>1, <1>3
    <3> QED
      BY <3>1
  <2>3. DOMAIN less = 1 .. Len(fd) /\ \A i \in 1 .. Len(fd) : less[i] = l(i)
    BY <2>1
  <2> HIDE DEF less
  <2> QED
    BY <1>1, <2>1, <2>2, <2>3
<1>6. \A i \in 1 .. Len(fd) : less[i] \in S <=> l(i).events # {}
  <2>1. \A i \in 1 .. Len(fd) : less[i] \in Range(less)
    BY DEF Range
  <2> QED
    BY <1>5, <2>1
<1> HIDE DEF less, S, r
<1>7. PICK p : Picks(less, S, FdEntry, r, Len(less), p)
  BY <1>4, <1>5, KeepPicks
<1>8. /\ r \in Seq(FdEntry) /\ p \in [1 .. Len(r) -> 1 .. Len(fd)] /\ Len(r) \in Nat
      /\ \A j, k \in 1 .. Len(r) : j < k => p[j] < p[k]
      /\ \A k \in 1 .. Len(r) : r[k] = l(p[k])
      /\ \A i \in 1 .. Len(fd) : l(i).events # {} => \E k \in 1 .. Len(r) : p[k] = i
  <2>1. r \in Seq(FdEntry) /\ Len(r) \in Nat /\ p \in [1 .. Len(r) -> 1 .. Len(fd)]
    BY <1>5, <1>7 DEF Picks
  <2>2. \A j, k \in 1 .. Len(r) : j < k => p[j] < p[k]
    BY <1>7 DEF Picks
  <2>3. \A k \in 1 .. Len(r) : r[k] = l(p[k])
    BY <1>5, <1>7, <2>1 DEF Picks
  <2>4. \A i \in 1 .. Len(fd) : l(i).events # {} => \E k \in 1 .. Len(r) : p[k] = i
    BY <1>5, <1>6, <1>7 DEF Picks
  <2> QED
    BY <2>1, <2>2, <2>3, <2>4
<1>9. \A k \in 1 .. Len(r) : /\ p[k] \in 1 .. Len(fd) /\ r[k].fd = fd[p[k]].fd
                              /\ r[k].events = IF fd[p[k]].fd = n THEN fd[p[k]].events \ events
                                                                  ELSE fd[p[k]].events
  BY <1>3, <1>8
<1>10. Split(r)
  <2> SUFFICES ASSUME NEW i \in 1 .. Len(r), NEW j \in 1 .. Len(r), r[i].fd = r[j].fd, i # j
               PROVE  r[i].events \cap r[j].events = {}
    BY DEF Split
  <2>1. p[i] \in 1 .. Len(fd) /\ p[j] \in 1 .. Len(fd) /\ p[i] # p[j]
    <3>1. i < j \/ j < i
      BY <1>8
    <3> QED
      BY <1>8, <1>9, <3>1
  <2>2. fd[p[i]].events \cap fd[p[j]].events = {}
    BY <1>1, <1>9, <2>1 DEF Split
  <2> QED
    BY <1>9, <2>2
<1>11. ASSUME NEW e \in Events
       PROVE  Having(r, e) = IF e \in events THEN Having(fd, e) \ {n} ELSE Having(fd, e)
  <2>1. ASSUME NEW f \in Having(r, e) PROVE f \in Having(fd, e) /\ ~(f = n /\ e \in events)
    <3>1. f \in Fds /\ \E k \in 1 .. Len(r) : r[k].fd = f /\ e \in r[k].events
      BY <2>1 DEF Having
    <3>2. PICK k \in 1 .. Len(r) : r[k].fd = f /\ e \in r[k].events
      BY <3>1
    <3>3. p[k] \in 1 .. Len(fd) /\ fd[p[k]].fd = f /\ e \in fd[p[k]].events /\ ~(f = n /\ e \in events)
      BY <1>9, <3>2
    <3> QED
      BY <3>1, <3>3 DEF Having
  <2>2. ASSUME NEW f \in Having(fd, e), ~(f = n /\ e \in events) PROVE f \in Having(r, e)
    <3>1. f \in Fds /\ \E i \in 1 .. Len(fd) : fd[i].fd = f /\ e \in fd[i].events
      BY <2>2 DEF Having
    <3>2. PICK i \in 1 .. Len(fd) : fd[i].fd = f /\ e \in fd[i].events
      BY <3>1
    <3>3. l(i).fd = f /\ e \in l(i).events
      BY <1>3, <2>2, <3>2
    <3>4. PICK k \in 1 .. Len(r) : p[k] = i
      BY <1>8, <3>3
    <3>5. r[k].fd = f /\ e \in r[k].events
      BY <1>8, <3>3, <3>4
    <3> QED
      BY <3>1, <3>5 DEF Having
  <2>3. \A f : f \in Having(r, e) <=> f \in Having(fd, e) /\ ~(f = n /\ e \in events)
    BY <2>1, <2>2
  <2> QED
    BY <2>3
<1>12. \A i \in 1 .. Len(r) : r[i].fd = n => r[i].events \cap events = {}
  BY <1>9
<1> QED
  BY <1>8, <1>10, <1>11, <1>12 DEF r

\* fdsets after FD_CLR.
LEMMA ClearedIs ==
    ASSUME FdInv, NEW n \in Fds, NEW events \in SUBSET Events
    PROVE  Cleared(n, events) = [e \in Events |-> Having(Removed(n, events), e)]
<1>1. fdsets = [e \in Events |-> Having(fd, e)]
  BY DEF FdInv
<1>2. \A e \in Events : (IF e \in events THEN fdsets[e] \ {n} ELSE fdsets[e]) = Having(Removed(n, events), e)
  BY <1>1, RemovedIs
<1> QED
  BY <1>2 DEF Cleared

\* Fl::remove_fd, also as Fl::add_fd begins with it.
LEMMA RemoveDone ==
    ASSUME FdInv, NEW n \in Fds, NEW events \in SUBSET Events, DoRemove(n, events)
    PROVE  /\ fd' \in Seq(FdEntry) /\ Split(fd') /\ maxfd' = Highest(fd')
           /\ fdsets' = [e \in Events |-> Having(fd', e)]
<1>1. fd' = Removed(n, events) /\ fdsets' = Cleared(n, events) /\ maxfd' = Highest(Removed(n, events))
  BY DEF DoRemove
<1>2. Removed(n, events) \in Seq(FdEntry) /\ Split(Removed(n, events))
  BY RemovedIs
<1>3. Cleared(n, events) = [e \in Events |-> Having(Removed(n, events), e)]
  BY ClearedIs
<1> QED
  BY <1>1, <1>2, <1>3

\* Fl::add_fd
LEMMA AddDone ==
    ASSUME FdInv, NEW n \in Fds, NEW events \in SUBSET Events, DoAdd(n, events)
    PROVE  /\ fd' \in Seq(FdEntry) /\ Split(fd') /\ maxfd' = Highest(fd')
           /\ fdsets' = [e \in Events |-> Having(fd', e)]
<1> DEFINE r == Removed(n, events)
           x == [fd |-> n, events |-> events]
<1>1. /\ fd' = Append(r, x) /\ maxfd' = IF n > Highest(r) THEN n ELSE Highest(r)
      /\ fdsets' = [e \in Events |-> IF e \in events THEN fdsets[e] \cup {n} ELSE fdsets[e]]
  BY DEF DoAdd
<1>2. x \in FdEntry /\ x.fd = n /\ x.events = events
  BY DEF FdEntry
<1>3. /\ r \in Seq(FdEntry) /\ Split(r)
      /\ \A e \in Events : Having(r, e) = IF e \in events THEN Having(fd, e) \ {n} ELSE Having(fd, e)
      /\ \A i \in 1 .. Len(r) : r[i].fd = n => r[i].events \cap events = {}
  BY RemovedIs
<1>4. Highest(r) = IF Len(r) = 0 THEN -1 ELSE Highest(r)
  BY <1>3 DEF Highest
<1> HIDE DEF r, x
<1>5. /\ fd' \in Seq(FdEntry) /\ Len(fd') = Len(r) + 1 /\ Len(r) \in Nat /\ fd'[Len(r) + 1] = x
      /\ \A i \in 1 .. Len(r) : fd'[i] = r[i]
  BY <1>1, <1>2, <1>3
<1>6. /\ \A i \in 1 .. Len(r) + 1 : i \in 1 .. Len(r) \/ i = Len(r) + 1
      /\ \A i \in 1 .. Len(r) : i \in 1 .. Len(r) + 1
      /\ Len(r) + 1 \in 1 .. Len(r) + 1
  BY <1>5
<1>7. Split(fd')
  <2> SUFFICES ASSUME NEW i \in 1 .. Len(r) + 1, NEW j \in 1 .. Len(r) + 1, fd'[i].fd = fd'[j].fd, i # j
               PROVE  fd'[i].events \cap fd'[j].events = {}
    BY <1>5 DEF Split
  <2>1. CASE i \in 1 .. Len(r) /\ j \in 1 .. Len(r)
    BY <1>3, <1>5, <2>1 DEF Split
  <2>2. CASE i = Len(r) + 1
    BY <1>2, <1>3, <1>5, <1>6, <2>2
  <2>3. CASE j = Len(r) + 1
    BY <1>2, <1>3, <1>5, <1>6, <2>3
  <2> QED
    BY <1>6, <2>1, <2>2, <2>3
<1>8. ASSUME NEW e \in Events
      PROVE  Having(fd', e) = IF e \in events THEN Having(fd, e) \cup {n} ELSE Having(fd, e)
  <2>1. \A f : f \in Having(fd', e) <=> f \in Having(r, e) \/ (f = n /\ e \in events)
    <3>1. ASSUME NEW f \in Having(fd', e) PROVE f \in Having(r, e) \/ (f = n /\ e \in events)
      BY <1>2, <1>5, <1>6, <3>1 DEF Having
    <3>2. ASSUME NEW f \in Having(r, e) PROVE f \in Having(fd', e)
      BY <1>5, <1>6, <3>2 DEF Having
    <3>3. e \in events => n \in Having(fd', e)
      BY <1>2, <1>5, <1>6 DEF Having
    <3> QED
      BY <3>1, <3>2, <3>3
  <2> QED
    BY <1>3, <2>1
<1>9. fdsets' = [e \in Events |-> Having(fd', e)]
  <2>1. fdsets = [e \in Events |-> Having(fd, e)]
    BY DEF FdInv
  <2>2. \A e \in Events : (IF e \in events THEN fdsets[e] \cup {n} ELSE fdsets[e]) = Having(fd', e)
    BY <1>8, <2>1
  <2> QED
    BY <1>1, <2>2
<1>10. n \in Nat /\ \A i \in 1 .. Len(r) : r[i].fd \in Nat
  <2>1. \A i \in 1 .. Len(r) : r[i] \in FdEntry
    BY <1>3
  <2> QED
    BY <2>1, FdAssumption DEF FdEntry
<1>11. maxfd' = Highest(fd')
  <2>1. CASE Len(r) = 0
    <3>1. r = <<>>
      BY <1>3, <2>1
    <3>2. Highest(r) = -1
      BY <3>1 DEF Highest
    <3>3. maxfd' = n
      BY <1>1, <1>10, <3>2
    <3>4. (\E i \in 1 .. Len(fd') : fd'[i].fd = n) /\ \A i \in 1 .. Len(fd') : fd'[i].fd <= n
      BY <1>2, <1>5, <1>6, <1>10, <2>1
    <3> QED
      BY <1>5, <3>3, <3>4, HighestOnly
  <2>2. CASE Len(r) # 0
    <3>1. /\ Highest(r) \in Fds /\ Highest(r) \in Nat
          /\ \E i \in 1 .. Len(r) : r[i].fd = Highest(r)
          /\ \A i \in 1 .. Len(r) : r[i].fd <= Highest(r)
      BY <1>3, <2>2, HighestIs, FdAssumption
    <3>2. maxfd' \in Fds /\ maxfd' \in Nat /\ n <= maxfd' /\ Highest(r) <= maxfd'
      BY <1>1, <1>10, <3>1
    <3>3. \E i \in 1 .. Len(fd') : fd'[i].fd = maxfd'
      <4>1. maxfd' = n \/ maxfd' = Highest(r)
        BY <1>1
      <4>2. CASE maxfd' = n
        BY <1>2, <1>5, <1>6, <4>2
      <4>3. CASE maxfd' = Highest(r)
        BY <1>5, <1>6, <3>1, <4>3
      <4> QED
        BY <4>1, <4>2, <4>3
    <3>4. \A i \in 1 .. Len(r) : fd'[i].fd <= maxfd'
      BY <1>5, <1>10, <3>1, <3>2
    <3>5. \A i \in 1 .. Len(fd') : fd'[i].fd <= maxfd'
      BY <1>2, <1>5, <1>6, <3>2, <3>4
    <3> QED
      BY <1>5, <3>2, <3>3, <3>5, HighestOnly
  <2> QED
    BY <2>1, <2>2
<1> QED
  BY <1>5, <1>7, <1>9, <1>11

\* Without descriptors the invariant holds.
LEMMA FdStart == FdInit => FdInv
<1> SUFFICES ASSUME FdInit PROVE FdInv
  OBVIOUS
<1>1. fd = <<>> /\ fdsets = [e \in Events |-> {}] /\ maxfd = 0 /\ worker = NoWork
  BY DEF FdInit
<1>2. Split(fd) /\ \A e \in Events : Having(fd, e) = {}
  BY <1>1 DEF Split, Having
<1> QED
  BY <1>1, <1>2 DEF FdInv

\* Every step of both threads keeps it.
LEMMA FdStep == FdInv /\ [FdNext]_fdVars => FdInv'
<1> SUFFICES ASSUME FdInv, [FdNext]_fdVars PROVE FdInv'
  OBVIOUS
<1>1. EventSets \subseteq SUBSET Events
  BY FdAssumption DEF EventSets, Used
<1>2. ASSUME NEW n \in Fds, NEW events \in EventSets, AddFd(n, events) PROVE FdInv'
  <2>1. DoAdd(n, events) /\ UNCHANGED worker
    BY <1>2 DEF AddFd
  <2>2. /\ fd' \in Seq(FdEntry) /\ Split(fd') /\ maxfd' = Highest(fd')
        /\ fdsets' = [e \in Events |-> Having(fd', e)]
    BY <1>1, <2>1, AddDone
  <2> QED
    BY <2>1, <2>2 DEF FdInv, Split, Having, Highest
<1>3. ASSUME NEW n \in Fds, NEW events \in EventSets, RemoveFd(n, events) PROVE FdInv'
  <2>1. DoRemove(n, events) /\ UNCHANGED worker
    BY <1>3 DEF RemoveFd
  <2>2. /\ fd' \in Seq(FdEntry) /\ Split(fd') /\ maxfd' = Highest(fd')
        /\ fdsets' = [e \in Events |-> Having(fd', e)]
    BY <1>1, <2>1, RemoveDone
  <2> QED
    BY <2>1, <2>2 DEF FdInv, Split, Having, Highest
<1>4. ASSUME NEW n \in Fds, NEW events \in (SUBSET WorkerEvents) \ {{}}, NEW op,
             WorkerStarts(op, n, events)
      PROVE  FdInv'
  <2>1. worker' = [op |-> op, fd |-> n, events |-> events] /\ UNCHANGED <<fd, fdsets>>
    BY <1>4 DEF WorkerStarts
  <2>2. worker'.fd \in Fds /\ worker'.events \subseteq Events /\ worker'.fd # -1
    BY <2>1, FdAssumption
  <2>3. worker' # NoWork
    BY <2>2 DEF NoWork
  <2> QED
    BY <2>1, <2>2, <2>3 DEF FdInv, Split, Having, NoWork
<1>5. ASSUME WorkerDone PROVE FdInv'
  <2>1. /\ DoRemove(worker.fd, worker.events) \/ DoAdd(worker.fd, worker.events)
        /\ worker # NoWork /\ worker' = NoWork
    BY <1>5 DEF WorkerDone, NoWork
  <2>2. worker.fd \in Fds /\ worker.events \in SUBSET Events
    BY <2>1 DEF FdInv
  <2>3. /\ fd' \in Seq(FdEntry) /\ Split(fd') /\ maxfd' = Highest(fd')
        /\ fdsets' = [e \in Events |-> Having(fd', e)]
    BY <2>1, <2>2, RemoveDone, AddDone
  <2> QED
    BY <2>1, <2>3 DEF FdInv, Split, Having, Highest, NoWork
<1>6. ASSUME UNCHANGED <<fd, fdsets, maxfd, worker>> PROVE FdInv'
  BY <1>6 DEF FdInv, Split, Having, Highest, NoWork
<1>7. ASSUME Waiting \/ FdReturns \/ SelectTimesOut PROVE UNCHANGED <<fd, fdsets, maxfd, worker>>
  BY <1>7 DEF Waiting, FdReturns, SelectTimesOut, BeginSelect, CallSelect, SelectReturns,
              CallEntry, SkipEntry, WaitEnds
<1>8. ASSUME NEW f \in Fds, Consumes(f) \/ \E e \in Events : BecomesReady(f, e)
      PROVE  UNCHANGED <<fd, fdsets, maxfd, worker>>
  BY <1>8 DEF Consumes, BecomesReady
<1>9. CASE UNCHANGED fdVars
  BY <1>6, <1>9 DEF fdVars
<1> QED
  BY <1>2, <1>3, <1>4, <1>5, <1>6, <1>7, <1>8, <1>9 DEF FdNext

\* The three fd_sets and maxfd follow the array through every Fl::add_fd and
\* Fl::remove_fd, of single events or of all, by callbacks or by a worker thread
\* that the main thread's fl_wait() lets in; and an event has one callback.
THEOREM SelectSeesAll == FdSpec => []SetsFollowArray
<1>1. FdInv => SetsFollowArray
  <2> SUFFICES ASSUME FdInv PROVE SetsFollowArray
    OBVIOUS
  <2>1. DOMAIN fd = 1 .. Len(fd)
    BY DEF FdInv
  <2> QED
    BY <2>1 DEF FdInv, Split, Having, SetsFollowArray
<1> QED
  BY <1>1, FdStart, FdStep, PTL DEF FdSpec

-----------------------------------------------------------------------------
(* Idle callbacks *)

\* g leads around r.
Circle(r, g) == \A i \in 1 .. Len(r) : g[r[i]] = r[IF i = Len(r) THEN 1 ELSE i + 1]

\* A ring is the same ring from any of its nodes on: here, from the one after
\* position i, so that entry i comes last.
LEMMA RingTurned ==
    ASSUME NEW U, NEW r \in Seq(U), IsInjective(r), NEW g, Circle(r, g), NEW i \in 1 .. Len(r)
    PROVE  \E s \in Seq(U) :
              /\ Len(s) = Len(r) /\ IsInjective(s) /\ Range(s) = Range(r) /\ Circle(s, g)
              /\ s[Len(r)] = r[i] /\ s[1] = r[IF i = Len(r) THEN 1 ELSE i + 1]
              /\ Len(r) > 1 => s[Len(r) - 1] = r[IF i = 1 THEN Len(r) ELSE i - 1]
<1> DEFINE n == Len(r)
           at(k) == IF i + k <= n THEN i + k ELSE i + k - n
           s == [k \in 1 .. n |-> r[at(k)]]
<1>1. /\ n \in Nat \ {0} /\ i \in 1 .. n /\ DOMAIN r = 1 .. n
      /\ \A k \in 1 .. n : r[k] \in U
  OBVIOUS
<1>2. \A j, k \in 1 .. n : r[j] = r[k] => j = k
  BY <1>1 DEF IsInjective
<1>3. \A k \in 1 .. n : g[r[k]] = r[IF k = n THEN 1 ELSE k + 1]
  BY DEF Circle
<1>4. Range(r) = {r[k] : k \in 1 .. n}
  BY RangeIs
<1> HIDE DEF n
<1>5. /\ \A k \in 1 .. n : at(k) \in 1 .. n
      /\ \A j, k \in 1 .. n : at(j) = at(k) => j = k
      /\ at(n) = i /\ at(1) = IF i = n THEN 1 ELSE i + 1
      /\ n > 1 => at(n - 1) = IF i = 1 THEN n ELSE i - 1
  BY <1>1
<1>6. \A k \in 1 .. n : at(IF k = n THEN 1 ELSE k + 1) = IF at(k) = n THEN 1 ELSE at(k) + 1
  BY <1>1
<1>7. ASSUME NEW k \in 1 .. n
      PROVE  \E j \in 1 .. n : at(j) = k
  <2>1. CASE k > i
    <3>1. k - i \in 1 .. n /\ at(k - i) = k
      BY <1>1, <2>1
    <3> QED
      BY <3>1
  <2>2. CASE k <= i
    <3>1. k + n - i \in 1 .. n /\ at(k + n - i) = k
      BY <1>1, <2>2
    <3> QED
      BY <3>1
  <2> QED
    BY <1>1, <2>1, <2>2
<1> HIDE DEF at
<1>8. /\ s \in Seq(U) /\ Len(s) = n /\ DOMAIN s = 1 .. n
      /\ \A k \in 1 .. n : s[k] = r[at(k)]
  <2>1. n \in Nat /\ \A k \in 1 .. n : r[at(k)] \in U
    BY <1>1, <1>5
  <2> QED
    BY <2>1
<1> HIDE DEF s
<1>9. IsInjective(s)
  <2> SUFFICES ASSUME NEW j \in 1 .. n, NEW k \in 1 .. n, s[j] = s[k]
               PROVE  j = k
    BY <1>8 DEF IsInjective
  <2>1. r[at(j)] = r[at(k)] /\ at(j) \in 1 .. n /\ at(k) \in 1 .. n
    BY <1>5, <1>8
  <2>2. at(j) = at(k)
    BY <1>2, <2>1
  <2> QED
    BY <1>5, <2>2
<1>10. Range(s) = Range(r)
  <2>1. Range(s) = {s[k] : k \in 1 .. n}
    BY <1>8, RangeIs
  <2>2. \A k \in 1 .. n : s[k] \in Range(r)
    BY <1>4, <1>5, <1>8
  <2>3. ASSUME NEW k \in 1 .. n PROVE r[k] \in Range(s)
    <3>1. PICK j \in 1 .. n : at(j) = k
      BY <1>7
    <3> QED
      BY <1>8, <2>1, <3>1
  <2> QED
    BY <1>4, <2>1, <2>2, <2>3
<1>11. Circle(s, g)
  <2> SUFFICES ASSUME NEW k \in 1 .. n
               PROVE  g[s[k]] = s[IF k = n THEN 1 ELSE k + 1]
    BY <1>8 DEF Circle
  <2>1. (IF k = n THEN 1 ELSE k + 1) \in 1 .. n
    BY <1>1
  <2>2. s[IF k = n THEN 1 ELSE k + 1] = r[at(IF k = n THEN 1 ELSE k + 1)]
    BY <1>8, <2>1
  <2>3. g[s[k]] = r[IF at(k) = n THEN 1 ELSE at(k) + 1]
    BY <1>3, <1>5, <1>8
  <2> QED
    BY <1>6, <2>2, <2>3
<1>12. /\ s[n] = r[i] /\ s[1] = r[IF i = n THEN 1 ELSE i + 1]
       /\ n > 1 => s[n - 1] = r[IF i = 1 THEN n ELSE i - 1]
  <2>1. n \in 1 .. n /\ 1 \in 1 .. n /\ (n > 1 => n - 1 \in 1 .. n)
    BY <1>1
  <2> QED
    BY <1>5, <1>8, <2>1
<1> QED
  BY <1>8, <1>9, <1>10, <1>11, <1>12 DEF n

\* The pointers of the ring make the list r, closed, and those of the free list
\* make the list f.  The two share no node, and every node ever used is on one.
IdleTypes ==
    /\ first \in IdleNodes \cup {Nil} /\ last \in IdleNodes \cup {Nil} /\ freelist \in IdleNodes \cup {Nil}
    /\ link \in [IdleNodes -> IdleNodes \cup {Nil}]
    /\ idleCb \in [IdleNodes -> IdleCbs \cup {Nil}]
    /\ idle \in BOOLEAN /\ inIdle \in BOOLEAN
    /\ idle <=> first # Nil
    /\ running \in IdleCbs \cup {Nil} /\ (inIdle <=> running # Nil)

RingOf(r) ==
    /\ r \in Seq(IdleNodes) /\ IsInjective(r) /\ Circle(r, link)
    /\ first = IF r = <<>> THEN Nil ELSE r[1]
    /\ last = IF r = <<>> THEN Nil ELSE r[Len(r)]

FreeOf(f) ==
    /\ f \in Seq(IdleNodes) /\ IsInjective(f)
    /\ freelist = IF f = <<>> THEN Nil ELSE f[1]
    /\ \A i \in 1 .. Len(f) : link[f[i]] = IF i = Len(f) THEN Nil ELSE f[i + 1]

Rings(r, f) ==
    /\ RingOf(r) /\ FreeOf(f)
    /\ Range(r) \cap Range(f) = {}
    /\ \A n \in IdleNodes : n \in Range(r) \cup Range(f) <=> idleCb[n] # Nil

IdleInv == IdleTypes /\ \E r, f : Rings(r, f)

\* The walk of has_idle and remove_idle goes along r, and ends.
WalksRing == \A r : IdleTypes /\ RingOf(r) =>
    /\ RingSize = Len(r) /\ Len(r) <= Cardinality(IdleNodes)
    /\ \A i \in 1 .. Len(r) : Walk[i] = r[i]
    /\ RingNodes = Range(r)

\* By induction on the steps of the walk, before a step of the program ...
LEMMA WalkIsRing == WalksRing
<1> SUFFICES ASSUME NEW r, IdleTypes, RingOf(r)
             PROVE  /\ RingSize = Len(r) /\ Len(r) <= Cardinality(IdleNodes)
                    /\ \A i \in 1 .. Len(r) : Walk[i] = r[i]
                    /\ RingNodes = Range(r)
  BY DEF WalksRing
<1> DEFINE n == Len(r)
           N == Cardinality(IdleNodes)
<1>1. n \in Nat /\ N \in Nat /\ n <= N
  BY IdleAssumption, InjectiveLength DEF RingOf
<1>2. /\ \A i \in 1 .. n : r[i] \in IdleNodes /\ link[r[i]] = r[IF i = n THEN 1 ELSE i + 1]
      /\ \A i, j \in 1 .. n : r[i] = r[j] => i = j
      /\ n > 0 => first = r[1] /\ last = r[n] /\ first # Nil
      /\ n = 0 => first = Nil
  <2>1. r \in Seq(IdleNodes) /\ DOMAIN r = 1 .. n /\ (r = <<>> <=> n = 0)
    BY DEF RingOf
  <2>2. \A i, j \in 1 .. n : r[i] = r[j] => i = j
    BY <2>1 DEF RingOf, IsInjective
  <2>3. \A i \in 1 .. n : r[i] \in IdleNodes
    BY <2>1
  <2>4. \A i \in 1 .. n : link[r[i]] = r[IF i = n THEN 1 ELSE i + 1]
    BY DEF RingOf, Circle
  <2>5. n > 0 => first = r[1] /\ last = r[n] /\ first # Nil
    <3>1. n > 0 => 1 \in 1 .. n
      BY <1>1
    <3> QED
      BY <1>1, <2>1, <2>3, <3>1, IdleAssumption DEF RingOf
  <2>6. n = 0 => first = Nil
    BY <2>1 DEF RingOf
  <2> QED
    BY <2>2, <2>3, <2>4, <2>5, <2>6
<1> HIDE DEF n
<1>3. Walk = [i \in 1 .. N |-> IF i = 1 THEN first ELSE link[Walk[i - 1]]]
  <2> HIDE DEF N
  <2>0. N \in Nat
    BY <1>1
  <2>1. \E w : IsWalk(w, N, first, link)
    BY <2>0, WalkExists
  <2>2. Walk = CHOOSE w : IsWalk(w, N, first, link)
    BY DEF Walk, N, IsWalk
  <2>3. IsWalk(Walk, N, first, link)
    BY <2>1, <2>2
  <2> QED
    BY <2>3 DEF IsWalk
<1> HIDE DEF N
<1>4. \A i \in 1 .. n : Walk[i] = r[i]
  <2> DEFINE T == {k \in Nat : k + 1 <= n => Walk[k + 1] = r[k + 1]}
  <2>1. 0 \in T
    <3> SUFFICES ASSUME 0 + 1 <= n PROVE Walk[0 + 1] = r[0 + 1]
      OBVIOUS
    <3>1. 0 + 1 = 1 /\ 1 \in 1 .. N /\ n > 0
      BY <1>1
    <3> QED
      BY <1>2, <1>3, <3>1
  <2>2. ASSUME NEW k \in T PROVE k + 1 \in T
    <3>1. k \in Nat /\ (k + 1 <= n => Walk[k + 1] = r[k + 1])
      OBVIOUS
    <3> SUFFICES ASSUME k + 1 + 1 <= n PROVE Walk[k + 1 + 1] = r[k + 1 + 1]
      BY <3>1
    <3>2. /\ k + 1 + 1 \in 1 .. N /\ k + 1 + 1 # 1 /\ (k + 1 + 1) - 1 = k + 1 /\ k + 1 \in 1 .. n
          /\ k + 1 <= n /\ k + 1 # n
      BY <1>1, <3>1
    <3>3. Walk[k + 1 + 1] = link[Walk[k + 1]]
      BY <1>3, <3>2
    <3> QED
      BY <1>2, <3>1, <3>2, <3>3
  <2>3. T \in SUBSET Nat
    OBVIOUS
  <2>4. \A k \in Nat : k + 1 <= n => Walk[k + 1] = r[k + 1]
    <3>1. T = Nat
      <4> HIDE DEF T
      <4> QED
        BY <2>1, <2>2, <2>3, AllNat
    <3> QED
      BY <3>1
  <2> TAKE i \in 1 .. n
  <2>5. i - 1 \in Nat /\ (i - 1) + 1 = i /\ (i - 1) + 1 <= n
    BY <1>1
  <2> QED
    BY <2>4, <2>5
<1>5. RingSize = n
  <2>1. CASE n = 0
    BY <1>2, <2>1 DEF RingSize
  <2>2. CASE n > 0
    <3> DEFINE Closes(i) == Walk[i] = last /\ \A j \in 1 .. i - 1 : Walk[j] # last
    <3>1. n \in 1 .. n /\ n \in 1 .. N /\ \A j \in 1 .. n - 1 : j \in 1 .. n /\ j # n
      BY <1>1, <2>2
    <3>2. Closes(n)
      BY <1>2, <1>4, <2>2, <3>1
    <3>3. ASSUME NEW i \in 1 .. N, Closes(i) PROVE i = n
      <4>1. CASE i < n
        <5>1. i \in 1 .. n
          BY <1>1, <4>1
        <5> QED
          BY <1>2, <1>4, <2>2, <3>1, <3>3, <5>1
      <4>2. CASE i > n
        <5>1. n \in 1 .. i - 1
          BY <1>1, <2>2, <4>2
        <5> QED
          BY <1>2, <1>4, <2>2, <3>1, <3>3, <5>1
      <4> QED
        BY <1>1, <4>1, <4>2
    <3>4. RingSize = CHOOSE i \in 1 .. N : Closes(i)
      BY <1>2, <2>2 DEF RingSize, N
    <3> HIDE DEF Closes
    <3> QED
      BY <3>1, <3>2, <3>3, <3>4
  <2> QED
    BY <1>1, <2>1, <2>2
<1>6. RingNodes = Range(r)
  <2>1. Range(r) = {r[i] : i \in 1 .. n}
    BY RangeIs DEF RingOf, n
  <2> QED
    BY <1>4, <1>5, <2>1 DEF RingNodes
<1> QED
  BY <1>1, <1>4, <1>5, <1>6 DEF n, N

\* ... and after it.
LEMMA WalkIsRingNext == WalksRing'
BY WalkIsRing, PTL

\* Without idle callbacks both lists are empty.
LEMMA IdleStarts == IdleInit => IdleInv
<1> SUFFICES ASSUME IdleInit PROVE IdleInv
  OBVIOUS
<1>1. /\ first = Nil /\ last = Nil /\ freelist = Nil /\ running = Nil
      /\ link = [n \in IdleNodes |-> Nil] /\ idleCb = [n \in IdleNodes |-> Nil]
      /\ idle = FALSE /\ inIdle = FALSE
  BY DEF IdleInit
<1>2. IdleTypes
  BY <1>1 DEF IdleTypes
<1>3. <<>> \in Seq(IdleNodes) /\ Len(<<>>) = 0 /\ Range(<<>>) = {} /\ IsInjective(<<>>)
  BY DEF Range, IsInjective
<1>4. Rings(<<>>, <<>>)
  BY <1>1, <1>3 DEF Rings, RingOf, FreeOf, Circle
<1> QED
  BY <1>2, <1>4 DEF IdleInv

\* The ring and the free list, as the proofs below use them.
LEMMA RingIs ==
    ASSUME NEW r, RingOf(r)
    PROVE  /\ r \in Seq(IdleNodes) /\ Len(r) \in Nat /\ DOMAIN r = 1 .. Len(r) /\ (r = <<>> <=> Len(r) = 0)
           /\ \A i \in 1 .. Len(r) : /\ r[i] \in IdleNodes /\ r[i] \in Range(r)
                                     /\ link[r[i]] = r[IF i = Len(r) THEN 1 ELSE i + 1]
           /\ \A i, j \in 1 .. Len(r) : r[i] = r[j] => i = j
           /\ \A x \in Range(r) : \E i \in 1 .. Len(r) : x = r[i]
           /\ Range(r) \subseteq IdleNodes
           /\ Len(r) > 0 => /\ first = r[1] /\ last = r[Len(r)] /\ first # Nil
                            /\ 1 \in 1 .. Len(r) /\ Len(r) \in 1 .. Len(r)
           /\ Len(r) = 0 => first = Nil /\ last = Nil
<1> DEFINE n == Len(r)
<1>1. r \in Seq(IdleNodes) /\ n \in Nat /\ DOMAIN r = 1 .. n /\ (r = <<>> <=> n = 0)
  BY DEF RingOf
<1>2. \A i, j \in 1 .. n : r[i] = r[j] => i = j
  BY <1>1 DEF RingOf, IsInjective
<1>3. Range(r) = {r[i] : i \in 1 .. n} /\ Range(r) \subseteq IdleNodes /\ \A i \in 1 .. n : r[i] \in Range(r)
  BY <1>1, RangeIs
<1>4. \A i \in 1 .. n : link[r[i]] = r[IF i = n THEN 1 ELSE i + 1]
  BY DEF RingOf, Circle
<1>5. first = (IF r = <<>> THEN Nil ELSE r[1]) /\ last = IF r = <<>> THEN Nil ELSE r[n]
  BY DEF RingOf
<1> HIDE DEF n
<1>6. n > 0 => 1 \in 1 .. n /\ n \in 1 .. n
  BY <1>1
<1>7. \A i \in 1 .. n : r[i] \in IdleNodes
  BY <1>3
<1>8. n > 0 => first = r[1] /\ last = r[n] /\ first # Nil
  BY <1>1, <1>5, <1>6, <1>7, IdleAssumption
<1> QED
  BY <1>1, <1>2, <1>3, <1>4, <1>5, <1>6, <1>7, <1>8 DEF n

\* The free list, entry by entry.
LEMMA FreeIs ==
    ASSUME NEW f, FreeOf(f)
    PROVE  /\ f \in Seq(IdleNodes) /\ Len(f) \in Nat /\ DOMAIN f = 1 .. Len(f) /\ (f = <<>> <=> Len(f) = 0)
           /\ \A i \in 1 .. Len(f) : /\ f[i] \in IdleNodes /\ f[i] \in Range(f)
                                     /\ link[f[i]] = IF i = Len(f) THEN Nil ELSE f[i + 1]
           /\ \A i, j \in 1 .. Len(f) : f[i] = f[j] => i = j
           /\ \A x \in Range(f) : \E i \in 1 .. Len(f) : x = f[i]
           /\ Range(f) \subseteq IdleNodes
           /\ Len(f) > 0 => freelist = f[1] /\ freelist # Nil /\ 1 \in 1 .. Len(f)
           /\ Len(f) = 0 => freelist = Nil
<1> DEFINE n == Len(f)
<1>1. f \in Seq(IdleNodes) /\ n \in Nat /\ DOMAIN f = 1 .. n /\ (f = <<>> <=> n = 0)
  BY DEF FreeOf
<1>2. \A i, j \in 1 .. n : f[i] = f[j] => i = j
  BY <1>1 DEF FreeOf, IsInjective
<1>3. Range(f) = {f[i] : i \in 1 .. n} /\ Range(f) \subseteq IdleNodes /\ \A i \in 1 .. n : f[i] \in Range(f)
  BY <1>1, RangeIs
<1>4. \A i \in 1 .. n : link[f[i]] = IF i = n THEN Nil ELSE f[i + 1]
  BY DEF FreeOf
<1>5. freelist = IF f = <<>> THEN Nil ELSE f[1]
  BY DEF FreeOf
<1> HIDE DEF n
<1>6. n > 0 => 1 \in 1 .. n
  BY <1>1
<1>7. \A i \in 1 .. n : f[i] \in IdleNodes
  BY <1>3
<1>8. n > 0 => freelist = f[1] /\ freelist # Nil
  BY <1>1, <1>5, <1>6, <1>7, IdleAssumption
<1> QED
  BY <1>1, <1>2, <1>3, <1>4, <1>5, <1>6, <1>7, <1>8 DEF n

\* The node that Fl::add_idle uses comes off the free list, or is a new one.
LEMMA NewIdle ==
    ASSUME IdleTypes, NEW r, NEW f, Rings(r, f), NEW p \in IdleNodes, IsNewIdle(p)
    PROVE  \E g \in Seq(IdleNodes) :
              /\ IsInjective(g) /\ p \notin Range(r) /\ p \notin Range(g) /\ Range(g) \subseteq Range(f)
              /\ Range(f) \subseteq Range(g) \cup {p}
              /\ (IF freelist # Nil THEN link[p] ELSE Nil) = IF g = <<>> THEN Nil ELSE g[1]
              /\ \A i \in 1 .. Len(g) : link[g[i]] = IF i = Len(g) THEN Nil ELSE g[i + 1]
<1> DEFINE n == Len(f)
<1>1. /\ f \in Seq(IdleNodes) /\ n \in Nat /\ DOMAIN f = 1 .. n /\ (f = <<>> <=> n = 0)
      /\ \A i \in 1 .. n : /\ f[i] \in IdleNodes /\ f[i] \in Range(f)
                           /\ link[f[i]] = IF i = n THEN Nil ELSE f[i + 1]
      /\ \A i, j \in 1 .. n : f[i] = f[j] => i = j
      /\ \A x \in Range(f) : \E i \in 1 .. n : x = f[i]
      /\ n > 0 => freelist = f[1] /\ freelist # Nil /\ 1 \in 1 .. n
      /\ n = 0 => freelist = Nil
  BY FreeIs DEF Rings
<1>2. CASE n = 0
  <2>1. freelist = Nil /\ idleCb[p] = Nil /\ f = <<>>
    BY <1>1, <1>2 DEF IsNewIdle
  <2>2. p \notin Range(r) \cup Range(f)
    BY <2>1 DEF Rings
  <2>3. f \in Seq(IdleNodes) /\ IsInjective(f) /\ 1 .. Len(f) = {}
    BY <1>1, <1>2 DEF Rings, FreeOf
  <2> QED
    BY <2>1, <2>2, <2>3
<1>3. CASE n > 0
  <2> DEFINE g == Tail(f)
  <2>1. p = f[1] /\ freelist # Nil
    BY <1>1, <1>3 DEF IsNewIdle
  <2>2. /\ g \in Seq(IdleNodes) /\ Len(g) = n - 1 /\ DOMAIN g = 1 .. n - 1
        /\ \A i \in 1 .. n - 1 : g[i] = f[i + 1] /\ i + 1 \in 1 .. n /\ i + 1 # 1
    <3>1. f \in Seq(IdleNodes) /\ f # <<>> /\ Len(f) \in Nat \ {0}
      BY <1>1, <1>3
    <3>2. Tail(f) \in Seq(IdleNodes) /\ Len(Tail(f)) = Len(f) - 1
      BY <3>1
    <3>3. \A i \in 1 .. Len(f) - 1 : Tail(f)[i] = f[i + 1]
      BY <3>1
    <3>4. \A i \in 1 .. Len(f) - 1 : i + 1 \in 1 .. Len(f) /\ i + 1 # 1
      BY <3>1
    <3> QED
      BY <3>2, <3>3, <3>4
  <2> HIDE DEF n, g
  <2>3. \A i \in 1 .. n - 1 : (i + 1 = n <=> i = n - 1) /\ (i # n - 1 => i + 1 \in 1 .. n - 1)
    BY <1>1, <1>3
  <2>4. IsInjective(g)
    <3> SUFFICES ASSUME NEW i \in 1 .. n - 1, NEW j \in 1 .. n - 1, g[i] = g[j] PROVE i = j
      BY <2>2 DEF IsInjective
    <3>1. i + 1 = j + 1
      BY <1>1, <2>2
    <3> QED
      BY <3>1
  <2>5. Range(g) = {g[i] : i \in 1 .. n - 1}
    BY <2>2, RangeIs
  <2>6. p \notin Range(g) /\ Range(g) \subseteq Range(f)
    BY <1>1, <1>3, <2>1, <2>2, <2>5
  <2>7. ASSUME NEW x \in Range(f) PROVE x \in Range(g) \cup {p}
    <3>1. PICK i \in 1 .. n : x = f[i]
      BY <1>1
    <3>2. i = 1 \/ (i - 1 \in 1 .. n - 1 /\ (i - 1) + 1 = i)
      BY <1>1
    <3> QED
      BY <2>1, <2>2, <2>5, <3>1, <3>2
  <2>8. p \in Range(f) /\ p \notin Range(r)
    BY <1>1, <1>3, <2>1 DEF Rings
  <2>9. link[p] = IF g = <<>> THEN Nil ELSE g[1]
    <3>1. link[p] = IF 1 = n THEN Nil ELSE f[1 + 1]
      BY <1>1, <1>3, <2>1
    <3>2. (g = <<>> <=> n = 1) /\ (n # 1 => 1 \in 1 .. n - 1)
      BY <1>1, <1>3, <2>2
    <3> QED
      BY <2>2, <3>1, <3>2
  <2>10. ASSUME NEW i \in 1 .. n - 1
         PROVE  link[g[i]] = IF i = n - 1 THEN Nil ELSE g[i + 1]
    <3>1. link[g[i]] = IF i + 1 = n THEN Nil ELSE f[i + 1 + 1]
      BY <1>1, <2>2
    <3> QED
      BY <2>2, <2>3, <3>1
  <2> QED
    BY <2>1, <2>2, <2>4, <2>6, <2>7, <2>8, <2>9, <2>10
<1>4. n = 0 \/ n > 0
  <2>1. n \in Nat
    BY <1>1
  <2> HIDE DEF n
  <2> QED
    BY <2>1
<1> QED
  BY <1>2, <1>3, <1>4

\* Fl::add_idle puts the new node at the end of the ring.
LEMMA AddsIdle ==
    ASSUME IdleTypes, NEW r, NEW f, Rings(r, f), NEW p \in IdleNodes, NEW c \in IdleCbs, AddIdle(p, c)
    PROVE  /\ IdleTypes' /\ p \notin Range(r)
           /\ \E s, g : Rings(s, g)' /\ Range(s) = Range(r) \cup {p}
<1> DEFINE n == Len(r)
           s == Append(r, p)
<1>1. /\ IsNewIdle(p) /\ idleCb' = [idleCb EXCEPT ![p] = c]
      /\ freelist' = (IF freelist # Nil THEN link[p] ELSE Nil) /\ link' = Linked(p)
      /\ first' = (IF first = Nil THEN p ELSE first) /\ last' = p /\ idle' = TRUE
      /\ UNCHANGED <<removeOthers, inIdle, running>>
  BY DEF AddIdle, IdleTypes
<1>2. PICK g \in Seq(IdleNodes) :
         /\ IsInjective(g) /\ p \notin Range(r) /\ p \notin Range(g) /\ Range(g) \subseteq Range(f)
         /\ Range(f) \subseteq Range(g) \cup {p}
         /\ (IF freelist # Nil THEN link[p] ELSE Nil) = IF g = <<>> THEN Nil ELSE g[1]
         /\ \A i \in 1 .. Len(g) : link[g[i]] = IF i = Len(g) THEN Nil ELSE g[i + 1]
  BY <1>1, NewIdle
<1>3. /\ r \in Seq(IdleNodes) /\ n \in Nat /\ DOMAIN r = 1 .. n /\ (r = <<>> <=> n = 0)
      /\ \A i \in 1 .. n : /\ r[i] \in IdleNodes /\ r[i] \in Range(r)
                           /\ link[r[i]] = r[IF i = n THEN 1 ELSE i + 1]
      /\ \A i, j \in 1 .. n : r[i] = r[j] => i = j
      /\ n > 0 => /\ first = r[1] /\ last = r[n] /\ first # Nil
                  /\ 1 \in 1 .. n /\ n \in 1 .. n
      /\ n = 0 => first = Nil /\ last = Nil
  BY RingIs DEF Rings
<1>4. p # Nil /\ c # Nil
  BY IdleAssumption
<1>5. /\ first \in IdleNodes \cup {Nil} /\ last \in IdleNodes \cup {Nil}
      /\ link \in [IdleNodes -> IdleNodes \cup {Nil}] /\ idleCb \in [IdleNodes -> IdleCbs \cup {Nil}]
  BY DEF IdleTypes
<1>6. /\ link' \in [IdleNodes -> IdleNodes \cup {Nil}]
      /\ \A m \in IdleNodes : link'[m] = IF m = p THEN IF first = Nil THEN p ELSE first
                                         ELSE IF first # Nil /\ m = last THEN p ELSE link[m]
  <2>1. CASE first = Nil
    <3>1. link' = [link EXCEPT ![p] = p]
      BY <1>1, <2>1 DEF Linked
    <3> QED
      BY <1>5, <2>1, <3>1
  <2>2. CASE first # Nil
    <3>1. link' = [link EXCEPT ![last] = p, ![p] = first]
      BY <1>1, <2>2 DEF Linked
    <3> QED
      BY <1>5, <2>2, <3>1
  <2> QED
    BY <2>1, <2>2
<1>7. /\ idleCb' \in [IdleNodes -> IdleCbs \cup {Nil}]
      /\ \A m \in IdleNodes : idleCb'[m] = IF m = p THEN c ELSE idleCb[m]
  BY <1>1, <1>5
<1>8. IdleTypes'
  <2>1. freelist' \in IdleNodes \cup {Nil}
    BY <1>1 DEF IdleTypes
  <2> QED
    BY <1>1, <1>4, <1>5, <1>6, <1>7, <2>1 DEF IdleTypes
<1>9. /\ s \in Seq(IdleNodes) /\ Len(s) = n + 1 /\ DOMAIN s = 1 .. n + 1 /\ s[n + 1] = p
      /\ \A i \in 1 .. n : s[i] = r[i]
  <2>1. r \in Seq(IdleNodes) /\ p \in IdleNodes /\ Len(r) \in Nat
    BY <1>3
  <2> QED
    BY <2>1
<1> HIDE DEF n, s
<1>10. \A i \in 1 .. n + 1 : i = n + 1 \/ i \in 1 .. n
  BY <1>3
<1>11. IsInjective(s) /\ Range(s) = Range(r) \cup {p}
  <2>1. Range(s) = {s[i] : i \in 1 .. n + 1} /\ Range(r) = {r[i] : i \in 1 .. n}
    <3>1. Range(s) = {s[i] : i \in 1 .. n + 1}
      BY <1>9, RangeIs
    <3>2. Range(r) = {r[i] : i \in 1 .. n}
      BY <1>3, RangeIs DEF n
    <3> QED
      BY <3>1, <3>2
  <2>2. n + 1 \in 1 .. n + 1 /\ \A i \in 1 .. n : i \in 1 .. n + 1
    BY <1>3
  <2>3. Range(s) = Range(r) \cup {p}
    BY <1>9, <1>10, <2>1, <2>2
  <2>4. \A i \in 1 .. n : s[i] # p
    BY <1>2, <1>3, <1>9
  <2>5. ASSUME NEW i \in 1 .. n + 1, NEW j \in 1 .. n + 1, s[i] = s[j] PROVE i = j
    BY <1>3, <1>9, <1>10, <2>4, <2>5
  <2> QED
    BY <1>9, <2>3, <2>5 DEF IsInjective
<1>12. Circle(s, link')
  <2> SUFFICES ASSUME NEW i \in 1 .. n + 1
               PROVE  link'[s[i]] = s[IF i = n + 1 THEN 1 ELSE i + 1]
    BY <1>9 DEF Circle
  <2>1. CASE i = n + 1
    <3>1. link'[s[i]] = IF first = Nil THEN p ELSE first
      BY <1>6, <1>9, <2>1
    <3>2. s[1] = IF n = 0 THEN p ELSE first
      <4>1. n = 0 => n + 1 = 1
        OBVIOUS
      <4>2. n = 0 \/ n > 0
        BY <1>3
      <4> QED
        BY <1>3, <1>9, <4>1, <4>2
    <3> QED
      BY <1>3, <2>1, <3>1, <3>2
  <2>2. CASE i = n /\ i # n + 1
    <3>1. n > 0 /\ s[i] = last /\ last # p /\ last \in IdleNodes
      BY <1>2, <1>3, <1>9, <1>10, <2>2
    <3>2. link'[s[i]] = p
      BY <1>3, <1>6, <3>1
    <3> QED
      BY <1>9, <2>2, <3>2
  <2>3. CASE i # n /\ i # n + 1
    <3>1. i \in 1 .. n /\ i + 1 \in 1 .. n /\ n > 0
      BY <1>3, <1>10, <2>3
    <3>2. s[i] = r[i] /\ r[i] # p /\ r[i] # last /\ r[i] \in IdleNodes
      BY <1>2, <1>3, <1>9, <2>3, <3>1
    <3>3. link'[s[i]] = link[r[i]] /\ link[r[i]] = r[i + 1] /\ s[i + 1] = r[i + 1]
      BY <1>3, <1>6, <1>9, <2>3, <3>1, <3>2
    <3> QED
      BY <2>3, <3>3
  <2> QED
    BY <2>1, <2>2, <2>3
<1>13. RingOf(s)'
  <2>1. s # <<>> /\ s[1] = first' /\ s[Len(s)] = last'
    <3>1. s # <<>>
      BY <1>3, <1>9
    <3>2. n = 0 => n + 1 = 1
      OBVIOUS
    <3>3. n = 0 \/ n > 0
      BY <1>3
    <3> QED
      BY <1>1, <1>3, <1>9, <3>1, <3>2, <3>3
  <2> QED
    BY <1>9, <1>11, <1>12, <2>1 DEF RingOf
<1>14. FreeOf(g)'
  <2>1. \A i \in 1 .. Len(g) : g[i] \in IdleNodes /\ g[i] \in Range(g)
    BY <1>2, RangeIs
  <2>2. \A m \in Range(g) : m # p /\ (first # Nil => m # last)
    <3>1. first # Nil => last \in Range(r)
      BY <1>3
    <3> QED
      BY <1>2, <3>1 DEF Rings
  <2>3. ASSUME NEW i \in 1 .. Len(g)
        PROVE  link'[g[i]] = IF i = Len(g) THEN Nil ELSE g[i + 1]
    <3>1. link'[g[i]] = link[g[i]]
      BY <1>6, <2>1, <2>2
    <3> QED
      BY <1>2, <3>1
  <2> QED
    BY <1>1, <1>2, <2>3 DEF FreeOf
<1>15. Rings(s, g)'
  <2>1. Range(s) \cap Range(g) = {}
    BY <1>2, <1>11 DEF Rings
  <2>2. ASSUME NEW m \in IdleNodes
        PROVE  m \in Range(s) \cup Range(g) <=> idleCb'[m] # Nil
    <3>1. CASE m = p
      BY <1>4, <1>7, <1>11, <3>1
    <3>2. CASE m # p
      <4>1. m \in Range(s) \cup Range(g) <=> m \in Range(r) \cup Range(f)
        BY <1>2, <1>11, <3>2
      <4> QED
        BY <1>7, <3>2, <4>1 DEF Rings
    <3> QED
      BY <3>1, <3>2
  <2> QED
    BY <1>13, <1>14, <2>1, <2>2 DEF Rings
<1> QED
  BY <1>2, <1>8, <1>11, <1>15

\* Fl::remove_idle takes the node out of the ring, which it turns so that the
\* node after it comes first, and puts it on the free list.
LEMMA RemovesIdle ==
    ASSUME IdleTypes, NEW r, NEW f, Rings(r, f), NEW c \in IdleCbs, RemoveIdle(c)
    PROVE  /\ IdleTypes'
           /\ \E p \in Range(r) :
                 idleCb[p] = c /\ \E s, g : Rings(s, g)' /\ Range(s) = Range(r) \ {p}
<1> DEFINE n == Len(r)
<1>1. /\ r \in Seq(IdleNodes) /\ n \in Nat /\ DOMAIN r = 1 .. n /\ (r = <<>> <=> n = 0)
      /\ \A i \in 1 .. n : /\ r[i] \in IdleNodes /\ r[i] \in Range(r)
                           /\ link[r[i]] = r[IF i = n THEN 1 ELSE i + 1]
      /\ \A i, j \in 1 .. n : r[i] = r[j] => i = j
      /\ \A x \in Range(r) : \E i \in 1 .. n : x = r[i]
      /\ Range(r) \subseteq IdleNodes
      /\ n > 0 => /\ first = r[1] /\ last = r[n] /\ first # Nil
                  /\ 1 \in 1 .. n /\ n \in 1 .. n
      /\ n = 0 => first = Nil /\ last = Nil
  BY RingIs DEF Rings
<1>n. n \in Nat
  BY <1>1
<1>2. RingSize = n /\ \A i \in 1 .. n : Walk[i] = r[i]
  BY WalkIsRing DEF WalksRing, Rings
<1> HIDE DEF n
<1>3. PICK i \in 1 .. n :
         /\ Finds(i, c)
         /\ IF NodeBefore(i) = Walk[i]
              THEN first' = Nil /\ last' = Nil
              ELSE first' = link[Walk[i]] /\ last' = NodeBefore(i)
         /\ link' = [m \in IdleNodes |-> IF m = Walk[i] THEN freelist
                                         ELSE IF m = NodeBefore(i) THEN link[Walk[i]] ELSE link[m]]
         /\ idle' = IdleAfterRemoval(NodeBefore(i), Walk[i])
         /\ freelist' = Walk[i]
  BY <1>2 DEF RemoveIdle
<1> DEFINE p == r[i]
           l == r[IF i = 1 THEN n ELSE i - 1]
<1>i. i \in 1 .. n
  OBVIOUS
<1>4. Walk[i] = p /\ NodeBefore(i) = l /\ p \in Range(r) /\ p \in IdleNodes /\ idleCb[p] = c
  <2>1. Walk[i] = p /\ p \in Range(r) /\ p \in IdleNodes
    BY <1>1, <1>2, <1>i
  <2>2. ASSUME i = 1 PROVE NodeBefore(i) = l
    <3>1. n > 0
      BY <1>n, <1>i
    <3> QED
      BY <1>1, <2>2, <3>1 DEF NodeBefore
  <2>3. ASSUME i # 1 PROVE NodeBefore(i) = l
    <3>1. i - 1 \in 1 .. n
      BY <1>n, <1>i, <2>3
    <3>2. Walk[i - 1] = r[i - 1]
      BY <1>2, <3>1
    <3> QED
      BY <2>3, <3>2 DEF NodeBefore
  <2>4. idleCb[p] = c
    BY <1>3, <2>1 DEF Finds
  <2> QED
    BY <2>1, <2>2, <2>3, <2>4
<1>5. UNCHANGED <<idleCb, inIdle, running>>
  BY DEF RemoveIdle
<1>6. PICK t \in Seq(IdleNodes) :
         /\ Len(t) = n /\ IsInjective(t) /\ Range(t) = Range(r) /\ Circle(t, link)
         /\ t[n] = p /\ t[1] = r[IF i = n THEN 1 ELSE i + 1]
         /\ n > 1 => t[n - 1] = l
  BY RingTurned DEF Rings, RingOf, n
<1> HIDE DEF p, l
<1>7. /\ \A k \in 1 .. n : /\ t[k] \in IdleNodes /\ t[k] \in Range(r)
                           /\ link[t[k]] = t[IF k = n THEN 1 ELSE k + 1]
      /\ \A j, k \in 1 .. n : t[j] = t[k] => j = k
      /\ Range(r) = {t[k] : k \in 1 .. n}
  <2>1. DOMAIN t = 1 .. n /\ \A k \in 1 .. n : t[k] \in IdleNodes
    BY <1>1, <1>6
  <2>2. Range(t) = {t[k] : k \in 1 .. n} /\ \A k \in 1 .. n : t[k] \in Range(t)
    BY <1>6, RangeIs
  <2>3. \A j, k \in 1 .. n : t[j] = t[k] => j = k
    BY <1>6, <2>1 DEF IsInjective
  <2>4. \A k \in 1 .. n : link[t[k]] = t[IF k = n THEN 1 ELSE k + 1]
    BY <1>6 DEF Circle
  <2> QED
    BY <1>6, <2>1, <2>2, <2>3, <2>4
<1>8. n > 0 /\ (l = p <=> n = 1) /\ l \in IdleNodes
  <2>1. n > 0
    BY <1>n, <1>i
  <2>2. n = 1 => l = p
    BY <1>n, <1>i DEF l, p
  <2>3. n > 1 => n - 1 \in 1 .. n /\ n \in 1 .. n /\ n - 1 # n
    BY <1>n
  <2>4. n > 1 => l # p /\ l \in IdleNodes
    BY <1>6, <1>7, <2>3
  <2>5. n = 1 \/ n > 1
    BY <1>n, <2>1
  <2> QED
    BY <1>4, <2>1, <2>2, <2>4, <2>5
<1>b. 1 \in 1 .. n /\ n \in 1 .. n
  BY <1>n, <1>8
<1>9. link[p] = t[1]
  BY <1>1, <1>6 DEF p
<1>10. /\ link' \in [IdleNodes -> IdleNodes \cup {Nil}]
       /\ \A m \in IdleNodes : link'[m] = IF m = p THEN freelist ELSE IF m = l THEN t[1] ELSE link[m]
       /\ freelist' = p /\ (idle' <=> n # 1)
       /\ n = 1 => first' = Nil /\ last' = Nil
       /\ n # 1 => first' = t[1] /\ last' = l
  <2>1. t[1] \in IdleNodes
    BY <1>7, <1>b
  <2>2. link' = [m \in IdleNodes |-> IF m = p THEN freelist ELSE IF m = l THEN t[1] ELSE link[m]]
    BY <1>3, <1>4, <1>9
  <2>3. link' \in [IdleNodes -> IdleNodes \cup {Nil}]
    BY <2>1, <2>2 DEF IdleTypes
  <2>4. idle' <=> n # 1
    <3>1. idle
      BY DEF RemoveIdle, IdleTypes
    <3> QED
      BY <1>3, <1>4, <1>8, <3>1 DEF IdleAfterRemoval
  <2>5. /\ n = 1 => first' = Nil /\ last' = Nil
        /\ n # 1 => first' = t[1] /\ last' = l
    BY <1>3, <1>4, <1>8, <1>9
  <2> QED
    BY <1>3, <1>4, <2>2, <2>3, <2>4, <2>5
<1>11. IdleTypes'
  <2>1. t[1] \in IdleNodes /\ t[1] # Nil
    <3>1. t[1] \in IdleNodes
      BY <1>7, <1>b
    <3> QED
      BY <3>1, IdleAssumption
  <2>2. idle' \in BOOLEAN
    BY <1>3 DEF IdleAfterRemoval, IdleTypes
  <2>3. idle' <=> first' # Nil
    BY <1>10, <2>1
  <2>4. first' \in IdleNodes \cup {Nil} /\ last' \in IdleNodes \cup {Nil}
    BY <1>8, <1>10, <2>1
  <2> QED
    BY <1>4, <1>5, <1>10, <2>2, <2>3, <2>4 DEF IdleTypes
<1> DEFINE s == [k \in 1 .. n - 1 |-> t[k]]
           g == <<p>> \o f
<1>12. /\ s \in Seq(IdleNodes) /\ Len(s) = n - 1 /\ DOMAIN s = 1 .. n - 1
       /\ \A k \in 1 .. n - 1 : s[k] = t[k] /\ k \in 1 .. n /\ k # n
  <2>1. n - 1 \in Nat /\ \A k \in 1 .. n - 1 : k \in 1 .. n /\ k # n
    BY <1>n, <1>8
  <2>2. \A k \in 1 .. n - 1 : t[k] \in IdleNodes
    BY <1>7, <2>1
  <2>3. s \in Seq(IdleNodes) /\ Len(s) = n - 1 /\ DOMAIN s = 1 .. n - 1
    BY <2>1, <2>2
  <2> QED
    BY <2>1, <2>3
<1> HIDE DEF s
<1>13. IsInjective(s) /\ Range(s) = Range(r) \ {p}
  <2>1. IsInjective(s)
    BY <1>7, <1>12 DEF IsInjective
  <2>2. Range(s) = {s[k] : k \in 1 .. n - 1}
    BY <1>12, RangeIs
  <2>3. \A k \in 1 .. n : k = n \/ k \in 1 .. n - 1
    BY <1>n
  <2>4. n \in 1 .. n
    BY <1>b
  <2>5. \A k \in 1 .. n - 1 : s[k] # p /\ s[k] \in Range(r)
    BY <1>6, <1>7, <1>12, <2>4
  <2>6. ASSUME NEW x \in Range(r), x # p PROVE x \in Range(s)
    <3>1. PICK k \in 1 .. n : x = t[k]
      BY <1>7
    <3>2. k \in 1 .. n - 1
      BY <1>6, <2>3, <2>6, <3>1
    <3> QED
      BY <1>12, <2>2, <3>1, <3>2
  <2> QED
    BY <2>1, <2>2, <2>5, <2>6
<1>14. Circle(s, link')
  <2> SUFFICES ASSUME NEW k \in 1 .. n - 1
               PROVE  link'[s[k]] = s[IF k = n - 1 THEN 1 ELSE k + 1]
    BY <1>12 DEF Circle
  <2>1. /\ n > 1 /\ n \in 1 .. n /\ n - 1 \in 1 .. n /\ 1 \in 1 .. n - 1
        /\ k \in 1 .. n /\ k # n
    BY <1>n
  <2>2. s[k] = t[k] /\ t[k] \in IdleNodes /\ t[k] # p
    BY <1>6, <1>7, <1>12, <2>1
  <2>3. CASE k = n - 1
    <3>1. t[k] = l
      BY <1>6, <2>1, <2>3
    <3>2. link'[s[k]] = t[1]
      BY <1>10, <2>2, <3>1
    <3> QED
      BY <1>12, <2>1, <2>3, <3>2
  <2>4. CASE k # n - 1
    <3>1. k + 1 \in 1 .. n - 1
      BY <1>n, <2>4
    <3>2. t[k] # l
      <4>1. \A j, m \in 1 .. n : t[j] = t[m] => j = m
        BY <1>7
      <4>2. t[n - 1] = l
        BY <1>6, <2>1
      <4> QED
        BY <2>1, <2>4, <4>1, <4>2
    <3>3. link'[s[k]] = link[t[k]]
      BY <1>10, <2>2, <3>2
    <3>4. link[t[k]] = t[k + 1]
      BY <1>7, <2>1
    <3> QED
      BY <1>12, <2>4, <3>1, <3>3, <3>4
  <2> QED
    BY <2>3, <2>4
<1>15. RingOf(s)'
  <2>1. CASE n = 1
    <3>1. s = <<>>
      BY <1>12, <2>1
    <3> QED
      BY <1>10, <1>12, <1>13, <1>14, <2>1, <3>1 DEF RingOf
  <2>2. CASE n # 1
    <3>1. n > 1 /\ 1 \in 1 .. n - 1 /\ n - 1 \in 1 .. n - 1
      BY <1>n, <1>8, <2>2
    <3>2. s # <<>> /\ s[1] = t[1] /\ s[Len(s)] = l
      BY <1>6, <1>12, <3>1
    <3> QED
      BY <1>10, <1>12, <1>13, <1>14, <2>2, <3>2 DEF RingOf
  <2> QED
    BY <2>1, <2>2
<1>16. /\ f \in Seq(IdleNodes) /\ Len(f) \in Nat /\ DOMAIN f = 1 .. Len(f) /\ (f = <<>> <=> Len(f) = 0)
       /\ \A k \in 1 .. Len(f) : /\ f[k] \in IdleNodes /\ f[k] \in Range(f)
                                 /\ link[f[k]] = IF k = Len(f) THEN Nil ELSE f[k + 1]
       /\ Len(f) > 0 => freelist = f[1] /\ freelist # Nil /\ 1 \in 1 .. Len(f)
       /\ Len(f) = 0 => freelist = Nil
  BY FreeIs DEF Rings
<1>m. f \in Seq(IdleNodes) /\ Len(f) \in Nat
  BY <1>16
<1>17. Range(r) \cap Range(f) = {} /\ IsInjective(f)
  BY DEF Rings, FreeOf
<1>18. /\ g \in Seq(IdleNodes) /\ IsInjective(g) /\ Range(g) = {p} \cup Range(f)
       /\ Len(g) = Len(f) + 1 /\ g[1] = p
       /\ \A k \in 1 .. Len(f) : g[k + 1] = f[k]
  <2>1. <<p>> \in Seq(IdleNodes) /\ IsInjective(<<p>>) /\ Range(<<p>>) = {p}
    BY <1>4 DEF IsInjective, Range
  <2>2. IsInjective(<<p>> \o f)
    <3>1. Range(<<p>>) \cap Range(f) = {}
      BY <1>4, <1>17, <2>1
    <3> QED
      BY <1>m, <1>17, <2>1, <3>1, ConcatInjective
  <2>3. Range(<<p>> \o f) = {p} \cup Range(f)
    BY <1>4, <1>m, BeforeCons
  <2>4. /\ <<p>> \o f \in Seq(IdleNodes) /\ Len(<<p>> \o f) = Len(f) + 1
        /\ (<<p>> \o f)[1] = p /\ \A k \in 1 .. Len(f) : (<<p>> \o f)[k + 1] = f[k]
    BY <1>4, <1>m
  <2> QED
    BY <2>2, <2>3, <2>4
<1> HIDE DEF g
<1>19. FreeOf(g)'
  <2> SUFFICES ASSUME NEW k \in 1 .. Len(g)
               PROVE  link'[g[k]] = IF k = Len(g) THEN Nil ELSE g[k + 1]
    <3>1. g # <<>>
      BY <1>m, <1>18
    <3> QED
      BY <1>10, <1>18, <3>1 DEF FreeOf
  <2>1. CASE k = 1
    <3>1. link'[g[k]] = freelist
      BY <1>4, <1>10, <1>18, <2>1
    <3>2. Len(f) > 0 => g[1 + 1] = f[1]
      BY <1>16, <1>18
    <3>3. 1 = Len(g) <=> Len(f) = 0
      BY <1>m, <1>18
    <3>4. Len(f) = 0 \/ Len(f) > 0
      BY <1>m
    <3> QED
      BY <1>16, <2>1, <3>1, <3>2, <3>3, <3>4
  <2>2. CASE k # 1
    <3> DEFINE j == k - 1
    <3>1. j \in 1 .. Len(f) /\ k = j + 1 /\ (k = Len(g) <=> j = Len(f)) /\ (j # Len(f) => j + 1 \in 1 .. Len(f))
      BY <1>m, <1>18, <2>2
    <3> HIDE DEF j
    <3>2. g[k] = f[j] /\ f[j] \in IdleNodes /\ f[j] \in Range(f)
      BY <1>16, <1>18, <3>1
    <3>3. f[j] # p /\ f[j] # l
      <4>1. l \in Range(r)
        <5>1. (IF i = 1 THEN n ELSE i - 1) \in 1 .. n
          BY <1>n, <1>i
        <5> QED
          BY <1>1, <5>1 DEF l
      <4> QED
        BY <1>4, <1>17, <3>2, <4>1
    <3>4. link'[g[k]] = IF j = Len(f) THEN Nil ELSE f[j + 1]
      BY <1>10, <1>16, <3>1, <3>2, <3>3
    <3>5. j # Len(f) => g[k + 1] = f[j + 1]
      BY <1>18, <3>1
    <3> QED
      BY <3>1, <3>4, <3>5
  <2> QED
    BY <2>1, <2>2
<1>20. Rings(s, g)'
  <2>1. Range(s) \cap Range(g) = {} /\ Range(s) \cup Range(g) = Range(r) \cup Range(f)
    BY <1>4, <1>13, <1>17, <1>18
  <2>2. \A m \in IdleNodes : m \in Range(s) \cup Range(g) <=> idleCb'[m] # Nil
    BY <1>5, <2>1 DEF Rings
  <2> QED
    BY <1>15, <1>19, <2>1, <2>2 DEF Rings
<1> QED
  BY <1>4, <1>11, <1>13, <1>20

\* call_idle turns the ring by one.
LEMMA CallsIdle ==
    ASSUME IdleTypes, NEW r, NEW f, Rings(r, f), CallIdle
    PROVE  /\ IdleTypes' /\ first \in Range(r) /\ idleCb[first] \in IdleCbs
           /\ \E s : Rings(s, f)' /\ Range(s) = Range(r)
<1> DEFINE n == Len(r)
<1>1. /\ r \in Seq(IdleNodes) /\ n \in Nat
      /\ \A i \in 1 .. n : r[i] \in IdleNodes /\ r[i] \in Range(r) /\ link[r[i]] = r[IF i = n THEN 1 ELSE i + 1]
      /\ n > 0 => /\ first = r[1] /\ last = r[n] /\ first # Nil
                  /\ 1 \in 1 .. n /\ n \in 1 .. n
      /\ n = 0 => first = Nil /\ last = Nil
  BY RingIs DEF Rings
<1>2. /\ idle /\ ~inIdle /\ inIdle' = TRUE /\ last' = first /\ first' = link[first]
      /\ running' = idleCb[first] /\ UNCHANGED <<freelist, link, idleCb, idle>>
  BY DEF CallIdle
<1>3. n > 0
  <2>1. first # Nil
    BY <1>2 DEF IdleTypes
  <2> HIDE DEF n
  <2> QED
    BY <1>1, <2>1
<1>4. PICK s \in Seq(IdleNodes) :
         /\ Len(s) = n /\ IsInjective(s) /\ Range(s) = Range(r) /\ Circle(s, link)
         /\ s[n] = r[1] /\ s[1] = r[IF 1 = n THEN 1 ELSE 1 + 1]
  <2>1. 1 \in 1 .. n
    BY <1>1, <1>3
  <2>2. r \in Seq(IdleNodes) /\ IsInjective(r) /\ Circle(r, link)
    BY DEF Rings, RingOf
  <2>3. ASSUME NEW i \in 1 .. n
        PROVE  \E s \in Seq(IdleNodes) :
                  /\ Len(s) = n /\ IsInjective(s) /\ Range(s) = Range(r) /\ Circle(s, link)
                  /\ s[n] = r[i] /\ s[1] = r[IF i = n THEN 1 ELSE i + 1]
    BY <2>2, RingTurned
  <2> HIDE DEF n
  <2> QED
    BY <2>1, <2>3
<1> HIDE DEF n
<1>5. first = r[1] /\ link[first] = s[1] /\ first \in Range(r) /\ first \in IdleNodes
  BY <1>1, <1>3, <1>4
<1>6. s[1] \in IdleNodes /\ s[1] # Nil
  BY <1>1, <1>3, <1>4, IdleAssumption
<1>7. idleCb[first] \in IdleCbs /\ idleCb[first] # Nil
  <2>1. idleCb[first] # Nil
    BY <1>5 DEF Rings
  <2> QED
    BY <1>5, <2>1 DEF IdleTypes
<1>8. IdleTypes'
  <2>1. first' # Nil /\ first' \in IdleNodes /\ last' \in IdleNodes
    BY <1>2, <1>5, <1>6
  <2>2. idle' /\ idle' \in BOOLEAN
    BY <1>2 DEF IdleTypes
  <2>3. running' \in IdleCbs /\ running' # Nil
    BY <1>2, <1>7
  <2> QED
    BY <1>2, <2>1, <2>2, <2>3 DEF IdleTypes
<1>9. RingOf(s)'
  <2>1. s # <<>>
    BY <1>3, <1>4
  <2> QED
    BY <1>2, <1>4, <1>5, <2>1 DEF RingOf
<1>10. Rings(s, f)'
  <2>1. FreeOf(f)'
    BY <1>2 DEF Rings, FreeOf
  <2> QED
    BY <1>2, <1>4, <1>9, <2>1 DEF Rings
<1> QED
  BY <1>4, <1>5, <1>7, <1>8, <1>10

IsFreeWalk(w, m, a, g) ==
    w = [i \in 1 .. m |-> IF i = 1 THEN a ELSE IF w[i - 1] = Nil THEN Nil ELSE g[w[i - 1]]]

\* The free list ends, and holds the nodes of f.
LEMMA FreeIsList ==
    ASSUME IdleTypes, NEW r, NEW f, Rings(r, f)
    PROVE  FreeNodes = Range(f)
<1> DEFINE n == Len(f)
           N == Cardinality(IdleNodes)
           e == [i \in 1 .. N |-> IF i <= n THEN f[i] ELSE Nil]
<1>1. n \in Nat /\ N \in Nat /\ n <= N
  BY IdleAssumption, InjectiveLength DEF Rings, FreeOf
<1>2. /\ \A i \in 1 .. n : /\ f[i] \in IdleNodes
                           /\ link[f[i]] = IF i = n THEN Nil ELSE f[i + 1]
      /\ n > 0 => freelist = f[1] /\ freelist # Nil /\ 1 \in 1 .. n
      /\ n = 0 => freelist = Nil
  BY FreeIs DEF Rings
<1>3. Range(f) = {f[i] : i \in 1 .. n}
  BY RangeIs DEF Rings, FreeOf
<1> HIDE DEF n
<1>4. \A i \in 1 .. n : f[i] # Nil
  BY <1>2, IdleAssumption
<1>5. \A i \in 1 .. N : e[i] = IF i <= n THEN f[i] ELSE Nil
  OBVIOUS
<1>6. IsFreeWalk(e, N, freelist, link)
  <2> HIDE DEF N
  <2>1. ASSUME NEW i \in 1 .. N
        PROVE  e[i] = IF i = 1 THEN freelist ELSE IF e[i - 1] = Nil THEN Nil ELSE link[e[i - 1]]
    <3> HIDE DEF e
    <3>1. CASE i = 1
      <4>1. (1 <= n <=> n > 0) /\ (n = 0 \/ n > 0)
        BY <1>1
      <4> QED
        BY <1>2, <1>5, <3>1, <4>1
    <3>2. CASE i # 1
      <4>1. i - 1 \in 1 .. N /\ (i <= n => i - 1 \in 1 .. n /\ i - 1 # n) /\ (i - 1 <= n => i - 1 \in 1 .. n)
            /\ (~(i <= n) /\ i - 1 <= n => i - 1 = n) /\ (i - 1) + 1 = i
        BY <1>1, <3>2
      <4>2. CASE i <= n
        <5>1. e[i - 1] = f[i - 1] /\ f[i - 1] # Nil /\ link[f[i - 1]] = f[i] /\ e[i] = f[i]
          <6>1. i - 1 <= n
            BY <1>1, <4>2
          <6> QED
            BY <1>2, <1>4, <1>5, <4>1, <4>2, <6>1
        <5> QED
          BY <3>2, <5>1
      <4>3. CASE ~(i <= n) /\ i - 1 <= n
        <5>1. e[i - 1] = f[i - 1] /\ f[i - 1] # Nil /\ link[f[i - 1]] = Nil /\ e[i] = Nil
          BY <1>2, <1>4, <1>5, <4>1, <4>3
        <5> QED
          BY <3>2, <5>1
      <4>4. CASE ~(i <= n) /\ ~(i - 1 <= n)
        <5>1. e[i - 1] = Nil /\ e[i] = Nil
          BY <1>5, <4>1, <4>4
        <5> QED
          BY <3>2, <5>1
      <4> QED
        BY <4>2, <4>3, <4>4
    <3> QED
      BY <3>1, <3>2
  <2> QED
    BY <2>1 DEF IsFreeWalk
<1> HIDE DEF e
<1>7. IsFreeWalk(Free, N, freelist, link)
  <2>1. Free = CHOOSE w : IsFreeWalk(w, N, freelist, link)
    BY DEF Free, IsFreeWalk
  <2> HIDE DEF N
  <2> QED
    BY <1>6, <2>1
<1> HIDE DEF N
<1>8. \A i \in 1 .. N : /\ e[i] = IF i = 1 THEN freelist ELSE IF e[i - 1] = Nil THEN Nil ELSE link[e[i - 1]]
                        /\ Free[i] = IF i = 1 THEN freelist ELSE IF Free[i - 1] = Nil THEN Nil ELSE link[Free[i - 1]]
  BY <1>6, <1>7 DEF IsFreeWalk
<1>9. \A i \in 1 .. N : Free[i] = e[i]
  <2> DEFINE T == {k \in Nat : k + 1 <= N => Free[k + 1] = e[k + 1]}
  <2>1. 0 \in T
    <3> SUFFICES ASSUME 0 + 1 <= N PROVE Free[0 + 1] = e[0 + 1]
      OBVIOUS
    <3>1. 0 + 1 = 1 /\ 1 \in 1 .. N
      BY <1>1
    <3> QED
      BY <1>8, <3>1
  <2>2. ASSUME NEW k \in T PROVE k + 1 \in T
    <3>1. k \in Nat /\ (k + 1 <= N => Free[k + 1] = e[k + 1])
      OBVIOUS
    <3> SUFFICES ASSUME k + 1 + 1 <= N PROVE Free[k + 1 + 1] = e[k + 1 + 1]
      BY <3>1
    <3>2. k + 1 + 1 \in 1 .. N /\ k + 1 + 1 # 1 /\ (k + 1 + 1) - 1 = k + 1 /\ k + 1 <= N
      BY <1>1, <3>1
    <3> QED
      BY <1>8, <3>1, <3>2
  <2>3. T \in SUBSET Nat
    OBVIOUS
  <2>4. \A k \in Nat : k + 1 <= N => Free[k + 1] = e[k + 1]
    <3>1. T = Nat
      <4> HIDE DEF T
      <4> QED
        BY <2>1, <2>2, <2>3, AllNat
    <3> QED
      BY <3>1
  <2> TAKE i \in 1 .. N
  <2>5. i - 1 \in Nat /\ (i - 1) + 1 = i /\ (i - 1) + 1 <= N
    BY <1>1
  <2> QED
    BY <2>4, <2>5
<1>10. FreeNodes = {Free[i] : i \in 1 .. N} \ {Nil}
  BY DEF FreeNodes, N
<1>11. \A i \in 1 .. N : i \in 1 .. n <=> i <= n
  BY <1>1
<1>12. \A i \in 1 .. n : i \in 1 .. N
  BY <1>1
<1> QED
  BY <1>3, <1>4, <1>5, <1>9, <1>10, <1>11, <1>12

\* The bag of callbacks, as the ring holds it.
InBag(r, c) == {n \in Range(r) : idleCb[n] = c}

\* How often a callback is in the bag is how many nodes of the ring have it,
\* before a step ...
LEMMA BagIs ==
    ASSUME NEW r, IdleTypes, RingOf(r), NEW c
    PROVE  /\ Installed(c) = Cardinality(InBag(r, c))
           /\ IsFiniteSet(InBag(r, c)) /\ Installed(c) \in Nat
<1>1. RingNodes = Range(r)
  BY WalkIsRing DEF WalksRing
<1>2. Installed(c) = Cardinality(InBag(r, c))
  BY <1>1 DEF Installed, InBag
<1>3. InBag(r, c) \subseteq IdleNodes
  BY RingIs DEF InBag
<1>4. IsFiniteSet(InBag(r, c))
  BY <1>3, FS_Subset, IdleAssumption
<1> QED
  BY <1>2, <1>4, FS_CardinalityType

\* ... and after it.
LEMMA BagIsNext ==
    ASSUME NEW r, IdleTypes', RingOf(r)', NEW c
    PROVE  Installed(c)' = Cardinality(InBag(r, c)')
<1>1. RingNodes' = Range(r)
  BY WalkIsRingNext DEF WalksRing
<1> QED
  BY <1>1 DEF Installed, InBag

LOCAL Bag == [c \in IdleCbs |-> Installed(c)]

\* Every function of Fl_add_idle.cxx keeps the ring and the free list, and does
\* what it says to the bag.
LEMMA IdleStep ==
    ASSUME IdleInv, IdleNext
    PROVE  IdleInv' /\ Service!Next
<1>1. IdleTypes
  BY DEF IdleInv
<1>2. PICK r, f : Rings(r, f)
  BY DEF IdleInv
<1>3. RingOf(r)
  BY <1>2 DEF Rings
<1>4. ASSUME NEW p \in IdleNodes, NEW c \in IdleCbs, AddIdle(p, c)
      PROVE  IdleInv' /\ Service!Next
  <2>1. IdleTypes' /\ p \notin Range(r)
    BY <1>1, <1>2, <1>4, AddsIdle
  <2>2. PICK s, g : Rings(s, g)' /\ Range(s) = Range(r) \cup {p}
    BY <1>1, <1>2, <1>4, AddsIdle
  <2>3. RingOf(s)'
    BY <2>2 DEF Rings
  <2>4. idleCb' = [idleCb EXCEPT ![p] = c] /\ running' = running
    BY <1>4 DEF AddIdle
  <2>5. ASSUME NEW d \in IdleCbs
        PROVE  Installed(d)' = IF d = c THEN Installed(d) + 1 ELSE Installed(d)
    <3>1. InBag(s, d)' = IF d = c THEN InBag(r, d) \cup {p} ELSE InBag(r, d)
      <4>1. Range(r) \subseteq IdleNodes
        BY <1>3, RingIs
      <4>2. \A m \in IdleNodes : idleCb'[m] = IF m = p THEN c ELSE idleCb[m]
        BY <1>1, <2>4 DEF IdleTypes
      <4> QED
        BY <2>1, <2>2, <4>1, <4>2 DEF InBag
    <3>2. p \notin InBag(r, d)
      BY <2>1 DEF InBag
    <3>3. Installed(d) = Cardinality(InBag(r, d)) /\ IsFiniteSet(InBag(r, d))
      BY <1>1, <1>3, BagIs
    <3>4. Installed(d)' = Cardinality(InBag(s, d)')
      BY <2>1, <2>3, BagIsNext
    <3>5. Cardinality(InBag(r, d) \cup {p}) = Cardinality(InBag(r, d)) + 1
      BY <3>2, <3>3, FS_AddElement
    <3> QED
      BY <3>1, <3>3, <3>4, <3>5
  <2>6. Bag' = [Bag EXCEPT ![c] = @ + 1]
    BY <2>5 DEF Bag
  <2>7. Service!Install(c)
    BY <2>4, <2>6 DEF Service!Install, Bag
  <2> QED
    BY <2>1, <2>2, <2>7 DEF IdleInv, Service!Next
<1>5. ASSUME NEW c \in IdleCbs, RemoveIdle(c)
      PROVE  IdleInv' /\ Service!Next
  <2>1. IdleTypes'
    BY <1>1, <1>2, <1>5, RemovesIdle
  <2>p. PICK p \in Range(r) :
           idleCb[p] = c /\ \E s, g : Rings(s, g)' /\ Range(s) = Range(r) \ {p}
    BY <1>1, <1>2, <1>5, RemovesIdle
  <2>2. PICK s, g : Rings(s, g)' /\ Range(s) = Range(r) \ {p}
    BY <2>p
  <2>3. RingOf(s)'
    BY <2>2 DEF Rings
  <2>4. idleCb' = idleCb /\ running' = running
    BY <1>5 DEF RemoveIdle
  <2>5. ASSUME NEW d \in IdleCbs
        PROVE  /\ Installed(d)' = IF d = c THEN Installed(d) - 1 ELSE Installed(d)
               /\ d = c => Installed(d) > 0
    <3>1. InBag(s, d)' = IF d = c THEN InBag(r, d) \ {p} ELSE InBag(r, d)
      BY <2>2, <2>4, <2>p DEF InBag
    <3>2. d = c => p \in InBag(r, d)
      BY <2>p DEF InBag
    <3>3. Installed(d) = Cardinality(InBag(r, d)) /\ IsFiniteSet(InBag(r, d)) /\ Installed(d) \in Nat
      BY <1>1, <1>3, BagIs
    <3>4. Installed(d)' = Cardinality(InBag(s, d)')
      BY <2>1, <2>3, BagIsNext
    <3>5. d = c => Cardinality(InBag(r, d) \ {p}) = Cardinality(InBag(r, d)) - 1
      BY <3>2, <3>3, FS_RemoveElement
    <3>6. d = c => Cardinality(InBag(r, d)) # 0
      BY <3>2, <3>3, FS_EmptySet
    <3> QED
      BY <3>1, <3>3, <3>4, <3>5, <3>6
  <2>6. Bag' = [Bag EXCEPT ![c] = @ - 1] /\ Bag[c] > 0
    BY <2>5 DEF Bag
  <2>7. Service!Uninstall(c)
    BY <2>4, <2>6 DEF Service!Uninstall, Bag
  <2> QED
    BY <2>1, <2>2, <2>7 DEF IdleInv, Service!Next
<1>6. CASE CallIdle
  <2>1. IdleTypes' /\ first \in Range(r) /\ idleCb[first] \in IdleCbs
    BY <1>1, <1>2, <1>6, CallsIdle
  <2>2. PICK s : Rings(s, f)' /\ Range(s) = Range(r)
    BY <1>1, <1>2, <1>6, CallsIdle
  <2>3. RingOf(s)'
    BY <2>2 DEF Rings
  <2>4. idleCb' = idleCb /\ ~inIdle /\ running' = idleCb[first]
    BY <1>6 DEF CallIdle
  <2>5. ASSUME NEW d \in IdleCbs
        PROVE  /\ Installed(d)' = Installed(d)
               /\ d = idleCb[first] => Installed(d) > 0
    <3>1. InBag(s, d)' = InBag(r, d) /\ (d = idleCb[first] => first \in InBag(r, d))
      BY <2>1, <2>2, <2>4 DEF InBag
    <3>2. Installed(d) = Cardinality(InBag(r, d)) /\ IsFiniteSet(InBag(r, d)) /\ Installed(d) \in Nat
      BY <1>1, <1>3, BagIs
    <3>3. Installed(d)' = Cardinality(InBag(s, d)')
      BY <2>1, <2>3, BagIsNext
    <3>4. d = idleCb[first] => Cardinality(InBag(r, d)) # 0
      BY <3>1, <3>2, FS_EmptySet
    <3> QED
      BY <3>1, <3>2, <3>3, <3>4
  <2>6. Bag' = Bag /\ Bag[idleCb[first]] > 0
    BY <2>1, <2>5 DEF Bag
  <2>7. running = Nil
    BY <1>1, <2>4 DEF IdleTypes
  <2>8. Service!Call(idleCb[first])
    BY <2>4, <2>6, <2>7 DEF Service!Call, Bag
  <2> QED
    BY <2>1, <2>2, <2>8 DEF IdleInv, Service!Next
<1>7. CASE CallbackReturns
  <2>1. /\ inIdle /\ inIdle' = FALSE /\ running' = Nil
        /\ UNCHANGED <<first, last, freelist, link, idleCb, idle>>
    BY <1>7 DEF CallbackReturns
  <2>2. IdleTypes'
    BY <1>1, <2>1 DEF IdleTypes
  <2>3. Rings(r, f)'
    BY <1>2, <2>1 DEF Rings, RingOf, FreeOf
  <2>4. Bag' = Bag
    <3>1. ASSUME NEW d \in IdleCbs PROVE Installed(d)' = Installed(d)
      <4>1. Installed(d) = Cardinality(InBag(r, d))
        BY <1>1, <1>3, BagIs
      <4>2. Installed(d)' = Cardinality(InBag(r, d)')
        BY <2>2, <2>3, BagIsNext DEF Rings
      <4> QED
        BY <2>1, <4>1, <4>2 DEF InBag
    <3> QED
      BY <3>1 DEF Bag
  <2>5. Service!Return
    BY <1>1, <2>1, <2>4 DEF IdleTypes, Service!Return, Bag
  <2> QED
    BY <2>2, <2>3, <2>5 DEF IdleInv, Service!Next
<1> QED
  BY <1>4, <1>5, <1>6, <1>7 DEF IdleNext

\* A step that changes nothing is a stutter of the service.
LEMMA IdleStutters ==
    ASSUME IdleInv, UNCHANGED idleVars
    PROVE  IdleInv' /\ UNCHANGED <<Bag, running>>
<1>1. UNCHANGED <<first, last, freelist, link, idleCb, idle, inIdle, running>>
  BY DEF idleVars
<1>2. PICK r, f : Rings(r, f)
  BY DEF IdleInv
<1>3. IdleTypes /\ IdleTypes'
  BY <1>1 DEF IdleInv, IdleTypes
<1>4. RingOf(r) /\ RingOf(r)' /\ Rings(r, f)'
  BY <1>1, <1>2 DEF Rings, RingOf, FreeOf
<1>5. ASSUME NEW d \in IdleCbs PROVE Installed(d)' = Installed(d)
  <2>1. Installed(d) = Cardinality(InBag(r, d)) /\ Installed(d)' = Cardinality(InBag(r, d)')
    BY <1>3, <1>4, BagIs, BagIsNext
  <2> QED
    BY <1>1, <2>1 DEF InBag
<1> QED
  BY <1>1, <1>3, <1>4, <1>5 DEF IdleInv, Bag

\* The two lists of nodes are what IdleInv says, always.
THEOREM IdleInvariant == IdleSpec => []IdleInv
<1>1. IdleInv /\ [IdleNext]_idleVars => IdleInv'
  BY IdleStep, IdleStutters
<1> QED
  BY <1>1, IdleStarts, PTL DEF IdleSpec

\* The pointers make one ring, closed at last, whatever callbacks add and remove
\* and wherever they do it, and call_idle() is installed while it has something
\* to call.
THEOREM RingStaysOne == IdleSpec => []OneRing
<1>1. IdleInv => OneRing
  <2> SUFFICES ASSUME IdleInv PROVE OneRing
    OBVIOUS
  <2>1. IdleTypes
    BY DEF IdleInv
  <2>2. PICK r, f : Rings(r, f)
    BY DEF IdleInv
  <2>3. /\ RingSize = Len(r) /\ Len(r) <= Cardinality(IdleNodes)
        /\ \A i \in 1 .. Len(r) : Walk[i] = r[i]
        /\ RingNodes = Range(r)
    BY <2>1, <2>2, WalkIsRing DEF WalksRing, Rings
  <2>4. FreeNodes = Range(f)
    BY <2>1, <2>2, FreeIsList
  <2>5. /\ IsFiniteSet(Range(r)) /\ Cardinality(Range(r)) = Len(r)
        /\ Cardinality(IdleNodes) \in Nat /\ Len(r) \in Nat
    BY <2>2, InjectiveLength, IdleAssumption DEF Rings, RingOf
  <2>6. IsFiniteSet(Range(f))
    BY <2>2, InjectiveLength, IdleAssumption DEF Rings, FreeOf
  <2>7. /\ \A i \in 1 .. Len(r) : r[i] \in IdleNodes /\ link[r[i]] = r[IF i = Len(r) THEN 1 ELSE i + 1]
        /\ Len(r) > 0 => /\ first = r[1] /\ last = r[Len(r)] /\ first # Nil /\ Len(r) \in 1 .. Len(r)
        /\ Len(r) = 0 => first = Nil /\ last = Nil
        /\ Range(r) \subseteq IdleNodes
    BY <2>2, RingIs DEF Rings
  <2>8. (first = Nil) <=> (last = Nil)
    <3>1. Len(r) = 0 \/ Len(r) > 0
      BY <2>5
    <3> QED
      BY <2>7, <3>1, IdleAssumption
  <2>9. ASSUME first # Nil
        PROVE  /\ \E i \in 1 .. Cardinality(IdleNodes) : Walk[i] = last
               /\ link[last] = first
    <3>1. Len(r) > 0
      BY <2>5, <2>7, <2>9
    <3>2. Len(r) \in 1 .. Cardinality(IdleNodes)
      BY <2>3, <2>5, <3>1
    <3>3. Walk[Len(r)] = last /\ link[last] = first
      BY <2>3, <2>7, <3>1
    <3> QED
      BY <3>2, <3>3
  <2>10. Range(r) \cap Range(f) = {} /\ Range(r) \cup Range(f) = {n \in IdleNodes : idleCb[n] # Nil}
    <3>1. Range(f) \subseteq IdleNodes
      BY <2>2, FreeIs DEF Rings
    <3> QED
      BY <2>2, <2>7, <3>1 DEF Rings
  <2>11. Cardinality(Range(r)) + Cardinality(Range(f)) = Cardinality({n \in IdleNodes : idleCb[n] # Nil})
    <3>1. Cardinality(Range(r) \cup Range(f)) = Cardinality(Range(r)) + Cardinality(Range(f)) - Cardinality({})
      BY <2>5, <2>6, <2>10, FS_Union
    <3>2. Cardinality({}) = 0 /\ Cardinality(Range(r)) \in Nat /\ Cardinality(Range(f)) \in Nat
      BY <2>5, <2>6, FS_EmptySet, FS_CardinalityType
    <3>3. Cardinality(Range(r) \cup Range(f)) = Cardinality(Range(r)) + Cardinality(Range(f))
      BY <3>1, <3>2
    <3> QED
      BY <2>10, <3>3
  <2>12. /\ {first, last, freelist} \subseteq IdleNodes \cup {Nil}
         /\ link \in [IdleNodes -> IdleNodes \cup {Nil}] /\ idleCb \in [IdleNodes -> IdleCbs \cup {Nil}]
         /\ idle <=> first # Nil
    BY <2>1 DEF IdleTypes
  <2> QED
    BY <2>3, <2>4, <2>5, <2>8, <2>9, <2>10, <2>11, <2>12 DEF OneRing
<1> QED
  BY <1>1, IdleInvariant, PTL

\* The ring is a bag of callbacks, one called at a time and never inside another:
\* every function of Fl_add_idle.cxx does one step of IdleService.
THEOREM IdleIsService == IdleSpec => Implements
<1>1. IdleInit => Service!Init
  <2> SUFFICES ASSUME IdleInit PROVE Service!Init
    OBVIOUS
  <2>1. first = Nil /\ running = Nil
    BY DEF IdleInit
  <2>2. RingNodes = {}
    BY <2>1 DEF RingNodes, RingSize
  <2>3. \A c : Installed(c) = 0
    BY <2>2, FS_EmptySet DEF Installed
  <2> QED
    BY <2>1, <2>3 DEF Service!Init
<1>2. IdleInv /\ [IdleNext]_idleVars => [Service!Next]_<<Bag, running>>
  BY IdleStep, IdleStutters
<1>3. IdleInv /\ [IdleNext]_idleVars => [Service!Next]_<<[c \in IdleCbs |-> Installed(c)], running>>
  BY <1>2 DEF Bag
<1> QED
  BY <1>1, <1>3, IdleInvariant, PTL DEF IdleSpec, Implements, Service!Spec
=============================================================================
