---------------------------- MODULE LuaGC_proofs -----------------------------
(***************************************************************************)
(* The collector frees nothing that can be reached, and a full collection  *)
(* leaves nothing that cannot, for any number of objects and however the   *)
(* script and the collector alternate.                                     *)
(***************************************************************************)
EXTENDS LuaGC, Lists_proofs, FiniteSetTheorems, TLAPS

Nodes == {Main} \cup AllTables   \* what can be gray

Alloc == {o \in Objects : Allocated(o)}
Live == {o \in Objects : marked[o] \notin {"free", "other"}}

HeapOK ==
    /\ marked \in [Objects -> {"white", "other", "gray", "black", "free"}]
    /\ ref \in [Objects -> SUBSET Objects] /\ env \in [Udata -> StrongTables]
    /\ \A o \in Udata \cup Strings : ref[o] = {}
    /\ \A o \in Objects : marked[o] = "free" => ref[o] = {} /\ (o \in Udata => env[o] = Registry)
    /\ WeakTable \in ref[Registry]
    /\ udlist \in Seq(Udata) /\ tmudata \in Seq(Udata)

\* Which colours there are for what.
ColoursOK ==
    /\ \A u \in Udata : marked[u] # "gray"
    /\ \A o \in Strings \cup {Main, WeakTable} : marked[o] # "black"

\* What is neither freed nor found dead leads to nothing that is.
LiveClosed ==
    /\ Fixed \cup Pending \subseteq Live
    /\ \A o \in Live : Strong(o) \subseteq Live
    /\ ref[WeakTable] \subseteq Live

ListsOK ==
    /\ gray \cap grayagain = {} /\ gray \cap weak = {} /\ grayagain \cap weak = {}
    /\ gray \cup grayagain \cup weak \subseteq Objects
    /\ \A o \in gray \cup grayagain \cup weak : marked[o] # "black"

\* Outside of marking all but what is still to be swept is white.
SweptOK ==
    /\ gcstate # "propagate" =>
          \A o \in Objects \ (unswept \cup Pending) : marked[o] \in {"free", "white"}
    /\ gcstate \notin {"sweepstring", "sweep"} => unswept = {}
    /\ unswept \subseteq Alloc

-----------------------------------------------------------------------------
(* Marking, of the allocated objects A *)

MarksType == [white : SUBSET Objects, black : SUBSET Objects, gray : SUBSET Objects,
              grayagain : SUBSET Objects, weak : SUBSET Objects]

\* A node is white, black or on one of the lists, a userdata white or black.
RecOK(s, A) ==
    /\ s \in MarksType
    /\ s.white \cup s.black \cup s.gray \cup s.grayagain \cup s.weak \subseteq A
    /\ s.white \cap (s.black \cup s.gray \cup s.grayagain \cup s.weak) = {}
    /\ s.black \cap (s.gray \cup s.grayagain \cup s.weak) = {}
    /\ s.gray \cap s.grayagain = {} /\ s.gray \cap s.weak = {} /\ s.grayagain \cap s.weak = {}
    /\ s.gray \cup s.grayagain \subseteq Nodes /\ s.weak \subseteq {WeakTable}
    /\ s.black \cap (Strings \cup {Main, WeakTable}) = {}
    /\ A \cap Nodes \subseteq s.white \cup s.black \cup s.gray \cup s.grayagain \cup s.weak
    /\ A \cap Udata \subseteq s.white \cup s.black

\* No black object refers to a white one, those of X excepted.
Tri(s, X) == \A o \in s.black \ X : Strong(o) \cap s.white = {}

\* What the stack refers to is marked, if the main thread has been visited.
MainDone(s) == Main \in s.grayagain => (ref[Main] \cup {Registry}) \cap s.white = {}

StrongClosed(W) == \A o \in W : Strong(o) \subseteq W

\* What marking keeps on the way from s to t.
Carries(s, t, A) ==
    /\ RecOK(t, A)
    /\ t.white \subseteq s.white /\ s.black \subseteq t.black
    /\ Main \in s.gray \cup s.grayagain => Main \in t.gray \cup t.grayagain
    /\ t.grayagain \subseteq s.grayagain \cup {Main}
    /\ MainDone(s) => MainDone(t)
    /\ \A X \in SUBSET Objects : Tri(s, X) => Tri(t, X)
    /\ \A W \in SUBSET Objects :
          StrongClosed(W) /\ {Main, Registry} \subseteq W /\ A \ s.white \subseteq W => A \ t.white \subseteq W

\* During marking.
MarkingOK ==
    gcstate = "propagate" =>
      /\ \A o \in Objects : marked[o] # "other"
      /\ RecOK(Marks, Alloc)
      /\ Tri(Marks, Pending)
      /\ Main \in gray \cup grayagain
      /\ Registry \notin Marks.white

GCInv ==
    /\ HeapOK
    /\ ColoursOK
    /\ LiveClosed
    /\ ListsOK
    /\ SweptOK
    /\ MarkingOK

-----------------------------------------------------------------------------
(* Marking *)

\* The kinds of object are apart, and the fixed objects are tables or the main
\* thread.
LEMMA ObjectsApart ==
    /\ Nodes \subseteq Objects /\ Udata \subseteq Objects /\ Strings \subseteq Objects
    /\ Objects = Nodes \cup Udata \cup Strings
    /\ Nodes \cap Udata = {} /\ Nodes \cap Strings = {} /\ Udata \cap Strings = {}
    /\ {Main, Registry, WeakTable} \subseteq Nodes /\ StrongTables \subseteq Nodes
    /\ Main \notin StrongTables /\ WeakTable \notin StrongTables /\ Main # WeakTable
    /\ Nodes = StrongTables \cup {Main, WeakTable} /\ Registry \in StrongTables
BY HeapAssumption DEF Nodes, AllTables, StrongTables, Objects, Fixed

\* The heap is finite.
LEMMA ObjectsFinite == IsFiniteSet(Objects)
<1>1. IsFiniteSet({Main}) /\ IsFiniteSet({Registry}) /\ IsFiniteSet({WeakTable})
  BY FS_Singleton
<1>2. IsFiniteSet({Main} \cup {Registry})
  BY <1>1, FS_Union
<1>3. IsFiniteSet(({Main} \cup {Registry}) \cup {WeakTable})
  BY <1>1, <1>2, FS_Union
<1>4. Fixed = ({Main} \cup {Registry}) \cup {WeakTable}
  BY DEF Fixed
<1>5. IsFiniteSet(Fixed)
  BY <1>3, <1>4
<1>6. IsFiniteSet(Tables) /\ IsFiniteSet(Udata) /\ IsFiniteSet(Strings)
  BY HeapAssumption
<1>7. IsFiniteSet(Fixed \cup Tables)
  BY <1>5, <1>6, FS_Union
<1>8. IsFiniteSet(Fixed \cup Tables \cup Udata)
  BY <1>6, <1>7, FS_Union
<1>9. IsFiniteSet(Fixed \cup Tables \cup Udata \cup Strings)
  BY <1>6, <1>8, FS_Union
<1> QED
  BY <1>9 DEF Objects

\* The objects A that are marked, and the references between them.
Heap(A) ==
    /\ ref \in [Objects -> SUBSET Objects] /\ env \in [Udata -> StrongTables]
    /\ \A o \in Udata \cup Strings : ref[o] = {}
    /\ A \subseteq Objects /\ {Main, Registry} \subseteq A
    /\ \A o \in A : Strong(o) \subseteq A

\* Which references of each kind of object keep others alive.
LEMMA StrongIs ==
    /\ \A u \in Udata : ref[u] = {} => Strong(u) = {env[u]}
    /\ \A o \in Nodes : o # WeakTable => Strong(o) = ref[o]
    /\ \A o \in Strings : Strong(o) = ref[o]
    /\ Strong(WeakTable) = ref[WeakTable] \cap Strings
BY ObjectsApart DEF Strong

\* The userdata of S that are marked, and all that is.
UdataIn(s, S) == S \cap s.white \cap Udata
MarkedIn(s, S) == (S \cup {env[u] : u \in UdataIn(s, S)}) \cap s.white

\* reallymarkobject blackens userdata, with their environments, and makes
\* tables and the thread gray; nothing else changes.
LEMMA MarkObjectsIs ==
    ASSUME NEW s \in MarksType, NEW S \in SUBSET Objects
    PROVE  /\ MarkObjects(s, S) \in MarksType
           /\ MarkObjects(s, S).white = s.white \ MarkedIn(s, S)
           /\ MarkObjects(s, S).black = s.black \cup UdataIn(s, S)
           /\ MarkObjects(s, S).gray = s.gray \cup (MarkedIn(s, S) \ (Udata \cup Strings))
           /\ MarkObjects(s, S).grayagain = s.grayagain
           /\ MarkObjects(s, S).weak = s.weak
<1> DEFINE us == UdataIn(s, S)
           all == MarkedIn(s, S)
<1>1. MarkObjects(s, S) = [s EXCEPT !.white = @ \ all, !.black = @ \cup us,
                                    !.gray = @ \cup (all \ (Udata \cup Strings))]
  BY DEF MarkObjects, UdataIn, MarkedIn
<1>2. us \subseteq Objects /\ all \subseteq Objects
  BY ObjectsApart DEF MarksType, UdataIn, MarkedIn
<1> DEFINE w == s.white \ all
           b == s.black \cup us
           g == s.gray \cup (all \ (Udata \cup Strings))
<1>3. w \subseteq Objects /\ b \subseteq Objects /\ g \subseteq Objects
  BY <1>2 DEF MarksType
<1>4. MarkObjects(s, S) = [s EXCEPT !.white = w, !.black = b, !.gray = g]
  BY <1>1 DEF MarksType
<1> HIDE DEF w, b, g
<1>5. /\ MarkObjects(s, S) \in MarksType
      /\ MarkObjects(s, S).white = w /\ MarkObjects(s, S).black = b /\ MarkObjects(s, S).gray = g
      /\ MarkObjects(s, S).grayagain = s.grayagain /\ MarkObjects(s, S).weak = s.weak
  BY <1>3, <1>4 DEF MarksType
<1> QED
  BY <1>5 DEF w, b, g

\* reallymarkobject keeps the marks in order.
LEMMA MarkObjectsKeeps ==
    ASSUME NEW A, Heap(A), NEW s, RecOK(s, A), NEW S \in SUBSET A
    PROVE  /\ RecOK(MarkObjects(s, S), A)
           /\ MarkObjects(s, S).white \subseteq s.white /\ S \cap MarkObjects(s, S).white = {}
           /\ s.black \subseteq MarkObjects(s, S).black /\ s.gray \subseteq MarkObjects(s, S).gray
           /\ MarkObjects(s, S).grayagain = s.grayagain /\ MarkObjects(s, S).weak = s.weak
           /\ \A X \in SUBSET Objects : Tri(s, X) => Tri(MarkObjects(s, S), X)
           /\ \A W \in SUBSET Objects : StrongClosed(W) /\ A \ s.white \subseteq W /\ S \subseteq W
                                           => A \ MarkObjects(s, S).white \subseteq W
           /\ S \cap Nodes \cap s.white \subseteq MarkObjects(s, S).gray
           /\ S \subseteq Strings => MarkObjects(s, S).gray = s.gray /\ MarkObjects(s, S).black = s.black
<1> DEFINE us == UdataIn(s, S)
           all == MarkedIn(s, S)
           t == MarkObjects(s, S)
<1>0. s \in MarksType /\ S \subseteq Objects /\ env \in [Udata -> StrongTables] /\ A \subseteq Objects
  BY DEF RecOK, Heap
<1>1. /\ t \in MarksType /\ t.white = s.white \ all /\ t.black = s.black \cup us
      /\ t.gray = s.gray \cup (all \ (Udata \cup Strings)) /\ t.grayagain = s.grayagain /\ t.weak = s.weak
  BY <1>0, MarkObjectsIs
<1>2. \A u \in us : env[u] \in Nodes /\ env[u] \in StrongTables /\ u \in Udata /\ Strong(u) = {env[u]}
  BY <1>0, ObjectsApart, StrongIs DEF Heap, UdataIn
<1>3. us \subseteq all /\ all \subseteq s.white /\ us \subseteq Udata /\ all \cap Udata = us /\ S \cap s.white \subseteq all
  BY <1>2, ObjectsApart DEF UdataIn, MarkedIn
<1>4. \A u \in us : env[u] \notin s.white \ all
  BY DEF MarkedIn
<1> HIDE DEF us, all, t
<1>5. RecOK(t, A)
  <2>1. all \ (Udata \cup Strings) \subseteq Nodes
    BY <1>0, <1>3, ObjectsApart DEF MarksType
  <2>2. t.white \cup t.black \cup t.gray \cup t.grayagain \cup t.weak \subseteq A
    BY <1>1, <1>3 DEF RecOK
  <2>3. t.white \cap (t.black \cup t.gray \cup t.grayagain \cup t.weak) = {}
    BY <1>1, <1>3 DEF RecOK
  <2>4. t.black \cap (t.gray \cup t.grayagain \cup t.weak) = {}
    BY <1>1, <1>3, ObjectsApart DEF RecOK
  <2>5. t.gray \cap t.grayagain = {} /\ t.gray \cap t.weak = {} /\ t.grayagain \cap t.weak = {}
    BY <1>1, <1>3 DEF RecOK
  <2>6. t.gray \cup t.grayagain \subseteq Nodes /\ t.weak \subseteq {WeakTable}
    BY <1>1, <2>1 DEF RecOK
  <2>7. t.black \cap (Strings \cup {Main, WeakTable}) = {}
    BY <1>1, <1>3, ObjectsApart DEF RecOK
  <2>8. A \cap Nodes \subseteq t.white \cup t.black \cup t.gray \cup t.grayagain \cup t.weak
    BY <1>1, <1>3, ObjectsApart DEF RecOK
  <2>9. A \cap Udata \subseteq t.white \cup t.black
    BY <1>1, <1>3 DEF RecOK
  <2> QED
    BY <1>1, <2>2, <2>3, <2>4, <2>5, <2>6, <2>7, <2>8, <2>9 DEF RecOK
<1>6. \A X \in SUBSET Objects : Tri(s, X) => Tri(t, X)
  BY <1>1, <1>2, <1>4 DEF Tri
<1>7. \A W \in SUBSET Objects : StrongClosed(W) /\ A \ s.white \subseteq W /\ S \subseteq W
                                           => A \ t.white \subseteq W
  <2> SUFFICES ASSUME NEW W \in SUBSET Objects, StrongClosed(W), A \ s.white \subseteq W, S \subseteq W
               PROVE  all \subseteq W
    BY <1>1
  <2>1. \A u \in us : env[u] \in W
    BY <1>2 DEF us, UdataIn, StrongClosed
  <2> QED
    BY <2>1 DEF all, MarkedIn, us
<1>8. S \cap Nodes \cap s.white \subseteq t.gray
  BY <1>1, <1>3, ObjectsApart
<1>9. S \subseteq Strings => t.gray = s.gray /\ t.black = s.black
  <2> SUFFICES ASSUME S \subseteq Strings PROVE t.gray = s.gray /\ t.black = s.black
    OBVIOUS
  <2>1. us = {}
    BY ObjectsApart DEF us, UdataIn
  <2>2. all \subseteq Strings
    BY <2>1 DEF all, MarkedIn, us
  <2> QED
    BY <1>1, <2>1, <2>2
<1> QED
  BY <1>1, <1>3, <1>5, <1>6, <1>7, <1>8, <1>9 DEF t

\* What propagatemark has visited.
Visited(s) == s.black \cup s.grayagain \cup s.weak

\* Carries is reflexive ...
LEMMA CarriesSelf ==
    ASSUME NEW A, NEW s, RecOK(s, A)
    PROVE  Carries(s, s, A)
BY DEF Carries

\* ... and transitive.
LEMMA CarriesOn ==
    ASSUME NEW A, NEW s, NEW t, NEW u, Carries(s, t, A), Carries(t, u, A)
    PROVE  Carries(s, u, A)
<1>1. \A X \in SUBSET Objects : Tri(s, X) => Tri(u, X)
  BY DEF Carries
<1>2. \A W \in SUBSET Objects :
         StrongClosed(W) /\ {Main, Registry} \subseteq W /\ A \ s.white \subseteq W => A \ u.white \subseteq W
  BY DEF Carries
<1> QED
  BY <1>1, <1>2 DEF Carries

\* One object leaves gray.
LEMMA PropagateMarkKeeps ==
    ASSUME NEW A, Heap(A), NEW s, RecOK(s, A), NEW o \in s.gray
    PROVE  /\ Carries(s, PropagateMark(s, o), A)
           /\ o \notin Visited(s) /\ Visited(s) \cup {o} \subseteq Visited(PropagateMark(s, o))
<1> DEFINE t == [s EXCEPT !.gray = @ \ {o}]
           r == PropagateMark(s, o)
<1>0. s \in MarksType /\ o \in Nodes /\ o \in A /\ A \subseteq Objects /\ Registry \in A /\ Main \in A
  BY DEF RecOK, Heap
<1>1. o \notin Visited(s) /\ o \notin s.white
  BY DEF RecOK, Visited
<1>2. CASE o = Main
  <2> DEFINE v == [t EXCEPT !.grayagain = @ \cup {o}]
             S == ref[o] \cup {Registry}
  <2>1. r = MarkObjects(v, S)
    BY <1>2 DEF PropagateMark
  <2>2. v \in MarksType /\ v.white = s.white /\ v.black = s.black /\ v.gray = s.gray \ {o}
        /\ v.grayagain = s.grayagain \cup {o} /\ v.weak = s.weak
    BY <1>0, ObjectsApart DEF MarksType
  <2>3. S \subseteq A
    <3>1. Strong(o) = ref[o]
      BY <1>2, ObjectsApart, StrongIs
    <3> QED
      BY <1>0, <3>1 DEF Heap
  <2> HIDE DEF v, S, r, t
  <2>4. RecOK(v, A)
    BY <1>0, <1>1, <2>2 DEF RecOK, Visited
  <2>5. /\ RecOK(r, A) /\ r.white \subseteq v.white /\ S \cap r.white = {}
        /\ v.black \subseteq r.black /\ v.gray \subseteq r.gray
        /\ r.grayagain = v.grayagain /\ r.weak = v.weak
        /\ \A X \in SUBSET Objects : Tri(v, X) => Tri(r, X)
        /\ \A W \in SUBSET Objects : StrongClosed(W) /\ A \ v.white \subseteq W /\ S \subseteq W
                                        => A \ r.white \subseteq W
    BY <2>1, <2>3, <2>4, MarkObjectsKeeps
  <2>6. \A X \in SUBSET Objects : Tri(s, X) => Tri(r, X)
    BY <2>2, <2>5 DEF Tri
  <2>7. \A W \in SUBSET Objects :
           StrongClosed(W) /\ {Main, Registry} \subseteq W /\ A \ s.white \subseteq W => A \ r.white \subseteq W
    <3> SUFFICES ASSUME NEW W \in SUBSET Objects, StrongClosed(W), {Main, Registry} \subseteq W,
                        A \ s.white \subseteq W
                 PROVE  A \ r.white \subseteq W
      OBVIOUS
    <3>1. Strong(Main) = ref[Main]
      BY ObjectsApart, StrongIs
    <3>2. S \subseteq W
      BY <1>2, <3>1 DEF StrongClosed, S
    <3> QED
      BY <2>2, <2>5, <3>2
  <2>8. MainDone(r)
    BY <1>2, <2>5 DEF MainDone, S
  <2>9. Carries(s, r, A)
    BY <1>2, <2>2, <2>5, <2>6, <2>7, <2>8 DEF Carries
  <2>10. Visited(s) \cup {o} \subseteq Visited(r)
    BY <2>2, <2>5 DEF Visited
  <2> QED
    BY <1>1, <2>9, <2>10 DEF r
<1>3. CASE o = WeakTable
  <2>1. r = [t EXCEPT !.weak = @ \cup {o}]
    BY <1>3, ObjectsApart DEF PropagateMark, TraverseTable
  <2>0. o \in Objects
    BY <1>0
  <2>2. r \in MarksType /\ r.white = s.white /\ r.black = s.black /\ r.gray = s.gray \ {o}
        /\ r.grayagain = s.grayagain /\ r.weak = s.weak \cup {o}
    <3>1. t \in MarksType /\ t.white = s.white /\ t.black = s.black /\ t.gray = s.gray \ {o}
          /\ t.grayagain = s.grayagain /\ t.weak = s.weak
      BY <1>0 DEF MarksType
    <3> DEFINE w == t.weak \cup {o}
    <3>2. w \in SUBSET Objects /\ r = [t EXCEPT !.weak = w]
      <4>1. w \in SUBSET Objects
        BY <2>0, <3>1 DEF MarksType
      <4> QED
        BY <2>1, <4>1
    <3> HIDE DEF r, t, w
    <3>3. r \in MarksType /\ r.white = t.white /\ r.black = t.black /\ r.gray = t.gray
          /\ r.grayagain = t.grayagain /\ r.weak = w
      BY <3>1, <3>2 DEF MarksType
    <3> QED
      BY <3>1, <3>3 DEF w
  <2> HIDE DEF r, t
  <2>3. RecOK(r, A)
    BY <1>0, <1>1, <1>3, <2>2 DEF RecOK, Visited
  <2>4. Carries(s, r, A)
    <3>1. MainDone(s) => MainDone(r)
      BY <2>2 DEF MainDone
    <3>2. \A X \in SUBSET Objects : Tri(s, X) => Tri(r, X)
      BY <2>2 DEF Tri
    <3> QED
      BY <1>3, <2>2, <2>3, <3>1, <3>2, ObjectsApart DEF Carries
  <2>5. Visited(s) \cup {o} \subseteq Visited(r)
    BY <2>2 DEF Visited
  <2> QED
    BY <1>1, <2>4, <2>5 DEF r
<1>4. CASE o # Main /\ o # WeakTable
  <2> DEFINE v == [t EXCEPT !.black = @ \cup {o}]
             S == ref[o]
  <2>1. r = MarkObjects(v, S)
    BY <1>4 DEF PropagateMark, TraverseTable
  <2>2. v \in MarksType /\ v.white = s.white /\ v.black = s.black \cup {o} /\ v.gray = s.gray \ {o}
        /\ v.grayagain = s.grayagain /\ v.weak = s.weak
    BY <1>0, ObjectsApart DEF MarksType
  <2>3. Strong(o) = S /\ S \subseteq A
    <3>1. Strong(o) = ref[o]
      BY <1>0, <1>4, StrongIs
    <3> QED
      BY <1>0, <3>1 DEF Heap
  <2> HIDE DEF v, S, r, t
  <2>4. RecOK(v, A)
    BY <1>0, <1>1, <1>4, <2>2, ObjectsApart DEF RecOK, Visited
  <2>5. /\ RecOK(r, A) /\ r.white \subseteq v.white /\ S \cap r.white = {}
        /\ v.black \subseteq r.black /\ v.gray \subseteq r.gray
        /\ r.grayagain = v.grayagain /\ r.weak = v.weak
        /\ \A X \in SUBSET Objects : Tri(v, X) => Tri(r, X)
        /\ \A W \in SUBSET Objects : StrongClosed(W) /\ A \ v.white \subseteq W /\ S \subseteq W
                                        => A \ r.white \subseteq W
    BY <2>1, <2>3, <2>4, MarkObjectsKeeps
  <2>6. ASSUME NEW X \in SUBSET Objects, Tri(s, X)
        PROVE  Tri(r, X)
    <3> DEFINE Y == X \cup {o}
    <3>1. Tri(v, Y) /\ Y \in SUBSET Objects
      BY <1>0, <2>2, <2>6 DEF Tri
    <3> HIDE DEF Y
    <3>2. Tri(r, Y)
      BY <2>5, <3>1
    <3> QED
      BY <2>3, <2>5, <3>2 DEF Tri, Y
  <2>7. \A W \in SUBSET Objects :
           StrongClosed(W) /\ {Main, Registry} \subseteq W /\ A \ s.white \subseteq W => A \ r.white \subseteq W
    <3> SUFFICES ASSUME NEW W \in SUBSET Objects, StrongClosed(W), A \ s.white \subseteq W
                 PROVE  A \ r.white \subseteq W
      OBVIOUS
    <3>1. S \subseteq W
      BY <1>0, <1>1, <2>3 DEF StrongClosed
    <3> QED
      BY <2>2, <2>5, <3>1
  <2>8. MainDone(s) => MainDone(r)
    BY <2>2, <2>5 DEF MainDone
  <2>9. Carries(s, r, A)
    BY <1>4, <2>2, <2>5, <2>6, <2>7, <2>8 DEF Carries
  <2>10. Visited(s) \cup {o} \subseteq Visited(r)
    BY <2>2, <2>5 DEF Visited
  <2> QED
    BY <1>1, <2>9, <2>10 DEF r
<1> QED
  BY <1>2, <1>3, <1>4

\* propagatemark keeps the record of marks in order and visits one object more,
\* as long as there are gray ones.
LEMMA PropagateNextKeeps ==
    ASSUME NEW A, Heap(A), NEW s, RecOK(s, A)
    PROVE  /\ Carries(s, PropagateNext(s), A)
           /\ s.gray = {} => PropagateNext(s) = s
           /\ s.gray # {} => \E o \in Objects : /\ o \notin Visited(s)
                                                /\ Visited(s) \cup {o} \subseteq Visited(PropagateNext(s))
<1>1. CASE s.gray = {}
  BY <1>1, CarriesSelf DEF PropagateNext
<1>2. CASE s.gray # {}
  <2> DEFINE o == CHOOSE o \in s.gray : TRUE
  <2>1. o \in s.gray
    BY <1>2
  <2>2. PropagateNext(s) = PropagateMark(s, o)
    BY <1>2 DEF PropagateNext
  <2> HIDE DEF o
  <2>3. o \in Objects
    BY <2>1, ObjectsApart DEF RecOK
  <2> QED
    BY <1>2, <2>1, <2>2, <2>3, PropagateMarkKeeps
<1> QED
  BY <1>1, <1>2

\* propagateall, step by step.
LEMMA PropagateRun ==
    ASSUME NEW s
    PROVE  \E f : /\ f = [n \in 0 .. Cardinality(Objects) |-> IF n = 0 THEN s ELSE PropagateNext(f[n - 1])]
                  /\ PropagateAll(s) = f[Cardinality(Objects)]
<1> DEFINE Run(f, m) == f = [n \in 0 .. m |-> IF n = 0 THEN s ELSE PropagateNext(f[n - 1])]
           T == {m \in Nat : \E f : Run(f, m)}
<1>1. 0 \in T
  <2> DEFINE f == [n \in 0 .. 0 |-> s]
  <2>1. Run(f, 0)
    OBVIOUS
  <2> QED
    BY <2>1
<1>2. ASSUME NEW m \in T
      PROVE  m + 1 \in T
  <2>1. PICK f : Run(f, m)
    OBVIOUS
  <2> DEFINE e == PropagateNext(f[m])
             g == [i \in 0 .. m + 1 |-> IF i = m + 1 THEN e ELSE f[i]]
  <2>2. m \in Nat
    OBVIOUS
  <2>3. \A i \in 0 .. m : f[i] = IF i = 0 THEN s ELSE PropagateNext(f[i - 1])
    BY <2>1
  <2>4. g[m + 1] = e /\ (\A i \in 0 .. m : g[i] = f[i]) /\ g = [i \in 0 .. m + 1 |-> g[i]]
    BY <2>2
  <2> HIDE DEF g
  <2>5. ASSUME NEW i \in 0 .. m + 1
        PROVE  g[i] = IF i = 0 THEN s ELSE PropagateNext(g[i - 1])
    <3>1. CASE i = m + 1
      <4>1. i # 0 /\ i - 1 = m /\ m \in 0 .. m
        BY <2>2, <3>1
      <4> QED
        BY <2>4, <3>1, <4>1
    <3>2. CASE i # m + 1
      <4>1. i \in 0 .. m /\ (i # 0 => i - 1 \in 0 .. m)
        BY <2>2, <3>2
      <4> QED
        BY <2>3, <2>4, <4>1
    <3> QED
      BY <3>1, <3>2
  <2>6. Run(g, m + 1)
    BY <2>4, <2>5
  <2> QED
    BY <2>2, <2>6
<1>3. Cardinality(Objects) \in T
  <2>1. Cardinality(Objects) \in Nat
    BY ObjectsFinite, FS_CardinalityType
  <2> HIDE DEF T
  <2>2. T \in SUBSET Nat
    BY DEF T
  <2> QED
    BY <1>1, <1>2, <2>1, <2>2, AllNat
<1>4. \E f : Run(f, Cardinality(Objects))
  BY <1>3
<1>5. Run(CHOOSE f : Run(f, Cardinality(Objects)), Cardinality(Objects))
  BY <1>4
<1>6. PropagateAll(s) = (CHOOSE f : Run(f, Cardinality(Objects)))[Cardinality(Objects)]
  BY DEF PropagateAll
<1> QED
  BY <1>5, <1>6

\* propagateall leaves no gray object: each step visits one that was not
\* visited before.
LEMMA PropagateAllKeeps ==
    ASSUME NEW A, Heap(A), NEW s, RecOK(s, A)
    PROVE  Carries(s, PropagateAll(s), A) /\ PropagateAll(s).gray = {}
<1> DEFINE N == Cardinality(Objects)
<1>1. N \in Nat /\ IsFiniteSet(Objects)
  BY ObjectsFinite, FS_CardinalityType
<1>2. PICK f : /\ f = [n \in 0 .. N |-> IF n = 0 THEN s ELSE PropagateNext(f[n - 1])]
               /\ PropagateAll(s) = f[N]
  BY PropagateRun
<1> DEFINE T == {n \in Nat : n <= N => Carries(s, f[n], A) /\ (f[n].gray = {} \/ Cardinality(Visited(f[n])) >= n)}
<1> HIDE DEF N
<1>3. \A r : RecOK(r, A) => Visited(r) \subseteq Objects /\ IsFiniteSet(Visited(r)) /\ Cardinality(Visited(r)) \in Nat
  <2>1. \A r : RecOK(r, A) => Visited(r) \subseteq Objects
    BY DEF RecOK, Visited, MarksType
  <2> QED
    BY <1>1, <2>1, FS_Subset, FS_CardinalityType
<1>4. 0 \in T
  <2>1. f[0] = s
    BY <1>1, <1>2
  <2>2. Cardinality(Visited(s)) >= 0
    BY <1>3
  <2> QED
    BY <2>1, <2>2, CarriesSelf
<1>5. ASSUME NEW n \in T
      PROVE  n + 1 \in T
  <2> SUFFICES ASSUME n + 1 <= N
               PROVE  /\ Carries(s, f[n + 1], A)
                      /\ f[n + 1].gray = {} \/ Cardinality(Visited(f[n + 1])) >= n + 1
    OBVIOUS
  <2>1. n \in Nat /\ n <= N /\ n + 1 \in 0 .. N /\ n + 1 # 0 /\ (n + 1) - 1 = n
    BY <1>1
  <2> DEFINE p == f[n]
             q == f[n + 1]
  <2>2. Carries(s, p, A) /\ (p.gray = {} \/ Cardinality(Visited(p)) >= n)
    BY <2>1
  <2>3. q = PropagateNext(p)
    BY <1>2, <2>1
  <2> HIDE DEF p, q
  <2>4. RecOK(p, A)
    BY <2>2 DEF Carries
  <2>5. /\ Carries(p, q, A)
        /\ p.gray = {} => q = p
        /\ p.gray # {} => \E o \in Objects : o \notin Visited(p) /\ Visited(p) \cup {o} \subseteq Visited(q)
    BY <2>3, <2>4, PropagateNextKeeps
  <2>6. Carries(s, q, A) /\ RecOK(q, A)
    BY <2>2, <2>5, CarriesOn DEF Carries
  <2>7. ASSUME p.gray # {}
        PROVE  Cardinality(Visited(q)) >= n + 1
    <3>1. PICK o \in Objects : o \notin Visited(p) /\ Visited(p) \cup {o} \subseteq Visited(q)
      BY <2>5, <2>7
    <3>2. IsFiniteSet(Visited(p) \cup {o}) /\ Cardinality(Visited(p) \cup {o}) = Cardinality(Visited(p)) + 1
      BY <1>3, <2>4, <3>1, FS_AddElement
    <3>3. Cardinality(Visited(p) \cup {o}) <= Cardinality(Visited(q))
      BY <1>3, <2>6, <3>1, FS_Subset
    <3>4. Cardinality(Visited(p)) \in Nat /\ Cardinality(Visited(q)) \in Nat
      BY <1>3, <2>4, <2>6
    <3> QED
      BY <2>1, <2>2, <2>7, <3>2, <3>3, <3>4
  <2>8. q.gray = {} \/ Cardinality(Visited(q)) >= n + 1
    BY <2>5, <2>7
  <2> QED
    BY <2>6, <2>8 DEF q
<1>6. N \in T
  <2> HIDE DEF T
  <2>1. T \in SUBSET Nat
    BY DEF T
  <2> QED
    BY <1>1, <1>4, <1>5, <2>1, AllNat
<1> DEFINE r == f[N]
<1>7. Carries(s, r, A) /\ (r.gray = {} \/ Cardinality(Visited(r)) >= N) /\ PropagateAll(s) = r
  BY <1>1, <1>2, <1>6
<1> HIDE DEF r, T
<1>8. RecOK(r, A)
  BY <1>7 DEF Carries
<1>9. ASSUME Cardinality(Visited(r)) >= N
      PROVE  r.gray = {}
  <2>1. Visited(r) = Objects
    <3>1. Visited(r) \subseteq Objects /\ Cardinality(Visited(r)) <= Cardinality(Objects)
          /\ (Cardinality(Visited(r)) = Cardinality(Objects) => Visited(r) = Objects)
          /\ Cardinality(Visited(r)) \in Nat
      BY <1>1, <1>3, <1>8, FS_Subset
    <3> QED
      BY <1>1, <1>9, <3>1 DEF N
  <2>2. r.gray \cap Visited(r) = {} /\ r.gray \subseteq Objects
    BY <1>8 DEF RecOK, Visited, MarksType
  <2> QED
    BY <2>1, <2>2
<1> QED
  BY <1>7, <1>9

\* marktmu, when what is waiting already (P) is among what it marks.
LEMMA MarkTmuKeeps ==
    ASSUME NEW A, Heap(A), NEW s, RecOK(s, A), NEW tm, Range(tm) \subseteq Udata \cap A,
           NEW P \in SUBSET Objects, Tri(s, P), P \subseteq Range(tm)
    PROVE  /\ RecOK(MarkTmu(s, tm), A) /\ Tri(MarkTmu(s, tm), {})
           /\ MarkTmu(s, tm).white \subseteq s.white /\ Range(tm) \cap MarkTmu(s, tm).white = {}
           /\ MarkTmu(s, tm).grayagain = s.grayagain /\ MarkTmu(s, tm).weak = s.weak
           /\ \A W \in SUBSET Objects :
                 StrongClosed(W) /\ A \ s.white \subseteq W /\ Range(tm) \subseteq W
                    => A \ MarkTmu(s, tm).white \subseteq W
<1> DEFINE us == Range(tm)
           v == [s EXCEPT !.white = @ \cup us, !.black = @ \ us]
           t == MarkObjects(v, us)
<1>0. s \in MarksType /\ A \subseteq Objects /\ us \subseteq Udata /\ us \subseteq A /\ us \subseteq Objects
  BY ObjectsApart DEF RecOK, Heap
<1>1. t = MarkTmu(s, tm)
  BY DEF MarkTmu
<1> HIDE DEF us
<1>2. v \in MarksType /\ v.white = s.white \cup us /\ v.black = s.black \ us /\ v.gray = s.gray
      /\ v.grayagain = s.grayagain /\ v.weak = s.weak
  <2> DEFINE w == s.white \cup us
             b == s.black \ us
  <2>1. w \subseteq Objects /\ b \subseteq Objects
    BY <1>0 DEF MarksType
  <2>2. v = [s EXCEPT !.white = w, !.black = b]
    BY <1>0 DEF MarksType
  <2> HIDE DEF w, b, v
  <2>3. v \in MarksType /\ v.white = w /\ v.black = b /\ v.gray = s.gray
        /\ v.grayagain = s.grayagain /\ v.weak = s.weak
    BY <1>0, <2>1, <2>2 DEF MarksType
  <2> QED
    BY <2>3 DEF w, b
<1> HIDE DEF v
<1>3. RecOK(v, A)
  BY <1>0, <1>2, ObjectsApart DEF RecOK
<1>4. UdataIn(v, us) = us
  BY <1>0, <1>2 DEF UdataIn
<1>5. MarkedIn(v, us) = (us \cup {env[u] : u \in us}) \cap v.white
  BY <1>4 DEF MarkedIn
<1>6. /\ t \in MarksType
      /\ t.white = v.white \ MarkedIn(v, us)
      /\ t.black = v.black \cup UdataIn(v, us)
      /\ t.grayagain = v.grayagain /\ t.weak = v.weak
  BY <1>0, <1>2, MarkObjectsIs
<1>7. RecOK(t, A)
  BY <1>0, <1>3, MarkObjectsKeeps
<1> HIDE DEF t
<1> DEFINE es == {env[u] : u \in us}
<1>8. \A u \in us : Strong(u) = {env[u]} /\ env[u] \in es
  BY <1>0, ObjectsApart, StrongIs DEF Heap
<1> HIDE DEF es
<1>9. t.white = s.white \ (us \cup es) /\ t.black = s.black \cup us
  BY <1>2, <1>4, <1>5, <1>6 DEF es
<1>10. Tri(t, {})
  <2> SUFFICES ASSUME NEW o \in t.black
               PROVE  Strong(o) \cap t.white = {}
    BY DEF Tri
  <2>1. CASE o \in us
    BY <1>8, <1>9, <2>1
  <2>2. CASE o \notin us
    <3>1. o \in s.black \ P
      BY <1>9, <2>2 DEF us
    <3> QED
      BY <1>9, <3>1 DEF Tri
  <2> QED
    BY <2>1, <2>2
<1>11. ASSUME NEW W \in SUBSET Objects, StrongClosed(W), A \ s.white \subseteq W, us \subseteq W
       PROVE  A \ t.white \subseteq W
  <2>1. es \subseteq W
    BY <1>8, <1>11 DEF StrongClosed, es
  <2> QED
    BY <1>9, <1>11, <2>1
<1> QED
  BY <1>1, <1>2, <1>6, <1>7, <1>9, <1>10, <1>11 DEF us

-----------------------------------------------------------------------------
(* The marks in the middle of atomic() *)

A1 == PropagateAll([Marks EXCEPT !.gray = weak, !.weak = {}])
A2 == PropagateAll([A1 EXCEPT !.gray = A1.grayagain, !.grayagain = {}])
Sep == Separate(A2)
Waiting == tmudata \o Sep
Finalized == finalized \cup Range(Sep)
A3 == PropagateAll(MarkTmu(A2, Waiting))
Strs == IF WeakTable \in A3.weak THEN ref[WeakTable] \cap Strings ELSE {}
A4 == MarkObjects(A3, Strs)

AtomicSteps ==
    /\ Install(A4, "other")
    /\ tmudata' = Waiting /\ finalized' = Finalized
    /\ udlist' = Keep(udlist, Udata \ Range(Sep))
    /\ ref' = IF WeakTable \in A3.weak THEN [ref EXCEPT ![WeakTable] = Kept(A3, Finalized)] ELSE ref
    /\ unswept' = RootList(Waiting)

\* atomic() as a chain of records of marks.
LEMMA AtomicIs == Atomic => AtomicSteps
BY DEF Atomic, AtomicSteps, A1, A2, Sep, Waiting, Finalized, A3, Strs, A4

\* The marks between steps are a record of marks.
LEMMA MarksIs ==
    ASSUME HeapOK, ListsOK
    PROVE  /\ Marks \in MarksType
           /\ Marks.white = {o \in Objects : IsWhite(o)}
           /\ Marks.black = {o \in Objects : marked[o] = "black"}
           /\ Marks.gray = gray /\ Marks.grayagain = grayagain /\ Marks.weak = weak
BY DEF Marks, MarksType, ListsOK

\* While nothing is found dead, the live objects are the allocated ones, and
\* these refer to allocated ones only.
LEMMA HeapAlloc ==
    ASSUME HeapOK, LiveClosed, \A o \in Objects : marked[o] # "other"
    PROVE  Heap(Alloc) /\ Live = Alloc
<1>1. Live = Alloc
  BY DEF Live, Alloc, Allocated
<1>2. {Main, Registry} \subseteq Live
  BY DEF LiveClosed, Fixed
<1> QED
  BY <1>1, <1>2 DEF Heap, HeapOK, LiveClosed, Alloc

\* The marks at the end of atomic().
LEMMA AtomicMarks ==
    ASSUME GCInv, gcstate = "propagate", gray = {}
    PROVE  /\ Waiting \in Seq(Udata) /\ Range(Waiting) \subseteq Alloc /\ Pending \subseteq Range(Waiting)
           /\ Range(Waiting) = Pending \cup Range(Sep)
           /\ RecOK(A4, Alloc) /\ Tri(A4, {}) /\ A4.gray = {}
           /\ Main \in A4.grayagain /\ A4.grayagain \subseteq {Main} /\ (ref[Main] \cup {Registry}) \cap A4.white = {}
           /\ WeakTable \in A3.weak /\ WeakTable \in A4.weak
           /\ A4.white \subseteq A3.white /\ A4.white \subseteq A2.white /\ A3.white \subseteq A4.white \cup Strings
           /\ ref[WeakTable] \cap Strings \cap A4.white = {}
           /\ Range(Waiting) \cap A4.white = {}
           /\ \A W \in SUBSET Objects :
                 StrongClosed(W) /\ {Main, Registry} \subseteq W /\ Range(Waiting) \subseteq W
                    /\ Alloc \ Marks.white \subseteq W => Alloc \ A4.white \subseteq W
<1>1. HeapOK /\ ListsOK /\ LiveClosed
  BY DEF GCInv
<1>2. RecOK(Marks, Alloc) /\ Tri(Marks, Pending) /\ Main \in grayagain /\ \A o \in Objects : marked[o] # "other"
  BY DEF GCInv, MarkingOK
<1>3. Heap(Alloc) /\ Live = Alloc
  BY <1>1, <1>2, HeapAlloc
<1> DEFINE B == [Marks EXCEPT !.gray = weak, !.weak = {}]
           C == [A1 EXCEPT !.gray = A1.grayagain, !.grayagain = {}]
           D == MarkTmu(A2, Waiting)
<1>4. B \in MarksType /\ B.white = Marks.white /\ B.black = Marks.black /\ B.gray = weak
      /\ B.grayagain = grayagain /\ B.weak = {}
  <2>1. Marks \in MarksType /\ weak \subseteq Objects /\ Marks.grayagain = grayagain
    BY <1>1, MarksIs DEF MarksType
  <2> HIDE DEF Marks
  <2> QED
    BY <2>1 DEF MarksType
<1>5. Marks.gray = {} /\ Marks.grayagain = grayagain /\ Marks.weak = weak
  BY <1>1, MarksIs
<1>6. A1 = PropagateAll(B) /\ A2 = PropagateAll(C) /\ A3 = PropagateAll(D)
  BY DEF A1, A2, A3
<1> HIDE DEF B
<1>7. RecOK(B, Alloc) /\ (\A X \in SUBSET Objects : Tri(Marks, X) => Tri(B, X))
  <2>1. \A X \in SUBSET Objects : Tri(Marks, X) => Tri(B, X)
    BY <1>4 DEF Tri
  <2>2. weak \subseteq Nodes
    BY <1>2, <1>5, ObjectsApart DEF RecOK
  <2> QED
    BY <1>2, <1>4, <1>5, <2>1, <2>2 DEF RecOK
<1>8. Carries(B, A1, Alloc) /\ A1.gray = {}
  BY <1>3, <1>6, <1>7, PropagateAllKeeps
<1>9. RecOK(A1, Alloc) /\ Main \in A1.grayagain /\ A1 \in MarksType
  BY <1>2, <1>4, <1>8 DEF Carries, RecOK
<1>10. C \in MarksType /\ C.white = A1.white /\ C.black = A1.black /\ C.gray = A1.grayagain
       /\ C.grayagain = {} /\ C.weak = A1.weak
  BY <1>9 DEF MarksType
<1> HIDE DEF C, D
<1>11. RecOK(C, Alloc) /\ (\A X \in SUBSET Objects : Tri(A1, X) => Tri(C, X)) /\ MainDone(C)
  <2>1. \A X \in SUBSET Objects : Tri(A1, X) => Tri(C, X)
    BY <1>10 DEF Tri
  <2>2. MainDone(C)
    BY <1>10 DEF MainDone
  <2> QED
    BY <1>8, <1>9, <1>10, <2>1, <2>2 DEF RecOK
<1>12. Carries(C, A2, Alloc) /\ A2.gray = {}
  BY <1>3, <1>6, <1>11, PropagateAllKeeps
<1>13. RecOK(A2, Alloc) /\ Main \in A2.grayagain /\ MainDone(A2) /\ A2.grayagain \subseteq {Main}
  BY <1>9, <1>10, <1>11, <1>12 DEF Carries
<1>14. Pending \in SUBSET Objects /\ Tri(A2, Pending)
  <2>1. Pending \subseteq Objects
    BY <1>1 DEF LiveClosed, Live
  <2>2. Tri(B, Pending)
    BY <1>2, <1>7, <2>1
  <2>3. Tri(A1, Pending)
    BY <1>8, <2>1, <2>2 DEF Carries
  <2>4. Tri(C, Pending)
    BY <1>11, <2>1, <2>3
  <2> QED
    BY <1>12, <2>1, <2>4 DEF Carries
<1>15. /\ Sep \in Seq(Udata) /\ Range(Sep) \subseteq Alloc /\ tmudata \in Seq(Udata)
  <2>1. udlist \in Seq(Udata) /\ tmudata \in Seq(Udata)
    BY <1>1 DEF HeapOK
  <2>2. Sep \in Seq(Udata) /\ \A i \in 1 .. Len(Sep) : Sep[i] \in Udata \cap (A2.white \ finalized)
    BY <2>1, KeepType DEF Sep, Separate
  <2>3. A2.white \subseteq Alloc
    BY <1>13 DEF RecOK
  <2> QED
    BY <2>1, <2>2, <2>3, RangeIs
<1>16. /\ Waiting \in Seq(Udata) /\ Range(Waiting) = Pending \cup Range(Sep)
       /\ Range(Waiting) \subseteq Udata \cap Alloc /\ Pending \subseteq Range(Waiting)
  <2>1. Waiting \in Seq(Udata) /\ Range(Waiting) = Range(tmudata) \cup Range(Sep)
    BY <1>15, RangeConcat DEF Waiting
  <2>2. Pending \subseteq Alloc
    BY <1>1, <1>3 DEF LiveClosed
  <2> QED
    BY <1>15, <2>1, <2>2, RangeIs DEF Pending
<1>17. /\ RecOK(D, Alloc) /\ Tri(D, {}) /\ D.white \subseteq A2.white /\ Range(Waiting) \cap D.white = {}
       /\ D.grayagain = A2.grayagain /\ D.weak = A2.weak
       /\ \A W \in SUBSET Objects :
             StrongClosed(W) /\ Alloc \ A2.white \subseteq W /\ Range(Waiting) \subseteq W
                => Alloc \ D.white \subseteq W
  BY <1>3, <1>13, <1>14, <1>16, MarkTmuKeeps DEF D
<1>18. Carries(D, A3, Alloc) /\ A3.gray = {}
  BY <1>3, <1>6, <1>17, PropagateAllKeeps
<1>19. /\ RecOK(A3, Alloc) /\ Tri(A3, {}) /\ Main \in A3.grayagain /\ A3.grayagain \subseteq {Main}
       /\ MainDone(A3) /\ A3.white \subseteq A2.white /\ Range(Waiting) \cap A3.white = {}
  <2>1. MainDone(D)
    BY <1>13, <1>17 DEF MainDone
  <2>2. {} \in SUBSET Objects
    OBVIOUS
  <2> QED
    BY <1>13, <1>17, <1>18, <2>1, <2>2 DEF Carries
<1>20. (ref[Main] \cup {Registry}) \cap A3.white = {}
  BY <1>19 DEF MainDone
<1>21. WeakTable \in A3.weak
  <2>1. Registry \in A3.black
    <3>1. Registry \in Alloc /\ Registry \in Nodes /\ Registry # Main /\ Registry # WeakTable
      BY <1>3, ObjectsApart DEF Heap
    <3> QED
      BY <1>18, <1>19, <1>20, <3>1 DEF RecOK
  <2>2. WeakTable \in ref[Registry] /\ Strong(Registry) = ref[Registry]
    BY <1>1, ObjectsApart, StrongIs DEF HeapOK
  <2>3. WeakTable \notin A3.white
    BY <1>19, <2>1, <2>2 DEF Tri
  <2>4. WeakTable \in Alloc /\ WeakTable \in Nodes /\ WeakTable # Main
    BY <1>1, <1>3, ObjectsApart DEF LiveClosed, Fixed
  <2> QED
    BY <1>18, <1>19, <2>3, <2>4 DEF RecOK
<1>22. Strs = ref[WeakTable] \cap Strings /\ Strs \subseteq Alloc /\ Strs \subseteq Strings
  <2>1. ref[WeakTable] \subseteq Alloc
    BY <1>1, <1>3 DEF LiveClosed
  <2> QED
    BY <1>21, <2>1 DEF Strs
<1>23. /\ RecOK(A4, Alloc) /\ A4.white \subseteq A3.white /\ Strs \cap A4.white = {}
       /\ A4.grayagain = A3.grayagain /\ A4.weak = A3.weak /\ A4.gray = A3.gray
       /\ \A X \in SUBSET Objects : Tri(A3, X) => Tri(A4, X)
       /\ \A W \in SUBSET Objects : StrongClosed(W) /\ Alloc \ A3.white \subseteq W /\ Strs \subseteq W
                                       => Alloc \ A4.white \subseteq W
  BY <1>3, <1>19, <1>22, MarkObjectsKeeps DEF A4
<1>24. A3.white \subseteq A4.white \cup Strings
  <2>0. A3 \in MarksType /\ Strs \in SUBSET Objects
    BY <1>19, <1>22, ObjectsApart DEF RecOK
  <2>1. A4.white = A3.white \ MarkedIn(A3, Strs)
    BY <2>0, MarkObjectsIs DEF A4
  <2>2. UdataIn(A3, Strs) = {}
    BY <1>22, ObjectsApart DEF UdataIn
  <2>3. MarkedIn(A3, Strs) \subseteq Strings
    BY <1>22, <2>2 DEF MarkedIn
  <2> QED
    BY <2>1, <2>3
<1>25. ASSUME NEW W \in SUBSET Objects, StrongClosed(W), {Main, Registry} \subseteq W, Range(Waiting) \subseteq W,
              Alloc \ Marks.white \subseteq W
       PROVE  Alloc \ A4.white \subseteq W
  <2>1. Alloc \ B.white \subseteq W
    BY <1>4, <1>25
  <2>2. Alloc \ A1.white \subseteq W
    BY <1>8, <1>25, <2>1 DEF Carries
  <2>3. Alloc \ C.white \subseteq W
    BY <1>10, <2>2
  <2>4. Alloc \ A2.white \subseteq W
    BY <1>12, <1>25, <2>3 DEF Carries
  <2>5. Alloc \ D.white \subseteq W
    BY <1>17, <1>25, <2>4
  <2>6. Alloc \ A3.white \subseteq W
    BY <1>18, <1>25, <2>5 DEF Carries
  <2>7. WeakTable \in Alloc \ A3.white
    BY <1>19, <1>21 DEF RecOK
  <2>8. Strs \subseteq W
    BY <1>22, <1>25, <2>6, <2>7, StrongIs DEF StrongClosed
  <2> QED
    BY <1>23, <1>25, <2>6, <2>8
<1>26. Tri(A4, {})
  <2>1. {} \in SUBSET Objects
    OBVIOUS
  <2> QED
    BY <1>19, <1>23, <2>1
<1> QED
  BY <1>16, <1>18, <1>19, <1>20, <1>21, <1>22, <1>23, <1>24, <1>25, <1>26

-----------------------------------------------------------------------------
(* What each step does to the invariant *)

\* The colours a record of marks gives to the objects.
LEMMA InstallIs ==
    ASSUME HeapOK, NEW s, RecOK(s, Alloc), NEW w \in {"white", "other"}, Install(s, w)
    PROVE  /\ marked' \in [Objects -> {"white", "other", "gray", "black", "free"}]
           /\ \A o \in Objects : marked'[o] = "free" <=> o \notin Alloc
           /\ \A o \in Objects : marked'[o] = w <=> o \in s.white
           /\ \A o \in Objects : marked'[o] = "black" <=> o \in s.black
           /\ \A o \in Objects : marked'[o] \in {"free", w, "gray", "black"}
           /\ Alloc' = Alloc
           /\ ColoursOK' /\ ListsOK'
<1>1. \A o \in Objects : marked'[o] = IF o \notin Alloc THEN "free"
                                      ELSE IF o \in s.white THEN w
                                      ELSE IF o \in s.black THEN "black" ELSE "gray"
  BY DEF Install, Alloc
<1>2. marked' = [o \in Objects |-> marked'[o]]
  BY DEF Install
<1>3. s.white \subseteq Alloc /\ s.black \subseteq Alloc /\ s.white \cap s.black = {}
  BY DEF RecOK
<1>4. marked' \in [Objects -> {"white", "other", "gray", "black", "free"}]
  BY <1>1, <1>2
<1>5. \A o \in Objects : marked'[o] = "free" <=> o \notin Alloc
  BY <1>1
<1>6. /\ \A o \in Objects : marked'[o] = w <=> o \in s.white
      /\ \A o \in Objects : marked'[o] = "black" <=> o \in s.black
      /\ \A o \in Objects : marked'[o] \in {"free", w, "gray", "black"}
  BY <1>1, <1>3
<1>7. Alloc' = Alloc
  BY <1>5 DEF Alloc, Allocated
<1>8. ColoursOK'
  <2>1. \A u \in Udata : marked'[u] # "gray"
    <3> SUFFICES ASSUME NEW u \in Udata PROVE marked'[u] # "gray"
      OBVIOUS
    <3>1. u \in Objects /\ (u \in Alloc => u \in s.white \cup s.black)
      BY ObjectsApart DEF RecOK
    <3> QED
      BY <1>1, <3>1
  <2>2. \A o \in Strings \cup {Main, WeakTable} : o \in Objects /\ o \notin s.black
    BY ObjectsApart DEF RecOK
  <2> QED
    BY <1>6, <2>1, <2>2 DEF ColoursOK
<1>9. ListsOK'
  <2>1. gray' = s.gray /\ grayagain' = s.grayagain /\ weak' = s.weak
    BY DEF Install
  <2>2. s.gray \cup s.grayagain \cup s.weak \subseteq Objects
    BY DEF RecOK, MarksType
  <2> QED
    BY <1>6, <2>1, <2>2 DEF ListsOK, RecOK
<1> QED
  BY <1>4, <1>5, <1>6, <1>7, <1>8, <1>9

\* While marking, the marks are what is installed.
LEMMA InstallWhite ==
    ASSUME HeapOK, NEW s, RecOK(s, Alloc), Install(s, "white")
    PROVE  Marks' = s /\ RecOK(Marks, Alloc)' /\ \A o \in Objects : marked'[o] # "other"
<1>1. /\ \A o \in Objects : marked'[o] = "white" <=> o \in s.white
      /\ \A o \in Objects : marked'[o] = "black" <=> o \in s.black
      /\ \A o \in Objects : marked'[o] \in {"free", "white", "gray", "black"}
      /\ Alloc' = Alloc
  BY InstallIs
<1>2. s \in MarksType
  BY DEF RecOK
<1>3. s.white = {o \in Objects : marked'[o] \in {"white", "other"}} /\ s.black = {o \in Objects : marked'[o] = "black"}
  BY <1>1, <1>2 DEF MarksType
<1>4. gray' = s.gray /\ grayagain' = s.grayagain /\ weak' = s.weak
  BY DEF Install
<1>5. s = [white |-> s.white, black |-> s.black, gray |-> s.gray, grayagain |-> s.grayagain, weak |-> s.weak]
  BY <1>2 DEF MarksType
<1>6. Marks' = s
  BY <1>3, <1>4, <1>5 DEF Marks, IsWhite
<1>7. RecOK(Marks', Alloc')
  BY <1>1, <1>6
<1> QED
  BY <1>1, <1>6, <1>7 DEF RecOK

\* While nothing is dead, the heap closed under references stays so.
LEMMA StaysClosed ==
    ASSUME LiveClosed, Live' = Live, UNCHANGED <<ref, env, tmudata>>
    PROVE  LiveClosed'
BY DEF LiveClosed, Strong, Pending

\* markroot keeps the invariant, and marks only what the roots lead to.
LEMMA MarkRootStep ==
    ASSUME GCInv, MarkRoot
    PROVE  /\ GCInv'
           /\ \A W \in SUBSET Objects :
                 StrongClosed(W) /\ {Main, Registry} \cup Pending \subseteq W => Alloc' \ Marks'.white \subseteq W
<1>1. HeapOK /\ ColoursOK /\ LiveClosed /\ ListsOK /\ SweptOK
  BY DEF GCInv
<1>2. gcstate \in {"pause", "finalize"} /\ gcstate' = "propagate" /\ UNCHANGED <<udstate, unswept, ref, env>>
  BY DEF MarkRoot
<1>3. unswept = {} /\ (\A o \in Objects \ Pending : marked[o] \in {"free", "white"})
  BY <1>1, <1>2 DEF SweptOK
<1>4. Pending \subseteq Udata /\ Pending \subseteq Live
  BY <1>1, RangeIs DEF HeapOK, LiveClosed, Pending
<1>5. \A o \in Objects : marked[o] # "other"
  BY <1>3, <1>4 DEF Live
<1>6. Heap(Alloc) /\ Live = Alloc
  BY <1>1, <1>5, HeapAlloc
<1> DEFINE s == [Marks EXCEPT !.gray = {}, !.grayagain = {}, !.weak = {}]
           S == {Main, Registry}
           t == MarkObjects(s, S)
<1>7. Install(t, "white")
  BY DEF MarkRoot
<1>8. /\ s \in MarksType
      /\ s.white = {o \in Objects : IsWhite(o)} /\ s.black = {o \in Objects : marked[o] = "black"}
      /\ s.gray = {} /\ s.grayagain = {} /\ s.weak = {}
  <2>1. /\ Marks \in MarksType
        /\ Marks.white = {o \in Objects : IsWhite(o)} /\ Marks.black = {o \in Objects : marked[o] = "black"}
    BY <1>1, MarksIs
  <2> HIDE DEF Marks
  <2>2. s \in MarksType /\ s.white = Marks.white /\ s.black = Marks.black
        /\ s.gray = {} /\ s.grayagain = {} /\ s.weak = {}
    BY <2>1 DEF MarksType
  <2> QED
    BY <2>1, <2>2
<1> HIDE DEF s
<1>9. s.black \subseteq Pending
  BY <1>3, <1>8
<1>10. RecOK(s, Alloc)
  <2>1. s.white \cup s.black \subseteq Alloc /\ s.white \cap s.black = {}
    BY <1>8 DEF Alloc, Allocated, IsWhite
  <2>2. s.black \cap (Strings \cup {Main, WeakTable}) = {}
    BY <1>1, <1>8 DEF ColoursOK
  <2>3. Alloc \cap Nodes \subseteq s.white
    BY <1>3, <1>4, <1>8, ObjectsApart DEF Alloc, Allocated, IsWhite
  <2>4. Alloc \cap Udata \subseteq s.white \cup s.black
    <3>1. \A o \in Alloc \cap Udata : marked[o] \in {"white", "other", "black"}
      BY <1>1, ObjectsApart DEF Alloc, Allocated, HeapOK, ColoursOK
    <3> QED
      BY <1>8, <3>1, ObjectsApart DEF IsWhite
  <2> QED
    BY <1>8, <2>1, <2>2, <2>3, <2>4 DEF RecOK
<1>11. S \subseteq Alloc
  BY <1>6 DEF Heap
<1> HIDE DEF S, t
<1>12. /\ RecOK(t, Alloc) /\ S \cap t.white = {} /\ S \cap Nodes \cap s.white \subseteq t.gray
       /\ \A X \in SUBSET Objects : Tri(s, X) => Tri(t, X)
       /\ \A W \in SUBSET Objects : StrongClosed(W) /\ Alloc \ s.white \subseteq W /\ S \subseteq W
                                       => Alloc \ t.white \subseteq W
  BY <1>6, <1>10, <1>11, MarkObjectsKeeps DEF t
<1>13. Main \in t.gray /\ Registry \notin t.white
  <2>1. Main \in s.white
    <3>1. Main \in Alloc /\ Main \notin Pending /\ Main \in Objects
      BY <1>4, <1>6, ObjectsApart DEF Heap
    <3> QED
      BY <1>3, <1>8, <3>1 DEF Alloc, Allocated, IsWhite
  <2> QED
    BY <1>12, <2>1, ObjectsApart DEF S
<1>14. Tri(t, Pending)
  <2>1. Tri(s, Pending) /\ Pending \in SUBSET Objects
    BY <1>4, <1>9, ObjectsApart DEF Tri
  <2> QED
    BY <1>12, <2>1
<1>15. /\ marked' \in [Objects -> {"white", "other", "gray", "black", "free"}]
       /\ \A o \in Objects : marked'[o] = "free" <=> o \notin Alloc
       /\ Alloc' = Alloc /\ ColoursOK' /\ ListsOK'
  BY <1>1, <1>7, <1>12, InstallIs
<1>16. Marks' = t /\ RecOK(Marks, Alloc)' /\ \A o \in Objects : marked'[o] # "other"
  BY <1>1, <1>7, <1>12, InstallWhite
<1>17. UNCHANGED <<udlist, tmudata, ref, env, unswept>>
  BY <1>2 DEF udstate
<1>18. HeapOK'
  BY <1>1, <1>15, <1>17 DEF HeapOK, Alloc, Allocated
<1>19. Live' = Live
  BY <1>6, <1>15, <1>16 DEF Live, Alloc, Allocated
<1>20. LiveClosed'
  BY <1>1, <1>17, <1>19, StaysClosed
<1>21. SweptOK'
  BY <1>2, <1>3, <1>17 DEF SweptOK
<1>22. MarkingOK'
  <2>1. Tri(Marks, Pending)'
    BY <1>14, <1>16, <1>17 DEF Tri, Strong, Pending
  <2>2. Main \in gray' /\ Registry \notin Marks'.white
    BY <1>7, <1>13, <1>16 DEF Install
  <2> QED
    BY <1>16, <2>1, <2>2 DEF MarkingOK
<1>23. Alloc \ s.white \subseteq Pending
  BY <1>3, <1>8 DEF Alloc, Allocated, IsWhite
<1>24. ASSUME NEW W \in SUBSET Objects, StrongClosed(W), {Main, Registry} \cup Pending \subseteq W
       PROVE  Alloc' \ Marks'.white \subseteq W
  BY <1>12, <1>15, <1>16, <1>23, <1>24 DEF S
<1>25. GCInv'
  BY <1>15, <1>18, <1>20, <1>21, <1>22 DEF GCInv
<1> QED
  BY <1>24, <1>25

\* propagatemark keeps the invariant, and marks only what marked objects lead to.
LEMMA PropagateStep ==
    ASSUME GCInv, Propagate
    PROVE  /\ GCInv'
           /\ \A W \in SUBSET Objects :
                 StrongClosed(W) /\ {Main, Registry} \subseteq W /\ Alloc \ Marks.white \subseteq W
                    => Alloc' \ Marks'.white \subseteq W
<1>1. HeapOK /\ ColoursOK /\ LiveClosed /\ ListsOK /\ SweptOK /\ MarkingOK
  BY DEF GCInv
<1>2. gcstate = "propagate" /\ gcstate' = "propagate" /\ UNCHANGED <<udlist, tmudata, unswept, ref, env>>
  BY DEF Propagate, collector, udstate
<1>3. /\ \A o \in Objects : marked[o] # "other"
      /\ RecOK(Marks, Alloc) /\ Tri(Marks, Pending)
      /\ Main \in gray \cup grayagain /\ Registry \notin Marks.white
  BY <1>1, <1>2 DEF MarkingOK
<1>4. Heap(Alloc) /\ Live = Alloc
  BY <1>1, <1>3, HeapAlloc
<1>5. PICK o \in gray : Install(PropagateMark(Marks, o), "white")
  BY DEF Propagate
<1> DEFINE t == PropagateMark(Marks, o)
<1>6. Marks.gray = gray /\ Marks.grayagain = grayagain
  BY <1>1, MarksIs
<1>7. Carries(Marks, t, Alloc)
  BY <1>3, <1>4, <1>5, <1>6, PropagateMarkKeeps
<1>8. Install(t, "white")
  BY <1>5
<1> HIDE DEF t
<1>9. /\ RecOK(t, Alloc) /\ Main \in t.gray \cup t.grayagain /\ Registry \notin t.white
  BY <1>3, <1>6, <1>7 DEF Carries
<1>10. Tri(t, Pending)
  <2>1. Pending \in SUBSET Objects
    BY <1>1 DEF LiveClosed, Live
  <2> QED
    BY <1>3, <1>7, <2>1 DEF Carries
<1>11. /\ marked' \in [Objects -> {"white", "other", "gray", "black", "free"}]
       /\ \A x \in Objects : marked'[x] = "free" <=> x \notin Alloc
       /\ Alloc' = Alloc /\ ColoursOK' /\ ListsOK'
  BY <1>1, <1>8, <1>9, InstallIs
<1>12. Marks' = t /\ RecOK(Marks, Alloc)' /\ \A x \in Objects : marked'[x] # "other"
  BY <1>1, <1>8, <1>9, InstallWhite
<1>13. HeapOK'
  BY <1>1, <1>2, <1>11 DEF HeapOK, Alloc, Allocated
<1>14. Live' = Live
  BY <1>4, <1>11, <1>12 DEF Live, Alloc, Allocated
<1>15. LiveClosed'
  BY <1>1, <1>2, <1>14, StaysClosed
<1>16. SweptOK'
  BY <1>1, <1>2, <1>11 DEF SweptOK
<1>17. MarkingOK'
  <2>1. Tri(Marks, Pending)'
    BY <1>2, <1>10, <1>12 DEF Tri, Strong, Pending
  <2>2. Main \in gray' \cup grayagain' /\ Registry \notin Marks'.white
    BY <1>8, <1>9, <1>12 DEF Install
  <2> QED
    BY <1>12, <2>1, <2>2 DEF MarkingOK
<1>18. \A W \in SUBSET Objects :
          StrongClosed(W) /\ {Main, Registry} \subseteq W /\ Alloc \ Marks.white \subseteq W
             => Alloc' \ Marks'.white \subseteq W
  BY <1>7, <1>11, <1>12 DEF Carries
<1>19. GCInv'
  BY <1>11, <1>13, <1>15, <1>16, <1>17 DEF GCInv
<1> QED
  BY <1>18, <1>19

\* atomic() keeps the invariant: what it leaves white, no live object refers to,
\* and it marks only what the roots and the userdata due lead to.
LEMMA AtomicStep ==
    ASSUME GCInv, Atomic
    PROVE  /\ GCInv' /\ Pending \subseteq Pending' /\ \A o \in Objects : Strong(o)' = Strong(o)
           /\ \A W \in SUBSET Objects :
                 StrongClosed(W) /\ {Main, Registry} \subseteq W /\ Pending' \subseteq W
                    /\ Alloc \ Marks.white \subseteq W => Live' \subseteq W
<1>1. HeapOK /\ ColoursOK /\ LiveClosed /\ ListsOK /\ SweptOK /\ MarkingOK
  BY DEF GCInv
<1>2. gcstate = "propagate" /\ gray = {} /\ gcstate' = "sweepstring" /\ env' = env /\ AtomicSteps
  BY AtomicIs DEF Atomic
<1>3. /\ \A o \in Objects : marked[o] # "other"
  BY <1>1, <1>2 DEF MarkingOK
<1>4. Heap(Alloc) /\ Live = Alloc
  BY <1>1, <1>3, HeapAlloc
<1>5. /\ Waiting \in Seq(Udata) /\ Range(Waiting) \subseteq Alloc
      /\ RecOK(A4, Alloc) /\ Tri(A4, {}) /\ A4.gray = {}
      /\ Main \in A4.grayagain /\ A4.grayagain \subseteq {Main}
      /\ (ref[Main] \cup {Registry}) \cap A4.white = {}
      /\ WeakTable \in A3.weak /\ WeakTable \in A4.weak
      /\ A4.white \subseteq A3.white /\ ref[WeakTable] \cap Strings \cap A4.white = {}
      /\ Range(Waiting) \cap A4.white = {} /\ Pending \subseteq Range(Waiting)
      /\ \A W \in SUBSET Objects :
            StrongClosed(W) /\ {Main, Registry} \subseteq W /\ Range(Waiting) \subseteq W
               /\ Alloc \ Marks.white \subseteq W => Alloc \ A4.white \subseteq W
  BY <1>2, AtomicMarks
<1> DEFINE K == Kept(A3, Finalized)
<1>6. /\ Install(A4, "other") /\ tmudata' = Waiting /\ udlist' = Keep(udlist, Udata \ Range(Sep))
      /\ ref' = [ref EXCEPT ![WeakTable] = K] /\ unswept' = RootList(Waiting)
  BY <1>2, <1>5 DEF AtomicSteps
<1>7. K \subseteq ref[WeakTable] /\ K \cap Strings = ref[WeakTable] \cap Strings /\ K \cap A4.white = {}
  BY <1>5 DEF Kept
<1> HIDE DEF K
<1>8. /\ marked' \in [Objects -> {"white", "other", "gray", "black", "free"}]
      /\ \A o \in Objects : marked'[o] = "free" <=> o \notin Alloc
      /\ \A o \in Objects : marked'[o] = "other" <=> o \in A4.white
      /\ Alloc' = Alloc /\ ColoursOK' /\ ListsOK'
  BY <1>1, <1>5, <1>6, InstallIs
<1>9. /\ ref' \in [Objects -> SUBSET Objects] /\ ref'[WeakTable] = K
      /\ \A o \in Objects : o # WeakTable => ref'[o] = ref[o]
  <2>1. ref \in [Objects -> SUBSET Objects] /\ K \in SUBSET Objects /\ WeakTable \in Objects
    BY <1>1, <1>7, ObjectsApart DEF HeapOK
  <2> QED
    BY <1>6, <2>1
<1>10. HeapOK'
  <2>1. udlist' \in Seq(Udata)
    BY <1>1, <1>6, KeepType DEF HeapOK
  <2>2. \A o \in Udata \cup Strings : o \in Objects /\ o # WeakTable
    BY ObjectsApart
  <2>3. WeakTable \in Alloc /\ Registry # WeakTable /\ Registry \in Objects
    BY <1>1, <1>4, ObjectsApart DEF LiveClosed, Fixed
  <2>4. \A o \in Udata \cup Strings : ref'[o] = {}
    BY <1>1, <1>9, <2>2 DEF HeapOK
  <2>5. \A o \in Objects : marked'[o] = "free" => ref'[o] = {} /\ (o \in Udata => env'[o] = Registry)
    BY <1>1, <1>2, <1>8, <1>9, <2>3 DEF HeapOK, Alloc, Allocated
  <2>6. WeakTable \in ref'[Registry] /\ env' \in [Udata -> StrongTables] /\ tmudata' \in Seq(Udata)
    BY <1>1, <1>2, <1>5, <1>6, <1>9, <2>3 DEF HeapOK
  <2> QED
    BY <1>8, <1>9, <2>1, <2>4, <2>5, <2>6 DEF HeapOK
<1>11. Live' = Alloc \ A4.white
  BY <1>8 DEF Live, Alloc
<1>12. \A o \in Objects : Strong(o)' = Strong(o)
  <2> TAKE o \in Objects
  <2>1. CASE o = WeakTable
    BY <1>2, <1>7, <1>9, <2>1, ObjectsApart DEF Strong
  <2>2. CASE o # WeakTable
    BY <1>2, <1>9, <2>2 DEF Strong
  <2> QED
    BY <2>1, <2>2
<1>13. LiveClosed'
  <2>1. {Main, Registry, WeakTable} \cap A4.white = {}
    BY <1>5 DEF RecOK
  <2>2. (Fixed \cup Pending)' \subseteq Live'
    BY <1>1, <1>4, <1>5, <1>6, <1>11, <2>1 DEF LiveClosed, Fixed, Pending
  <2>3. ASSUME NEW o \in Alloc \ A4.white
        PROVE  Strong(o) \cap A4.white = {}
    <3>1. CASE o \in A4.black
      BY <1>5, <3>1 DEF Tri
    <3>2. CASE o \in Strings
      BY <1>1, <3>2, StrongIs DEF HeapOK
    <3>3. CASE o = Main
      BY <1>5, <3>3, ObjectsApart, StrongIs
    <3>4. CASE o = WeakTable
      BY <1>5, <3>4, StrongIs
    <3>5. o \in A4.black \/ o \in Strings \/ o = Main \/ o = WeakTable
      <4>1. o \in Nodes \cup Udata \cup Strings
        BY ObjectsApart DEF Alloc
      <4>2. CASE o \in Nodes
        BY <1>5, <2>3, <4>2 DEF RecOK
      <4>3. CASE o \in Udata
        BY <1>5, <2>3, <4>3 DEF RecOK
      <4> QED
        BY <4>1, <4>2, <4>3
    <3> QED
      BY <3>1, <3>2, <3>3, <3>4, <3>5
  <2>4. \A o \in Live' : Strong(o)' \subseteq Live'
    <3> SUFFICES ASSUME NEW o \in Alloc \ A4.white
                 PROVE  Strong(o)' \subseteq Alloc \ A4.white
      BY <1>11
    <3>1. Strong(o) \subseteq Alloc /\ o \in Objects
      BY <1>1, <1>4 DEF LiveClosed, Alloc
    <3> QED
      BY <1>12, <2>3, <3>1
  <2>5. ref'[WeakTable] \subseteq Live'
    BY <1>1, <1>4, <1>7, <1>9, <1>11 DEF LiveClosed
  <2> QED
    BY <2>2, <2>4, <2>5 DEF LiveClosed
<1>14. SweptOK'
  <2>1. unswept' \subseteq Alloc
    BY <1>6 DEF RootList, Alloc
  <2>2. Alloc \subseteq unswept' \cup Pending'
    BY <1>6 DEF RootList, Alloc, Pending
  <2>3. \A o \in Objects \ (unswept' \cup Pending') : marked'[o] = "free"
    BY <1>8, <2>2
  <2> QED
    BY <1>2, <1>8, <2>1, <2>3 DEF SweptOK
<1>15. MarkingOK'
  BY <1>2 DEF MarkingOK
<1>16. GCInv'
  BY <1>8, <1>10, <1>13, <1>14, <1>15 DEF GCInv
<1>17. Pending' = Range(Waiting)
  BY <1>6 DEF Pending
<1> QED
  BY <1>5, <1>11, <1>12, <1>16, <1>17

\* Sweeping any allocated objects S keeps the invariant and all that is live.
LEMMA SweepKeeps ==
    ASSUME GCInv, gcstate \in {"sweepstring", "sweep"}, NEW S \in SUBSET Alloc, Sweep(S),
           gcstate' \in {"sweepstring", "sweep", "finalize"}, gcstate' = "finalize" => unswept \subseteq S
    PROVE  GCInv' /\ Live' = Live /\ Pending' = Pending /\ \A o \in Live : Strong(o)' = Strong(o)
<1>1. HeapOK /\ ColoursOK /\ LiveClosed /\ ListsOK /\ SweptOK
  BY DEF GCInv
<1> DEFINE dead == {o \in S : IsDead(o)}
<1>2. /\ marked' = [o \in Objects |-> IF o \in dead THEN "free"
                                      ELSE IF o \in S THEN "white" ELSE marked[o]]
      /\ ref' = [o \in Objects |-> IF o \in dead THEN {} ELSE ref[o]]
      /\ env' = [u \in Udata |-> IF u \in dead THEN Registry ELSE env[u]]
      /\ udlist' = Keep(udlist, Udata \ dead)
      /\ unswept' = unswept \ S
      /\ UNCHANGED <<gray, grayagain, weak, tmudata>>
  BY DEF Sweep, lists
<1>3. \A o \in dead : o \in S /\ marked[o] = "other"
  BY DEF IsDead
<1>4. \A o \in S \ dead : marked[o] # "other" /\ o \in Objects /\ marked[o] # "free"
  BY DEF IsDead, Alloc, Allocated
<1> HIDE DEF dead
<1>5. /\ \A o \in Objects : marked'[o] = IF o \in dead THEN "free" ELSE IF o \in S THEN "white" ELSE marked[o]
      /\ \A o \in Objects : ref'[o] = IF o \in dead THEN {} ELSE ref[o]
      /\ \A u \in Udata : env'[u] = IF u \in dead THEN Registry ELSE env[u]
  BY <1>2
<1>6. \A o \in Objects : o \in Live => o \notin dead
  BY <1>3 DEF Live
<1>7. Live' = Live
  <2>1. \A o \in Objects : marked'[o] \notin {"free", "other"} <=> marked[o] \notin {"free", "other"}
    BY <1>3, <1>4, <1>5
  <2> QED
    BY <2>1 DEF Live
<1>8. Fixed \subseteq Live /\ Pending \subseteq Live /\ Live \subseteq Objects
  BY <1>1 DEF LiveClosed, Live
<1>9. HeapOK'
  <2>1. marked' \in [Objects -> {"white", "other", "gray", "black", "free"}]
    <3>1. \A o \in Objects : marked[o] \in {"white", "other", "gray", "black", "free"}
      BY <1>1 DEF HeapOK
    <3> QED
      BY <1>2, <3>1
  <2>2. ref' \in [Objects -> SUBSET Objects]
    <3>1. \A o \in Objects : ref[o] \in SUBSET Objects
      BY <1>1 DEF HeapOK
    <3> QED
      BY <1>2, <3>1
  <2>3. env' \in [Udata -> StrongTables]
    <3>1. (\A u \in Udata : env[u] \in StrongTables) /\ Registry \in StrongTables
      BY <1>1, ObjectsApart DEF HeapOK
    <3> QED
      BY <1>2, <3>1
  <2>4. \A o \in Udata \cup Strings : ref'[o] = {}
    BY <1>1, <1>5, ObjectsApart DEF HeapOK
  <2>5. \A o \in Objects : marked'[o] = "free" => ref'[o] = {} /\ (o \in Udata => env'[o] = Registry)
    <3> SUFFICES ASSUME NEW o \in Objects, marked'[o] = "free"
                 PROVE  ref'[o] = {} /\ (o \in Udata => env'[o] = Registry)
      OBVIOUS
    <3>1. CASE o \in dead
      BY <1>5, <3>1
    <3>2. CASE o \notin dead
      <4>1. marked[o] = "free"
        BY <1>5, <3>2
      <4> QED
        BY <1>1, <1>5, <3>2, <4>1 DEF HeapOK
    <3> QED
      BY <3>1, <3>2
  <2>6. WeakTable \in ref'[Registry]
    <3>1. Registry \in Objects /\ Registry \notin dead
      BY <1>6, <1>8 DEF Fixed
    <3> QED
      BY <1>1, <1>5, <3>1 DEF HeapOK
  <2>7. udlist' \in Seq(Udata) /\ tmudata' \in Seq(Udata)
    BY <1>1, <1>2, KeepType DEF HeapOK
  <2> QED
    BY <2>1, <2>2, <2>3, <2>4, <2>5, <2>6, <2>7 DEF HeapOK
<1>10. ColoursOK'
  <2>1. \A o \in Udata \cup Strings \cup {Main, WeakTable} : o \in Objects
    BY ObjectsApart
  <2> QED
    BY <1>1, <1>5, <2>1 DEF ColoursOK
<1>11. \A o \in Live : Strong(o)' = Strong(o)
  <2> SUFFICES ASSUME NEW o \in Live PROVE Strong(o)' = Strong(o)
    OBVIOUS
  <2>1. o \in Objects /\ o \notin dead
    BY <1>6, <1>8
  <2>2. ref'[o] = ref[o] /\ (o \in Udata => env'[o] = env[o])
    BY <1>5, <2>1
  <2> QED
    BY <2>2 DEF Strong
<1>12. Pending' = Pending
  BY <1>2 DEF Pending
<1>13. LiveClosed'
  <2>2. ref'[WeakTable] = ref[WeakTable]
    <3>1. WeakTable \in Objects /\ WeakTable \notin dead
      BY <1>6, <1>8 DEF Fixed
    <3> QED
      BY <1>5, <3>1
  <2>4. \A o \in Live' : Strong(o)' \subseteq Live'
    BY <1>1, <1>7, <1>11 DEF LiveClosed
  <2>5. (Fixed \cup Pending)' \subseteq Live'
    BY <1>7, <1>8, <1>12 DEF Fixed
  <2> QED
    BY <1>1, <1>7, <2>2, <2>4, <2>5 DEF LiveClosed
<1>14. ListsOK'
  BY <1>1, <1>2, <1>5 DEF ListsOK
<1>15. SweptOK'
  <2>1. ASSUME NEW o \in Objects \ (unswept' \cup Pending')
        PROVE  marked'[o] \in {"free", "white"}
    <3>1. o \in S \/ o \in Objects \ (unswept \cup Pending)
      BY <1>2, <2>1 DEF Pending
    <3>2. ASSUME o \in Objects \ (unswept \cup Pending)
          PROVE  marked[o] \in {"free", "white"}
      BY <1>1, <3>2 DEF SweptOK
    <3> QED
      BY <1>5, <3>1, <3>2
  <2>2. unswept' \subseteq Alloc'
    <3> SUFFICES ASSUME NEW o \in unswept' PROVE o \in Alloc'
      OBVIOUS
    <3>1. o \in Alloc /\ o \notin S /\ o \notin dead
      BY <1>1, <1>2, <1>3 DEF SweptOK
    <3> QED
      BY <1>5, <3>1 DEF Alloc, Allocated
  <2>3. gcstate' \notin {"sweepstring", "sweep"} => unswept' = {}
    BY <1>2
  <2> QED
    BY <2>1, <2>2, <2>3 DEF SweptOK
<1>16. MarkingOK'
  BY DEF MarkingOK
<1> QED
  BY <1>7, <1>9, <1>10, <1>11, <1>12, <1>13, <1>14, <1>15, <1>16 DEF GCInv

\* The two sweeps are sweeps of such an S ...
LEMMA SweepStringStep ==
    ASSUME GCInv, SweepString
    PROVE  /\ GCInv' /\ Live' = Live /\ Pending' = Pending /\ \A o \in Live : Strong(o)' = Strong(o)
           /\ \E S \in SUBSET Alloc : Sweep(S)
<1>1. gcstate = "sweepstring"
  BY DEF SweepString
<1>2. PICK S \in SUBSET (unswept \cap Strings) :
         Sweep(S) /\ gcstate' = IF unswept \cap Strings = S THEN "sweep" ELSE gcstate
  BY DEF SweepString
<1>3. S \in SUBSET Alloc
  BY DEF GCInv, SweptOK
<1> QED
  BY <1>1, <1>2, <1>3, SweepKeeps

\* ... of any strings, and of any other objects.
LEMMA SweepObjectsStep ==
    ASSUME GCInv, SweepObjects
    PROVE  /\ GCInv' /\ Live' = Live /\ Pending' = Pending /\ \A o \in Live : Strong(o)' = Strong(o)
           /\ \E S \in SUBSET Alloc : Sweep(S)
<1>1. gcstate = "sweep"
  BY DEF SweepObjects
<1>2. PICK S \in NextOfRoot : Sweep(S) /\ gcstate' = IF unswept = S THEN "finalize" ELSE gcstate
  BY DEF SweepObjects
<1>3. S \in SUBSET Alloc
  <2>1. unswept \subseteq Alloc /\ Fixed \subseteq Alloc /\ udlist \in Seq(Udata)
    BY DEF GCInv, SweptOK, LiveClosed, Live, Alloc, Allocated, HeapOK
  <2> DEFINE us == Keep(udlist, unswept)
  <2>2. us \in Seq(Udata) /\ \A i \in 1 .. Len(us) : us[i] \in Udata \cap unswept
    BY <2>1, KeepType
  <2>3. CASE unswept \cap Tables # {}
    BY <1>2, <2>1, <2>3 DEF NextOfRoot
  <2>4. CASE unswept \cap Tables = {} /\ unswept \cap Fixed # {}
    BY <1>2, <2>1, <2>4 DEF NextOfRoot
  <2>5. CASE unswept \cap Tables = {} /\ unswept \cap Fixed = {}
    <3>1. S \in IF us # <<>> THEN {{us[1]}} ELSE {{}}
      BY <1>2, <2>5 DEF NextOfRoot
    <3> HIDE DEF us
    <3>2. us # <<>> => us[1] \in unswept
      BY <2>2
    <3> QED
      BY <2>1, <3>1, <3>2
  <2> QED
    BY <2>3, <2>4, <2>5
<1>4. gcstate' \in {"sweep", "finalize"} /\ (gcstate' = "finalize" => unswept \subseteq S)
  BY <1>1, <1>2
<1> QED
  BY <1>1, <1>2, <1>3, <1>4, SweepKeeps

\* GCTM puts the userdata back into the root list, white, and on the stack.
LEMMA CallFinalizerStep == GCInv /\ CallFinalizer => GCInv'
<1> SUFFICES ASSUME GCInv, CallFinalizer PROVE GCInv'
  OBVIOUS
<1>1. HeapOK /\ ColoursOK /\ LiveClosed /\ ListsOK /\ SweptOK
  BY DEF GCInv
<1> DEFINE u == Head(tmudata)
<1>2. /\ gcstate = "finalize" /\ gcstate' = "finalize" /\ tmudata # <<>>
      /\ udlist' = <<u>> \o udlist /\ marked' = [marked EXCEPT ![u] = "white"]
      /\ ref' = [ref EXCEPT ![Main] = @ \cup {u}] /\ tmudata' = Tail(tmudata)
      /\ UNCHANGED <<gray, grayagain, weak, unswept, env>>
  BY DEF CallFinalizer, RelinkMarks, lists
<1>3. u \in Pending /\ Pending \subseteq Pending' \cup {u} /\ Pending' \subseteq Pending /\ u \in Udata
      /\ tmudata' \in Seq(Udata)
  <2>1. tmudata \in Seq(Udata) /\ tmudata # <<>>
    BY <1>1, <1>2 DEF HeapOK
  <2>2. Len(tmudata) \in Nat /\ Len(tmudata) >= 1 /\ u = tmudata[1] /\ u \in Udata
    BY <2>1
  <2>3. tmudata' \in Seq(Udata) /\ Len(tmudata') = Len(tmudata) - 1
        /\ \A i \in 1 .. Len(tmudata') : tmudata'[i] = tmudata[i + 1]
    BY <1>2, <2>1
  <2>4. Pending = {tmudata[i] : i \in 1 .. Len(tmudata)} /\ Pending' = {tmudata'[i] : i \in 1 .. Len(tmudata')}
    BY <2>1, <2>3, RangeIs DEF Pending
  <2> HIDE DEF u
  <2>5. u \in Pending
    BY <2>2, <2>4
  <2>6. Pending' \subseteq Pending
    <3>1. \A i \in 1 .. Len(tmudata') : i + 1 \in 1 .. Len(tmudata)
      BY <2>2, <2>3
    <3> QED
      BY <2>3, <2>4, <3>1
  <2>7. \A x \in Pending : x \in Pending' \cup {u}
    <3> SUFFICES ASSUME NEW i \in 1 .. Len(tmudata), i # 1
                 PROVE  tmudata[i] \in Pending'
      BY <2>2, <2>4
    <3>1. i - 1 \in 1 .. Len(tmudata') /\ (i - 1) + 1 = i
      BY <2>2, <2>3
    <3> QED
      BY <2>3, <2>4, <3>1
  <2> QED
    BY <2>2, <2>3, <2>5, <2>6, <2>7
<1>4. u \in Live /\ u \in Objects /\ u # Main /\ Main \in Objects /\ Main \in Live
  BY <1>1, <1>3, ObjectsApart DEF LiveClosed, Fixed
<1>5. marked \in [Objects -> {"white", "other", "gray", "black", "free"}] /\ ref \in [Objects -> SUBSET Objects]
      /\ udlist \in Seq(Udata)
  BY <1>1 DEF HeapOK
<1>6. udlist' \in Seq(Udata)
  BY <1>2, <1>3, <1>5
<1> HIDE DEF u
<1>7. /\ marked' \in [Objects -> {"white", "other", "gray", "black", "free"}]
      /\ \A o \in Objects : marked'[o] = IF o = u THEN "white" ELSE marked[o]
  BY <1>2, <1>4, <1>5
<1>8. /\ ref' \in [Objects -> SUBSET Objects]
      /\ \A o \in Objects : ref'[o] = IF o = Main THEN ref[Main] \cup {u} ELSE ref[o]
  <2>1. ref[Main] \cup {u} \in SUBSET Objects
    BY <1>4, <1>5
  <2> QED
    BY <1>2, <1>5, <2>1
<1>9. Live' = Live
  BY <1>4, <1>7 DEF Live
<1>10. HeapOK'
  <2>1. \A o \in Udata \cup Strings : o \in Objects /\ o # Main
    BY ObjectsApart
  <2>2. Registry # Main /\ Registry \in Objects
    BY ObjectsApart
  <2>3. marked[Main] # "free" /\ marked[u] # "free"
    BY <1>4 DEF Live
  <2>4. \A o \in Udata \cup Strings : ref'[o] = {}
    BY <1>1, <1>8, <2>1 DEF HeapOK
  <2>5. \A o \in Objects : marked'[o] = "free" => ref'[o] = {} /\ (o \in Udata => env'[o] = Registry)
    BY <1>1, <1>2, <1>4, <1>7, <1>8, <2>3 DEF HeapOK
  <2>6. WeakTable \in ref'[Registry] /\ env' \in [Udata -> StrongTables]
    BY <1>1, <1>2, <1>8, <2>2 DEF HeapOK
  <2> QED
    BY <1>3, <1>6, <1>7, <1>8, <2>4, <2>5, <2>6 DEF HeapOK
<1>11. ColoursOK'
  <2>1. \A o \in Udata \cup Strings \cup {Main, WeakTable} : o \in Objects
    BY ObjectsApart
  <2> QED
    BY <1>1, <1>7, <2>1 DEF ColoursOK
<1>12. LiveClosed'
  <2>1. \A o \in Objects : Strong(o)' \subseteq Strong(o) \cup {u}
    <3> TAKE o \in Objects
    <3>1. ref'[o] \subseteq ref[o] \cup {u}
      BY <1>8
    <3> QED
      BY <1>2, <3>1 DEF Strong
  <2>2. ref'[WeakTable] = ref[WeakTable]
    BY <1>8, ObjectsApart
  <2>3. (Fixed \cup Pending)' \subseteq Live'
    BY <1>1, <1>3, <1>9 DEF LiveClosed, Fixed
  <2>4. \A o \in Live' : Strong(o)' \subseteq Live'
    BY <1>1, <1>4, <1>9, <2>1 DEF LiveClosed, Live
  <2> QED
    BY <1>1, <1>9, <2>2, <2>3, <2>4 DEF LiveClosed
<1>13. ListsOK'
  BY <1>1, <1>2, <1>7 DEF ListsOK
<1>14. SweptOK'
  <2>1. \A o \in Objects \ (unswept' \cup Pending') : marked'[o] \in {"free", "white"}
    BY <1>1, <1>2, <1>3, <1>7 DEF SweptOK
  <2>2. unswept' = {}
    BY <1>1, <1>2 DEF SweptOK
  <2> QED
    BY <1>2, <2>1, <2>2 DEF SweptOK
<1>15. MarkingOK'
  BY <1>2 DEF MarkingOK
<1> QED
  BY <1>10, <1>11, <1>12, <1>13, <1>14, <1>15 DEF GCInv

\* The cycle ends when no finalizer is due.
LEMMA EndCycleStep == GCInv /\ EndCycle => GCInv'
<1> SUFFICES ASSUME GCInv, EndCycle PROVE GCInv'
  OBVIOUS
<1>1. HeapOK /\ ColoursOK /\ LiveClosed /\ ListsOK /\ SweptOK
  BY DEF GCInv
<1>2. gcstate = "finalize" /\ gcstate' = "pause"
      /\ UNCHANGED <<gray, grayagain, weak, udlist, tmudata, marked, unswept, ref, env>>
  BY DEF EndCycle, lists, udstate
<1>3. HeapOK' /\ ColoursOK' /\ ListsOK'
  BY <1>1, <1>2 DEF HeapOK, ColoursOK, ListsOK
<1>4. Live' = Live /\ Alloc' = Alloc
  BY <1>2 DEF Live, Alloc, Allocated
<1>5. LiveClosed'
  BY <1>1, <1>2, <1>4, StaysClosed
<1>6. SweptOK'
  BY <1>1, <1>2, <1>4 DEF SweptOK, Pending
<1>7. MarkingOK'
  BY <1>2 DEF MarkingOK
<1> QED
  BY <1>3, <1>5, <1>6, <1>7 DEF GCInv

\* luaC_fullgc, called before the sweep, gives the marking up and sweeps.
LEMMA FullGCStep == GCInv /\ FullGC => GCInv'
<1> SUFFICES ASSUME GCInv, FullGC PROVE GCInv'
  OBVIOUS
<1>1. HeapOK /\ ColoursOK /\ LiveClosed /\ ListsOK /\ SweptOK
  BY DEF GCInv
<1>2. UNCHANGED <<udlist, tmudata, marked, ref, env>>
  BY DEF FullGC, udstate
<1>3. HeapOK' /\ ColoursOK'
  BY <1>1, <1>2 DEF HeapOK, ColoursOK
<1>4. Live' = Live /\ Alloc' = Alloc
  BY <1>2 DEF Live, Alloc, Allocated
<1>5. LiveClosed'
  BY <1>1, <1>2, <1>4, StaysClosed
<1>6. CASE gcstate \in {"pause", "propagate"}
  <2>1. gray' = {} /\ grayagain' = {} /\ weak' = {} /\ unswept' = RootList(tmudata) /\ gcstate' = "sweepstring"
    BY <1>6 DEF FullGC
  <2>2. ListsOK'
    BY <2>1 DEF ListsOK
  <2>3. SweptOK'
    <3>1. \A o \in Objects \ (unswept' \cup Pending') : marked'[o] = "free"
      BY <1>2, <2>1 DEF RootList, Pending, Allocated
    <3>2. unswept' \subseteq Alloc'
      BY <1>4, <2>1 DEF RootList, Alloc
    <3> QED
      BY <2>1, <3>1, <3>2 DEF SweptOK
  <2> QED
    BY <1>3, <1>5, <2>1, <2>2, <2>3 DEF GCInv, MarkingOK
<1>7. CASE gcstate \notin {"pause", "propagate"}
  <2>1. UNCHANGED <<gcstate, gray, grayagain, weak, unswept>>
    BY <1>7 DEF FullGC, lists
  <2>2. ListsOK' /\ SweptOK'
    BY <1>1, <1>2, <1>4, <2>1 DEF ListsOK, SweptOK, Pending
  <2> QED
    BY <1>3, <1>5, <1>7, <2>1, <2>2 DEF GCInv, MarkingOK
<1> QED
  BY <1>6, <1>7

\* The stack gets something live, or fields are cleared.
LEMMA RefsChange ==
    ASSUME GCInv, UNCHANGED <<gcstate, gray, grayagain, weak, unswept, udlist, tmudata, marked, env>>,
           ref' \in [Objects -> SUBSET Objects], WeakTable \in ref'[Registry],
           \A o \in Objects : o # Main => ref'[o] \subseteq ref[o],
           ref'[Main] \subseteq ref[Main] \cup Live
    PROVE  GCInv'
<1>1. HeapOK /\ ColoursOK /\ LiveClosed /\ ListsOK /\ SweptOK /\ MarkingOK
  BY DEF GCInv
<1>2. Main \in Live /\ Main \notin Udata \cup Strings /\ WeakTable # Main /\ WeakTable \in Objects
  BY <1>1, ObjectsApart DEF LiveClosed, Fixed
<1>3. HeapOK'
  <2>1. \A o \in Udata \cup Strings : ref'[o] = {}
    <3>1. \A o \in Udata \cup Strings : o \in Objects /\ o # Main /\ ref[o] = {}
      BY <1>1, ObjectsApart DEF HeapOK
    <3> QED
      BY <3>1
  <2>2. \A o \in Objects : marked'[o] = "free" => ref'[o] = {} /\ (o \in Udata => env'[o] = Registry)
    <3>1. \A o \in Objects : marked[o] = "free" => o # Main /\ ref[o] = {} /\ (o \in Udata => env[o] = Registry)
      BY <1>1, <1>2 DEF HeapOK, Live
    <3> QED
      BY <3>1
  <2> QED
    BY <1>1, <2>1, <2>2 DEF HeapOK
<1>4. ColoursOK' /\ ListsOK'
  BY <1>1 DEF ColoursOK, ListsOK
<1>5. Live' = Live /\ Alloc' = Alloc /\ Pending' = Pending /\ Marks' = Marks
  BY DEF Live, Alloc, Allocated, Pending, Marks, IsWhite
<1>6. \A o \in Objects : o # Main => Strong(o)' \subseteq Strong(o)
  <2> TAKE o \in Objects
  <2> HAVE o # Main
  <2>1. ref'[o] \subseteq ref[o]
    OBVIOUS
  <2> QED
    BY <2>1 DEF Strong
<1>7. Strong(Main)' \subseteq Strong(Main) \cup Live
  BY <1>2 DEF Strong
<1>8. LiveClosed'
  <2>1. ref'[WeakTable] \subseteq Live'
    BY <1>1, <1>2, <1>5 DEF LiveClosed
  <2>2. \A o \in Live' : Strong(o)' \subseteq Live'
    BY <1>1, <1>5, <1>6, <1>7 DEF LiveClosed, Live
  <2> QED
    BY <1>1, <1>5, <2>1, <2>2 DEF LiveClosed, Fixed
<1>9. SweptOK'
  BY <1>1, <1>5 DEF SweptOK
<1>10. MarkingOK'
  <2> SUFFICES ASSUME gcstate = "propagate"
               PROVE  MarkingOK'
    BY DEF MarkingOK
  <2>1. /\ \A o \in Objects : marked[o] # "other"
        /\ RecOK(Marks, Alloc) /\ Tri(Marks, Pending)
        /\ Main \in gray \cup grayagain /\ Registry \notin Marks.white
    BY <1>1 DEF MarkingOK
  <2>2. RecOK(Marks', Alloc')
    BY <1>5, <2>1
  <2>3. \A x \in Marks.black \ Pending : Strong(x)' \cap Marks.white = {}
    <3>1. \A x \in Marks.black : x \in Objects /\ x # Main
      BY <2>1 DEF RecOK, MarksType
    <3> QED
      BY <1>6, <2>1, <3>1 DEF Tri
  <2>4. Tri(Marks, Pending)'
    BY <1>5, <2>3 DEF Tri
  <2> QED
    BY <1>5, <2>1, <2>2, <2>4 DEF MarkingOK, RecOK
<1> QED
  BY <1>3, <1>4, <1>8, <1>9, <1>10 DEF GCInv

\* A new object, or a dead string kept, is pushed on the stack.
LEMMA NewObject ==
    ASSUME GCInv, NEW o \in Tables \cup Udata \cup Strings, o \notin Live, Strong(o) \subseteq Live,
           marked' = [marked EXCEPT ![o] = "white"], ref' = [ref EXCEPT ![Main] = @ \cup {o}],
           UNCHANGED <<gcstate, gray, grayagain, weak, unswept, tmudata, env>>, udlist' \in Seq(Udata)
    PROVE  GCInv'
<1>1. HeapOK /\ ColoursOK /\ LiveClosed /\ ListsOK /\ SweptOK /\ MarkingOK
  BY DEF GCInv
<1>2. /\ Main \in Live /\ Main \in Objects /\ Main \notin Udata \cup Strings /\ WeakTable # Main /\ Registry # Main
      /\ WeakTable \in Objects /\ Registry \in Objects
  BY <1>1, ObjectsApart DEF LiveClosed, Fixed
<1>3. o \in Objects /\ o \notin Fixed /\ o # Main /\ o # WeakTable /\ o # Registry
  <2>1. o \notin Fixed
    BY <1>1 DEF LiveClosed
  <2> QED
    BY <2>1 DEF Fixed, Objects
<1>4. marked \in [Objects -> {"white", "other", "gray", "black", "free"}] /\ ref \in [Objects -> SUBSET Objects]
  BY <1>1 DEF HeapOK
<1>5. /\ marked' \in [Objects -> {"white", "other", "gray", "black", "free"}]
      /\ \A x \in Objects : marked'[x] = IF x = o THEN "white" ELSE marked[x]
  BY <1>3, <1>4
<1>6. /\ ref' \in [Objects -> SUBSET Objects]
      /\ \A x \in Objects : ref'[x] = IF x = Main THEN ref[Main] \cup {o} ELSE ref[x]
  <2>1. ref[Main] \cup {o} \in SUBSET Objects
    BY <1>2, <1>3, <1>4
  <2> QED
    BY <1>2, <1>4, <2>1
<1>7. Live' = Live \cup {o} /\ Alloc' = Alloc \cup {o} /\ Pending' = Pending
  BY <1>3, <1>5 DEF Live, Alloc, Allocated, Pending
<1>8. HeapOK'
  <2>1. \A x \in Udata \cup Strings : ref'[x] = {}
    <3>1. \A x \in Udata \cup Strings : x \in Objects /\ x # Main /\ ref[x] = {}
      BY <1>1, ObjectsApart DEF HeapOK
    <3> QED
      BY <1>6, <3>1
  <2>2. \A x \in Objects : marked'[x] = "free" => ref'[x] = {} /\ (x \in Udata => env'[x] = Registry)
    <3>1. \A x \in Objects : marked[x] = "free" => x # Main /\ ref[x] = {} /\ (x \in Udata => env[x] = Registry)
      BY <1>1, <1>2 DEF HeapOK, Live
    <3> QED
      BY <1>5, <1>6, <3>1
  <2>3. WeakTable \in ref'[Registry]
    BY <1>1, <1>2, <1>6 DEF HeapOK
  <2> QED
    BY <1>1, <1>5, <1>6, <2>1, <2>2, <2>3 DEF HeapOK
<1>9. ColoursOK'
  <2>1. \A x \in Udata \cup Strings \cup {Main, WeakTable} : x \in Objects
    BY ObjectsApart
  <2> QED
    BY <1>1, <1>5, <2>1 DEF ColoursOK
<1>10. ListsOK'
  BY <1>1, <1>5 DEF ListsOK
<1>11. \A x \in Objects : x # Main => Strong(x)' = Strong(x)
  <2> TAKE x \in Objects
  <2> HAVE x # Main
  <2>1. ref'[x] = ref[x]
    BY <1>6
  <2> QED
    BY <2>1 DEF Strong
<1>12. Strong(Main)' \subseteq Strong(Main) \cup {o}
  BY <1>2, <1>6 DEF Strong
<1>13. LiveClosed'
  <2>1. ref'[WeakTable] \subseteq Live'
    BY <1>1, <1>2, <1>6, <1>7 DEF LiveClosed
  <2>2. \A x \in Live' : Strong(x)' \subseteq Live'
    <3>1. \A x \in Live : x \in Objects /\ Strong(x) \subseteq Live
      BY <1>1 DEF LiveClosed, Live
    <3>2. Strong(o)' \subseteq Live
      BY <1>3, <1>11
    <3> QED
      BY <1>7, <1>11, <1>12, <3>1, <3>2
  <2> QED
    BY <1>1, <1>7, <2>1, <2>2 DEF LiveClosed, Fixed
<1>14. SweptOK'
  BY <1>1, <1>5, <1>7 DEF SweptOK
<1>15. MarkingOK'
  <2> SUFFICES ASSUME gcstate = "propagate"
               PROVE  MarkingOK'
    BY DEF MarkingOK
  <2>1. /\ \A x \in Objects : marked[x] # "other"
        /\ RecOK(Marks, Alloc) /\ Tri(Marks, Pending)
        /\ Main \in gray \cup grayagain /\ Registry \notin Marks.white
    BY <1>1 DEF MarkingOK
  <2>2. Live = Alloc
    BY <1>1, <2>1, HeapAlloc
  <2>3. o \notin Alloc
    BY <2>2
  <2>4. /\ Marks.white = {x \in Objects : IsWhite(x)}
        /\ Marks.black = {x \in Objects : marked[x] = "black"}
        /\ Marks.gray = gray /\ Marks.grayagain = grayagain /\ Marks.weak = weak
    BY <1>1, MarksIs
  <2>5. /\ Marks'.white = Marks.white \cup {o} /\ Marks'.black = Marks.black
        /\ Marks'.gray = Marks.gray /\ Marks'.grayagain = Marks.grayagain /\ Marks'.weak = Marks.weak
    <3>1. {x \in Objects : IsWhite(x)}' = {x \in Objects : IsWhite(x)} \cup {o}
      BY <1>3, <1>5 DEF IsWhite
    <3>2. {x \in Objects : marked'[x] = "black"} = {x \in Objects : marked[x] = "black"}
      BY <1>5, <2>3 DEF Alloc, Allocated
    <3>3. /\ Marks'.white = {x \in Objects : IsWhite(x)}'
          /\ Marks'.black = {x \in Objects : marked'[x] = "black"}
          /\ Marks'.gray = gray' /\ Marks'.grayagain = grayagain' /\ Marks'.weak = weak'
      BY DEF Marks
    <3> QED
      BY <2>4, <3>1, <3>2, <3>3
  <2>6. RecOK(Marks', Alloc')
    <3>1. Marks' \in MarksType
      <4>1. Marks' = [white |-> Marks'.white, black |-> Marks'.black, gray |-> Marks'.gray,
                      grayagain |-> Marks'.grayagain, weak |-> Marks'.weak]
        BY DEF Marks
      <4>2. Marks \in MarksType
        BY <2>1 DEF RecOK
      <4>3. Marks'.white \in SUBSET Objects
        BY <1>3, <2>5, <4>2 DEF MarksType
      <4> HIDE DEF Marks
      <4> QED
        BY <2>5, <4>1, <4>2, <4>3 DEF MarksType
    <3> HIDE DEF Marks
    <3>2. /\ o \notin Marks.black \cup Marks.gray \cup Marks.grayagain \cup Marks.weak
      BY <2>1, <2>3 DEF RecOK
    <3> QED
      BY <1>7, <2>1, <2>3, <2>5, <3>1, <3>2 DEF RecOK
  <2>7. \A x \in Marks'.black \ Pending : Strong(x)' \cap Marks'.white = {}
    <3> SUFFICES ASSUME NEW x \in Marks.black \ Pending
                 PROVE  Strong(x)' \cap (Marks.white \cup {o}) = {}
      BY <2>5
    <3>1. x \in Objects /\ x # Main /\ x \in Alloc
      BY <2>1 DEF RecOK, MarksType
    <3>2. Strong(x) \subseteq Live
      BY <1>1, <2>2, <3>1 DEF LiveClosed
    <3>3. Strong(x) \cap Marks.white = {}
      BY <2>1 DEF Tri
    <3> QED
      BY <1>11, <3>1, <3>2, <3>3
  <2>8. Tri(Marks, Pending)'
    BY <1>7, <2>7 DEF Tri
  <2>9. Registry \notin Marks'.white
    BY <1>3, <2>1, <2>5
  <2>10. RecOK(Marks, Alloc)'
    BY <2>6 DEF RecOK
  <2>11. \A x \in Objects : marked'[x] # "other"
    BY <1>5, <2>1
  <2> QED
    BY <2>1, <2>8, <2>9, <2>10, <2>11 DEF MarkingOK
<1> QED
  BY <1>8, <1>9, <1>10, <1>13, <1>14, <1>15 DEF GCInv

\* A new table or userdata is white and on the stack.
LEMMA CreateStep == GCInv /\ (\E o \in Tables \cup Udata : Create(o)) => GCInv'
<1> SUFFICES ASSUME GCInv, NEW o \in Tables \cup Udata, Create(o) PROVE GCInv'
  OBVIOUS
<1>1. HeapOK /\ LiveClosed
  BY DEF GCInv
<1>2. o \in Objects /\ marked[o] = "free"
  BY DEF Create, Allocated, Objects
<1>3. o \notin Live
  BY <1>2 DEF Live
<1>4. Strong(o) \subseteq Live
  <2>1. ref[o] = {} /\ (o \in Udata => env[o] = Registry)
    BY <1>1, <1>2 DEF HeapOK
  <2>2. Registry \in Live
    BY <1>1 DEF LiveClosed, Fixed
  <2> QED
    BY <2>1, <2>2 DEF Strong
<1>5. udlist' \in Seq(Udata)
  <2>1. udlist \in Seq(Udata)
    BY <1>1 DEF HeapOK
  <2> QED
    BY <2>1 DEF Create
<1>6. /\ marked' = [marked EXCEPT ![o] = "white"] /\ ref' = [ref EXCEPT ![Main] = @ \cup {o}]
      /\ UNCHANGED <<gcstate, gray, grayagain, weak, unswept, tmudata, env>>
  BY DEF Create, Push, collector, lists
<1> QED
  BY <1>3, <1>4, <1>5, <1>6, NewObject

\* The script may put any live object on its stack.
LEMMA PushLive ==
    ASSUME GCInv, UNCHANGED <<gcstate, gray, grayagain, weak, unswept, udlist, tmudata, marked, env>>,
           NEW v \in Live, Push(v)
    PROVE  GCInv'
<1>1. ref \in [Objects -> SUBSET Objects] /\ WeakTable \in ref[Registry]
  BY DEF GCInv, HeapOK
<1>2. v \in Objects /\ Main \in Objects /\ Registry \in Objects /\ Registry # Main
  BY ObjectsApart DEF Live
<1>3. ref' = [ref EXCEPT ![Main] = @ \cup {v}]
  BY DEF Push
<1>4. /\ ref' \in [Objects -> SUBSET Objects]
      /\ \A x \in Objects : ref'[x] = IF x = Main THEN ref[Main] \cup {v} ELSE ref[x]
  <2>1. ref[Main] \cup {v} \in SUBSET Objects
    BY <1>1, <1>2
  <2> QED
    BY <1>1, <1>2, <1>3, <2>1
<1>5. /\ WeakTable \in ref'[Registry] /\ ref'[Main] \subseteq ref[Main] \cup Live
      /\ \A o \in Objects : o # Main => ref'[o] \subseteq ref[o]
  BY <1>1, <1>2, <1>4
<1> QED
  BY <1>4, <1>5, RefsChange

\* A string is created, or found in the string table and revived if it is dead.
LEMMA InternStep == GCInv /\ (\E s \in Strings : Intern(s)) => GCInv'
<1> SUFFICES ASSUME GCInv, NEW s \in Strings, Intern(s) PROVE GCInv'
  OBVIOUS
<1>1. HeapOK /\ LiveClosed
  BY DEF GCInv
<1>2. /\ marked' = [marked EXCEPT ![s] = StringFound(s)] /\ Push(s)
      /\ UNCHANGED <<gcstate, gray, grayagain, weak, unswept, udlist, tmudata, env>>
  BY DEF Intern, collector, lists, udstate
<1>3. s \in Objects /\ ref[s] = {}
  BY <1>1, ObjectsApart DEF HeapOK
<1>4. CASE s \in Live
  <2>1. StringFound(s) = marked[s]
    BY <1>4 DEF StringFound, Live, Allocated, IsDead
  <2>2. marked' = marked
    BY <1>1, <1>2, <1>3, <2>1 DEF HeapOK
  <2> QED
    BY <1>2, <1>4, <2>2, PushLive
<1>5. CASE s \notin Live
  <2>1. StringFound(s) = "white"
    BY <1>3, <1>5 DEF StringFound, Live, Allocated, IsDead
  <2>2. Strong(s) \subseteq Live
    BY <1>3, StrongIs
  <2>3. udlist' \in Seq(Udata)
    BY <1>1, <1>2 DEF HeapOK
  <2>4. marked' = [marked EXCEPT ![s] = "white"] /\ ref' = [ref EXCEPT ![Main] = @ \cup {s}]
    BY <1>2, <2>1 DEF Push
  <2> QED
    BY <1>2, <1>5, <2>2, <2>3, <2>4, NewObject
<1> QED
  BY <1>4, <1>5

\* What the script reads, weak entries included, is live.
LEMMA LoadStep == GCInv /\ (\E o \in Reaches : \E v \in Contents(o) : Load(v)) => GCInv'
<1> SUFFICES ASSUME GCInv, NEW o \in Reaches, NEW v \in Contents(o), Load(v) PROVE GCInv'
  OBVIOUS
<1>1. HeapOK /\ LiveClosed
  BY DEF GCInv
<1>2. /\ Push(v) /\ UNCHANGED <<gcstate, gray, grayagain, weak, unswept, udlist, tmudata, marked, env>>
  BY DEF Load, collector, lists, udstate
<1>3. o \in Live
  <2>1. Main \in Live /\ Registry \in Live /\ WeakTable \in Live /\ Strong(Main) \subseteq Live /\ Strong(Main) = ref[Main]
    BY <1>1, ObjectsApart, StrongIs DEF LiveClosed, Fixed
  <2> QED
    BY <2>1 DEF Reaches, Stack
<1>4. v \in Live
  <2>1. Strong(o) \subseteq Live /\ ref[WeakTable] \subseteq Live
    BY <1>1, <1>3 DEF LiveClosed
  <2>2. CASE o \in Udata
    BY <2>1, <2>2 DEF Contents, Strong
  <2>3. CASE o \notin Udata
    BY <2>1, <2>3 DEF Contents, Strong
  <2> QED
    BY <2>2, <2>3
<1> QED
  BY <1>2, <1>4, PushLive

\* Removing a reference that the script does not need keeps the invariant.
LEMMA DropStep == GCInv /\ (\E o \in Reaches \cup {Main} : \E v \in ref[o] \ Fixed : Drop(o, v)) => GCInv'
<1> SUFFICES ASSUME GCInv, NEW o \in Reaches \cup {Main}, NEW v \in ref[o] \ Fixed, Drop(o, v) PROVE GCInv'
  OBVIOUS
<1>1. ref \in [Objects -> SUBSET Objects] /\ WeakTable \in ref[Registry]
  BY DEF GCInv, HeapOK
<1>2. /\ ref' = [ref EXCEPT ![o] = @ \ {v}]
      /\ UNCHANGED <<gcstate, gray, grayagain, weak, unswept, udlist, tmudata, marked, env>>
  BY DEF Drop, collector, lists, udstate
<1>3. v # WeakTable /\ Registry \in Objects /\ Main \in Objects
  BY ObjectsApart DEF Fixed
<1>4. /\ ref' \in [Objects -> SUBSET Objects]
      /\ \A x \in Objects : ref'[x] \subseteq ref[x] /\ ref[x] \subseteq ref'[x] \cup {v}
  BY <1>1, <1>2
<1>5. /\ WeakTable \in ref'[Registry] /\ ref'[Main] \subseteq ref[Main] \cup Live
      /\ \A x \in Objects : x # Main => ref'[x] \subseteq ref[x]
  BY <1>1, <1>3, <1>4
<1> QED
  BY <1>2, <1>4, <1>5, RefsChange

\* luaC_barrierback saves what is stored into a black table.
LEMMA StoreKeeps ==
    ASSUME GCInv, NEW t \in Tables \cup {WeakTable}, t \in Live, NEW v \in ref[Main], Store(t, v)
    PROVE  GCInv'
<1>1. HeapOK /\ ColoursOK /\ LiveClosed /\ ListsOK /\ SweptOK /\ MarkingOK
  BY DEF GCInv
<1>2. /\ ref' = [ref EXCEPT ![Main] = @ \ {v}, ![t] = @ \cup {v}] /\ BarrierBack(t, v)
      /\ UNCHANGED <<gcstate, unswept, udlist, tmudata, env>>
  BY DEF Store, collector, udstate
<1>3. /\ t \in Objects /\ t # Main /\ t # Registry /\ t \notin Udata \cup Strings /\ t \in Nodes
      /\ Main \in Objects /\ Main \notin Udata \cup Strings /\ Main # WeakTable /\ Main # Registry
      /\ Registry \in Objects /\ WeakTable \in Objects
  <2>1. Tables \subseteq Nodes /\ Tables \cap Fixed = {}
    BY HeapAssumption DEF Nodes, AllTables, StrongTables
  <2> QED
    BY <2>1, ObjectsApart DEF Fixed
<1>4. marked \in [Objects -> {"white", "other", "gray", "black", "free"}] /\ ref \in [Objects -> SUBSET Objects]
  BY <1>1 DEF HeapOK
<1>5. v \in Objects /\ v \in Live
  <2>1. Main \in Live /\ Strong(Main) = ref[Main]
    BY <1>1, ObjectsApart, StrongIs DEF LiveClosed, Fixed
  <2> QED
    BY <1>1, <2>1 DEF LiveClosed, Live
<1>6. /\ ref' \in [Objects -> SUBSET Objects]
      /\ \A x \in Objects : ref'[x] = IF x = t THEN ref[t] \cup {v}
                                      ELSE IF x = Main THEN ref[Main] \ {v} ELSE ref[x]
  BY <1>2, <1>3, <1>4, <1>5
<1> DEFINE hit == IsWhite(v) /\ marked[t] = "black"
<1>7. /\ hit => /\ marked' = [marked EXCEPT ![t] = "gray"] /\ grayagain' = grayagain \cup {t}
                /\ UNCHANGED <<gray, weak>>
      /\ ~hit => UNCHANGED <<marked, gray, grayagain, weak>>
  BY <1>2 DEF BarrierBack, lists
<1>8. /\ marked' \in [Objects -> {"white", "other", "gray", "black", "free"}]
      /\ \A x \in Objects : marked'[x] = IF hit /\ x = t THEN "gray" ELSE marked[x]
  BY <1>3, <1>4, <1>7
<1>9. hit => marked[t] = "black" /\ IsWhite(v)
  OBVIOUS
<1> HIDE DEF hit
<1>10. Live' = Live /\ Alloc' = Alloc /\ Pending' = Pending
  <2>1. \A x \in Objects : /\ marked'[x] = "free" <=> marked[x] = "free"
                           /\ marked'[x] = "other" <=> marked[x] = "other"
    BY <1>8, <1>9
  <2> QED
    BY <1>2, <2>1 DEF Live, Alloc, Allocated, Pending
<1>11. HeapOK'
  <2>1. \A x \in Udata \cup Strings : ref'[x] = {}
    <3>1. \A x \in Udata \cup Strings : x \in Objects /\ x # Main /\ x # t /\ ref[x] = {}
      BY <1>1, <1>3, ObjectsApart DEF HeapOK
    <3> QED
      BY <1>6, <3>1
  <2>2. \A x \in Objects : marked'[x] = "free" => ref'[x] = {} /\ (x \in Udata => env'[x] = Registry)
    <3>1. Main \in Live
      BY <1>1 DEF LiveClosed, Fixed
    <3>2. \A x \in Objects : marked[x] = "free" =>
                x # Main /\ x # t /\ ref[x] = {} /\ (x \in Udata => env[x] = Registry)
      BY <1>1, <3>1 DEF HeapOK, Live
    <3>3. \A x \in Objects : marked'[x] = "free" => marked[x] = "free"
      BY <1>8
    <3> QED
      BY <1>2, <1>6, <3>2, <3>3
  <2>3. WeakTable \in ref'[Registry]
    BY <1>1, <1>3, <1>6 DEF HeapOK
  <2> QED
    BY <1>1, <1>2, <1>6, <1>8, <2>1, <2>2, <2>3 DEF HeapOK
<1>12. ColoursOK'
  <2>1. \A x \in Udata \cup Strings \cup {Main, WeakTable} : x \in Objects
    BY ObjectsApart
  <2> QED
    BY <1>1, <1>3, <1>8, <2>1 DEF ColoursOK
<1>13. ListsOK'
  <2>1. CASE hit
    <3>1. t \notin gray \cup grayagain \cup weak
      BY <1>1, <1>9, <2>1 DEF ListsOK
    <3>2. gray' = gray /\ grayagain' = grayagain \cup {t} /\ weak' = weak
      BY <1>7, <2>1
    <3>3. \A x \in Objects : marked[x] # "black" => marked'[x] # "black"
      BY <1>8
    <3>4. marked'[t] # "black"
      BY <1>3, <1>8, <2>1
    <3> QED
      BY <1>1, <1>3, <3>1, <3>2, <3>3, <3>4 DEF ListsOK
  <2>2. CASE ~hit
    BY <1>1, <1>7, <2>2 DEF ListsOK
  <2> QED
    BY <2>1, <2>2
<1>14. \A x \in Objects : x # t => Strong(x)' \subseteq Strong(x)
  <2> TAKE x \in Objects
  <2> HAVE x # t
  <2>1. ref'[x] \subseteq ref[x]
    BY <1>6
  <2> QED
    BY <1>2, <2>1 DEF Strong
<1>15. Strong(t)' \subseteq Strong(t) \cup {v}
  <2>1. ref'[t] = ref[t] \cup {v}
    BY <1>3, <1>6
  <2> QED
    BY <1>2, <2>1 DEF Strong
<1>16. LiveClosed'
  <2>1. ref'[WeakTable] \subseteq Live'
    BY <1>1, <1>3, <1>5, <1>6, <1>10 DEF LiveClosed
  <2>2. \A x \in Live' : Strong(x)' \subseteq Live'
    <3>1. \A x \in Live : x \in Objects /\ Strong(x) \subseteq Live
      BY <1>1 DEF LiveClosed, Live
    <3> QED
      BY <1>5, <1>10, <1>14, <1>15, <3>1
  <2> QED
    BY <1>1, <1>10, <2>1, <2>2 DEF LiveClosed, Fixed
<1>17. SweptOK'
  <2>1. gcstate # "propagate" =>
          \A x \in Objects \ (unswept \cup Pending) : marked'[x] \in {"free", "white"}
    BY <1>1, <1>8, <1>9 DEF SweptOK
  <2> QED
    BY <1>1, <1>2, <1>10, <2>1 DEF SweptOK
<1>18. MarkingOK'
  <2> SUFFICES ASSUME gcstate = "propagate"
               PROVE  MarkingOK'
    BY <1>2 DEF MarkingOK
  <2>1. /\ \A x \in Objects : marked[x] # "other"
        /\ RecOK(Marks, Alloc) /\ Tri(Marks, Pending)
        /\ Main \in gray \cup grayagain /\ Registry \notin Marks.white
    BY <1>1 DEF MarkingOK
  <2>2. /\ Marks \in MarksType
        /\ Marks.white = {x \in Objects : IsWhite(x)}
        /\ Marks.black = {x \in Objects : marked[x] = "black"}
        /\ Marks.gray = gray /\ Marks.grayagain = grayagain /\ Marks.weak = weak
    BY <1>1, MarksIs
  <2>3. CASE hit
    <3> DEFINE r == Marks'
    <3>1. /\ r.white = Marks.white /\ r.black = Marks.black \ {t} /\ r.gray = Marks.gray
          /\ r.grayagain = Marks.grayagain \cup {t} /\ r.weak = Marks.weak
      <4>1. {x \in Objects : IsWhite(x)}' = {x \in Objects : IsWhite(x)}
        BY <1>3, <1>8, <1>9, <2>3 DEF IsWhite
      <4>2. {x \in Objects : marked'[x] = "black"} = {x \in Objects : marked[x] = "black"} \ {t}
        BY <1>3, <1>8, <2>3
      <4>3. /\ r.white = {x \in Objects : IsWhite(x)}' /\ r.black = {x \in Objects : marked'[x] = "black"}
            /\ r.gray = gray' /\ r.grayagain = grayagain' /\ r.weak = weak'
        BY DEF Marks
      <4> QED
        BY <1>7, <2>2, <2>3, <4>1, <4>2, <4>3
    <3>2. t \in Marks.black
      BY <1>3, <1>9, <2>2, <2>3
    <3>3. r = [white |-> r.white, black |-> r.black, gray |-> r.gray, grayagain |-> r.grayagain, weak |-> r.weak]
      BY DEF Marks
    <3>4. r \in MarksType
      <4>1. r.grayagain \in SUBSET Objects /\ r.black \in SUBSET Objects
        BY <1>3, <2>2, <3>1 DEF MarksType
      <4> HIDE DEF Marks, r
      <4> QED
        BY <2>2, <3>1, <3>3, <4>1 DEF MarksType
    <3> HIDE DEF Marks
    <3>5. RecOK(r, Alloc)
      <4> HIDE DEF r
      <4> QED
        BY <1>3, <2>1, <3>1, <3>2, <3>4 DEF RecOK
    <3>6. RecOK(Marks, Alloc)'
      BY <1>10, <3>5 DEF RecOK
    <3>7. ASSUME NEW x \in Marks.black \ {t}, x \notin Pending
          PROVE  Strong(x)' \cap Marks.white = {}
      BY <1>14, <2>1, <2>2, <3>7 DEF Tri, MarksType
    <3>8. Tri(Marks, Pending)'
      BY <1>10, <3>1, <3>7 DEF Tri
    <3>9. \A x \in Objects : marked'[x] # "other"
      BY <1>8, <2>1
    <3>10. Main \in gray' \cup grayagain' /\ Registry \notin r.white
      BY <1>7, <2>1, <2>3, <3>1
    <3> QED
      BY <3>6, <3>8, <3>9, <3>10 DEF MarkingOK
  <2>4. CASE ~hit
    <3>1. Marks' = Marks
      BY <1>7, <2>4 DEF Marks, IsWhite
    <3> HIDE DEF Marks
    <3>2. RecOK(Marks, Alloc)'
      BY <1>10, <2>1, <3>1 DEF RecOK
    <3>3. t \in Marks.black => v \notin Marks.white
      BY <2>2, <2>4 DEF hit
    <3>4. Tri(Marks, Pending)'
      <4>1. ASSUME NEW x \in Marks.black \ Pending
            PROVE  Strong(x)' \cap Marks.white = {}
        <5>1. Strong(x) \cap Marks.white = {} /\ x \in Objects
          BY <2>1, <2>2 DEF Tri, MarksType
        <5>2. CASE x = t
          BY <1>15, <3>3, <5>1, <5>2
        <5>3. CASE x # t
          BY <1>14, <5>1, <5>3
        <5> QED
          BY <5>2, <5>3
      <4> QED
        BY <1>10, <3>1, <4>1 DEF Tri
    <3>5. UNCHANGED <<marked, gray, grayagain, weak>>
      BY <1>7, <2>4
    <3> QED
      BY <2>1, <3>1, <3>2, <3>4, <3>5 DEF MarkingOK
  <2> QED
    BY <2>3, <2>4
<1> QED
  BY <1>11, <1>12, <1>13, <1>16, <1>17, <1>18 DEF GCInv

\* So the script may store what is on its stack into a table.
LEMMA StoreStep == GCInv /\ (\/ \E t \in Stack \cap Tables : \E v \in Stack \ {t} : Store(t, v)
                             \/ \E v \in Stack \ Tables : Store(WeakTable, v)) => GCInv'
<1>1. ASSUME GCInv, NEW t \in Stack \cap Tables, NEW v \in Stack \ {t}, Store(t, v)
      PROVE  GCInv'
  <2>1. Main \in Live /\ Strong(Main) = ref[Main] /\ Strong(Main) \subseteq Live
    BY <1>1, ObjectsApart, StrongIs DEF GCInv, LiveClosed, Fixed
  <2>2. t \in Live /\ t \in Tables \cup {WeakTable} /\ v \in ref[Main]
    BY <2>1 DEF Stack
  <2> QED
    BY <1>1, <2>2, StoreKeeps
<1>2. ASSUME GCInv, NEW v \in Stack \ Tables, Store(WeakTable, v)
      PROVE  GCInv'
  <2>1. WeakTable \in Live
    BY <1>2 DEF GCInv, LiveClosed, Fixed
  <2>2. WeakTable \in Tables \cup {WeakTable} /\ v \in ref[Main]
    BY DEF Stack
  <2> QED
    BY <1>2, <2>1, <2>2, StoreKeeps
<1> QED
  BY <1>1, <1>2

\* luaC_barrierf saves the new environment of a black userdata.
LEMMA SetEnvStep == GCInv /\ (\E u \in Stack \cap Udata, t \in Reaches \cap StrongTables : SetEnv(u, t)) => GCInv'
<1> SUFFICES ASSUME GCInv, NEW u \in Stack \cap Udata, NEW t \in Reaches \cap StrongTables, SetEnv(u, t)
             PROVE  GCInv'
  OBVIOUS
<1>1. HeapOK /\ ColoursOK /\ LiveClosed /\ ListsOK /\ SweptOK /\ MarkingOK
  BY DEF GCInv
<1>2. /\ env' = [env EXCEPT ![u] = t] /\ BarrierForward(u, t)
      /\ UNCHANGED <<gcstate, unswept, udlist, tmudata, ref>>
  BY DEF SetEnv, collector, udstate
<1>3. u \in Udata /\ u \in Objects /\ t \in StrongTables /\ t \in Nodes /\ t \in Objects
      /\ t \notin Udata \cup Strings
  BY ObjectsApart
<1>4. u \in Live /\ t \in Live
  <2>1. /\ Main \in Live /\ Registry \in Live /\ WeakTable \in Live
        /\ Strong(Main) \subseteq Live /\ Strong(Main) = ref[Main]
    BY <1>1, ObjectsApart, StrongIs DEF LiveClosed, Fixed
  <2> QED
    BY <2>1 DEF Reaches, Stack
<1>5. marked \in [Objects -> {"white", "other", "gray", "black", "free"}] /\ env \in [Udata -> StrongTables]
  BY <1>1 DEF HeapOK
<1>6. env' \in [Udata -> StrongTables] /\ \A x \in Udata : env'[x] = IF x = u THEN t ELSE env[x]
  BY <1>2, <1>3, <1>5
<1>7. \A x \in Objects : x # u => Strong(x)' = Strong(x)
  <2> TAKE x \in Objects
  <2> HAVE x # u
  <2>1. x \in Udata => env'[x] = env[x]
    BY <1>6
  <2> QED
    BY <1>2, <2>1 DEF Strong
<1>8. Strong(u)' = {t}
  BY <1>1, <1>2, <1>3, <1>6, ObjectsApart DEF Strong, HeapOK
<1>9. ASSUME marked' \in [Objects -> {"white", "other", "gray", "black", "free"}],
             Live' = Live, \A x \in Objects : marked'[x] = "free" => marked[x] = "free"
      PROVE  HeapOK' /\ LiveClosed'
  <2>1. \A x \in Objects : marked'[x] = "free" => ref'[x] = {} /\ (x \in Udata => env'[x] = Registry)
    <3>1. \A x \in Objects : marked[x] = "free" => x # u /\ ref[x] = {} /\ (x \in Udata => env[x] = Registry)
      BY <1>1, <1>4 DEF HeapOK, Live
    <3> QED
      BY <1>2, <1>6, <1>9, <3>1
  <2>2. HeapOK'
    BY <1>1, <1>2, <1>6, <1>9, <2>1 DEF HeapOK
  <2>3. \A x \in Live' : Strong(x)' \subseteq Live'
    <3>1. \A x \in Live : x \in Objects /\ Strong(x) \subseteq Live
      BY <1>1 DEF LiveClosed, Live
    <3> QED
      BY <1>4, <1>7, <1>8, <1>9, <3>1
  <2>4. Pending' = Pending
    BY <1>2 DEF Pending
  <2> QED
    BY <1>1, <1>2, <1>9, <2>2, <2>3, <2>4 DEF LiveClosed, Fixed
<1>10. Pending' = Pending
  BY <1>2 DEF Pending
<1>11. CASE ~(IsWhite(t) /\ marked[u] = "black")
  <2>1. UNCHANGED <<marked, gray, grayagain, weak>>
    BY <1>2, <1>11 DEF BarrierForward, lists
  <2>2. Live' = Live /\ Alloc' = Alloc /\ Marks' = Marks
    BY <2>1 DEF Live, Alloc, Allocated, Marks, IsWhite
  <2>3. HeapOK' /\ LiveClosed'
    BY <1>5, <1>9, <2>1, <2>2
  <2>4. ColoursOK' /\ ListsOK' /\ SweptOK'
    BY <1>1, <1>2, <1>10, <2>1, <2>2 DEF ColoursOK, ListsOK, SweptOK
  <2>5. MarkingOK'
    <3> SUFFICES ASSUME gcstate = "propagate"
                 PROVE  MarkingOK'
      BY <1>2 DEF MarkingOK
    <3>1. /\ \A x \in Objects : marked[x] # "other"
          /\ RecOK(Marks, Alloc) /\ Tri(Marks, Pending)
          /\ Main \in gray \cup grayagain /\ Registry \notin Marks.white
      BY <1>1 DEF MarkingOK
    <3>2. /\ Marks \in MarksType /\ Marks.white = {x \in Objects : IsWhite(x)}
          /\ Marks.black = {x \in Objects : marked[x] = "black"}
      BY <1>1, MarksIs
    <3> HIDE DEF Marks
    <3>3. RecOK(Marks, Alloc)'
      BY <2>2, <3>1 DEF RecOK
    <3>4. ASSUME NEW x \in Marks.black \ Pending
          PROVE  Strong(x)' \cap Marks.white = {}
      <4>1. x \in Objects /\ Strong(x) \cap Marks.white = {}
        BY <3>1, <3>2 DEF Tri, MarksType
      <4>2. CASE x = u
        BY <1>8, <1>11, <3>2, <4>2
      <4>3. CASE x # u
        BY <1>7, <4>1, <4>3
      <4> QED
        BY <4>2, <4>3
    <3>5. Tri(Marks, Pending)'
      BY <1>10, <2>2, <3>4 DEF Tri
    <3> QED
      BY <2>1, <2>2, <3>1, <3>3, <3>5 DEF MarkingOK
  <2> QED
    BY <2>3, <2>4, <2>5 DEF GCInv
<1>12. CASE IsWhite(t) /\ marked[u] = "black" /\ gcstate = "propagate"
  <2> DEFINE S == {t}
             r == MarkObjects(Marks, S)
  <2>1. Install(r, "white")
    BY <1>2, <1>12 DEF BarrierForward
  <2>2. /\ \A x \in Objects : marked[x] # "other"
        /\ RecOK(Marks, Alloc) /\ Tri(Marks, Pending)
        /\ Main \in gray \cup grayagain /\ Registry \notin Marks.white
    BY <1>1, <1>12 DEF MarkingOK
  <2>3. Heap(Alloc) /\ Live = Alloc
    BY <1>1, <2>2, HeapAlloc
  <2>4. S \in SUBSET Alloc
    BY <1>4, <2>3
  <2>5. Marks.gray = gray /\ Marks.grayagain = grayagain
    BY <1>1, MarksIs
  <2>6. Pending \in SUBSET Objects
    BY <1>1 DEF LiveClosed, Live
  <2> HIDE DEF S, r, Marks
  <2>7. /\ RecOK(r, Alloc) /\ S \cap r.white = {} /\ r.white \subseteq Marks.white
        /\ Marks.gray \subseteq r.gray /\ r.grayagain = Marks.grayagain /\ Tri(r, Pending)
    BY <2>2, <2>3, <2>4, <2>6, MarkObjectsKeeps DEF r
  <2>8. /\ marked' \in [Objects -> {"white", "other", "gray", "black", "free"}]
        /\ \A x \in Objects : marked'[x] = "free" <=> x \notin Alloc
        /\ Alloc' = Alloc /\ ColoursOK' /\ ListsOK'
    BY <1>1, <2>1, <2>7, InstallIs
  <2>9. Marks' = r /\ RecOK(Marks, Alloc)' /\ \A x \in Objects : marked'[x] # "other"
    BY <1>1, <2>1, <2>7, InstallWhite
  <2>10. Live' = Live
    BY <2>3, <2>8, <2>9 DEF Live, Alloc, Allocated
  <2>11. HeapOK' /\ LiveClosed'
    BY <1>9, <2>8, <2>10 DEF Alloc, Allocated
  <2>12. SweptOK'
    BY <1>1, <1>2, <1>12, <2>8 DEF SweptOK
  <2>13. ASSUME NEW x \in r.black \ Pending
         PROVE  Strong(x)' \cap r.white = {}
    <3>1. x \in Objects /\ Strong(x) \cap r.white = {}
      BY <2>7 DEF Tri, RecOK, MarksType
    <3>2. CASE x = u
      BY <1>8, <2>7, <3>2 DEF S
    <3>3. CASE x # u
      BY <1>7, <3>1, <3>3
    <3> QED
      BY <3>2, <3>3
  <2>14. Tri(Marks, Pending)'
    BY <1>10, <2>9, <2>13 DEF Tri
  <2>15. Main \in gray' \cup grayagain' /\ Registry \notin Marks'.white
    BY <2>1, <2>2, <2>5, <2>7, <2>9 DEF Install
  <2>16. MarkingOK'
    BY <2>9, <2>14, <2>15 DEF MarkingOK
  <2> QED
    BY <2>8, <2>11, <2>12, <2>16 DEF GCInv
<1>13. CASE IsWhite(t) /\ marked[u] = "black" /\ gcstate # "propagate"
  <2>1. marked' = [marked EXCEPT ![u] = "white"] /\ UNCHANGED <<gray, grayagain, weak>>
    BY <1>2, <1>13 DEF BarrierForward, lists
  <2>2. /\ marked' \in [Objects -> {"white", "other", "gray", "black", "free"}]
        /\ \A x \in Objects : marked'[x] = IF x = u THEN "white" ELSE marked[x]
    BY <1>3, <1>5, <2>1
  <2>3. Live' = Live /\ Alloc' = Alloc
    BY <1>4, <2>2 DEF Live, Alloc, Allocated
  <2>4. HeapOK' /\ LiveClosed'
    BY <1>9, <1>13, <2>2, <2>3
  <2>5. ColoursOK'
    <3>1. \A x \in Udata \cup Strings \cup {Main, WeakTable} : x \in Objects
      BY ObjectsApart
    <3> QED
      BY <1>1, <2>2, <3>1 DEF ColoursOK
  <2>6. ListsOK'
    BY <1>1, <2>1, <2>2 DEF ListsOK
  <2>7. SweptOK'
    <3>1. \A x \in Objects \ (unswept \cup Pending) : marked'[x] \in {"free", "white"}
      BY <1>1, <1>13, <2>2 DEF SweptOK
    <3> QED
      BY <1>1, <1>2, <1>10, <2>3, <3>1 DEF SweptOK
  <2>8. MarkingOK'
    BY <1>2, <1>13 DEF MarkingOK
  <2> QED
    BY <2>4, <2>5, <2>6, <2>7, <2>8 DEF GCInv
<1> QED
  BY <1>11, <1>12, <1>13

-----------------------------------------------------------------------------
(* What can be reached *)

\* The objects in every set that holds S and is closed under references.
Closure(S) == {o \in Objects : \A W \in SUBSET Objects : S \subseteq W /\ StrongClosed(W) => o \in W}

\* One step of the closure.
Around(S) == S \cup UNION {Strong(o) : o \in S}

\* A set is closed under references when one step adds nothing to it.
LEMMA AroundIs ==
    ASSUME \A o \in Objects : Strong(o) \subseteq Objects, NEW S \in SUBSET Objects
    PROVE  /\ Around(S) \in SUBSET Objects /\ S \subseteq Around(S)
           /\ \A W \in SUBSET Objects : StrongClosed(W) => (S \subseteq W <=> Around(S) \subseteq W)
           /\ Around(S) = S <=> StrongClosed(S)
<1>1. Around(S) \in SUBSET Objects /\ S \subseteq Around(S)
  BY DEF Around
<1>2. ASSUME NEW W \in SUBSET Objects, StrongClosed(W), S \subseteq W
      PROVE  Around(S) \subseteq W
  BY <1>2 DEF Around, StrongClosed
<1>3. ASSUME Around(S) = S
      PROVE  StrongClosed(S)
  <2>1. \A o \in S : Strong(o) \subseteq Around(S)
    BY DEF Around
  <2> QED
    BY <1>3, <2>1 DEF StrongClosed
<1>4. ASSUME StrongClosed(S)
      PROVE  Around(S) = S
  BY <1>1, <1>2, <1>4
<1>5. \A W \in SUBSET Objects : Around(S) \subseteq W => S \subseteq W
  BY <1>1
<1> QED
  BY <1>1, <1>2, <1>3, <1>4, <1>5

\* The closure is the least closed set, and satisfies the recursive equation by
\* which Reachable is defined.
LEMMA ClosureIs ==
    ASSUME \A o \in Objects : Strong(o) \subseteq Objects, NEW S \in SUBSET Objects
    PROVE  /\ Closure(S) \in SUBSET Objects /\ S \subseteq Closure(S) /\ StrongClosed(Closure(S))
           /\ \A W \in SUBSET Objects : S \subseteq W /\ StrongClosed(W) => Closure(S) \subseteq W
           /\ Closure(S) = IF Around(S) = S THEN S ELSE Closure(Around(S))
<1>1. Closure(S) \in SUBSET Objects /\ S \subseteq Closure(S)
      /\ \A W \in SUBSET Objects : S \subseteq W /\ StrongClosed(W) => Closure(S) \subseteq W
  BY DEF Closure
<1>2. StrongClosed(Closure(S))
  <2> SUFFICES ASSUME NEW o \in Closure(S), NEW v \in Strong(o)
               PROVE  v \in Closure(S)
    BY DEF StrongClosed
  <2>1. o \in Objects /\ v \in Objects
    BY <1>1
  <2>2. ASSUME NEW W \in SUBSET Objects, S \subseteq W, StrongClosed(W)
        PROVE  v \in W
    <3>1. o \in W
      BY <2>2 DEF Closure
    <3> QED
      BY <2>2, <3>1 DEF StrongClosed
  <2> QED
    BY <2>1, <2>2 DEF Closure
<1>3. Closure(Around(S)) = Closure(S)
  BY AroundIs DEF Closure
<1>4. Around(S) = S => Closure(S) = S
  BY <1>1, AroundIs
<1> QED
  BY <1>1, <1>2, <1>3, <1>4

\* Reachable is that closure: a closure computed step by step ends with it.
LEMMA ReachableIs ==
    ASSUME \A o \in Objects : Strong(o) \subseteq Objects, Pending \subseteq Objects
    PROVE  Reachable = Closure({Main, Registry} \cup Pending)
<1> DEFINE Steps(f) == f = [S \in SUBSET Objects |-> IF Around(S) = S THEN S ELSE f[Around(S)]]
           c == CHOOSE f : Steps(f)
           R == {Main, Registry} \cup Pending
<1>1. R \in SUBSET Objects
  BY ObjectsApart
<1>2. Steps([S \in SUBSET Objects |-> Closure(S)])
  <2> DEFINE g == [S \in SUBSET Objects |-> Closure(S)]
  <2>1. \A S \in SUBSET Objects : Around(S) \in SUBSET Objects
    BY AroundIs
  <2>2. \A S \in SUBSET Objects : Closure(S) = IF Around(S) = S THEN S ELSE Closure(Around(S))
    BY ClosureIs
  <2>3. \A S \in SUBSET Objects : g[S] = IF Around(S) = S THEN S ELSE g[Around(S)]
    BY <2>1, <2>2
  <2>4. g = [S \in SUBSET Objects |-> g[S]]
    OBVIOUS
  <2> HIDE DEF g
  <2> QED
    BY <2>3, <2>4 DEF g
<1>3. Steps(c)
  BY <1>2
<1>4. Reachable = c[R]
  BY DEF Reachable, Around
<1> HIDE DEF c, R
<1>5. \A S \in SUBSET Objects : c[S] = IF Around(S) = S THEN S ELSE c[Around(S)]
  BY <1>3
<1> HIDE DEF Steps
<1> DEFINE Bad == {S \in SUBSET Objects : c[S] # Closure(S)}
           left == {Cardinality(Objects \ S) : S \in Bad}
<1>6. Bad = {}
  <2> SUFFICES ASSUME Bad # {} PROVE FALSE
    OBVIOUS
  <2>1. \A S \in SUBSET Objects : IsFiniteSet(Objects \ S) /\ Cardinality(Objects \ S) \in Nat
    BY ObjectsFinite, FS_Subset, FS_CardinalityType
  <2>2. left \in SUBSET Nat /\ left # {}
    BY <2>1
  <2> HIDE DEF left
  <2>3. PICK n \in left : \A m \in left : n <= m
    BY <2>2, LeastNat
  <2>4. PICK S \in Bad : n = Cardinality(Objects \ S)
    BY <2>3 DEF left
  <2> DEFINE T == Around(S)
  <2>5. S \in SUBSET Objects /\ T \in SUBSET Objects /\ S \subseteq T
        /\ Closure(S) = IF T = S THEN S ELSE Closure(T)
    BY AroundIs, ClosureIs
  <2>6. T # S
    BY <1>5, <2>5
  <2> HIDE DEF T
  <2>7. T \in Bad
    BY <1>5, <2>5, <2>6 DEF T
  <2>8. n <= Cardinality(Objects \ T)
    BY <2>3, <2>7 DEF left
  <2>9. Cardinality(Objects \ T) < Cardinality(Objects \ S)
    <3>1. PICK x \in T : x \notin S
      BY <2>5, <2>6
    <3>2. x \notin Objects \ T /\ (Objects \ T) \cup {x} \subseteq Objects \ S
      BY <2>5, <3>1
    <3>3. IsFiniteSet((Objects \ T) \cup {x})
          /\ Cardinality((Objects \ T) \cup {x}) = Cardinality(Objects \ T) + 1
      BY <2>1, <2>5, <3>2, FS_AddElement
    <3>4. Cardinality((Objects \ T) \cup {x}) <= Cardinality(Objects \ S)
      BY <2>1, <2>5, <3>2, FS_Subset
    <3>5. Cardinality(Objects \ T) \in Nat /\ Cardinality(Objects \ S) \in Nat
      BY <2>1, <2>5
    <3> QED
      BY <3>3, <3>4, <3>5
  <2>10. Cardinality(Objects \ T) \in Nat /\ Cardinality(Objects \ S) \in Nat
    BY <2>1, <2>5
  <2> QED
    BY <2>4, <2>8, <2>9, <2>10
<1> QED
  BY <1>1, <1>4, <1>6 DEF R

-----------------------------------------------------------------------------
(* The theorems *)

\* The heap a new state begins with satisfies the invariant.
LEMMA InitGC == Init => GCInv
<1> SUFFICES ASSUME Init PROVE GCInv
  OBVIOUS
<1>1. /\ \A o \in Objects : marked[o] = IF o \in Fixed THEN "white" ELSE "free"
      /\ marked \in [Objects -> {"white", "other", "gray", "black", "free"}]
      /\ \A o \in Objects : ref[o] = IF o = Registry THEN {WeakTable} ELSE {}
      /\ gray = {} /\ grayagain = {} /\ weak = {} /\ unswept = {} /\ gcstate = "pause"
      /\ tmudata = <<>> /\ udlist = <<>> /\ env = [u \in Udata |-> Registry]
  BY DEF Init
<1>2. Fixed \subseteq Objects /\ {Main, Registry, WeakTable} \subseteq Fixed /\ Registry \in StrongTables
      /\ Registry \notin Udata \cup Strings /\ WeakTable # Registry /\ Fixed \cap Udata = {} /\ Fixed = {Main, Registry, WeakTable}
  BY HeapAssumption DEF Fixed, Objects, StrongTables
<1>3. HeapOK
  <2>1. ref \in [Objects -> SUBSET Objects]
    BY <1>2 DEF Init
  <2>2. \A o \in Udata \cup Strings : ref[o] = {}
    BY <1>1, <1>2, ObjectsApart
  <2>3. \A o \in Objects : marked[o] = "free" => ref[o] = {} /\ (o \in Udata => env[o] = Registry)
    BY <1>1, <1>2
  <2>4. env \in [Udata -> StrongTables] /\ udlist \in Seq(Udata) /\ tmudata \in Seq(Udata)
    BY <1>1, <1>2
  <2>5. WeakTable \in ref[Registry]
    BY <1>1, <1>2
  <2> QED
    BY <1>1, <2>1, <2>2, <2>3, <2>4, <2>5 DEF HeapOK
<1>4. ColoursOK
  <2>1. \A o \in Udata \cup Strings \cup {Main, WeakTable} : o \in Objects
    BY ObjectsApart
  <2> QED
    BY <1>1, <2>1 DEF ColoursOK
<1>5. Pending = {}
  BY <1>1 DEF Pending, Range
<1>6. Live = Fixed
  BY <1>1, <1>2 DEF Live
<1>7. LiveClosed
  <2>1. \A o \in Fixed : Strong(o) \subseteq Fixed
    BY <1>1, <1>2 DEF Strong
  <2>2. ref[WeakTable] = {}
    BY <1>1, <1>2
  <2> QED
    BY <1>5, <1>6, <2>1, <2>2 DEF LiveClosed
<1>8. ListsOK /\ SweptOK /\ MarkingOK
  BY <1>1 DEF ListsOK, SweptOK, MarkingOK
<1> QED
  BY <1>3, <1>4, <1>7, <1>8 DEF GCInv

\* A step that changes nothing keeps the invariant.
LEMMA StutterGC == GCInv /\ UNCHANGED vars => GCInv'
<1> SUFFICES ASSUME GCInv, UNCHANGED vars PROVE GCInv'
  OBVIOUS
<1>1. UNCHANGED <<gcstate, gray, grayagain, weak, udlist, tmudata, marked, unswept, ref, env>>
  BY DEF vars, collector, lists, udstate
<1>2. Live' = Live /\ Alloc' = Alloc /\ Pending' = Pending /\ Marks' = Marks
  BY <1>1 DEF Live, Alloc, Allocated, Pending, Marks, IsWhite
<1>3. HeapOK' /\ ColoursOK' /\ ListsOK' /\ SweptOK'
  BY <1>1, <1>2 DEF GCInv, HeapOK, ColoursOK, ListsOK, SweptOK
<1>4. LiveClosed'
  BY <1>1, <1>2, StaysClosed DEF GCInv
<1>5. MarkingOK'
  <2>1. Tri(Marks, Pending) => Tri(Marks, Pending)'
    BY <1>1, <1>2 DEF Tri, Strong
  <2>2. RecOK(Marks, Alloc) => RecOK(Marks, Alloc)'
    BY <1>2 DEF RecOK
  <2> QED
    BY <1>1, <1>2, <2>1, <2>2 DEF GCInv, MarkingOK
<1> QED
  BY <1>3, <1>4, <1>5 DEF GCInv

\* Every step keeps the invariant.
LEMMA NextGC == GCInv /\ [Next]_vars => GCInv'
<1> SUFFICES ASSUME GCInv, [Next]_vars PROVE GCInv'
  OBVIOUS
<1>1. CASE Collect
  BY <1>1, MarkRootStep, PropagateStep, AtomicStep, SweepStringStep, SweepObjectsStep,
     CallFinalizerStep, EndCycleStep DEF Collect
<1>2. CASE Script
  BY <1>2, FullGCStep, CreateStep, InternStep, LoadStep, StoreStep, SetEnvStep, DropStep DEF Script
<1>3. CASE UNCHANGED vars
  BY <1>3, StutterGC
<1> QED
  BY <1>1, <1>2, <1>3 DEF Next

\* The inductive invariant: what is live is closed under references, and
\* during marking the colours and the lists agree on how far it has come.
THEOREM HeapInv == Spec => []GCInv
BY InitGC, NextGC, PTL DEF Spec

\* What is reachable is live, since the live objects are closed and hold the roots.
LEMMA AliveFromInv == GCInv => ReachableAlive
<1> SUFFICES ASSUME GCInv PROVE ReachableAlive
  OBVIOUS
<1>1. HeapOK /\ LiveClosed
  BY DEF GCInv
<1>2. \A o \in Objects : Strong(o) \subseteq Objects
  BY <1>1, ObjectsApart DEF HeapOK, Strong
<1>3. Live \in SUBSET Objects /\ StrongClosed(Live) /\ {Main, Registry} \cup Pending \subseteq Live
  BY <1>1 DEF LiveClosed, Live, StrongClosed, Fixed
<1>4. Reachable \subseteq Live
  <2>1. Pending \subseteq Objects /\ {Main, Registry} \cup Pending \in SUBSET Objects
    BY <1>3
  <2> QED
    BY <1>2, <1>3, <2>1, ReachableIs, ClosureIs
<1>5. Reachable \cup ref[WeakTable] \subseteq Live
  BY <1>1, <1>4 DEF LiveClosed
<1> QED
  BY <1>5 DEF ReachableAlive, Live, Allocated, IsDead

\* No script meets a freed object or one about to be: whatever the steps of
\* the collector and of the script are, and however they alternate.
THEOREM NothingReachableDies == Spec => []ReachableAlive
BY HeapInv, AliveFromInv, PTL

\* The invariant has the three colours in it.
LEMMA TriFromInv == GCInv => TriColour
<1> SUFFICES ASSUME GCInv, gcstate = "propagate", NEW o \in Objects \ Pending, marked[o] = "black",
                    NEW v \in Strong(o)
             PROVE  ~IsWhite(v)
  BY DEF TriColour
<1>1. HeapOK /\ ListsOK /\ Tri(Marks, Pending)
  BY DEF GCInv, MarkingOK
<1>2. o \in Marks.black /\ v \in Objects
  BY <1>1, ObjectsApart, MarksIs DEF HeapOK, Strong
<1>3. v \notin Marks.white
  BY <1>1, <1>2 DEF Tri
<1> QED
  BY <1>1, <1>2, <1>3, MarksIs

\* The barriers and the traversal keep the tri-colour invariant.
THEOREM BlackSeesNoWhite == Spec => []TriColour
BY HeapInv, TriFromInv, PTL

\* So it has the lists.
LEMMA ApartFromInv == GCInv => ListsApart
<1> SUFFICES ASSUME GCInv PROVE ListsApart
  OBVIOUS
<1>1. HeapOK /\ ListsOK /\ SweptOK /\ MarkingOK
  BY DEF GCInv
<1>2. ASSUME gcstate = "propagate", NEW o \in gray \cup grayagain \cup weak
      PROVE  marked[o] = "gray"
  <2>1. RecOK(Marks, Alloc) /\ \A x \in Objects : marked[x] # "other"
    BY <1>1, <1>2 DEF MarkingOK
  <2>2. o \in Objects /\ o \in Alloc /\ o \notin Marks.white /\ o \notin Marks.black
    BY <1>1, <2>1, MarksIs DEF RecOK, Alloc
  <2>3. ~IsWhite(o) /\ marked[o] # "black" /\ marked[o] # "free"
    BY <1>1, <2>2, MarksIs DEF Alloc, Allocated
  <2>4. marked[o] \in {"white", "other", "gray", "black", "free"}
    BY <1>1, <2>2 DEF HeapOK
  <2> QED
    BY <2>3, <2>4 DEF IsWhite
<1>3. gcstate \in {"pause", "finalize"} => \A o \in Objects \ Pending : marked[o] \in {"free", "white"}
  BY <1>1 DEF SweptOK
<1> QED
  BY <1>1, <1>2, <1>3 DEF ListsApart, ListsOK

\* The lists threaded through gclist never share an object.
THEOREM OneGCList == Spec => []ListsApart
BY HeapInv, ApartFromInv, PTL

-----------------------------------------------------------------------------
(* A full collection *)

\* In the cycle luaC_fullgc runs, what is marked, and then what is left, can
\* be reached: nothing else was there when marking began.
CycleOK ==
    full = "cycle" => IF gcstate = "propagate" THEN Alloc \ Marks.white \subseteq Reachable
                                               ELSE Live \subseteq Reachable

ReachOK ==
    /\ Reachable \in SUBSET Objects /\ {Main, Registry} \cup Pending \subseteq Reachable
    /\ \A o \in Reachable : Strong(o) \subseteq Reachable
    /\ \A W \in SUBSET Objects :
          {Main, Registry} \cup Pending \subseteq W /\ (\A o \in W : Strong(o) \subseteq W) => Reachable \subseteq W

\* Reachable is the least closed set that holds the roots.
LEMMA ReachFromInv == GCInv => ReachOK
<1> SUFFICES ASSUME GCInv PROVE ReachOK
  OBVIOUS
<1>1. \A o \in Objects : Strong(o) \subseteq Objects
  BY ObjectsApart DEF GCInv, HeapOK, Strong
<1>2. Pending \subseteq Objects /\ {Main, Registry} \cup Pending \in SUBSET Objects
  BY ObjectsApart DEF GCInv, LiveClosed, Live
<1>3. Reachable = Closure({Main, Registry} \cup Pending)
  BY <1>1, <1>2, ReachableIs
<1> QED
  BY <1>1, <1>2, <1>3, ClosureIs DEF ReachOK, StrongClosed

\* As long as the references of what is live are kept, so is what can be reached.
LEMMA ReachStays ==
    ASSUME GCInv, ReachOK, ReachOK', Pending \subseteq Pending', \A o \in Live : Strong(o)' = Strong(o)
    PROVE  Reachable \subseteq Reachable'
<1>1. /\ {Main, Registry} \cup Pending \subseteq Live /\ Live \subseteq Objects
      /\ \A o \in Live : Strong(o) \subseteq Live
  BY DEF GCInv, LiveClosed, Fixed, Live
<1> DEFINE V == Reachable' \cap Live
<1>2. V \in SUBSET Objects /\ {Main, Registry} \cup Pending \subseteq V
  BY <1>1 DEF ReachOK
<1>3. \A o \in V : Strong(o) \subseteq V
  BY <1>1 DEF ReachOK
<1>4. Reachable \subseteq V
  <2> HIDE DEF V
  <2> QED
    BY <1>2, <1>3 DEF ReachOK
<1> QED
  BY <1>4

\* In a full collection only what is reachable is marked, step by step.
LEMMA CycleStep == GCInv /\ GCInv' /\ ReachOK /\ ReachOK' /\ CycleOK /\ [Next]_vars => CycleOK'
<1> SUFFICES ASSUME GCInv, GCInv', ReachOK, ReachOK', CycleOK, [Next]_vars, full' = "cycle"
             PROVE  CycleOK'
  BY DEF CycleOK
<1>1. CASE MarkRoot
  <2>1. UNCHANGED <<tmudata, ref, env>> /\ gcstate' = "propagate"
    BY <1>1 DEF MarkRoot, udstate
  <2>2. (\A o \in Live : Strong(o)' = Strong(o)) /\ Pending' = Pending
    BY <2>1 DEF Strong, Pending
  <2>3. Reachable \subseteq Reachable'
    BY <2>2, ReachStays
  <2>4. Alloc' \ Marks'.white \subseteq Reachable
    <3>1. Reachable \in SUBSET Objects /\ StrongClosed(Reachable) /\ {Main, Registry} \cup Pending \subseteq Reachable
      BY DEF ReachOK, StrongClosed
    <3> QED
      BY <1>1, <3>1, MarkRootStep
  <2> QED
    BY <2>1, <2>3, <2>4 DEF CycleOK
<1>2. CASE Propagate
  <2>1. UNCHANGED <<tmudata, ref, env, gcstate, full>> /\ gcstate = "propagate"
    BY <1>2 DEF Propagate, udstate, collector
  <2>2. (\A o \in Live : Strong(o)' = Strong(o)) /\ Pending' = Pending
    BY <2>1 DEF Strong, Pending
  <2>3. Reachable \subseteq Reachable'
    BY <2>2, ReachStays
  <2>4. Alloc' \ Marks'.white \subseteq Reachable
    <3>1. Reachable \in SUBSET Objects /\ StrongClosed(Reachable) /\ {Main, Registry} \cup Pending \subseteq Reachable
      BY DEF ReachOK, StrongClosed
    <3>2. Alloc \ Marks.white \subseteq Reachable
      BY <2>1 DEF CycleOK
    <3> QED
      BY <1>2, <3>1, <3>2, PropagateStep
  <2> QED
    BY <2>1, <2>3, <2>4 DEF CycleOK
<1>3. CASE Atomic
  <2>1. gcstate = "propagate" /\ gcstate' = "sweepstring" /\ full' = full
    BY <1>3 DEF Atomic
  <2> DEFINE W == Reachable'
  <2>2. /\ Pending \subseteq Pending' /\ \A o \in Objects : Strong(o)' = Strong(o)
        /\ StrongClosed(W) /\ {Main, Registry} \subseteq W /\ Pending' \subseteq W
           /\ Alloc \ Marks.white \subseteq W => Live' \subseteq W
    <3>1. W \in SUBSET Objects
      BY DEF ReachOK
    <3> QED
      BY <1>3, <3>1, AtomicStep
  <2>3. Reachable \subseteq Reachable'
    BY <2>2, ReachStays DEF Live
  <2>4. Alloc \ Marks.white \subseteq W
    BY <2>1, <2>3 DEF CycleOK
  <2>5. StrongClosed(W) /\ {Main, Registry} \subseteq W /\ Pending' \subseteq W
    BY <2>2 DEF ReachOK, StrongClosed
  <2>6. Live' \subseteq W
    BY <2>2, <2>4, <2>5
  <2> QED
    BY <2>1, <2>6 DEF CycleOK
<1>4. CASE SweepString \/ SweepObjects
  <2>1. gcstate # "propagate" /\ gcstate' # "propagate" /\ full' = full
    BY <1>4 DEF SweepString, SweepObjects, Sweep
  <2>2. Live' = Live /\ Pending' = Pending /\ \A o \in Live : Strong(o)' = Strong(o)
    BY <1>4, SweepStringStep, SweepObjectsStep
  <2>3. Reachable \subseteq Reachable'
    BY <2>2, ReachStays
  <2> QED
    BY <2>1, <2>2, <2>3 DEF CycleOK
<1>5. CASE CallFinalizer \/ EndCycle \/ FullGC
  BY <1>5 DEF CallFinalizer, EndCycle, FullGC
<1>6. CASE Script /\ ~FullGC
  <2>1. full' = full /\ Running
    BY <1>6 DEF Script, Create, Intern, Load, Store, SetEnv, Drop, collector
  <2> QED
    BY <2>1 DEF Running
<1>7. CASE UNCHANGED vars
  <2>1. UNCHANGED <<gcstate, full, tmudata, marked, gray, grayagain, weak, ref, env>>
    BY <1>7 DEF vars, collector, lists, udstate
  <2>2. (\A o \in Live : Strong(o)' = Strong(o)) /\ Pending' = Pending
    BY <2>1 DEF Strong, Pending
  <2>3. Reachable \subseteq Reachable'
    BY <2>2, ReachStays
  <2>4. Live' = Live /\ Alloc' = Alloc /\ Marks' = Marks
    BY <2>1 DEF Live, Alloc, Allocated, Marks, IsWhite
  <2> QED
    BY <2>1, <2>3, <2>4 DEF CycleOK
<1> QED
  BY <1>1, <1>2, <1>3, <1>4, <1>5, <1>6, <1>7 DEF Next, Collect

\* So at its end only what is reachable is left.
LEMMA CollectsFromInv == GCInv /\ CycleOK => FullCollects
<1> SUFFICES ASSUME GCInv, CycleOK, full = "cycle", gcstate = "finalize", NEW o \in Objects, Allocated(o)
             PROVE  o \in Reachable
  BY DEF FullCollects
<1>1. Live \subseteq Reachable
  BY DEF CycleOK
<1>2. marked[o] # "other"
  BY DEF GCInv, SweptOK, LiveClosed, Live
<1> QED
  BY <1>1, <1>2 DEF Live, Allocated

\* luaC_fullgc leaves no garbage, however much of a cycle was done, and
\* whatever finalizers were waiting, when it was called.
THEOREM NoGarbageIsLeft == Spec => []FullCollects
<1>1. Init => CycleOK
  BY DEF Init, CycleOK
<1>2. GCInv /\ CycleOK /\ GCInv' /\ [Next]_vars => CycleOK'
  <2>1. GCInv' => ReachOK'
    BY ReachFromInv, PTL
  <2> QED
    BY <2>1, ReachFromInv, CycleStep
<1>3. Spec => []CycleOK
  BY <1>1, <1>2, HeapInv, PTL DEF Spec
<1> QED
  BY <1>3, HeapInv, CollectsFromInv, PTL

-----------------------------------------------------------------------------
(* Finalizers *)

\* A userdata is in the root list or waits for its finalizer; it has the
\* FINALIZEDBIT when it waits or was called, and only then can be found dead;
\* those without the bit are in the root list in the order of their creation.
FinalizersOK ==
    /\ age \in Seq(Udata) /\ Range(udlist) \cup Pending \subseteq Range(age)
    /\ Range(age) \cup finalized \subseteq Alloc
    /\ \A u \in Udata : Allocated(u) => u \in Range(udlist) \cup Pending
    /\ finalized = Pending \cup called /\ Pending \cap called = {}
    /\ Range(udlist) \cap Pending = {} /\ called \subseteq Udata
    /\ \A u \in Udata : ~Before(udlist, u, u) /\ ~Before(tmudata, u, u)
    /\ \A u \in Udata : IsDead(u) => u \in called
    /\ \A u, v \in Udata \ finalized : Before(udlist, u, v) => Before(age, u, v)

\* What FinalizersInOrder asks of a step.
InOrder ==
    /\ Len(tmudata') < Len(tmudata) => Head(tmudata) \notin called
    /\ \A u \in Udata : Allocated(u) /\ marked'[u] = "free" => u \in called
    /\ \A i, j \in 1 .. Len(tmudata') :
          Len(tmudata) < i /\ i < j => Newer(tmudata'[i], tmudata'[j])

\* The first of InOrder, and the last unless more userdata wait than before.
LEMMA InOrderMostly ==
    ASSUME GCInv, GCInv', FinalizersOK, Len(tmudata') <= Len(tmudata),
           \A u \in Udata : Allocated(u) /\ marked'[u] = "free" => u \in called
    PROVE  InOrder
<1>1. tmudata \in Seq(Udata) /\ tmudata' \in Seq(Udata)
  BY DEF GCInv, HeapOK
<1>2. Len(tmudata) \in Nat /\ Len(tmudata') \in Nat
  BY <1>1
<1>3. ASSUME Len(tmudata') < Len(tmudata)
      PROVE  Head(tmudata) \notin called
  <2>1. 1 \in 1 .. Len(tmudata) /\ Head(tmudata) = tmudata[1]
    BY <1>1, <1>2, <1>3
  <2>2. Head(tmudata) \in Pending
    BY <1>1, <2>1, RangeIs DEF Pending
  <2> QED
    BY <2>2 DEF FinalizersOK
<1>4. \A i \in 1 .. Len(tmudata') : ~(Len(tmudata) < i)
  BY <1>2
<1> QED
  BY <1>3, <1>4 DEF InOrder

\* Steps that do nothing to userdata but mark them.
LEMMA FinalizersSame ==
    ASSUME GCInv, GCInv', FinalizersOK, UNCHANGED udstate,
           \A u \in Udata : (marked'[u] = "free" <=> marked[u] = "free") /\ (marked'[u] = "other" => marked[u] = "other")
    PROVE  FinalizersOK' /\ InOrder
<1>1. UNCHANGED <<udlist, tmudata, finalized, age, called>> /\ Pending' = Pending
  BY DEF udstate, Pending
<1>2. \A u \in Udata : u \in Objects /\ (Allocated(u)' <=> Allocated(u)) /\ (IsDead(u)' => IsDead(u))
  BY ObjectsApart DEF Allocated, IsDead
<1>3. Range(age) \subseteq Udata /\ finalized \subseteq Alloc
  BY RangeIs DEF FinalizersOK
<1>4. finalized \subseteq Udata
  <2>1. Pending \subseteq Udata
    BY RangeIs DEF GCInv, HeapOK, Pending
  <2>2. called \subseteq Udata
    BY DEF FinalizersOK
  <2> QED
    BY <2>1, <2>2 DEF FinalizersOK
<1>5. Range(age)' \cup finalized' \subseteq Alloc'
  BY <1>1, <1>2, <1>3, <1>4 DEF FinalizersOK, Alloc
<1>6. FinalizersOK'
  BY <1>1, <1>2, <1>5 DEF FinalizersOK, Before
<1>7. Len(tmudata') <= Len(tmudata)
  <2>1. tmudata \in Seq(Udata)
    BY DEF GCInv, HeapOK
  <2>2. Len(tmudata) \in Nat
    BY <2>1
  <2> QED
    BY <1>1, <2>2
<1>8. \A u \in Udata : Allocated(u) /\ marked'[u] = "free" => u \in called
  BY DEF Allocated
<1> QED
  BY <1>6, <1>7, <1>8, InOrderMostly

\* Marking frees nothing and finds nothing dead.
LEMMA InstallFrees ==
    ASSUME NEW s, Install(s, "white")
    PROVE  \A u \in Udata : (marked'[u] = "free" <=> marked[u] = "free") /\ (marked'[u] = "other" => marked[u] = "other")
<1> SUFFICES ASSUME NEW u \in Udata
             PROVE  (marked'[u] = "free" <=> marked[u] = "free") /\ marked'[u] # "other"
  OBVIOUS
<1>1. u \in Objects
  BY ObjectsApart
<1>2. marked'[u] = IF ~Allocated(u) THEN "free"
                   ELSE IF u \in s.white THEN "white"
                   ELSE IF u \in s.black THEN "black" ELSE "gray"
  BY <1>1 DEF Install
<1> QED
  BY <1>2 DEF Allocated

\* Giving an object a live colour frees nothing.
LEMMA RecolourFrees ==
    ASSUME GCInv, NEW o \in Objects, NEW c \in {"white", "gray", "black"}, o \in Udata => marked[o] # "free",
           marked' = [marked EXCEPT ![o] = c]
    PROVE  \A u \in Udata : (marked'[u] = "free" <=> marked[u] = "free") /\ (marked'[u] = "other" => marked[u] = "other")
<1>1. marked \in [Objects -> {"white", "other", "gray", "black", "free"}]
  BY DEF GCInv, HeapOK
<1>2. \A u \in Udata : u \in Objects /\ marked'[u] = IF u = o THEN c ELSE marked[u]
  BY <1>1, ObjectsApart
<1> QED
  BY <1>2

\* Marking neither separates userdata nor calls a finalizer.
LEMMA FinalizersMark ==
    ASSUME GCInv, GCInv', FinalizersOK, MarkRoot \/ Propagate
    PROVE  FinalizersOK' /\ InOrder
<1>1. UNCHANGED udstate /\ \E s : Install(s, "white")
  BY DEF MarkRoot, Propagate
<1> QED
  BY <1>1, InstallFrees, FinalizersSame

\* Nor does a store, ...
LEMMA FinalizersStore ==
    ASSUME GCInv, GCInv', FinalizersOK, NEW t, NEW v, t \in Tables \cup {WeakTable}, Store(t, v)
    PROVE  FinalizersOK' /\ InOrder
<1>1. UNCHANGED udstate /\ BarrierBack(t, v)
  BY DEF Store
<1>2. t \in Objects /\ t \notin Udata
  <2>1. t \in Nodes
    BY DEF Nodes, AllTables, StrongTables
  <2> QED
    BY <2>1, ObjectsApart
<1>3. UNCHANGED marked \/ marked' = [marked EXCEPT ![t] = "gray"]
  BY <1>1 DEF BarrierBack
<1> QED
  BY <1>1, <1>2, <1>3, RecolourFrees, FinalizersSame

\* ... a new environment, ...
LEMMA FinalizersSetEnv ==
    ASSUME GCInv, GCInv', FinalizersOK, NEW u \in Udata, NEW t, SetEnv(u, t)
    PROVE  FinalizersOK' /\ InOrder
<1>1. UNCHANGED udstate /\ BarrierForward(u, t) /\ u \in Objects
  BY ObjectsApart DEF SetEnv
<1>2. \/ UNCHANGED marked
      \/ Install(MarkObjects(Marks, {t}), "white")
      \/ marked[u] # "free" /\ marked' = [marked EXCEPT ![u] = "white"]
  BY <1>1 DEF BarrierForward
<1>3. CASE UNCHANGED marked
  BY <1>1, <1>3, FinalizersSame
<1>4. CASE Install(MarkObjects(Marks, {t}), "white")
  BY <1>1, <1>4, InstallFrees, FinalizersSame
<1>5. CASE marked[u] # "free" /\ marked' = [marked EXCEPT ![u] = "white"]
  BY <1>1, <1>5, RecolourFrees, FinalizersSame
<1> QED
  BY <1>2, <1>3, <1>4, <1>5

\* ... a string, ...
LEMMA FinalizersIntern ==
    ASSUME GCInv, GCInv', FinalizersOK, NEW s \in Strings, Intern(s)
    PROVE  FinalizersOK' /\ InOrder
<1>1. UNCHANGED udstate /\ marked' = [marked EXCEPT ![s] = StringFound(s)]
  BY DEF Intern
<1>2. s \in Objects /\ s \notin Udata
  BY ObjectsApart
<1>3. StringFound(s) \in {"white", "gray", "black"}
  <2>1. marked[s] \in {"white", "other", "gray", "black", "free"}
    BY <1>2 DEF GCInv, HeapOK
  <2> QED
    BY <2>1 DEF StringFound, Allocated, IsDead
<1> QED
  BY <1>1, <1>2, <1>3, RecolourFrees, FinalizersSame

\* ... the steps that change no colour, ...
LEMMA FinalizersRest ==
    ASSUME GCInv, GCInv', FinalizersOK,
           \/ EndCycle \/ FullGC \/ UNCHANGED vars
           \/ \E v \in Objects : Load(v)
           \/ \E o \in Objects, v \in Objects : Drop(o, v)
    PROVE  FinalizersOK' /\ InOrder
<1>1. UNCHANGED udstate /\ UNCHANGED marked
  BY DEF EndCycle, FullGC, vars, Load, Drop, udstate
<1> QED
  BY <1>1, FinalizersSame

\* ... or a new table.
LEMMA FinalizersTable ==
    ASSUME GCInv, GCInv', FinalizersOK, NEW o \in Tables, Create(o)
    PROVE  FinalizersOK' /\ InOrder
<1>1. o \in Objects /\ o \notin Udata
  <2>1. o \in Nodes
    BY DEF Nodes, AllTables, StrongTables
  <2> QED
    BY <2>1, ObjectsApart
<1>2. UNCHANGED udstate /\ marked' = [marked EXCEPT ![o] = "white"]
  BY <1>1 DEF Create, udstate
<1> QED
  BY <1>1, <1>2, RecolourFrees, FinalizersSame

\* What atomic() finds dead was finalized before; what it separates it queues
\* in the order of the root list.
LEMMA FinalizersAtomic ==
    ASSUME GCInv, GCInv', FinalizersOK, Atomic
    PROVE  FinalizersOK' /\ InOrder
<1>1. gcstate = "propagate" /\ gray = {} /\ AtomicSteps /\ UNCHANGED <<age, called>>
  BY AtomicIs DEF Atomic
<1>2. HeapOK /\ \A o \in Objects : marked[o] # "other"
  BY <1>1 DEF GCInv, MarkingOK
<1>3. /\ Waiting \in Seq(Udata) /\ Range(Waiting) \subseteq Alloc /\ Range(Waiting) = Pending \cup Range(Sep)
      /\ RecOK(A4, Alloc) /\ A4.white \subseteq A2.white /\ Range(Waiting) \cap A4.white = {}
  BY <1>1, AtomicMarks
<1>4. /\ Install(A4, "other") /\ tmudata' = Waiting /\ finalized' = Finalized
      /\ udlist' = Keep(udlist, Udata \ Range(Sep))
  BY <1>1 DEF AtomicSteps
<1>5. /\ \A o \in Objects : marked'[o] = "free" <=> o \notin Alloc
      /\ \A o \in Objects : marked'[o] = "other" <=> o \in A4.white
      /\ Alloc' = Alloc
  BY <1>2, <1>3, <1>4, InstallIs
<1>6. udlist \in Seq(Udata) /\ tmudata \in Seq(Udata)
  BY <1>2 DEF HeapOK
<1> DEFINE W == A2.white \ finalized
<1>7. /\ Sep = Keep(udlist, W) /\ Sep \in Seq(Udata) /\ Range(Sep) = Range(udlist) \cap W
      /\ \A x, y : Before(Sep, x, y) <=> Before(udlist, x, y) /\ x \in W /\ y \in W
  <2>1. Sep = Keep(udlist, W)
    BY DEF Sep, Separate
  <2> HIDE DEF W
  <2> QED
    BY <1>6, <2>1, KeepBefore
<1>8. \A x \in W : x \notin finalized
  OBVIOUS
<1>9. \A x \in A2.white : x \in W \/ x \in finalized
  OBVIOUS
<1> HIDE DEF W
<1>10. /\ udlist' \in Seq(Udata) /\ Range(udlist') = Range(udlist) \cap (Udata \ Range(Sep))
       /\ \A x, y : Before(udlist', x, y) <=> Before(udlist, x, y) /\ x \in Udata \ Range(Sep) /\ y \in Udata \ Range(Sep)
  BY <1>4, <1>6, KeepBefore
<1>11. /\ age \in Seq(Udata) /\ Range(udlist) \cup Pending \subseteq Range(age) /\ Range(age) \cup finalized \subseteq Alloc
       /\ \A u \in Udata : Allocated(u) => u \in Range(udlist) \cup Pending
       /\ finalized = Pending \cup called /\ Pending \cap called = {}
       /\ Range(udlist) \cap Pending = {} /\ called \subseteq Udata
       /\ \A u \in Udata : ~Before(udlist, u, u) /\ ~Before(tmudata, u, u)
       /\ \A u, v \in Udata \ finalized : Before(udlist, u, v) => Before(age, u, v)
  BY DEF FinalizersOK
<1>12. Pending' = Pending \cup Range(Sep) /\ finalized' = finalized \cup Range(Sep)
  BY <1>3, <1>4 DEF Pending, Finalized
<1>13. Range(udlist) \subseteq Udata /\ Range(Sep) \subseteq Udata /\ Pending \subseteq Udata
  BY <1>6, <1>7, RangeIs DEF Pending
<1>14. /\ \A u \in Udata : u \in Objects /\ (Allocated(u) <=> u \in Alloc)
       /\ \A u \in Udata : Allocated(u)' <=> u \in Alloc
  BY <1>5, ObjectsApart DEF Alloc, Allocated
<1>15. \A u \in Udata : IsDead(u)' => u \in called'
  <2> SUFFICES ASSUME NEW u \in Udata, u \in A4.white
               PROVE  u \in called
    BY <1>1, <1>5, <1>14 DEF IsDead
  <2>1. u \in Alloc /\ u \notin Pending /\ u \notin Range(Sep)
    BY <1>3 DEF RecOK
  <2>2. u \in Range(udlist)
    BY <1>11, <1>14, <2>1
  <2>3. u \notin W
    BY <1>7, <2>1, <2>2
  <2>4. u \in finalized
    BY <1>3, <1>9, <2>3
  <2> QED
    BY <1>11, <2>1, <2>4
<1>16. \A u \in Udata : ~Before(udlist', u, u) /\ ~Before(tmudata', u, u)
  <2> TAKE u \in Udata
  <2>1. ~Before(udlist, u, u) /\ ~Before(tmudata, u, u)
    BY <1>11
  <2>2. Before(Waiting, u, u) <=> Before(tmudata, u, u) \/ Before(Sep, u, u) \/ (u \in Range(tmudata) /\ u \in Range(Sep))
    BY <1>6, <1>7, BeforeConcat DEF Waiting
  <2>3. ~(u \in Range(tmudata) /\ u \in Range(Sep))
    BY <1>7, <1>11 DEF Pending
  <2> QED
    BY <1>4, <1>7, <1>10, <2>1, <2>2, <2>3
<1>17. \A u, v \in Udata \ finalized' : Before(udlist', u, v) => Before(age', u, v)
  BY <1>1, <1>10, <1>11, <1>12 DEF Before
<1>18. FinalizersOK'
  <2>1. Range(udlist') \cup Pending' \subseteq Range(age') /\ Range(age') \cup finalized' \subseteq Alloc'
    BY <1>1, <1>3, <1>5, <1>7, <1>10, <1>11, <1>12
  <2>2. \A u \in Udata : Allocated(u)' => u \in Range(udlist') \cup Pending'
    BY <1>10, <1>11, <1>12, <1>14
  <2>3. finalized' = Pending' \cup called' /\ Range(udlist') \cap Pending' = {} /\ called' \subseteq Udata
    BY <1>1, <1>10, <1>11, <1>12
  <2>4. Pending' \cap called' = {}
    BY <1>1, <1>7, <1>8, <1>11, <1>12
  <2> QED
    BY <1>1, <1>11, <1>15, <1>16, <1>17, <2>1, <2>2, <2>3, <2>4 DEF FinalizersOK
<1>19. Len(tmudata) \in Nat /\ Len(Sep) \in Nat /\ Len(tmudata') = Len(tmudata) + Len(Sep)
       /\ \A i \in 1 .. Len(tmudata') : Len(tmudata) < i =>
             i - Len(tmudata) \in 1 .. Len(Sep) /\ tmudata'[i] = Sep[i - Len(tmudata)]
  BY <1>4, <1>6, <1>7 DEF Waiting
<1>20. ASSUME NEW i \in 1 .. Len(tmudata'), NEW j \in 1 .. Len(tmudata'), Len(tmudata) < i, i < j
       PROVE  Newer(tmudata'[i], tmudata'[j])
  <2> DEFINE k == i - Len(tmudata)
             l == j - Len(tmudata)
  <2>1. k \in 1 .. Len(Sep) /\ l \in 1 .. Len(Sep) /\ k < l /\ tmudata'[i] = Sep[k] /\ tmudata'[j] = Sep[l]
    BY <1>19, <1>20
  <2> HIDE DEF k, l
  <2>2. Before(Sep, Sep[k], Sep[l])
    BY <2>1 DEF Before
  <2>3. Sep[k] \in Udata \ finalized /\ Sep[l] \in Udata \ finalized /\ Before(udlist, Sep[k], Sep[l])
    BY <1>7, <1>8, <2>1, <2>2
  <2>4. Before(age, Sep[k], Sep[l])
    BY <1>11, <2>3
  <2> QED
    BY <2>1, <2>4 DEF Before, Newer
<1>21. ~(Len(tmudata') < Len(tmudata))
  BY <1>19
<1>22. \A u \in Udata : ~(Allocated(u) /\ marked'[u] = "free")
  BY <1>5, <1>14
<1> QED
  BY <1>18, <1>20, <1>21, <1>22 DEF InOrder

\* Sweeping frees what was found dead, and that has been finalized.
LEMMA FinalizersSweep ==
    ASSUME GCInv, GCInv', FinalizersOK, NEW S \in SUBSET Alloc, Sweep(S)
    PROVE  FinalizersOK' /\ InOrder
<1> DEFINE dead == {o \in S : IsDead(o)}
<1>1. /\ marked' = [o \in Objects |-> IF o \in dead THEN "free"
                                      ELSE IF o \in S THEN "white" ELSE marked[o]]
      /\ udlist' = Keep(udlist, Udata \ dead) /\ age' = Keep(age, Udata \ dead)
      /\ finalized' = finalized \ dead /\ called' = called \ dead /\ tmudata' = tmudata
  BY DEF Sweep
<1>2. udlist \in Seq(Udata) /\ tmudata \in Seq(Udata) /\ Pending \subseteq Live
  BY DEF GCInv, HeapOK, LiveClosed
<1>3. /\ age \in Seq(Udata) /\ Range(udlist) \cup Pending \subseteq Range(age) /\ Range(age) \cup finalized \subseteq Alloc
      /\ \A u \in Udata : Allocated(u) => u \in Range(udlist) \cup Pending
      /\ finalized = Pending \cup called /\ Pending \cap called = {}
      /\ Range(udlist) \cap Pending = {} /\ called \subseteq Udata
      /\ \A u \in Udata : ~Before(udlist, u, u) /\ ~Before(tmudata, u, u)
      /\ \A u \in Udata : IsDead(u) => u \in called
      /\ \A u, v \in Udata \ finalized : Before(udlist, u, v) => Before(age, u, v)
  BY DEF FinalizersOK
<1>4. \A u \in Udata : u \in Objects /\ (Allocated(u) <=> u \in Alloc)
  BY ObjectsApart DEF Alloc
<1>5. \A u \in Udata : u \in dead => u \in called /\ u \in Alloc /\ u \notin Pending
  BY <1>2, <1>3, <1>4 DEF IsDead, Alloc, Allocated, Live
<1> DEFINE D == Udata \ dead
<1>6. \A u \in Udata : u \in D <=> u \notin dead
  OBVIOUS
<1>7. \A u \in Udata : marked'[u] = "free" => u \in dead \/ marked[u] = "free"
  BY <1>1, <1>4
<1>8. \A u \in Udata : u \notin dead /\ marked[u] # "free" => marked'[u] # "free"
  BY <1>1, <1>4
<1>9. \A u \in Udata : IsDead(u)' => u \notin dead /\ IsDead(u)
  BY <1>1, <1>4 DEF IsDead
<1>10. /\ udlist' \in Seq(Udata) /\ Range(udlist') = Range(udlist) \cap D
       /\ \A x, y : Before(udlist', x, y) <=> Before(udlist, x, y) /\ x \in D /\ y \in D
       /\ age' \in Seq(Udata) /\ Range(age') = Range(age) \cap D
       /\ \A x, y : Before(age', x, y) <=> Before(age, x, y) /\ x \in D /\ y \in D
  <2>1. udlist' = Keep(udlist, D) /\ age' = Keep(age, D)
    BY <1>1
  <2> HIDE DEF D
  <2> QED
    BY <1>2, <1>3, <2>1, KeepBefore
<1>11. /\ finalized' = finalized \ dead /\ called' = called \ dead /\ tmudata' = tmudata /\ Pending' = Pending
       /\ D \subseteq Udata
  BY <1>1 DEF Pending
<1>12. Range(udlist) \subseteq Udata /\ Range(age) \subseteq Udata /\ Pending \subseteq Udata
  BY <1>2, <1>3, RangeIs DEF Pending
<1> HIDE DEF D, dead
<1>13. /\ \A u \in Udata : u \in Alloc' <=> Allocated(u)'
       /\ \A u \in Udata : Allocated(u)' => Allocated(u) /\ u \notin dead
       /\ \A u \in Udata : Allocated(u) /\ u \notin dead => Allocated(u)'
  <2>1. \A u \in Udata : u \in dead => marked'[u] = "free"
    BY <1>1, <1>4
  <2>2. \A u \in Udata : marked[u] = "free" /\ u \notin dead => marked'[u] = "free"
    <3>1. \A u \in Udata : marked[u] = "free" => u \notin S
      BY <1>4 DEF Allocated
    <3> QED
      BY <1>1, <1>4, <3>1
  <2>3. \A u \in Udata : (u \in Alloc' <=> Allocated(u)') /\ (Allocated(u)' <=> marked'[u] # "free")
    BY <1>4 DEF Alloc, Allocated
  <2> QED
    BY <1>5, <1>8, <2>1, <2>2, <2>3 DEF Allocated
<1>14. \A u \in Udata : Allocated(u) /\ marked'[u] = "free" => u \in called
  BY <1>5, <1>7 DEF Allocated
<1>15. FinalizersOK'
  <2>1. Range(udlist') \cup Pending' \subseteq Range(age') /\ Range(age') \cup finalized' \subseteq Alloc'
    <3>1. Range(age') \cup finalized' \subseteq Udata
      BY <1>3, <1>10, <1>11, <1>12
    <3>2. \A u \in Range(age') \cup finalized' : Allocated(u) /\ u \notin dead
      BY <1>3, <1>4, <1>6, <1>10, <1>11, <3>1
    <3> QED
      BY <1>3, <1>5, <1>6, <1>10, <1>11, <1>12, <1>13, <3>1, <3>2
  <2>2. \A u \in Udata : Allocated(u)' => u \in Range(udlist') \cup Pending'
    BY <1>3, <1>6, <1>10, <1>11, <1>13
  <2>3. finalized' = Pending' \cup called' /\ Pending' \cap called' = {}
    BY <1>3, <1>5, <1>11, <1>12
  <2>4. Range(udlist') \cap Pending' = {} /\ called' \subseteq Udata
    BY <1>3, <1>10, <1>11
  <2>5. \A u \in Udata : ~Before(udlist', u, u) /\ ~Before(tmudata', u, u)
    BY <1>3, <1>10, <1>11
  <2>6. \A u \in Udata : IsDead(u)' => u \in called'
    BY <1>3, <1>9, <1>11
  <2>7. \A u, v \in Udata \ finalized' : Before(udlist', u, v) => Before(age', u, v)
    <3> SUFFICES ASSUME NEW u \in Udata \ finalized', NEW v \in Udata \ finalized', Before(udlist', u, v)
                 PROVE  Before(age', u, v)
      OBVIOUS
    <3>1. Before(udlist, u, v) /\ u \in D /\ v \in D
      BY <1>10
    <3>2. u \in Udata \ finalized /\ v \in Udata \ finalized
      BY <1>6, <1>11, <3>1
    <3> QED
      BY <1>3, <1>10, <3>1, <3>2
  <2> QED
    BY <1>10, <2>1, <2>2, <2>3, <2>4, <2>5, <2>6, <2>7 DEF FinalizersOK
<1>16. Len(tmudata') <= Len(tmudata)
  <2>1. Len(tmudata) \in Nat
    BY <1>2
  <2> QED
    BY <1>11, <2>1
<1> QED
  BY <1>14, <1>15, <1>16, InOrderMostly

\* GCTM takes the first of the userdata that wait.
LEMMA FinalizersCall ==
    ASSUME GCInv, GCInv', FinalizersOK, CallFinalizer
    PROVE  FinalizersOK' /\ InOrder
<1>1. PICK u : u = Head(tmudata)
  OBVIOUS
<1>2. /\ tmudata # <<>> /\ udlist' = <<u>> \o udlist /\ marked' = [marked EXCEPT ![u] = "white"]
      /\ called' = called \cup {u} /\ tmudata' = Tail(tmudata) /\ UNCHANGED <<finalized, age>>
  BY <1>1 DEF CallFinalizer, RelinkMarks
<1>3. udlist \in Seq(Udata) /\ tmudata \in Seq(Udata) /\ Pending \subseteq Live
  BY DEF GCInv, HeapOK, LiveClosed
<1>4. Len(tmudata) \in Nat /\ Len(tmudata) >= 1 /\ u \in Udata /\ tmudata' \in Seq(Udata)
      /\ Len(tmudata') <= Len(tmudata) /\ tmudata = <<u>> \o tmudata'
  BY <1>1, <1>2, <1>3
<1>5. /\ Pending = {u} \cup Pending'
      /\ \A x, y : Before(tmudata, x, y) <=> Before(tmudata', x, y) \/ (x = u /\ y \in Pending')
  BY <1>4, BeforeCons DEF Pending
<1>6. /\ Range(udlist') = {u} \cup Range(udlist)
      /\ \A x, y : Before(udlist', x, y) <=> Before(udlist, x, y) \/ (x = u /\ y \in Range(udlist))
  BY <1>2, <1>3, <1>4, BeforeCons
<1>7. /\ age \in Seq(Udata) /\ Range(udlist) \cup Pending \subseteq Range(age) /\ Range(age) \cup finalized \subseteq Alloc
      /\ \A x \in Udata : Allocated(x) => x \in Range(udlist) \cup Pending
      /\ finalized = Pending \cup called /\ Pending \cap called = {}
      /\ Range(udlist) \cap Pending = {} /\ called \subseteq Udata
      /\ \A x \in Udata : ~Before(udlist, x, x) /\ ~Before(tmudata, x, x)
      /\ \A x \in Udata : IsDead(x) => x \in called
      /\ \A x, y \in Udata \ finalized : Before(udlist, x, y) => Before(age, x, y)
  BY DEF FinalizersOK
<1>8. u \notin Pending' /\ u \notin Range(udlist) /\ u \in Pending /\ u \in finalized
  <2>1. u \in Pending' => Before(tmudata, u, u)
    BY <1>5
  <2> QED
    BY <1>4, <1>5, <1>7, <2>1
<1>9. \A x \in Udata : x \in Objects /\ (Allocated(x)' <=> Allocated(x)) /\ (IsDead(x)' => IsDead(x))
  <2>1. marked \in [Objects -> {"white", "other", "gray", "black", "free"}] /\ marked[u] # "free"
    BY <1>3, <1>8 DEF GCInv, HeapOK, Live
  <2>2. \A x \in Udata : x \in Objects /\ marked'[x] = IF x = u THEN "white" ELSE marked[x]
    BY <1>2, <2>1, ObjectsApart
  <2> QED
    BY <2>1, <2>2 DEF Allocated, IsDead
<1>10. Range(age) \subseteq Udata /\ Pending \subseteq Udata
  BY <1>3, <1>7, RangeIs DEF Pending
<1>11. FinalizersOK'
  <2>1. Range(udlist') \cup Pending' \subseteq Range(age')
    BY <1>2, <1>5, <1>6, <1>7
  <2>2. Range(age') \cup finalized' \subseteq Alloc'
    <3>1. Range(age') \cup finalized' \subseteq Udata
      BY <1>2, <1>7, <1>10
    <3>2. \A x \in Range(age') \cup finalized' : Allocated(x)
      BY <1>2, <1>7 DEF Alloc
    <3> QED
      BY <1>9, <3>1, <3>2 DEF Alloc
  <2>3. \A x \in Udata : Allocated(x)' => x \in Range(udlist') \cup Pending'
    BY <1>5, <1>6, <1>7, <1>9
  <2>4. finalized' = Pending' \cup called' /\ Pending' \cap called' = {}
    BY <1>2, <1>5, <1>7, <1>8
  <2>5. Range(udlist') \cap Pending' = {} /\ called' \subseteq Udata
    <3>1. called' \subseteq Udata
      BY <1>2, <1>4, <1>7
    <3>2. \A x \in Range(udlist') : x \notin Pending'
      BY <1>5, <1>6, <1>7, <1>8
    <3> QED
      BY <3>1, <3>2
  <2>6. \A x \in Udata : ~Before(udlist', x, x) /\ ~Before(tmudata', x, x)
    BY <1>5, <1>6, <1>7, <1>8
  <2>7. \A x \in Udata : IsDead(x)' => x \in called'
    BY <1>2, <1>7, <1>9
  <2>8. \A x, y \in Udata \ finalized' : Before(udlist', x, y) => Before(age', x, y)
    <3> SUFFICES ASSUME NEW x \in Udata \ finalized', NEW y \in Udata \ finalized', Before(udlist', x, y)
                 PROVE  Before(age', x, y)
      OBVIOUS
    <3>1. x \in Udata \ finalized /\ y \in Udata \ finalized /\ x # u
      BY <1>2, <1>8
    <3>2. Before(udlist, x, y)
      BY <1>6, <3>1
    <3>3. Before(age, x, y)
      BY <1>7, <3>1, <3>2
    <3> QED
      BY <1>2, <3>3
  <2>9. age' \in Seq(Udata)
    BY <1>2, <1>7
  <2> QED
    BY <2>1, <2>2, <2>3, <2>4, <2>5, <2>6, <2>7, <2>8, <2>9 DEF FinalizersOK
<1>12. \A x \in Udata : Allocated(x) /\ marked'[x] = "free" => x \in called
  BY <1>9 DEF Allocated
<1> QED
  BY <1>4, <1>11, <1>12, InOrderMostly

\* luaS_newudata puts the newest first.
LEMMA FinalizersCreate ==
    ASSUME GCInv, GCInv', FinalizersOK, NEW o \in Udata, Create(o)
    PROVE  FinalizersOK' /\ InOrder
<1>1. /\ ~Allocated(o) /\ marked' = [marked EXCEPT ![o] = "white"]
      /\ udlist' = <<o>> \o udlist /\ age' = <<o>> \o age
      /\ UNCHANGED <<tmudata, finalized, called>>
  BY DEF Create
<1>2. udlist \in Seq(Udata) /\ tmudata \in Seq(Udata)
  BY DEF GCInv, HeapOK
<1>3. /\ age \in Seq(Udata) /\ Range(udlist) \cup Pending \subseteq Range(age) /\ Range(age) \cup finalized \subseteq Alloc
      /\ \A x \in Udata : Allocated(x) => x \in Range(udlist) \cup Pending
      /\ finalized = Pending \cup called /\ Pending \cap called = {}
      /\ Range(udlist) \cap Pending = {} /\ called \subseteq Udata
      /\ \A x \in Udata : ~Before(udlist, x, x) /\ ~Before(tmudata, x, x)
      /\ \A x \in Udata : IsDead(x) => x \in called
      /\ \A x, y \in Udata \ finalized : Before(udlist, x, y) => Before(age, x, y)
  BY DEF FinalizersOK
<1>4. /\ age' \in Seq(Udata) /\ Range(udlist') = {o} \cup Range(udlist) /\ Range(age') = {o} \cup Range(age)
      /\ \A x, y : Before(udlist', x, y) <=> Before(udlist, x, y) \/ (x = o /\ y \in Range(udlist))
      /\ \A x, y : Before(age', x, y) <=> Before(age, x, y) \/ (x = o /\ y \in Range(age))
  BY <1>1, <1>2, <1>3, BeforeCons
<1>5. o \notin Range(udlist) /\ o \notin Pending /\ o \notin finalized
  BY <1>1, <1>3 DEF Alloc
<1>6. \A x \in Udata : /\ x \in Objects /\ (Allocated(x)' <=> Allocated(x) \/ x = o)
                        /\ (IsDead(x)' => IsDead(x))
  <2>1. marked \in [Objects -> {"white", "other", "gray", "black", "free"}]
    BY DEF GCInv, HeapOK
  <2>2. \A x \in Udata : x \in Objects /\ marked'[x] = IF x = o THEN "white" ELSE marked[x]
    BY <1>1, <2>1, ObjectsApart
  <2> QED
    BY <2>1, <2>2 DEF Allocated, IsDead
<1>7. Pending' = Pending /\ finalized' = finalized /\ called' = called
  BY <1>1 DEF Pending
<1>8. Range(age) \subseteq Udata /\ Pending \subseteq Udata
  BY <1>2, <1>3, RangeIs DEF Pending
<1>9. FinalizersOK'
  <2>1. Range(udlist') \cup Pending' \subseteq Range(age')
    BY <1>3, <1>4, <1>7
  <2>2. Range(age') \cup finalized' \subseteq Alloc'
    <3>1. Range(age') \cup finalized' \subseteq Udata
      BY <1>3, <1>4, <1>7, <1>8
    <3>2. \A x \in Range(age') \cup finalized' : x = o \/ Allocated(x)
      BY <1>3, <1>4, <1>7 DEF Alloc
    <3> QED
      BY <1>6, <3>1, <3>2 DEF Alloc
  <2>3. \A x \in Udata : Allocated(x)' => x \in Range(udlist') \cup Pending'
    BY <1>3, <1>4, <1>6, <1>7
  <2>4. Range(udlist') \cap Pending' = {}
    BY <1>3, <1>4, <1>5, <1>7
  <2>5. \A x \in Udata : ~Before(udlist', x, x) /\ ~Before(tmudata', x, x)
    BY <1>1, <1>3, <1>4, <1>5
  <2>6. \A x \in Udata : IsDead(x)' => x \in called'
    BY <1>3, <1>6, <1>7
  <2>7. \A x, y \in Udata \ finalized' : Before(udlist', x, y) => Before(age', x, y)
    BY <1>3, <1>4, <1>7
  <2> QED
    BY <1>3, <1>4, <1>7, <2>1, <2>2, <2>3, <2>4, <2>5, <2>6, <2>7 DEF FinalizersOK
<1>10. \A x \in Udata : Allocated(x) /\ marked'[x] = "free" => x \in called
  BY <1>6 DEF Allocated
<1>11. Len(tmudata') <= Len(tmudata)
  <2>1. Len(tmudata) \in Nat
    BY <1>2
  <2> QED
    BY <1>1, <2>1
<1> QED
  BY <1>9, <1>10, <1>11, InOrderMostly

\* No userdata, no finalizer.
LEMMA InitFinalizers == Init => FinalizersOK
<1> SUFFICES ASSUME Init PROVE FinalizersOK
  OBVIOUS
<1> DEFINE e == <<>>
<1>1. udlist = e /\ tmudata = e /\ age = e /\ finalized = {} /\ called = {}
      /\ marked = [o \in Objects |-> IF o \in Fixed THEN "white" ELSE "free"]
  BY DEF Init
<1>2. e \in Seq(Udata) /\ Len(e) = 0
  OBVIOUS
<1>3. Range(e) = {e[i] : i \in 1 .. Len(e)}
  BY <1>2, RangeIs
<1> HIDE DEF e
<1>4. Range(e) = {} /\ \A x, y : ~Before(e, x, y)
  BY <1>2, <1>3 DEF Before
<1>5. \A u \in Udata : u \in Objects /\ u \notin Fixed
  BY HeapAssumption DEF Objects
<1>6. \A u \in Udata : ~Allocated(u) /\ ~IsDead(u)
  BY <1>1, <1>5 DEF Allocated, IsDead
<1> QED
  BY <1>1, <1>2, <1>4, <1>6 DEF FinalizersOK, Pending

\* Every step keeps FinalizersOK and calls finalizers in order.
LEMMA FinalizersStep == GCInv /\ GCInv' /\ FinalizersOK /\ [Next]_vars => FinalizersOK' /\ InOrder
<1> SUFFICES ASSUME GCInv, GCInv', FinalizersOK, [Next]_vars PROVE FinalizersOK' /\ InOrder
  OBVIOUS
<1>1. CASE Collect
  BY <1>1, FinalizersMark, FinalizersAtomic, SweepStringStep, SweepObjectsStep, FinalizersSweep,
     FinalizersCall, FinalizersRest DEF Collect
<1>2. CASE Script
  <2>1. ref \in [Objects -> SUBSET Objects] /\ env \in [Udata -> StrongTables]
    BY DEF GCInv, HeapOK
  <2>2. Main \in Objects /\ Reaches \subseteq Objects /\ StrongTables \subseteq Objects
    BY <2>1, ObjectsApart DEF Reaches, Stack
  <2>3. ASSUME NEW o \in Reaches, NEW v \in Contents(o), Load(v)
        PROVE  \E x \in Objects : Load(x)
    BY <2>1, <2>2, <2>3 DEF Contents
  <2>4. ASSUME NEW o \in Reaches \cup {Main}, NEW v \in ref[o] \ Fixed, Drop(o, v)
        PROVE  \E x \in Objects, y \in Objects : Drop(x, y)
    BY <2>1, <2>2, <2>4
  <2> QED
    BY <1>2, <2>3, <2>4, FinalizersRest, FinalizersTable, FinalizersCreate, FinalizersIntern,
       FinalizersStore, FinalizersSetEnv DEF Script
<1>3. CASE UNCHANGED vars
  BY <1>3, FinalizersRest
<1> QED
  BY <1>1, <1>2, <1>3 DEF Next

\* GCTM calls the finalizer of a userdata once and before the sweep frees it,
\* and luaC_separateudata queues what one cycle finds in the reverse of the
\* order of creation.
THEOREM FinalizersAsDue == Spec => FinalizersInOrder
<1>1. FinalizersOK /\ GCInv /\ GCInv' /\ [Next]_vars => FinalizersOK' /\ [InOrder]_vars
  BY FinalizersStep
<1>2. [][InOrder]_vars => FinalizersInOrder
  BY PTL DEF FinalizersInOrder, InOrder
<1> QED
  BY <1>1, <1>2, InitFinalizers, HeapInv, PTL DEF Spec

=============================================================================
