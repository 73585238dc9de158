-------------------------- MODULE WidgetLife_proofs --------------------------
(***************************************************************************)
(* Widgets die once, and nothing points to a dead one, for any tree of     *)
(* widgets, any depth of nesting and whatever the handlers do that         *)
(* fl_fix_focus() calls in the middle of a destructor.                     *)
(***************************************************************************)
EXTENDS WidgetLife, TLAPS

Handlers == {"handler", "taking", "changing", "telling"}
Frames == [kind : {"loop", "delete"} \cup Handlers, widget : Widgets \cup {Null}, to : Widgets \cup {Null},
           i : Nat \ {0}]

\* The loop over dwidgets is at the bottom of the stack, and under every
\* destructor; no destructor runs on a window, and only windows take the focus
\* for fl_fix_focus().
FrameOK(fr, k, bottom) ==
    /\ fr.kind = "loop" => k = 1
    /\ fr.kind = "delete" => bottom.kind = "loop" /\ fr.widget \in Widgets \ Windows
    /\ fr.kind = "taking" => fr.widget \in Windows
    /\ fr.kind = "telling" => fr.widget \in Widgets

Shape(s) ==
    /\ s \in Seq(Frames)
    /\ \A k \in 1 .. Len(s) : FrameOK(s[k], k, s[1])

StackOK == Shape(stack)

\* Top-level windows stay, and are in no group.
WindowsStay ==
    /\ Windows \subseteq alive /\ \A x \in Windows : parent[x] = Null
    /\ \A j \in 1 .. Len(dwidgets) : dwidgets[j] \notin Windows

TrackersType ==
    /\ watched \in [Trackers -> Widgets \cup {Null}]
    /\ tracks \in [Trackers -> Widgets \cup {Null}]

\* What the pointers into the tree need, in every program.
BaseInv ==
    /\ TypeOK
    /\ StackOK
    /\ WindowsStay
    /\ PointersAlive
    /\ TrackersType
    /\ TrackersTell

-----------------------------------------------------------------------------
(* The groups a widget is in, for any parents p *)

Parents == [Widgets -> Groups \cup {Null}]

Up(p, w) ==
    {w} \cup {g \in Groups : \A S \in SUBSET Groups :
                 (\A x \in S : p[x] \in S \cup {Null}) /\ p[w] \in S \cup {Null} => g \in S}

\* The model's groups of a widget, for the parents before a step ...
LEMMA UpNow == \A w : Ancestors(w) = Up(parent, w)
BY DEF Ancestors, UpClosed, Up

\* ... and for those after it.
LEMMA UpNext == \A w : Ancestors(w)' = Up(parent', w)
BY DEF Ancestors, UpClosed, Up

\* The set of groups of a widget has the widget and is closed under parents.
LEMMA UpFacts ==
    ASSUME NEW p \in Parents, NEW w \in Widgets
    PROVE  /\ w \in Up(p, w) /\ Up(p, w) \subseteq Widgets
           /\ \A a \in Up(p, w) : p[a] \in Up(p, w) \cup {Null}
           /\ \A a \in Up(p, w) : a # w => a \in Groups
<1>1. w \in Up(p, w) /\ Up(p, w) \subseteq Widgets /\ \A a \in Up(p, w) : a # w => a \in Groups
  BY LifeAssumption DEF Up
<1>2. ASSUME NEW a \in Up(p, w), p[a] # Null
      PROVE  p[a] \in Up(p, w)
  <2>1. a \in Widgets /\ p[a] \in Groups
    BY <1>1, <1>2 DEF Parents
  <2>2. ASSUME NEW S \in SUBSET Groups, \A x \in S : p[x] \in S \cup {Null}, p[w] \in S \cup {Null}
        PROVE  p[a] \in S
    BY <1>2, <2>2 DEF Up
  <2> QED
    BY <2>1, <2>2 DEF Up
<1> QED
  BY <1>1, <1>2

\* It is the least such set.
LEMMA UpLeast ==
    ASSUME NEW p \in Parents, NEW w \in Widgets, NEW T \in SUBSET Widgets, w \in T,
           \A x \in T : p[x] \in T \cup {Null}
    PROVE  Up(p, w) \subseteq T
<1> DEFINE S == T \cap Groups
<1>1. \A x \in T : p[x] \in S \cup {Null}
  BY DEF Parents
<1> QED
  BY <1>1 DEF Up

\* The groups of a group of w are groups of w.
LEMMA UpTrans ==
    ASSUME NEW p \in Parents, NEW w \in Widgets, NEW a \in Up(p, w)
    PROVE  Up(p, a) \subseteq Up(p, w)
BY UpFacts, UpLeast

\* The groups of a widget are those of its parent, and itself.
LEMMA UpParent ==
    ASSUME NEW p \in Parents, NEW w \in Widgets, p[w] # Null
    PROVE  Up(p, w) = {w} \cup Up(p, p[w])
<1>1. p[w] \in Widgets
  BY LifeAssumption DEF Parents
<1>2. Up(p, w) \subseteq {w} \cup Up(p, p[w])
  <2> DEFINE T == {w} \cup Up(p, p[w])
  <2>1. T \in SUBSET Widgets /\ \A x \in T : p[x] \in T \cup {Null}
    BY <1>1, UpFacts
  <2> HIDE DEF T
  <2>2. w \in T
    BY DEF T
  <2>3. Up(p, w) \subseteq T
    BY <2>1, <2>2, UpLeast
  <2> QED
    BY <2>3 DEF T
<1>3. Up(p, p[w]) \subseteq Up(p, w)
  BY UpFacts, UpTrans
<1> QED
  BY <1>2, <1>3, UpFacts

\* A widget in no group has no groups.
LEMMA UpRoot ==
    ASSUME NEW p \in Parents, NEW w \in Widgets, p[w] = Null
    PROVE  Up(p, w) = {w}
<1>1. {w} \in SUBSET Widgets /\ w \in {w} /\ \A x \in {w} : p[x] \in {w} \cup {Null}
  OBVIOUS
<1>2. Up(p, w) \subseteq {w}
  BY <1>1, UpLeast
<1> QED
  BY <1>2, UpFacts

\* Each group on the way up was reached from a child of it.
LEMMA UpChild ==
    ASSUME NEW p \in Parents, NEW w \in Widgets, NEW a \in Up(p, w), a # w
    PROVE  \E c \in Up(p, w) : p[c] = a
<1> DEFINE T == {w} \cup {x \in Up(p, w) : \E c \in Up(p, w) : p[c] = x}
<1>1. T \in SUBSET Widgets /\ w \in T
  BY UpFacts
<1>2. \A x \in T : p[x] \in T \cup {Null}
  BY UpFacts
<1>3. Up(p, w) \subseteq T
  <2> HIDE DEF T
  <2> QED
    BY <1>1, <1>2, UpLeast
<1> QED
  BY <1>3

\* w gets the parent g (or none), g not being inside w: what was not inside w
\* stays where it is, what was inside w is now inside g too.
LEMMA UpMoved ==
    ASSUME NEW p \in Parents, NEW w \in Widgets, NEW g \in Groups \cup {Null},
           g # Null => w \notin Up(p, g), NEW y \in Widgets
    PROVE  /\ [p EXCEPT ![w] = g] \in Parents
           /\ w \notin Up(p, y) => Up([p EXCEPT ![w] = g], y) \subseteq Up(p, y)
           /\ g = Null => Up([p EXCEPT ![w] = g], y) \subseteq Up(p, y)
           /\ g # Null => Up([p EXCEPT ![w] = g], y) \subseteq Up(p, y) \cup Up(p, g)
<1> DEFINE q == [p EXCEPT ![w] = g]
<1>1. q \in Parents /\ q[w] = g /\ \A x \in Widgets : x # w => q[x] = p[x]
  BY DEF Parents
<1> HIDE DEF q
<1>2. y \in Up(p, y) /\ Up(p, y) \subseteq Widgets /\ \A x \in Up(p, y) : p[x] \in Up(p, y) \cup {Null}
  BY UpFacts
<1>3. ASSUME w \notin Up(p, y) \/ g = Null
      PROVE  Up(q, y) \subseteq Up(p, y)
  <2>1. \A x \in Up(p, y) : q[x] \in Up(p, y) \cup {Null}
    BY <1>1, <1>2, <1>3
  <2> QED
    BY <1>1, <1>2, <2>1, UpLeast
<1>4. ASSUME g # Null
      PROVE  Up(q, y) \subseteq Up(p, y) \cup Up(p, g)
  <2> DEFINE T == Up(p, y) \cup Up(p, g)
  <2>1. g \in Widgets
    BY <1>4, LifeAssumption
  <2>2. g \in Up(p, g) /\ Up(p, g) \subseteq Widgets /\ \A x \in Up(p, g) : p[x] \in Up(p, g) \cup {Null}
    BY <2>1, UpFacts
  <2>3. T \in SUBSET Widgets /\ y \in T /\ \A x \in T : q[x] \in T \cup {Null}
    BY <1>1, <1>2, <2>2
  <2> HIDE DEF T
  <2>4. Up(q, y) \subseteq T
    BY <1>1, <2>3, UpLeast
  <2> QED
    BY <2>4 DEF T
<1> QED
  BY <1>1, <1>3, <1>4 DEF q

-----------------------------------------------------------------------------
(* The stack *)

\* The widgets whose destructors are on the stack s.
Dying(s) == {s[k].widget : k \in {j \in 1 .. Len(s) : s[j].kind = "delete"}}

\* The destructors on s are those of different widgets, which are in al.
Once(s, al) ==
    \A i, j \in 1 .. Len(s) : s[i].kind = "delete" =>
        /\ s[i].widget \in al
        /\ i # j /\ s[j].kind = "delete" => s[i].widget # s[j].widget

\* Where the loop over dwidgets is; 1 before it starts.
At(s) == IF s # <<>> /\ s[1].kind = "loop" THEN s[1].i ELSE 1

\* Fl::focus() tells no widget of s that it loses the focus.
Untold(s) == \A k \in 1 .. Len(s) : s[k].kind # "telling"

\* t differs from s in its handlers only.
Same(s, t) ==
    /\ Shape(t) /\ Dying(t) = Dying(s) /\ At(t) = At(s)
    /\ \A al \in SUBSET Widgets : Once(t, al) <=> Once(s, al)

LEMMA SameTrans == \A s, t, u : Same(s, t) /\ Same(t, u) => Same(s, u)
BY DEF Same

\* Calling a destructor or a handler keeps the shape of the stack, ...
LEMMA PushFrame ==
    ASSUME NEW s, Shape(s), NEW fr \in Frames,
           fr.kind = "loop" => s = <<>>,
           fr.kind = "delete" => s # <<>> /\ s[1].kind = "loop" /\ fr.widget \in Widgets \ Windows,
           fr.kind = "taking" => fr.widget \in Windows, fr.kind = "telling" => fr.widget \in Widgets
    PROVE  /\ Shape(Append(s, fr))
           /\ Len(Append(s, fr)) = Len(s) + 1 /\ Len(s) \in Nat
           /\ Append(s, fr)[Len(s) + 1] = fr
           /\ \A k \in 1 .. Len(s) : Append(s, fr)[k] = s[k]
<1>1. s \in Seq(Frames) /\ Len(s) \in Nat /\ (s # <<>> => 1 \in 1 .. Len(s))
  BY DEF Shape
<1> DEFINE t == Append(s, fr)
<1>2. /\ t \in Seq(Frames) /\ Len(t) = Len(s) + 1 /\ t[Len(s) + 1] = fr
      /\ \A k \in 1 .. Len(s) : t[k] = s[k]
  BY <1>1
<1> HIDE DEF t
<1>3. ASSUME NEW k \in 1 .. Len(t)
      PROVE  FrameOK(t[k], k, t[1])
  <2>1. CASE k = Len(s) + 1
    <3>1. t[k] = fr
      BY <1>2, <2>1
    <3>2. s = <<>> => k = 1
      BY <2>1
    <3>3. s # <<>> => t[1] = s[1]
      BY <1>1, <1>2
    <3> QED
      BY <3>1, <3>2, <3>3 DEF FrameOK
  <2>2. CASE k # Len(s) + 1
    <3>1. k \in 1 .. Len(s) /\ 1 \in 1 .. Len(s)
      BY <1>1, <1>2, <2>2
    <3>2. t[k] = s[k] /\ t[1] = s[1]
      BY <1>2, <3>1
    <3> QED
      BY <3>1, <3>2 DEF Shape
  <2> QED
    BY <2>1, <2>2
<1>4. Shape(t)
  BY <1>2, <1>3 DEF Shape
<1> QED
  BY <1>1, <1>2, <1>4 DEF t

\* ... and so does returning from it.
LEMMA PopFrame ==
    ASSUME NEW s, Shape(s), s # <<>>
    PROVE  /\ Shape(Front(s))
           /\ Len(s) \in Nat /\ Len(s) >= 1 /\ Len(Front(s)) = Len(s) - 1
           /\ \A k \in 1 .. Len(s) - 1 : Front(s)[k] = s[k]
<1>1. s \in Seq(Frames) /\ Len(s) \in Nat /\ Len(s) >= 1
  BY DEF Shape
<1> DEFINE t == Front(s)
<1>2. t \in Seq(Frames) /\ Len(t) = Len(s) - 1 /\ \A k \in 1 .. Len(s) - 1 : t[k] = s[k]
  <2>1. Len(s) - 1 \in 0 .. Len(s) /\ 1 \in 1 .. Len(s) + 1
    BY <1>1
  <2>2. t = SubSeq(s, 1, Len(s) - 1)
    BY DEF Front
  <2>3. /\ Len(SubSeq(s, 1, Len(s) - 1)) = Len(s) - 1
        /\ \A k \in 1 .. Len(s) - 1 : SubSeq(s, 1, Len(s) - 1)[k] = s[k]
    BY <1>1
  <2>4. SubSeq(s, 1, Len(s) - 1) \in Seq(Frames)
    BY <1>1, <2>1
  <2> QED
    BY <2>2, <2>3, <2>4
<1> HIDE DEF t
<1>3. ASSUME NEW k \in 1 .. Len(t)
      PROVE  FrameOK(t[k], k, t[1])
  <2>1. k \in 1 .. Len(s) - 1 /\ 1 \in 1 .. Len(s) - 1 /\ k \in 1 .. Len(s)
    BY <1>1, <1>2
  <2>2. t[k] = s[k] /\ t[1] = s[1]
    BY <1>2, <2>1
  <2> QED
    BY <2>1, <2>2 DEF Shape
<1>4. Shape(t)
  BY <1>2, <1>3 DEF Shape
<1> QED
  BY <1>1, <1>2, <1>4 DEF t

\* t is s with one frame more.
LEMMA OneMore ==
    ASSUME NEW s, Shape(s), NEW t, Shape(t), Len(t) = Len(s) + 1, NEW fr, t[Len(s) + 1] = fr,
           \A k \in 1 .. Len(s) : t[k] = s[k], NEW al
    PROVE  /\ fr.kind = "delete" => Dying(t) = Dying(s) \cup {fr.widget}
           /\ fr.kind # "delete" => Dying(t) = Dying(s)
           /\ Once(t, al) <=> Once(s, al) /\ (fr.kind = "delete" => fr.widget \in al \ Dying(s))
           /\ s # <<>> => At(t) = At(s)
           /\ s = <<>> /\ fr.kind # "loop" => At(t) = 1 /\ At(s) = 1
<1>1. Len(s) \in Nat /\ Len(t) \in Nat /\ Len(s) + 1 \in 1 .. Len(t) /\ \A k \in 1 .. Len(t) : k \in 1 .. Len(s) \/ k = Len(s) + 1
  BY DEF Shape
<1>2. \A k \in 1 .. Len(s) : k \in 1 .. Len(t) /\ k # Len(s) + 1
  BY <1>1
<1>3. fr.kind = "delete" => Dying(t) = Dying(s) \cup {fr.widget}
  BY <1>1, <1>2 DEF Dying
<1>4. fr.kind # "delete" => Dying(t) = Dying(s)
  BY <1>1, <1>2 DEF Dying
<1>5. Once(t, al) => Once(s, al) /\ (fr.kind = "delete" => fr.widget \in al \ Dying(s))
  BY <1>1, <1>2 DEF Once, Dying
<1>6. ASSUME Once(s, al), fr.kind = "delete" => fr.widget \in al \ Dying(s)
      PROVE  Once(t, al)
  <2> SUFFICES ASSUME NEW i \in 1 .. Len(t), NEW j \in 1 .. Len(t), t[i].kind = "delete"
               PROVE  /\ t[i].widget \in al
                      /\ i # j /\ t[j].kind = "delete" => t[i].widget # t[j].widget
    BY DEF Once
  <2>1. CASE i \in 1 .. Len(s) /\ j \in 1 .. Len(s)
    BY <1>6, <2>1 DEF Once
  <2>2. CASE i \in 1 .. Len(s) /\ j = Len(s) + 1
    BY <1>6, <2>2 DEF Once, Dying
  <2>3. CASE i = Len(s) + 1
    BY <1>1, <1>6, <2>3 DEF Dying
  <2> QED
    BY <1>1, <2>1, <2>2, <2>3
<1>7. s # <<>> => At(t) = At(s)
  <2> SUFFICES ASSUME s # <<>> PROVE At(t) = At(s)
    OBVIOUS
  <2>1. 1 \in 1 .. Len(s) /\ t # <<>>
    BY <1>1 DEF Shape
  <2> QED
    BY <2>1 DEF At
<1>8. s = <<>> /\ fr.kind # "loop" => At(t) = 1 /\ At(s) = 1
  <2> SUFFICES ASSUME s = <<>>, fr.kind # "loop" PROVE At(t) = 1 /\ At(s) = 1
    OBVIOUS
  <2>1. Len(s) + 1 = 1
    OBVIOUS
  <2> QED
    BY <2>1 DEF At
<1> QED
  BY <1>3, <1>4, <1>5, <1>6, <1>7, <1>8

\* The loop over dwidgets moves on by one.
LEMMA LoopMoves ==
    ASSUME NEW s, Shape(s), s # <<>>, Last(s).kind = "loop"
    PROVE  /\ Len(s) = 1 /\ Last(s) = s[1] /\ s[1].i \in Nat \ {0}
           /\ Shape([s EXCEPT ![Len(s)].i = @ + 1])
           /\ [s EXCEPT ![Len(s)].i = @ + 1] # <<>>
           /\ Len([s EXCEPT ![Len(s)].i = @ + 1]) = 1
           /\ [s EXCEPT ![Len(s)].i = @ + 1][1].kind = "loop"
           /\ [s EXCEPT ![Len(s)].i = @ + 1][1].i = s[1].i + 1
<1>1. s \in Seq(Frames) /\ Len(s) \in Nat /\ Len(s) >= 1 /\ Last(s) = s[Len(s)]
  BY DEF Shape, Last
<1>2. Len(s) = 1
  <2>1. Len(s) \in 1 .. Len(s) /\ s[Len(s)].kind = "loop"
    BY <1>1
  <2> QED
    BY <2>1 DEF Shape, FrameOK
<1> DEFINE t == [s EXCEPT ![Len(s)].i = @ + 1]
<1>3. s[1] \in Frames
  BY <1>1
<1>4. [s[1] EXCEPT !.i = @ + 1] \in Frames
  BY <1>3 DEF Frames
<1>5. [s[1] EXCEPT !.i = @ + 1].kind = s[1].kind /\ [s[1] EXCEPT !.i = @ + 1].i = s[1].i + 1 /\ s[1].i \in Nat \ {0}
  BY <1>3 DEF Frames
<1>6. t = [s EXCEPT ![1] = [s[1] EXCEPT !.i = @ + 1]]
  BY <1>1, <1>2
<1> HIDE DEF t
<1>7. t \in Seq(Frames) /\ Len(t) = 1 /\ t[1] = [s[1] EXCEPT !.i = @ + 1]
  <2> DEFINE r == [s[1] EXCEPT !.i = @ + 1]
  <2>1. r \in Frames /\ t = [s EXCEPT ![1] = r]
    BY <1>4, <1>6
  <2> HIDE DEF r
  <2>2. t \in Seq(Frames) /\ Len(t) = 1 /\ t[1] = r
    BY <1>1, <1>2, <2>1
  <2> QED
    BY <2>2 DEF r
<1>8. t[1].kind = "loop" /\ t[1].i = s[1].i + 1
  BY <1>1, <1>2, <1>5, <1>7
<1>9. Shape(t) /\ t # <<>>
  <2>1. \A k \in 1 .. Len(t) : k = 1
    BY <1>7
  <2>3. t \in Seq(Frames) /\ t # <<>>
    BY <1>7
  <2>4. ASSUME NEW k \in 1 .. Len(t)
        PROVE  FrameOK(t[k], k, t[1])
    BY <1>8, <2>1 DEF FrameOK
  <2> QED
    BY <2>3, <2>4 DEF Shape
<1> QED
  BY <1>1, <1>2, <1>5, <1>7, <1>8, <1>9 DEF t

\* A handler is called ...
LEMMA PushHandler ==
    ASSUME NEW s, Shape(s), NEW fr \in Frames, fr.kind \in Handlers,
           fr.kind = "taking" => fr.widget \in Windows, fr.kind = "telling" => fr.widget \in Widgets
    PROVE  /\ Same(s, Append(s, fr)) /\ Append(s, fr) # <<>> /\ Last(Append(s, fr)) = fr
           /\ Untold(s) /\ fr.kind # "telling" => Untold(Append(s, fr))
           /\ Untold(s) => \A k \in 1 .. Len(Append(s, fr)) - 1 : Append(s, fr)[k].kind # "telling"
<1> DEFINE t == Append(s, fr)
<1>1. fr.kind # "loop" /\ fr.kind # "delete"
  BY DEF Handlers
<1>2. /\ Shape(t) /\ Len(t) = Len(s) + 1 /\ Len(s) \in Nat /\ t[Len(s) + 1] = fr
      /\ \A k \in 1 .. Len(s) : t[k] = s[k]
  BY <1>1, PushFrame
<1> HIDE DEF t
<1>3. ASSUME NEW al
      PROVE  Dying(t) = Dying(s) /\ (Once(t, al) <=> Once(s, al)) /\ At(t) = At(s)
  <2>1. /\ Dying(t) = Dying(s) /\ (Once(t, al) <=> Once(s, al))
        /\ s # <<>> => At(t) = At(s)
        /\ s = <<>> => At(t) = 1 /\ At(s) = 1
    BY <1>1, <1>2, OneMore
  <2> QED
    BY <2>1
<1>4. Same(s, t)
  BY <1>2, <1>3 DEF Same
<1>5. t # <<>> /\ Last(t) = fr
  BY <1>2 DEF Last, Shape
<1>6. Untold(s) => \A k \in 1 .. Len(t) - 1 : t[k].kind # "telling"
  BY <1>2 DEF Untold
<1>7. Untold(s) /\ fr.kind # "telling" => Untold(t)
  BY <1>2 DEF Untold
<1> QED
  BY <1>4, <1>5, <1>6, <1>7 DEF t

\* ... and returns.
LEMMA PopHandler ==
    ASSUME NEW s, Shape(s), s # <<>>, Last(s).kind \in Handlers
    PROVE  /\ Same(s, Front(s))
           /\ (\A k \in 1 .. Len(s) - 1 : s[k].kind # "telling") => Untold(Front(s))
<1> DEFINE t == Front(s)
           fr == Last(s)
<1>1. /\ Shape(t) /\ Len(s) \in Nat /\ Len(s) >= 1 /\ Len(t) = Len(s) - 1
      /\ \A k \in 1 .. Len(s) - 1 : t[k] = s[k]
  BY PopFrame
<1>2. /\ Len(s) = Len(t) + 1 /\ s[Len(t) + 1] = fr /\ \A k \in 1 .. Len(t) : s[k] = t[k]
  BY <1>1 DEF Last
<1>3. fr.kind # "delete" /\ fr.kind # "loop"
  BY DEF Handlers
<1> HIDE DEF t, fr
<1>4. ASSUME NEW al
      PROVE  Dying(t) = Dying(s) /\ (Once(t, al) <=> Once(s, al)) /\ At(t) = At(s)
  <2>1. /\ Dying(s) = Dying(t)
        /\ Once(s, al) <=> Once(t, al) /\ (fr.kind = "delete" => fr.widget \in al \ Dying(t))
        /\ t # <<>> => At(s) = At(t)
        /\ t = <<>> => At(s) = 1 /\ At(t) = 1
    BY <1>1, <1>2, <1>3, OneMore
  <2> QED
    BY <1>3, <2>1
<1>5. Same(s, t)
  BY <1>1, <1>4 DEF Same
<1>6. (\A k \in 1 .. Len(s) - 1 : s[k].kind # "telling") => Untold(t)
  BY <1>1 DEF Untold
<1> QED
  BY <1>5, <1>6 DEF t

-----------------------------------------------------------------------------
(* Fl::focus() and fl_fix_focus() *)

\* Fl::focus() calls focus_changing_handler, or nothing.
LEMMA FocusCalls ==
    ASSUME NEW code, Shape(code), NEW f \in Widgets \cup {Null}, NEW o \in Widgets \cup {Null}, Focus(code, f, o)
    PROVE  /\ focus' = o /\ Same(code, stack')
           /\ Untold(code) => Untold(stack')
<1> DEFINE fr == [Code("changing", f) EXCEPT !.to = o]
<1>1. fr \in Frames /\ fr.kind = "changing"
  BY DEF Code, Frames, Handlers
<1>2. focus' = o /\ stack' \in {code, Append(code, fr)}
  BY DEF Focus
<1> HIDE DEF fr
<1>3. Same(code, Append(code, fr)) /\ (Untold(code) => Untold(Append(code, fr)))
  BY <1>1, PushHandler DEF Handlers
<1>4. Same(code, code)
  BY DEF Same
<1> QED
  BY <1>2, <1>3, <1>4

\* fl_fix_focus() calls handlers.
LEMMA FixFocusCalls ==
    ASSUME NEW code, Shape(code), NEW x \in Windows \cup {Null}, NEW f \in Widgets \cup {Null}, FixFocus(code, x, f)
    PROVE  /\ focus' \in {f, Null} /\ xfocus' = x /\ Same(code, stack')
           /\ Untold(code) => Untold(stack')
<1> USE LifeAssumption
<1>1. CASE x # Null /\ ~Inside(x, f)
  <2> DEFINE fr == Code("taking", x)
  <2>1. fr \in Frames /\ fr.kind = "taking" /\ fr.widget \in Windows
    BY <1>1 DEF Code, Frames, Handlers
  <2>2. xfocus' = x /\ focus' = f /\ stack' = Append(code, fr)
    BY <1>1 DEF FixFocus
  <2> HIDE DEF fr
  <2> QED
    BY <2>1, <2>2, PushHandler DEF Handlers
<1>2. CASE ~(x # Null /\ ~Inside(x, f))
  <2> DEFINE fr == Code("handler", Null)
             s == Append(code, fr)
             o == IF x = Null THEN Null ELSE f
  <2>1. fr \in Frames /\ fr.kind = "handler"
    BY DEF Code, Frames, Handlers
  <2>2. xfocus' = x /\ Focus(s, f, o) /\ o \in {f, Null}
    BY <1>2 DEF FixFocus
  <2> HIDE DEF fr, o
  <2>3. Same(code, s) /\ (Untold(code) => Untold(s))
    BY <2>1, PushHandler DEF Handlers
  <2> HIDE DEF s
  <2>4. Shape(s)
    BY <2>3 DEF Same
  <2>5. focus' = o /\ Same(s, stack') /\ (Untold(s) => Untold(stack'))
    BY <2>2, <2>4, FocusCalls
  <2> QED
    BY <2>2, <2>3, <2>5, SameTrans
<1> QED
  BY <1>1, <1>2

\* fl_xfocus is set to a window, or stays.
LEMMA XFocusIsWindow ==
    ASSUME xfocus \in Windows \cup {Null}, NEW w
    PROVE  XFocusOf(w) \in Windows \cup {Null}
<1>1. CASE w \in Windows \/ \A x \in Windows : ~Inside(x, w)
  BY <1>1 DEF XFocusOf
<1>2. CASE ~(w \in Windows \/ \A x \in Windows : ~Inside(x, w))
  <2>1. \E x \in Windows : Inside(x, w)
    BY <1>2
  <2>2. XFocusOf(w) = CHOOSE x \in Windows : Inside(x, w)
    BY <1>2 DEF XFocusOf
  <2> QED
    BY <2>1, <2>2
<1> QED
  BY <1>1, <1>2

\* What a handler on top of the stack was called for.
LEMMA HandlerOnTop ==
    ASSUME BaseInv, stack # <<>>, Last(stack).kind \in Handlers
    PROVE  /\ Last(stack) \in Frames
           /\ Last(stack).kind = "taking" => Last(stack).widget \in Windows
           /\ Last(stack).kind = "telling" => Last(stack).widget \in Widgets
           /\ Same(stack, Front(stack)) /\ Shape(Front(stack))
<1>1. Shape(stack)
  BY DEF BaseInv, StackOK
<1>2. Last(stack) = stack[Len(stack)] /\ Len(stack) \in 1 .. Len(stack)
  BY <1>1 DEF Shape, Last
<1>3. Last(stack) \in Frames /\ FrameOK(Last(stack), Len(stack), stack[1])
  BY <1>1, <1>2 DEF Shape
<1>4. Same(stack, Front(stack))
  BY <1>1, PopHandler
<1> QED
  BY <1>3, <1>4 DEF FrameOK, Same

\* The steps that only call handlers or return from them.
HandlerStep ==
    \/ \E w \in Widgets \cup {Null} : SetFocus(w)
    \/ \E x \in Windows \cup {Null} : XFocus(x)
    \/ HandlerReturns \/ TakesFocus \/ TakingReturns \/ ChangingReturns \/ TellingReturns

\* They leave the destructors alone, and focus living widgets.
LEMMA HandlerSame ==
    ASSUME BaseInv, HandlerStep
    PROVE  /\ Same(stack, stack') /\ UNCHANGED <<parent, alive, pushed, dwidgets, watched, tracks, prog>>
           /\ focus' \in alive \cup {Null} /\ xfocus' \in Windows \cup {Null}
           /\ oldfocus' \in Widgets \cup {Null} /\ savedfocus' \in [Groups -> Widgets \cup {Null}]
<1> USE LifeAssumption
<1>0. /\ Shape(stack) /\ focus \in alive \cup {Null} /\ xfocus \in Windows \cup {Null} /\ alive \subseteq Widgets
      /\ oldfocus \in Widgets \cup {Null} /\ savedfocus \in [Groups -> Widgets \cup {Null}] /\ Windows \subseteq alive
      /\ parent \in Parents
  BY DEF BaseInv, TypeOK, StackOK, PointersAlive, WindowsStay, Parents
<1> DEFINE Frame == Last(stack)
<1>1. ASSUME NEW w \in Widgets \cup {Null}, SetFocus(w)
      PROVE  /\ Same(stack, stack') /\ focus' \in alive \cup {Null}
             /\ UNCHANGED <<parent, alive, pushed, dwidgets, watched, tracks, prog, xfocus, oldfocus, savedfocus>>
  <2>1. /\ Focus(stack, focus, w) /\ w \in alive \cup {Null}
        /\ UNCHANGED <<parent, alive, pushed, dwidgets, watched, tracks, prog, xfocus, oldfocus, savedfocus>>
    BY <1>1 DEF SetFocus, trackers
  <2> QED
    BY <1>0, <2>1, FocusCalls
<1>2. ASSUME NEW x \in Windows \cup {Null}, XFocus(x)
      PROVE  /\ Same(stack, stack') /\ focus' \in alive \cup {Null} /\ xfocus' = x
             /\ UNCHANGED <<parent, alive, pushed, dwidgets, watched, tracks, prog, oldfocus, savedfocus>>
  <2>1. /\ FixFocus(stack, x, focus)
        /\ UNCHANGED <<parent, alive, pushed, dwidgets, watched, tracks, prog, oldfocus, savedfocus>>
    BY <1>2 DEF XFocus, trackers
  <2> QED
    BY <1>0, <2>1, FixFocusCalls
<1>3. ASSUME HandlerReturns
      PROVE  /\ Same(stack, stack')
             /\ UNCHANGED <<parent, alive, focus, pushed, dwidgets, watched, tracks, prog, xfocus, oldfocus, savedfocus>>
  BY <1>3, HandlerOnTop DEF HandlerReturns, Running, trackers, pointers, Handlers
<1>4. ASSUME TakesFocus
      PROVE  /\ Same(stack, stack') /\ focus' \in alive \cup {Null}
             /\ UNCHANGED <<parent, alive, pushed, dwidgets, watched, tracks, prog, xfocus, oldfocus, savedfocus>>
  <2>1. /\ \E w \in alive : Focus(stack, focus, w)
        /\ UNCHANGED <<parent, alive, pushed, dwidgets, watched, tracks, prog, xfocus, oldfocus, savedfocus>>
    BY <1>4 DEF TakesFocus, trackers
  <2> QED
    BY <1>0, <2>1, FocusCalls
<1>5. ASSUME TakingReturns
      PROVE  /\ Same(stack, stack') /\ focus' \in alive \cup {Null}
             /\ UNCHANGED <<parent, alive, pushed, dwidgets, watched, tracks, prog, xfocus, oldfocus, savedfocus>>
  <2> DEFINE fr == Code("handler", Null)
             s == Append(Front(stack), fr)
  <2>1. stack # <<>> /\ Last(stack).kind = "taking"
    BY <1>5 DEF TakingReturns, Running
  <2>2. Last(stack).widget \in alive /\ Same(stack, Front(stack)) /\ Shape(Front(stack))
    BY <1>0, <2>1, HandlerOnTop DEF Handlers
  <2>3. fr \in Frames /\ fr.kind = "handler"
    BY DEF Code, Frames, Handlers
  <2>4. PICK w \in alive \cup {Null} : Focus(s, focus, w)
    BY <1>0, <1>5, <2>2 DEF TakingReturns
  <2>5. UNCHANGED <<parent, alive, pushed, dwidgets, watched, tracks, prog, xfocus, oldfocus, savedfocus>>
    BY <1>5 DEF TakingReturns, trackers
  <2> HIDE DEF fr
  <2>6. Same(Front(stack), s)
    BY <2>2, <2>3, PushHandler DEF Handlers
  <2> HIDE DEF s
  <2>7. Shape(s)
    BY <2>6 DEF Same
  <2>8. focus' = w /\ Same(s, stack')
    BY <1>0, <2>4, <2>7, FocusCalls
  <2> QED
    BY <2>2, <2>4, <2>5, <2>6, <2>8, SameTrans
<1>6. ASSUME ChangingReturns
      PROVE  /\ Same(stack, stack') /\ xfocus' \in Windows \cup {Null} /\ oldfocus' = Null
             /\ UNCHANGED <<parent, alive, focus, pushed, dwidgets, watched, tracks, prog, savedfocus>>
  <2> DEFINE p == Last(stack).widget
             fr == Code("telling", p)
  <2>1. /\ stack # <<>> /\ Last(stack).kind = "changing"
        /\ xfocus' = XFocusOf(Last(stack).to) /\ oldfocus' = Null
        /\ p = Null => stack' = Front(stack)
        /\ p # Null => stack' = Append(Front(stack), fr)
        /\ UNCHANGED <<parent, alive, focus, pushed, dwidgets, watched, tracks, prog, savedfocus>>
    BY <1>6 DEF ChangingReturns, Running, trackers
  <2>2. Last(stack) \in Frames /\ Same(stack, Front(stack)) /\ Shape(Front(stack))
    BY <2>1, HandlerOnTop DEF Handlers
  <2>3. ASSUME p # Null
        PROVE  Same(Front(stack), Append(Front(stack), fr))
    <3>1. fr \in Frames /\ fr.kind = "telling" /\ fr.widget \in Widgets
      BY <2>2, <2>3 DEF Code, Frames, Handlers
    <3> HIDE DEF fr
    <3> QED
      BY <2>2, <3>1, PushHandler DEF Handlers
  <2>4. xfocus' \in Windows \cup {Null}
    BY <1>0, <2>1, XFocusIsWindow
  <2> QED
    BY <2>1, <2>2, <2>3, <2>4, SameTrans
<1>7. ASSUME TellingReturns
      PROVE  /\ Same(stack, stack')
             /\ oldfocus' \in Widgets \cup {Null} /\ savedfocus' \in [Groups -> Widgets \cup {Null}]
             /\ UNCHANGED <<parent, alive, focus, xfocus, pushed, dwidgets, watched, tracks, prog>>
  <2> DEFINE p == Last(stack).widget
             fr == Code("telling", parent[p])
  <2>1. /\ stack # <<>> /\ Last(stack).kind = "telling"
        /\ savedfocus' \in Saves(p) /\ oldfocus' \in {p, Null}
        /\ parent[p] = Null => stack' = Front(stack)
        /\ parent[p] # Null => stack' = Append(Front(stack), fr)
        /\ UNCHANGED <<parent, alive, focus, xfocus, pushed, dwidgets, watched, tracks, prog>>
    BY <1>7 DEF TellingReturns, Running, trackers
  <2>2. p \in Widgets /\ Same(stack, Front(stack)) /\ Shape(Front(stack))
    BY <2>1, HandlerOnTop DEF Handlers
  <2>3. ASSUME parent[p] # Null
        PROVE  Same(Front(stack), Append(Front(stack), fr))
    <3>1. fr \in Frames /\ fr.kind = "telling" /\ fr.widget \in Widgets
      BY <1>0, <2>2, <2>3 DEF Code, Frames, Handlers, Parents
    <3> HIDE DEF fr
    <3> QED
      BY <2>2, <3>1, PushHandler DEF Handlers
  <2>4. savedfocus' \in [Groups -> Widgets \cup {Null}]
    BY <1>0, <2>1 DEF Saves
  <2>5. Same(stack, stack')
    <3>1. CASE parent[p] = Null
      BY <2>1, <2>2, <3>1
    <3>2. CASE parent[p] # Null
      BY <2>1, <2>2, <2>3, <3>2, SameTrans
    <3> QED
      BY <3>1, <3>2
  <2> HIDE DEF p, fr
  <2> QED
    BY <2>1, <2>2, <2>4, <2>5
<1> QED
  BY <1>0, <1>1, <1>2, <1>3, <1>4, <1>5, <1>6, <1>7 DEF HandlerStep

-----------------------------------------------------------------------------
(* Nothing points to a dead widget *)

\* Steps of the program, and those of handlers.
LEMMA ProgramBase ==
    ASSUME BaseInv
    PROVE  /\ HandlerStep => BaseInv'
           /\ \A w \in Widgets : Push(w) \/ Schedule(w) => BaseInv'
           /\ \A t \in Trackers : Untrack(t) => BaseInv'
           /\ \A t \in Trackers, w \in Widgets : Track(t, w) => BaseInv'
           /\ Wait => BaseInv'
<1> USE LifeAssumption
<1>1. ASSUME HandlerStep
      PROVE  BaseInv'
  <2>1. /\ Same(stack, stack') /\ UNCHANGED <<parent, alive, pushed, dwidgets, watched, tracks, prog>>
        /\ focus' \in alive \cup {Null} /\ xfocus' \in Windows \cup {Null}
        /\ oldfocus' \in Widgets \cup {Null} /\ savedfocus' \in [Groups -> Widgets \cup {Null}]
    BY <1>1, HandlerSame
  <2>2. TypeOK' /\ PointersAlive'
    BY <2>1 DEF BaseInv, TypeOK, PointersAlive, WindowsStay
  <2>3. StackOK' /\ WindowsStay' /\ TrackersType' /\ TrackersTell'
    BY <2>1 DEF BaseInv, StackOK, Same, WindowsStay, TrackersTell, TrackersType
  <2> QED
    BY <2>2, <2>3 DEF BaseInv
<1>2. ASSUME NEW w \in Widgets, Push(w)
      PROVE  BaseInv'
  BY <1>2 DEF Push, trackers, BaseInv, TypeOK, StackOK, WindowsStay, PointersAlive, TrackersTell, TrackersType
<1>3. ASSUME NEW w \in Widgets, Schedule(w)
      PROVE  BaseInv'
  <2>1. /\ dwidgets' = Append(dwidgets, w) /\ w \notin Windows
        /\ UNCHANGED <<parent, alive, stack, prog, focus, pushed, xfocus, oldfocus, savedfocus, watched, tracks>>
    BY <1>3 DEF Schedule, pointers, trackers
  <2>2. dwidgets \in Seq(Widgets)
    BY DEF BaseInv, TypeOK
  <2>3. dwidgets' \in Seq(Widgets) /\ \A j \in 1 .. Len(dwidgets') : dwidgets'[j] \notin Windows
    BY <2>1, <2>2 DEF BaseInv, WindowsStay
  <2> QED
    BY <2>1, <2>3 DEF BaseInv, TypeOK, StackOK, WindowsStay, PointersAlive, TrackersTell, TrackersType
<1>4. ASSUME NEW t \in Trackers, Untrack(t)
      PROVE  BaseInv'
  <2>1. /\ watched' = [watched EXCEPT ![t] = Null] /\ tracks' = [tracks EXCEPT ![t] = Null]
        /\ UNCHANGED <<parent, alive, dwidgets, stack, prog, focus, pushed, xfocus, oldfocus, savedfocus>>
    BY <1>4 DEF Untrack, pointers
  <2>2. TrackersType' /\ TrackersTell'
    BY <2>1 DEF BaseInv, TypeOK, TrackersType, TrackersTell
  <2> QED
    BY <2>1, <2>2 DEF BaseInv, TypeOK, StackOK, WindowsStay, PointersAlive
<1>5. ASSUME NEW t \in Trackers, NEW w \in Widgets, Track(t, w)
      PROVE  BaseInv'
  <2>1. /\ watched' = [watched EXCEPT ![t] = w] /\ tracks' = [tracks EXCEPT ![t] = w] /\ w \in alive
        /\ UNCHANGED <<parent, alive, dwidgets, stack, prog, focus, pushed, xfocus, oldfocus, savedfocus>>
    BY <1>5 DEF Track, pointers
  <2>2. TrackersType' /\ TrackersTell'
    BY <2>1 DEF BaseInv, TypeOK, TrackersType, TrackersTell
  <2> QED
    BY <2>1, <2>2 DEF BaseInv, TypeOK, StackOK, WindowsStay, PointersAlive
<1>6. ASSUME Wait
      PROVE  BaseInv'
  <2> DEFINE fr == Code("loop", Null)
  <2>1. /\ stack = <<>> /\ stack' = <<fr>>
        /\ UNCHANGED <<parent, alive, dwidgets, prog, focus, pushed, xfocus, oldfocus, savedfocus, watched, tracks>>
    BY <1>6 DEF Wait, pointers, trackers
  <2>2. fr \in Frames /\ fr.kind = "loop"
    BY DEF Code, Frames
  <2> HIDE DEF fr
  <2>3. StackOK'
    BY <2>1, <2>2 DEF StackOK, Shape, FrameOK
  <2> QED
    BY <2>1, <2>3 DEF BaseInv, TypeOK, WindowsStay, PointersAlive, TrackersTell, TrackersType
<1> QED
  BY <1>1, <1>2, <1>3, <1>4, <1>5, <1>6

\* Moving a widget to another group, or out of all, keeps BaseInv.
LEMMA MoveBase ==
    ASSUME BaseInv, NEW w \in Widgets, NEW g \in Groups \cup {Null}, Move(w, g)
    PROVE  BaseInv'
<1> USE LifeAssumption
<1>1. /\ w \in alive \ Windows /\ g \in alive \cup {Null}
      /\ parent' = [parent EXCEPT ![w] = g] /\ savedfocus' = Removed(w)
      /\ UNCHANGED <<alive, focus, pushed, xfocus, oldfocus, dwidgets, stack, prog, watched, tracks>>
  BY DEF Move, trackers
<1>2. savedfocus' \in [Groups -> Widgets \cup {Null}]
  BY <1>1 DEF BaseInv, TypeOK, Removed
<1>3. /\ parent' \in [Widgets -> Groups \cup {Null}]
      /\ \A x \in Widgets : parent'[x] # Null => {x, parent'[x]} \subseteq alive
  BY <1>1 DEF BaseInv, TypeOK
<1>4. \A x \in Windows : parent'[x] = Null
  BY <1>1 DEF BaseInv, TypeOK, WindowsStay
<1> QED
  BY <1>1, <1>2, <1>3, <1>4 DEF BaseInv, TypeOK, StackOK, WindowsStay, PointersAlive, TrackersTell, TrackersType

\* What is known of a destructor that is running.
LEMMA DeleteOnTop ==
    ASSUME BaseInv, Running("delete")
    PROVE  /\ Len(stack) \in Nat /\ Len(stack) >= 2 /\ Last(stack) = stack[Len(stack)]
           /\ stack # <<>> /\ stack[1].kind = "loop" /\ Last(stack).kind = "delete"
           /\ Last(stack).widget \in Widgets \ Windows
<1>1. stack # <<>> /\ Last(stack).kind = "delete" /\ Shape(stack)
  BY DEF Running, BaseInv, StackOK
<1>2. Len(stack) \in Nat /\ Len(stack) >= 1 /\ Last(stack) = stack[Len(stack)] /\ Len(stack) \in 1 .. Len(stack)
  BY <1>1 DEF Shape, Last
<1>3. stack[1].kind = "loop" /\ Last(stack).widget \in Widgets \ Windows
  BY <1>1, <1>2 DEF Shape, FrameOK
<1>4. Len(stack) # 1
  BY <1>1, <1>2, <1>3
<1> QED
  BY <1>1, <1>2, <1>3, <1>4

\* The loop over dwidgets.
LEMMA LoopBase ==
    ASSUME BaseInv
    PROVE  /\ LoopDeletes => BaseInv'
           /\ LoopEnds => BaseInv'
<1> USE LifeAssumption
<1>0. Shape(stack)
  BY DEF BaseInv, StackOK
<1>1. ASSUME LoopDeletes
      PROVE  BaseInv'
  <2> DEFINE w == dwidgets[Last(stack).i]
             s == [stack EXCEPT ![Len(stack)].i = @ + 1]
  <2>1. /\ stack # <<>> /\ Last(stack).kind = "loop" /\ Last(stack).i <= Len(dwidgets)
        /\ stack' = Append(s, Code("delete", w)) /\ savedfocus' = Begins(w, savedfocus)
        /\ UNCHANGED <<parent, alive, focus, pushed, xfocus, oldfocus, dwidgets, prog, watched, tracks>>
    BY <1>1 DEF LoopDeletes, Running, trackers
  <2>2. /\ Len(stack) = 1 /\ Last(stack) = stack[1] /\ Shape(s) /\ s # <<>> /\ Len(s) = 1 /\ s[1].kind = "loop"
    BY <1>0, <2>1, LoopMoves
  <2>3. w \in Widgets \ Windows
    <3>1. stack[1] \in Frames
      BY <1>0, <2>2 DEF Shape
    <3>2. Last(stack).i \in 1 .. Len(dwidgets)
      BY <2>1, <2>2, <3>1 DEF Frames
    <3> QED
      BY <3>2 DEF BaseInv, TypeOK, WindowsStay
  <2>4. savedfocus' \in [Groups -> Widgets \cup {Null}]
    BY <2>1 DEF Begins, BaseInv, TypeOK
  <2>5. Code("delete", w) \in Frames /\ Code("delete", w).kind = "delete" /\ Code("delete", w).widget = w
    BY <2>3 DEF Code, Frames
  <2> HIDE DEF w, s
  <2>6. Shape(stack')
    <3> DEFINE fr == Code("delete", w)
    <3>1. fr \in Frames /\ fr.kind = "delete" /\ fr.widget \in Widgets \ Windows /\ stack' = Append(s, fr)
      BY <2>1, <2>3, <2>5
    <3> HIDE DEF fr
    <3> QED
      BY <2>2, <3>1, PushFrame
  <2> QED
    BY <2>1, <2>4, <2>6 DEF BaseInv, TypeOK, StackOK, WindowsStay, PointersAlive, TrackersTell, TrackersType
<1>2. ASSUME LoopEnds
      PROVE  BaseInv'
  <2>1. /\ stack # <<>> /\ stack' = Front(stack) /\ dwidgets' = <<>>
        /\ UNCHANGED <<parent, alive, focus, pushed, xfocus, oldfocus, savedfocus, prog, watched, tracks>>
    BY <1>2 DEF LoopEnds, Running, trackers, pointers
  <2>2. StackOK'
    BY <1>0, <2>1, PopFrame DEF StackOK
  <2> QED
    BY <2>1, <2>2 DEF BaseInv, TypeOK, WindowsStay, PointersAlive, TrackersTell, TrackersType
<1> QED
  BY <1>1, <1>2

\* The destructors: they clear what points to the widget before it dies.
LEMMA DestroyBase ==
    ASSUME BaseInv
    PROVE  /\ \A c \in Widgets : DeleteChild(c) => BaseInv'
           /\ DestroyWidget => BaseInv'
<1> USE LifeAssumption
<1>0. /\ Shape(stack) /\ savedfocus \in [Groups -> Widgets \cup {Null}]
      /\ focus \in alive \cup {Null} /\ alive \subseteq Widgets /\ xfocus \in Windows \cup {Null}
  BY DEF BaseInv, TypeOK, StackOK, PointersAlive
<1>1. ASSUME NEW c \in Widgets, DeleteChild(c)
      PROVE  BaseInv'
  <2>1. /\ Running("delete") /\ parent[c] = Last(stack).widget
        /\ parent' = [parent EXCEPT ![c] = Null] /\ savedfocus' = Begins(c, Removed(c))
        /\ stack' = Append(stack, Code("delete", c))
        /\ UNCHANGED <<alive, focus, pushed, xfocus, oldfocus, dwidgets, prog, watched, tracks>>
    BY <1>1 DEF DeleteChild, trackers
  <2>2. stack # <<>> /\ stack[1].kind = "loop" /\ Last(stack).widget \in Widgets \ Windows
    BY <2>1, DeleteOnTop
  <2>3. c \in Widgets \ Windows
    BY <2>1, <2>2 DEF BaseInv, WindowsStay
  <2>4. Code("delete", c) \in Frames /\ Code("delete", c).kind = "delete" /\ Code("delete", c).widget = c
    BY DEF Code, Frames
  <2>5. Shape(stack')
    BY <1>0, <2>1, <2>2, <2>3, <2>4, PushFrame
  <2>6. savedfocus' \in [Groups -> Widgets \cup {Null}]
    BY <1>0, <2>1 DEF Begins, Removed
  <2>7. /\ parent' \in [Widgets -> Groups \cup {Null}]
        /\ \A x \in Widgets : parent'[x] # Null => {x, parent'[x]} \subseteq alive
        /\ \A x \in Windows : parent'[x] = Null
    BY <2>1 DEF BaseInv, TypeOK, WindowsStay
  <2> QED
    BY <2>1, <2>5, <2>6, <2>7 DEF BaseInv, TypeOK, StackOK, WindowsStay, PointersAlive, TrackersTell, TrackersType
<1>2. ASSUME DestroyWidget
      PROVE  BaseInv'
  <2> DEFINE w == Last(stack).widget
             f == Throws(w, focus)
  <2>1. /\ Running("delete") /\ Children(w) = {}
        /\ watched' = Cleared(w) /\ parent' = Leaves(w) /\ alive' = alive \ {w}
        /\ pushed' = Throws(w, pushed) /\ savedfocus' = Removed(w) /\ FixFocus(Front(stack), xfocus, f)
        /\ UNCHANGED <<oldfocus, tracks, dwidgets, prog>>
    BY <1>2 DEF DestroyWidget
  <2>2. stack # <<>> /\ w \in Widgets \ Windows
    BY <2>1, DeleteOnTop
  <2>3. \A p \in alive \cup {Null} : Throws(w, p) \in (alive \ {w}) \cup {Null}
    BY <2>2 DEF Throws, Inside, Ancestors
  <2>4. f \in (alive \ {w}) \cup {Null} /\ pushed' \in (alive \ {w}) \cup {Null}
    BY <1>0, <2>1, <2>3 DEF BaseInv, PointersAlive, TypeOK
  <2> HIDE DEF f, w
  <2>5. Shape(Front(stack))
    BY <1>0, <2>2, PopFrame
  <2>6. focus' \in {f, Null} /\ xfocus' = xfocus /\ Shape(stack')
    BY <1>0, <2>1, <2>4, <2>5, FixFocusCalls DEF Same
  <2>7. /\ parent' \in [Widgets -> Groups \cup {Null}]
        /\ \A x \in Widgets : parent'[x] # Null => {x, parent'[x]} \subseteq alive \ {w}
        /\ \A x \in Windows : parent'[x] = Null
    BY <2>1, <2>2 DEF BaseInv, TypeOK, WindowsStay, Leaves, Children
  <2>8. savedfocus' \in [Groups -> Widgets \cup {Null}]
    BY <1>0, <2>1 DEF Removed
  <2>9. TypeOK'
    BY <1>0, <2>1, <2>4, <2>6, <2>7, <2>8 DEF TypeOK, BaseInv
  <2>10. StackOK' /\ WindowsStay'
    BY <2>1, <2>2, <2>6, <2>7 DEF StackOK, WindowsStay, BaseInv
  <2>11. PointersAlive'
    BY <1>0, <2>1, <2>2, <2>4, <2>6 DEF PointersAlive, WindowsStay, BaseInv
  <2>12. TrackersType' /\ TrackersTell'
    BY <2>1, <2>2 DEF TrackersType, TrackersTell, Cleared, BaseInv
  <2> QED
    BY <2>9, <2>10, <2>11, <2>12 DEF BaseInv
<1> QED
  BY <1>1, <1>2

\* The first tree of widgets satisfies it.
LEMMA BaseInit == Init => BaseInv
<1> SUFFICES ASSUME Init PROVE BaseInv
  OBVIOUS
<1>1. StackOK
  BY DEF Init, StackOK, Shape
<1> QED
  BY <1>1, LifeAssumption DEF Init, BaseInv, TypeOK, WindowsStay, PointersAlive, TrackersTell, TrackersType

\* The steps of the model.
LEMMA Steps ==
    ASSUME Next
    PROVE  \/ HandlerStep \/ Wait \/ LoopDeletes \/ LoopEnds \/ DestroyWidget \/ UNCHANGED vars
           \/ \E w \in Widgets : Push(w) \/ Schedule(w)
           \/ \E w \in Widgets, g \in Groups \cup {Null} : Move(w, g)
           \/ \E t \in Trackers, w \in Widgets : Track(t, w)
           \/ \E t \in Trackers : Untrack(t)
           \/ \E c \in Widgets : DeleteChild(c)
<1>1. \A op \in {"focus", "push", "move", "track", "schedule"} : Uses[op] \subseteq Widgets
  BY LifeAssumption
<1> QED
  BY <1>1 DEF Next, Deletion, HandlerStep, Lost

\* Every step keeps BaseInv, and the program stays what it is.
LEMMA BaseStep == BaseInv /\ [Next]_vars => BaseInv' /\ prog' = prog
<1> SUFFICES ASSUME BaseInv, [Next]_vars PROVE BaseInv' /\ prog' = prog
  OBVIOUS
<1>1. UNCHANGED vars => BaseInv' /\ prog' = prog
  BY DEF vars, BaseInv, TypeOK, StackOK, WindowsStay, PointersAlive, TrackersTell, TrackersType
<1>2. CASE Next
  <2>1. BaseInv'
    BY <1>1, <1>2, Steps, ProgramBase, MoveBase, LoopBase, DestroyBase
  <2>2. HandlerStep => prog' = prog
    BY HandlerSame
  <2>3. prog' = prog
    BY <1>1, <1>2, <2>2, Steps DEF Wait, LoopDeletes, LoopEnds, DestroyWidget, Push, Schedule, Move, Track, Untrack, DeleteChild
  <2> QED
    BY <2>1, <2>3
<1> QED
  BY <1>1, <1>2

-----------------------------------------------------------------------------
(* The saved focus of a group is a child of it *)

\* SavedFocusIsChild for any parents p, widgets al and saved focus s.
Saved(p, al, s) ==
    /\ s \in [Groups -> Widgets \cup {Null}]
    /\ \A g \in Groups \cap al : s[g] # Null => p[s[g]] = g

\* On the stack s only the widget on top is being told that it loses the focus,
\* and the fl_oldfocus o is a child of it, for the parents p.
Told(s, p, o) ==
    /\ \A k \in 1 .. Len(s) - 1 : s[k].kind # "telling"
    /\ s # <<>> /\ Last(s).kind = "telling" /\ o # Null => p[o] = Last(s).widget

SavedInv == "refocuses" \notin prog => Saved(parent, alive, savedfocus) /\ Told(stack, parent, oldfocus)

\* Fl_Group::remove clears the saved focus that is the removed child.
LEMMA RemovedSaved ==
    ASSUME parent \in Parents, NEW w \in Widgets, NEW g \in Groups \cup {Null}, Saved(parent, alive, savedfocus)
    PROVE  Saved([parent EXCEPT ![w] = g], alive, Removed(w))
<1> DEFINE q == [parent EXCEPT ![w] = g]
<1>1. \A x \in Widgets : x # w => q[x] = parent[x]
  BY DEF Parents
<1>2. Removed(w) \in [Groups -> Widgets \cup {Null}]
  BY DEF Removed, Saved
<1>3. ASSUME NEW h \in Groups \cap alive, Removed(w)[h] # Null
      PROVE  q[Removed(w)[h]] = h
  <2>1. Removed(w)[h] = savedfocus[h] /\ ~(h = parent[w] /\ savedfocus[h] = w)
    BY <1>3 DEF Removed
  <2>2. parent[savedfocus[h]] = h /\ savedfocus[h] \in Widgets
    BY <1>3, <2>1 DEF Saved
  <2> QED
    BY <1>1, <2>1, <2>2
<1> QED
  BY <1>2, <1>3 DEF Saved

\* ~Fl_Group begins by clearing its own saved focus.
LEMMA BeginsSaved ==
    ASSUME NEW q, NEW al, NEW s, Saved(q, al, s), NEW w
    PROVE  Saved(q, al, Begins(w, s))
BY DEF Saved, Begins

\* If the handler on top was not called with FL_UNFOCUS, none was.
LEMMA UntoldBelow ==
    ASSUME BaseInv, NEW p, NEW o, Told(stack, p, o), ~Running("telling")
    PROVE  Untold(stack)
<1>1. Shape(stack)
  BY DEF BaseInv, StackOK
<1>2. stack # <<>> => Last(stack) = stack[Len(stack)]
  BY DEF Last
<1>3. \A k \in 1 .. Len(stack) : k \in 1 .. Len(stack) - 1 \/ k = Len(stack)
  BY <1>1 DEF Shape
<1>4. \A k \in 1 .. Len(stack) : stack # <<>>
  BY <1>1 DEF Shape
<1> QED
  BY <1>2, <1>3, <1>4 DEF Told, Running, Untold

\* With no FL_UNFOCUS on the stack, there is none below the top.
LEMMA UntoldTop ==
    ASSUME NEW s, Shape(s), Untold(s), NEW p, NEW o
    PROVE  Told(s, p, o)
<1>1. /\ Len(s) \in Nat /\ (s # <<>> => Last(s) = s[Len(s)] /\ Len(s) \in 1 .. Len(s))
      /\ \A k \in 1 .. Len(s) - 1 : k \in 1 .. Len(s)
  BY DEF Shape, Last
<1> QED
  BY <1>1 DEF Untold, Told

\* Steps that change no group and save no focus, and end with no FL_UNFOCUS
\* on the stack.
LEMMA QuietSaved ==
    ASSUME BaseInv', SavedInv, UNCHANGED <<parent, alive, savedfocus, prog>>,
           "refocuses" \notin prog => Untold(stack')
    PROVE  SavedInv'
<1>1. Shape(stack')
  BY DEF BaseInv, StackOK
<1> QED
  BY <1>1, UntoldTop DEF SavedInv

\* Handlers, and the program.
LEMMA HandlerSaved ==
    ASSUME BaseInv, SavedInv, HandlerStep, BaseInv'
    PROVE  SavedInv'
<1> USE LifeAssumption
<1>0. /\ Shape(stack) /\ focus \in Widgets \cup {Null} /\ xfocus \in Windows \cup {Null} /\ alive \subseteq Widgets
      /\ Windows \subseteq alive /\ parent \in Parents
  BY DEF BaseInv, TypeOK, StackOK, WindowsStay, Parents
<1>1. CASE \E w \in Widgets \cup {Null} : SetFocus(w)
  <2>1. PICK w \in Widgets \cup {Null} : SetFocus(w)
    BY <1>1
  <2>2. Focus(stack, focus, w) /\ Refocusable /\ UNCHANGED <<parent, alive, savedfocus, prog>>
    BY <2>1 DEF SetFocus
  <2>3. "refocuses" \notin prog => Untold(stack)
    BY <2>2, UntoldBelow DEF Refocusable, SavedInv
  <2> QED
    BY <1>0, <2>2, <2>3, FocusCalls, QuietSaved
<1>2. CASE \E x \in Windows \cup {Null} : XFocus(x)
  <2>1. PICK x \in Windows \cup {Null} : XFocus(x)
    BY <1>2
  <2>2. FixFocus(stack, x, focus) /\ stack = <<>> /\ UNCHANGED <<parent, alive, savedfocus, prog>>
    BY <2>1 DEF XFocus
  <2>3. Untold(stack)
    BY <2>2 DEF Untold
  <2> QED
    BY <1>0, <2>2, <2>3, FixFocusCalls, QuietSaved
<1>3. CASE HandlerReturns
  <2>1. stack # <<>> /\ Last(stack).kind = "handler" /\ stack' = Front(stack) /\ UNCHANGED <<parent, alive, savedfocus, prog>>
    BY <1>3 DEF HandlerReturns, Running, pointers
  <2>2. "refocuses" \notin prog => Untold(stack')
    BY <1>0, <2>1, PopHandler DEF SavedInv, Told, Handlers
  <2> QED
    BY <2>1, <2>2, QuietSaved
<1>4. CASE TakesFocus
  <2>1. PICK w \in alive : Focus(stack, focus, w)
    BY <1>4 DEF TakesFocus
  <2>2. ~Running("telling") /\ UNCHANGED <<parent, alive, savedfocus, prog>>
    BY <1>4 DEF TakesFocus, Running
  <2>3. "refocuses" \notin prog => Untold(stack)
    BY <2>2, UntoldBelow DEF SavedInv
  <2> QED
    BY <1>0, <2>1, <2>2, <2>3, FocusCalls, QuietSaved
<1>5. CASE TakingReturns
  <2> DEFINE fr == Code("handler", Null)
             s == Append(Front(stack), fr)
  <2>1. stack # <<>> /\ Last(stack).kind = "taking" /\ UNCHANGED <<parent, alive, savedfocus, prog>>
    BY <1>5 DEF TakingReturns, Running
  <2>2. Last(stack).widget \in Widgets /\ Shape(Front(stack))
    BY <1>0, <2>1, HandlerOnTop DEF Handlers
  <2>3. PICK w \in Widgets \cup {Null} : Focus(s, focus, w)
    BY <1>0, <1>5, <2>2 DEF TakingReturns
  <2>4. fr \in Frames /\ fr.kind = "handler"
    BY DEF Code, Frames, Handlers
  <2> HIDE DEF fr
  <2>5. Shape(s) /\ (Untold(Front(stack)) => Untold(s))
    BY <2>2, <2>4, PushHandler DEF Handlers, Same
  <2>6. "refocuses" \notin prog => Untold(Front(stack))
    BY <1>0, <2>1, PopHandler DEF SavedInv, Told, Handlers
  <2> HIDE DEF s
  <2> QED
    BY <1>0, <2>1, <2>3, <2>5, <2>6, FocusCalls, QuietSaved
<1>6. CASE ChangingReturns
  <2> DEFINE p == Last(stack).widget
             fr == Code("telling", p)
  <2>1. /\ stack # <<>> /\ Last(stack).kind = "changing" /\ oldfocus' = Null
        /\ p = Null => stack' = Front(stack)
        /\ p # Null => stack' = Append(Front(stack), fr)
        /\ UNCHANGED <<parent, alive, savedfocus, prog>>
    BY <1>6 DEF ChangingReturns, Running
  <2>2. Last(stack) \in Frames /\ Shape(Front(stack))
    BY <2>1, HandlerOnTop DEF Handlers
  <2>3. "refocuses" \notin prog => Untold(Front(stack))
    BY <1>0, <2>1, PopHandler DEF SavedInv, Told, Handlers
  <2>4. CASE p = Null
    BY <2>1, <2>3, <2>4, QuietSaved
  <2>5. CASE p # Null
    <3>1. fr \in Frames /\ fr.kind = "telling" /\ fr.widget \in Widgets
      BY <2>2, <2>5 DEF Code, Frames, Handlers
    <3>2. stack' = Append(Front(stack), fr)
      BY <2>1, <2>5
    <3> HIDE DEF fr
    <3>3. Untold(Front(stack)) => \A k \in 1 .. Len(stack') - 1 : stack'[k].kind # "telling"
      BY <2>2, <3>1, <3>2, PushHandler DEF Handlers
    <3> QED
      BY <2>1, <2>3, <3>3 DEF SavedInv, Told
  <2> QED
    BY <2>4, <2>5
<1>7. CASE TellingReturns
  <2> SUFFICES ASSUME "refocuses" \notin prog PROVE SavedInv'
    BY <1>7 DEF TellingReturns, SavedInv
  <2> DEFINE p == Last(stack).widget
             fr == Code("telling", parent[p])
  <2>1. /\ stack # <<>> /\ Last(stack).kind = "telling" /\ savedfocus' \in Saves(p)
        /\ oldfocus' = IF parent[p] = Null /\ ~Focusing(Front(stack)) THEN Null ELSE p
        /\ parent[p] = Null => stack' = Front(stack)
        /\ parent[p] # Null => stack' = Append(Front(stack), fr)
        /\ UNCHANGED <<parent, alive, prog>>
    BY <1>7 DEF TellingReturns, Running
  <2>2. p \in Widgets /\ Shape(Front(stack))
    BY <2>1, HandlerOnTop DEF Handlers
  <2>3. Saved(parent, alive, savedfocus) /\ (oldfocus # Null => parent[oldfocus] = p) /\ oldfocus \in Widgets \cup {Null}
    BY <2>1 DEF SavedInv, Told, BaseInv, TypeOK
  <2>4. Untold(Front(stack))
    BY <1>0, <2>1, PopHandler DEF SavedInv, Told, Handlers
  <2>5. Saved(parent, alive, savedfocus')
    BY <2>1, <2>3 DEF Saved, Saves
  <2>6. Told(stack', parent, oldfocus')
    <3>1. CASE parent[p] = Null
      BY <2>1, <2>2, <2>4, <3>1, UntoldTop
    <3>2. CASE parent[p] # Null
      <4>1. fr \in Frames /\ fr.kind = "telling" /\ fr.widget \in Widgets /\ fr.widget = parent[p]
        BY <1>0, <2>2, <3>2 DEF Code, Frames, Handlers, Parents
      <4>2. stack' = Append(Front(stack), fr) /\ oldfocus' = p
        BY <2>1, <3>2
      <4> HIDE DEF fr
      <4>3. /\ \A k \in 1 .. Len(stack') - 1 : stack'[k].kind # "telling"
            /\ Last(stack') = fr
        BY <2>2, <2>4, <4>1, <4>2, PushHandler DEF Handlers
      <4> QED
        BY <4>1, <4>2, <4>3 DEF Told
    <3> QED
      BY <3>1, <3>2
  <2> QED
    BY <2>1, <2>5, <2>6 DEF SavedInv
<1> QED
  BY <1>1, <1>2, <1>3, <1>4, <1>5, <1>6, <1>7 DEF HandlerStep

\* The other steps that leave the groups alone.
LEMMA ProgramSaved ==
    ASSUME BaseInv, SavedInv, BaseInv'
    PROVE  /\ \A w \in Widgets : Push(w) \/ Schedule(w) => SavedInv'
           /\ \A t \in Trackers : Untrack(t) => SavedInv'
           /\ \A t \in Trackers, w \in Widgets : Track(t, w) => SavedInv'
           /\ Wait => SavedInv'
           /\ LoopEnds => SavedInv'
<1>1. \A w \in Widgets : Push(w) \/ Schedule(w) => SavedInv'
  BY DEF Push, Schedule, pointers, SavedInv
<1>2. \A t \in Trackers : Untrack(t) => SavedInv'
  BY DEF Untrack, pointers, SavedInv
<1>3. \A t \in Trackers, w \in Widgets : Track(t, w) => SavedInv'
  BY DEF Track, pointers, SavedInv
<1>4. ASSUME Wait
      PROVE  SavedInv'
  <2>1. stack' = <<Code("loop", Null)>> /\ UNCHANGED <<parent, alive, savedfocus, prog>>
    BY <1>4 DEF Wait, pointers
  <2>2. Untold(stack')
    BY <2>1 DEF Untold, Code
  <2> QED
    BY <2>1, <2>2, QuietSaved
<1>5. ASSUME LoopEnds
      PROVE  SavedInv'
  <2>1. stack # <<>> /\ stack' = Front(stack) /\ Running("loop") /\ UNCHANGED <<parent, alive, savedfocus, prog>>
    BY <1>5 DEF LoopEnds, Running, pointers
  <2>2. Shape(stack) /\ Last(stack).kind = "loop"
    BY <2>1 DEF BaseInv, StackOK, Running
  <2>3. Len(stack) = 1
    BY <2>1, <2>2, LoopMoves
  <2>4. Len(stack') = 0
    <3>1. Len(Front(stack)) = Len(stack) - 1
      BY <2>1, <2>2, PopFrame
    <3> QED
      BY <2>1, <2>3, <3>1
  <2>5. Untold(stack')
    BY <2>4 DEF Untold
  <2> QED
    BY <2>1, <2>5, QuietSaved
<1> QED
  BY <1>1, <1>2, <1>3, <1>4, <1>5

\* The steps that take widgets out of groups.
LEMMA GroupSaved ==
    ASSUME BaseInv, SavedInv, BaseInv'
    PROVE  /\ \A w \in Widgets, g \in Groups \cup {Null} : Move(w, g) => SavedInv'
           /\ LoopDeletes => SavedInv'
           /\ \A c \in Widgets : DeleteChild(c) => SavedInv'
           /\ DestroyWidget => SavedInv'
<1> USE LifeAssumption
<1>0. Shape(stack) /\ Shape(stack') /\ parent \in Parents
  BY DEF BaseInv, StackOK, TypeOK, Parents
<1>1. ASSUME NEW w \in Widgets, NEW g \in Groups \cup {Null}, Move(w, g)
      PROVE  SavedInv'
  <2>1. /\ Refocusable /\ parent' = [parent EXCEPT ![w] = g] /\ savedfocus' = Removed(w)
        /\ UNCHANGED <<alive, oldfocus, stack, prog>>
    BY <1>1 DEF Move
  <2> SUFFICES ASSUME "refocuses" \notin prog PROVE Saved(parent', alive, savedfocus') /\ Told(stack, parent', oldfocus)
    BY <2>1 DEF SavedInv
  <2>2. Saved(parent, alive, savedfocus) /\ Told(stack, parent, oldfocus) /\ ~Running("telling")
    BY <2>1 DEF SavedInv, Refocusable
  <2> QED
    BY <1>0, <2>1, <2>2, RemovedSaved, UntoldBelow, UntoldTop
<1>2. ASSUME LoopDeletes
      PROVE  SavedInv'
  <2> DEFINE w == dwidgets[Last(stack).i]
             s == [stack EXCEPT ![Len(stack)].i = @ + 1]
             fr == Code("delete", w)
  <2>1. /\ stack # <<>> /\ Last(stack).kind = "loop" /\ stack' = Append(s, fr)
        /\ savedfocus' = Begins(w, savedfocus) /\ UNCHANGED <<parent, alive, prog>>
    BY <1>2 DEF LoopDeletes, Running
  <2>2. Len(s) = 1 /\ s[1].kind = "loop" /\ Shape(s)
    BY <1>0, <2>1, LoopMoves
  <2>3. fr.kind = "delete"
    BY DEF Code
  <2> HIDE DEF s, w, fr
  <2>4. Untold(stack')
    <3>1. s \in Seq(Frames)
      BY <2>2 DEF Shape
    <3>2. /\ Len(Append(s, fr)) = Len(s) + 1 /\ Append(s, fr)[Len(s) + 1] = fr
          /\ \A k \in 1 .. Len(s) : Append(s, fr)[k] = s[k]
      BY <3>1
    <3>3. Len(stack') = 2 /\ stack'[1] = s[1] /\ stack'[2] = fr
      BY <2>1, <2>2, <3>2
    <3>4. \A k \in 1 .. 2 : k = 1 \/ k = 2
      OBVIOUS
    <3>5. stack'[1].kind # "telling" /\ stack'[2].kind # "telling"
      BY <2>2, <2>3, <3>3
    <3> QED
      BY <3>3, <3>4, <3>5 DEF Untold
  <2>5. Told(stack', parent', oldfocus')
    BY <1>0, <2>4, UntoldTop
  <2> QED
    BY <2>1, <2>5, BeginsSaved DEF SavedInv
<1>3. ASSUME NEW c \in Widgets, DeleteChild(c)
      PROVE  SavedInv'
  <2>1. /\ Running("delete") /\ parent' = [parent EXCEPT ![c] = Null] /\ savedfocus' = Begins(c, Removed(c))
        /\ stack' = Append(stack, Code("delete", c)) /\ UNCHANGED <<alive, prog>>
    BY <1>3 DEF DeleteChild
  <2> SUFFICES ASSUME "refocuses" \notin prog PROVE Saved(parent', alive, savedfocus') /\ Told(stack', parent', oldfocus')
    BY <2>1 DEF SavedInv
  <2>2. Saved(parent', alive, savedfocus')
    BY <1>0, <2>1, RemovedSaved, BeginsSaved DEF SavedInv
  <2>3. Untold(stack)
    BY <2>1, UntoldBelow DEF SavedInv, Running
  <2>4. Code("delete", c).kind = "delete"
    BY DEF Code
  <2>5. Untold(stack')
    BY <1>0, <2>1, <2>3, <2>4 DEF Untold, Shape
  <2> QED
    BY <1>0, <2>2, <2>5, UntoldTop
<1>4. ASSUME DestroyWidget
      PROVE  SavedInv'
  <2> DEFINE w == Last(stack).widget
             f == Throws(w, focus)
  <2>1. /\ Running("delete") /\ parent' = Leaves(w) /\ alive' = alive \ {w} /\ savedfocus' = Removed(w)
        /\ FixFocus(Front(stack), xfocus, f) /\ UNCHANGED prog
    BY <1>4 DEF DestroyWidget
  <2> SUFFICES ASSUME "refocuses" \notin prog PROVE Saved(parent', alive', savedfocus') /\ Told(stack', parent', oldfocus')
    BY <2>1 DEF SavedInv
  <2>2. w \in Widgets /\ stack # <<>>
    BY <2>1, DeleteOnTop
  <2>3. xfocus \in Windows \cup {Null} /\ f \in Widgets \cup {Null}
    BY DEF BaseInv, TypeOK, Throws
  <2> HIDE DEF w, f
  <2>4. Saved(parent', alive', savedfocus')
    <3>1. Saved(Leaves(w), alive, Removed(w))
      BY <1>0, <2>2, RemovedSaved DEF Leaves, SavedInv
    <3> QED
      BY <2>1, <3>1 DEF Saved
  <2>5. Untold(stack)
    BY <2>1, UntoldBelow DEF SavedInv, Running
  <2>6. Shape(Front(stack)) /\ Untold(Front(stack))
    BY <1>0, <2>2, <2>5, PopFrame DEF Untold
  <2>7. Untold(stack')
    BY <2>1, <2>3, <2>6, FixFocusCalls
  <2> QED
    BY <1>0, <2>4, <2>7, UntoldTop
<1> QED
  BY <1>1, <1>2, <1>3, <1>4

\* No focus is saved at first.
LEMMA SavedInit == Init => SavedInv
<1> SUFFICES ASSUME Init PROVE SavedInv
  OBVIOUS
<1>1. Saved(parent, alive, savedfocus)
  BY LifeAssumption DEF Init, Saved
<1>2. stack = <<>> /\ Len(stack) = 0
  BY DEF Init
<1>3. Told(stack, parent, oldfocus)
  BY <1>2 DEF Told
<1> QED
  BY <1>1, <1>3 DEF SavedInv

\* Every step keeps SavedInv.
LEMMA SavedStep == BaseInv /\ SavedInv /\ [Next]_vars => SavedInv'
<1> SUFFICES ASSUME BaseInv, SavedInv, [Next]_vars PROVE SavedInv'
  OBVIOUS
<1>1. BaseInv'
  BY BaseStep
<1>2. UNCHANGED vars => SavedInv'
  BY DEF vars, SavedInv
<1> QED
  BY <1>1, <1>2, Steps, HandlerSaved, ProgramSaved, GroupSaved

-----------------------------------------------------------------------------
(* What the destructors on the stack are *)

\* When the loop over dwidgets goes on, no destructor runs.
LEMMA LoopAlone ==
    ASSUME BaseInv, Running("loop")
    PROVE  /\ stack # <<>> /\ Len(stack) = 1 /\ Last(stack) = stack[1] /\ At(stack) = Last(stack).i
           /\ Dying(stack) = {} /\ Last(stack).kind = "loop" /\ At(stack) \in Nat \ {0}
<1>1. stack # <<>> /\ Last(stack).kind = "loop" /\ Shape(stack)
  BY DEF Running, BaseInv, StackOK
<1>2. Len(stack) = 1 /\ Last(stack) = stack[1] /\ stack[1].i \in Nat \ {0}
  BY <1>1, LoopMoves
<1>3. \A k \in 1 .. Len(stack) : stack[k].kind # "delete"
  BY <1>1, <1>2
<1> QED
  BY <1>1, <1>2, <1>3 DEF Dying, At

\* The loop starts.
LEMMA WaitStack ==
    ASSUME Wait, NEW al
    PROVE  Dying(stack) = {} /\ Dying(stack') = {} /\ At(stack) = 1 /\ At(stack') = 1 /\ Once(stack', al)
<1> DEFINE fr == Code("loop", Null)
<1>1. stack = <<>> /\ stack' = <<fr>>
  BY DEF Wait
<1>2. fr.kind = "loop" /\ fr.i = 1
  BY DEF Code
<1> HIDE DEF fr
<1>3. Len(stack) = 0 /\ Len(stack') = 1 /\ stack'[1] = fr /\ stack' # <<>> /\ \A k \in 1 .. Len(stack') : k = 1
  BY <1>1
<1>4. \A k \in 1 .. Len(stack') : stack'[k].kind # "delete"
  BY <1>2, <1>3
<1> QED
  BY <1>1, <1>2, <1>3, <1>4 DEF Dying, At, Once

\* The loop begins a destructor.
LEMMA LoopDeletesStack ==
    ASSUME BaseInv, LoopDeletes, NEW al
    PROVE  /\ At(stack) \in 1 .. Len(dwidgets) /\ At(stack') = At(stack) + 1
           /\ Dying(stack) = {} /\ Dying(stack') = {dwidgets[At(stack)]}
           /\ dwidgets[At(stack)] \in Widgets \ Windows
           /\ dwidgets[At(stack)] \in al => Once(stack', al)
<1> DEFINE w == dwidgets[Last(stack).i]
           s == [stack EXCEPT ![Len(stack)].i = @ + 1]
           fr == Code("delete", w)
<1>1. Running("loop") /\ Last(stack).i <= Len(dwidgets) /\ stack' = Append(s, fr)
  BY DEF LoopDeletes
<1>2. /\ stack # <<>> /\ At(stack) = Last(stack).i /\ Dying(stack) = {} /\ At(stack) \in Nat \ {0}
      /\ Last(stack).kind = "loop" /\ Last(stack) = stack[1] /\ Shape(stack)
  BY <1>1, LoopAlone DEF BaseInv, StackOK
<1>3. Shape(s) /\ s # <<>> /\ Len(s) = 1 /\ s[1].kind = "loop" /\ s[1].i = At(stack) + 1
  BY <1>2, LoopMoves
<1>4. At(stack) \in 1 .. Len(dwidgets) /\ dwidgets \in Seq(Widgets)
  BY <1>1, <1>2 DEF BaseInv, TypeOK
<1>5. w = dwidgets[At(stack)] /\ w \in Widgets \ Windows
  BY <1>2, <1>4 DEF BaseInv, WindowsStay
<1>6. fr \in Frames /\ fr.kind = "delete" /\ fr.widget = w
  BY <1>5 DEF Code, Frames
<1> HIDE DEF w, s, fr
<1>7. /\ Shape(stack') /\ Len(stack') = Len(s) + 1 /\ stack'[Len(s) + 1] = fr
      /\ \A k \in 1 .. Len(s) : stack'[k] = s[k]
  BY <1>1, <1>3, <1>5, <1>6, PushFrame
<1>8. Dying(s) = {} /\ Once(s, al)
  <2>1. \A k \in 1 .. Len(s) : s[k].kind # "delete"
    BY <1>3
  <2> QED
    BY <2>1 DEF Dying, Once
<1>9. /\ Dying(stack') = Dying(s) \cup {fr.widget} /\ (s # <<>> => At(stack') = At(s))
      /\ Once(stack', al) <=> Once(s, al) /\ (fr.kind = "delete" => fr.widget \in al \ Dying(s))
  <2>1. Shape(s) /\ fr.kind = "delete"
    BY <1>3, <1>6
  <2> QED
    BY <2>1, <1>7, OneMore
<1>10. At(stack') = At(stack) + 1
  BY <1>3, <1>9 DEF At
<1> QED
  BY <1>2, <1>4, <1>5, <1>6, <1>8, <1>9, <1>10

\* The loop ends.
LEMMA LoopEndsStack ==
    ASSUME BaseInv, LoopEnds, NEW al
    PROVE  /\ At(stack) \in Nat /\ At(stack) > Len(dwidgets) /\ At(stack') = 1 /\ Once(stack', al)
           /\ Dying(stack) = {} /\ Dying(stack') = {}
<1>1. Running("loop") /\ Last(stack).i > Len(dwidgets) /\ stack' = Front(stack)
  BY DEF LoopEnds
<1>2. /\ stack # <<>> /\ Len(stack) = 1 /\ At(stack) = Last(stack).i /\ Dying(stack) = {} /\ Shape(stack)
      /\ At(stack) \in Nat
  BY <1>1, LoopAlone DEF BaseInv, StackOK
<1>3. Shape(stack') /\ Len(stack') = 0
  <2>1. Shape(Front(stack)) /\ Len(Front(stack)) = Len(stack) - 1
    BY <1>2, PopFrame
  <2> QED
    BY <1>1, <1>2, <2>1
<1>4. stack' = <<>>
  BY <1>3 DEF Shape
<1>5. Dying(stack') = {} /\ Once(stack', al) /\ At(stack') = 1
  BY <1>3, <1>4 DEF Dying, Once, At
<1> QED
  BY <1>1, <1>2, <1>5

\* A group begins to destroy a child.
LEMMA DeleteChildStack ==
    ASSUME BaseInv, NEW c \in Widgets, DeleteChild(c), NEW al
    PROVE  /\ Dying(stack') = Dying(stack) \cup {c} /\ At(stack') = At(stack)
           /\ parent[c] \in Dying(stack) /\ parent[c] \in Widgets /\ c \in alive \ Windows
           /\ Once(stack', al) <=> Once(stack, al) /\ c \in al \ Dying(stack)
<1> DEFINE w == Last(stack).widget
           fr == Code("delete", c)
<1>1. Running("delete") /\ parent[c] = w /\ stack' = Append(stack, fr)
  BY DEF DeleteChild
<1>2. /\ stack # <<>> /\ stack[1].kind = "loop" /\ w \in Widgets \ Windows /\ Shape(stack)
      /\ Len(stack) \in 1 .. Len(stack) /\ Last(stack) = stack[Len(stack)] /\ Last(stack).kind = "delete"
      /\ Null \notin Widgets
  BY <1>1, DeleteOnTop, LifeAssumption DEF BaseInv, StackOK
<1>3. c \in alive /\ c \in Widgets \ Windows
  BY <1>1, <1>2 DEF BaseInv, TypeOK, WindowsStay
<1>4. w \in Dying(stack)
  BY <1>2 DEF Dying
<1>5. fr \in Frames /\ fr.kind = "delete" /\ fr.widget = c
  BY DEF Code, Frames
<1> HIDE DEF w, fr
<1>6. /\ Shape(stack') /\ Len(stack') = Len(stack) + 1 /\ stack'[Len(stack) + 1] = fr
      /\ \A k \in 1 .. Len(stack) : stack'[k] = stack[k]
  BY <1>1, <1>2, <1>3, <1>5, PushFrame
<1>7. /\ Dying(stack') = Dying(stack) \cup {c} /\ At(stack') = At(stack)
      /\ Once(stack', al) <=> Once(stack, al) /\ c \in al \ Dying(stack)
  BY <1>2, <1>5, <1>6, OneMore
<1> QED
  BY <1>1, <1>2, <1>3, <1>4, <1>7

\* A destructor ends, and handlers are called.
LEMMA DestroyStack ==
    ASSUME BaseInv, DestroyWidget, NEW al \in SUBSET Widgets
    PROVE  LET w == Last(stack).widget IN
           /\ w \in alive \ Windows /\ alive' = alive \ {w} /\ parent' = [parent EXCEPT ![w] = Null]
           /\ At(stack') = At(stack) /\ Dying(stack) = Dying(stack') \cup {w}
           /\ Once(stack, al) => w \notin Dying(stack') /\ Once(stack', al)
<1> DEFINE w == Last(stack).widget
           f == Throws(w, focus)
           s == Front(stack)
<1>1. /\ Running("delete") /\ w \in alive /\ parent' = [parent EXCEPT ![w] = Null] /\ alive' = alive \ {w}
      /\ FixFocus(s, xfocus, f)
  BY DEF DestroyWidget, Leaves
<1>2. /\ stack # <<>> /\ w \in Widgets \ Windows /\ Shape(stack)
      /\ Len(stack) \in Nat /\ Len(stack) >= 2 /\ Last(stack) = stack[Len(stack)] /\ Last(stack).kind = "delete"
      /\ xfocus \in Windows \cup {Null} /\ f \in Widgets \cup {Null}
  BY <1>1, DeleteOnTop DEF BaseInv, StackOK, TypeOK, Throws
<1>3. /\ Shape(s) /\ Len(s) = Len(stack) - 1 /\ \A k \in 1 .. Len(stack) - 1 : s[k] = stack[k]
  BY <1>2, PopFrame
<1>4. /\ Len(stack) = Len(s) + 1 /\ stack[Len(s) + 1] = Last(stack) /\ \A k \in 1 .. Len(s) : stack[k] = s[k]
      /\ s # <<>>
  BY <1>2, <1>3
<1> HIDE DEF f, s
<1>5. Same(s, stack')
  BY <1>1, <1>2, <1>3, FixFocusCalls
<1>6. /\ Dying(stack) = Dying(s) \cup {w} /\ At(stack) = At(s)
      /\ Once(stack, al) => Once(s, al) /\ w \notin Dying(s)
  <2>1. Shape(s) /\ Shape(stack) /\ Len(stack) = Len(s) + 1 /\ stack[Len(s) + 1] = Last(stack)
        /\ (\A k \in 1 .. Len(s) : stack[k] = s[k]) /\ s # <<>>
    BY <1>2, <1>3, <1>4
  <2> DEFINE fr == Last(stack)
  <2>2. fr.kind = "delete" /\ fr.widget = w
    BY <1>2
  <2> HIDE DEF w, fr
  <2>3. stack[Len(s) + 1] = fr
    BY <2>1 DEF fr
  <2>4. /\ Dying(stack) = Dying(s) \cup {fr.widget} /\ At(stack) = At(s)
        /\ Once(stack, al) <=> Once(s, al) /\ fr.widget \in al \ Dying(s)
    BY <2>1, <2>2, <2>3, OneMore
  <2> QED
    BY <2>2, <2>4
<1>7. At(stack') = At(stack) /\ Dying(stack) = Dying(stack') \cup {w}
      /\ (Once(stack, al) => w \notin Dying(stack') /\ Once(stack', al))
  BY <1>5, <1>6 DEF Same
<1> QED
  BY <1>1, <1>2, <1>7

-----------------------------------------------------------------------------
(* The loop forgets nobody, in every program *)

\* What is before the index of the loop is dead or dying.
Past(dw, at, al, dying) ==
    /\ at \in 1 .. Len(dw) + 1
    /\ \A j \in 1 .. Len(dw) : j < at => dw[j] \notin al \/ dw[j] \in dying

LoopInv == Past(dwidgets, At(stack), alive, Dying(stack))

LEMMA LoopStep == BaseInv /\ LoopInv /\ [Next]_vars => LoopInv'
<1> SUFFICES ASSUME BaseInv, LoopInv, [Next]_vars PROVE LoopInv'
  OBVIOUS
<1>0. dwidgets \in Seq(Widgets) /\ Len(dwidgets) \in Nat
  BY DEF BaseInv, TypeOK
<1>1. ASSUME UNCHANGED <<alive, dwidgets>>, Dying(stack') = Dying(stack), At(stack') = At(stack)
      PROVE  LoopInv'
  BY <1>1 DEF LoopInv
<1>2. CASE HandlerStep
  BY <1>1, <1>2, HandlerSame DEF Same
<1>3. CASE Wait
  BY <1>1, <1>3, WaitStack DEF Wait
<1>4. CASE LoopDeletes
  <2> DEFINE at == At(stack)
  <2>1. /\ at \in 1 .. Len(dwidgets) /\ At(stack') = at + 1 /\ Dying(stack) = {} /\ Dying(stack') = {dwidgets[at]}
        /\ UNCHANGED <<alive, dwidgets>>
    BY <1>4, LoopDeletesStack DEF LoopDeletes
  <2>2. Past(dwidgets, at, alive, {})
    BY <2>1 DEF LoopInv
  <2> HIDE DEF at
  <2>3. Past(dwidgets, at + 1, alive, {dwidgets[at]})
    BY <1>0, <2>1, <2>2 DEF Past
  <2> QED
    BY <2>1, <2>3 DEF LoopInv
<1>5. CASE LoopEnds
  <2>1. dwidgets' = <<>> /\ At(stack') = 1
    BY <1>5, LoopEndsStack DEF LoopEnds
  <2> QED
    BY <2>1 DEF LoopInv, Past
<1>6. CASE DestroyWidget
  <2> DEFINE w == Last(stack).widget
  <2>1. alive' = alive \ {w} /\ At(stack') = At(stack) /\ Dying(stack) = Dying(stack') \cup {w}
    BY <1>6, DestroyStack
  <2>2. UNCHANGED dwidgets
    BY <1>6 DEF DestroyWidget
  <2> HIDE DEF w
  <2> QED
    BY <2>1, <2>2 DEF LoopInv, Past
<1>7. ASSUME NEW c \in Widgets, DeleteChild(c)
      PROVE  LoopInv'
  <2>1. Dying(stack') = Dying(stack) \cup {c} /\ At(stack') = At(stack) /\ UNCHANGED <<alive, dwidgets>>
    BY <1>7, DeleteChildStack DEF DeleteChild
  <2> QED
    BY <2>1 DEF LoopInv, Past
<1>8. ASSUME NEW w \in Widgets, Schedule(w)
      PROVE  LoopInv'
  <2>1. dwidgets' = Append(dwidgets, w) /\ UNCHANGED <<alive, stack>>
    BY <1>8 DEF Schedule
  <2>2. Len(dwidgets') = Len(dwidgets) + 1 /\ \A j \in 1 .. Len(dwidgets) : dwidgets'[j] = dwidgets[j]
    BY <1>0, <2>1
  <2> DEFINE at == At(stack)
             dying == Dying(stack)
  <2>3. Past(dwidgets, at, alive, dying)
    BY DEF LoopInv
  <2> HIDE DEF at, dying
  <2>4. Past(dwidgets', at, alive, dying)
    BY <1>0, <2>2, <2>3 DEF Past
  <2> QED
    BY <2>1, <2>4 DEF LoopInv, at, dying
<1>9. UNCHANGED <<alive, dwidgets, stack>> => LoopInv'
  BY <1>1
<1>10. \A w \in Widgets : Push(w) => LoopInv'
  BY <1>9 DEF Push
<1>11. \A w \in Widgets, g \in Groups \cup {Null} : Move(w, g) => LoopInv'
  BY <1>9 DEF Move
<1>12. /\ \A t \in Trackers, w \in Widgets : Track(t, w) => LoopInv'
       /\ \A t \in Trackers : Untrack(t) => LoopInv'
  BY <1>9 DEF Track, Untrack
<1>13. UNCHANGED vars => LoopInv'
  BY <1>9 DEF vars
<1> QED
  BY <1>2, <1>3, <1>4, <1>5, <1>6, <1>7, <1>8, <1>10, <1>11, <1>12, <1>13, Steps

-----------------------------------------------------------------------------
(* Widgets die once, if none is scheduled twice *)

\* No widget is inside itself.
NoLoop(p) == \A w \in Widgets : p[w] # Null => w \notin Up(p, p[w])

\* Of two widgets of D neither is inside the other.
Apart(p, D) == \A d, e \in D : e \in Up(p, d) => d = e

\* The widgets that are to die.
ToDie(dw, s) == {dw[j] : j \in 1 .. Len(dw)} \cup Dying(s)

\* Nobody has touched what the loop has not reached, and no widget is on the
\* schedule twice.
Fresh(dw, at, al, dying) ==
    /\ \A j \in 1 .. Len(dw) : j >= at => dw[j] \in al /\ dw[j] \notin dying
    /\ \A j, k \in 1 .. Len(dw) : dw[j] = dw[k] => j = k

DeathInv ==
    /\ NoLoop(parent)
    /\ Apart(parent, ToDie(dwidgets, stack) \cap alive)
    /\ Fresh(dwidgets, At(stack), alive, Dying(stack))
    /\ Once(stack, alive)

\* The widgets that are to die, in terms of the stack and the schedule.
LEMMA DoomedIs ==
    ASSUME BaseInv
    PROVE  /\ Doomed = ToDie(dwidgets, stack) /\ ToDie(dwidgets, stack) \subseteq Widgets
           /\ NoDoubleDelete <=> ("reschedules" \notin prog => Once(stack, alive))
           /\ Range(dwidgets) = {dwidgets[j] : j \in 1 .. Len(dwidgets)}
<1>1. DOMAIN stack = 1 .. Len(stack) /\ DOMAIN dwidgets = 1 .. Len(dwidgets)
  BY DEF BaseInv, StackOK, Shape, TypeOK
<1>2. Range(dwidgets) = {dwidgets[j] : j \in 1 .. Len(dwidgets)}
  BY <1>1 DEF Range
<1>3. Destroying = Dying(stack)
  BY <1>1 DEF Destroying, Dying
<1>4. NoDoubleDelete <=> ("reschedules" \notin prog => Once(stack, alive))
  BY <1>1 DEF NoDoubleDelete, Once
<1>5. ToDie(dwidgets, stack) \subseteq Widgets
  BY DEF BaseInv, TypeOK, StackOK, Shape, FrameOK, ToDie, Dying
<1> QED
  BY <1>2, <1>3, <1>4, <1>5 DEF Doomed, ToDie

\* In the first tree no widget is inside itself.
LEMMA NoLoopFirst == FirstParent \in Parents /\ NoLoop(FirstParent)
<1> DEFINE p == FirstParent
<1>1. p \in Parents
  BY LifeAssumption DEF Parents
<1>2. ASSUME NEW w \in Widgets, p[w] # Null, w \in Up(p, p[w])
      PROVE  FALSE
  <2> DEFINE S == {x \in Up(p, p[w]) : w \in Up(p, x)}
  <2>1. p[w] \in Widgets
    BY <1>1, <1>2, LifeAssumption DEF Parents
  <2>2. /\ p[w] \in Up(p, p[w]) /\ Up(p, p[w]) \subseteq Widgets
        /\ \A a \in Up(p, p[w]) : p[a] \in Up(p, p[w]) \cup {Null}
    BY <1>1, <2>1, UpFacts
  <2>3. ASSUME NEW x \in S
        PROVE  p[x] \in S
    <3>1. CASE x = w
      BY <1>2, <2>2, <3>1
    <3>2. CASE x # w
      <4>1. x \in Widgets /\ p[x] # Null
        BY <1>1, <2>2, <3>2, UpRoot
      <4>2. w \in Up(p, p[x])
        BY <1>1, <3>2, <4>1, UpParent
      <4> QED
        BY <2>2, <4>1, <4>2
    <3> QED
      BY <3>1, <3>2
  <2>4. S \in SUBSET Widgets /\ S # {}
    BY <1>2, <2>2
  <2> QED
    BY <2>3, <2>4, LifeAssumption
<1> QED
  BY <1>1, <1>2 DEF NoLoop

\* w gets the parent g, or none, as in UpMoved.
LEMMA NoLoopMoved ==
    ASSUME NEW p \in Parents, NoLoop(p), NEW w \in Widgets, NEW g \in Groups \cup {Null},
           g # Null => w \notin Up(p, g)
    PROVE  NoLoop([p EXCEPT ![w] = g])
<1> DEFINE q == [p EXCEPT ![w] = g]
<1>1. q \in Parents /\ q[w] = g /\ \A x \in Widgets : x # w => q[x] = p[x]
  BY DEF Parents
<1>2. ASSUME NEW z \in Widgets
      PROVE  /\ w \notin Up(p, z) \/ g = Null => Up(q, z) \subseteq Up(p, z)
             /\ g # Null => Up(q, z) \subseteq Up(p, z) \cup Up(p, g)
  BY UpMoved
<1> HIDE DEF q
<1>3. ASSUME NEW y \in Widgets, q[y] # Null, y \in Up(q, q[y])
      PROVE  FALSE
  <2>1. q[y] \in Widgets
    BY <1>1, <1>3, LifeAssumption DEF Parents
  <2>2. CASE y = w
    <3>1. Up(q, g) \subseteq Up(p, g)
      BY <1>1, <1>2, <1>3, <2>1, <2>2
    <3> QED
      BY <1>1, <1>3, <2>2, <3>1
  <2>3. CASE y # w
    <3> DEFINE z == p[y]
    <3>1. q[y] = z /\ z # Null /\ z \in Widgets /\ y \notin Up(p, z)
      BY <1>1, <1>3, <2>1, <2>3 DEF NoLoop
    <3>2. w \in Up(p, z) /\ g # Null /\ y \in Up(p, g)
      BY <1>2, <1>3, <3>1
    <3>3. g \in Widgets
      BY <3>2, LifeAssumption
    <3>4. Up(p, y) \subseteq Up(p, g)
      BY <3>2, <3>3, UpTrans
    <3>5. Up(p, z) \subseteq Up(p, y)
      BY <3>1, UpParent
    <3> QED
      BY <3>2, <3>4, <3>5
  <2> QED
    BY <2>2, <2>3
<1>4. NoLoop(q)
  BY <1>3 DEF NoLoop
<1> QED
  BY <1>4 DEF q

\* Moving a widget brings no widget that is to die into another, where the model
\* allows the move.
LEMMA ApartMoved ==
    ASSUME NEW p \in Parents, NEW w \in Widgets, NEW g \in Groups \cup {Null},
           g # Null => w \notin Up(p, g),
           NEW D \in SUBSET Widgets, Apart(p, D),
           \A d, e \in D : g # Null /\ e \in Up(p, g) => w \notin Up(p, d)
    PROVE  Apart([p EXCEPT ![w] = g], D)
<1> DEFINE q == [p EXCEPT ![w] = g]
<1>1. ASSUME NEW z \in Widgets
      PROVE  /\ w \notin Up(p, z) \/ g = Null => Up(q, z) \subseteq Up(p, z)
             /\ g # Null => Up(q, z) \subseteq Up(p, z) \cup Up(p, g)
  BY UpMoved
<1> HIDE DEF q
<1>2. ASSUME NEW d \in D, NEW e \in D, e \in Up(q, d)
      PROVE  d = e
  <2>1. CASE e \in Up(p, d)
    BY <2>1 DEF Apart
  <2>2. CASE e \notin Up(p, d)
    BY <1>1, <1>2, <2>2
  <2> QED
    BY <2>1, <2>2
<1>3. Apart(q, D)
  BY <1>2 DEF Apart
<1> QED
  BY <1>3 DEF q

\* Steps that leave groups, schedule and destructors alone.
LEMMA QuietDeath ==
    ASSUME BaseInv, DeathInv
    PROVE  /\ HandlerStep => DeathInv'
           /\ Wait => DeathInv'
           /\ \A w \in Widgets : Push(w) => DeathInv'
           /\ \A t \in Trackers : Untrack(t) => DeathInv'
           /\ \A t \in Trackers, w \in Widgets : Track(t, w) => DeathInv'
<1>1. ASSUME UNCHANGED <<parent, alive, dwidgets>>, Dying(stack') = Dying(stack), At(stack') = At(stack),
             Once(stack', alive)
      PROVE  DeathInv'
  BY <1>1 DEF DeathInv, ToDie
<1>2. HandlerStep => DeathInv'
  <2>1. Once(stack, alive) /\ alive \in SUBSET Widgets
    BY DEF DeathInv, BaseInv, TypeOK
  <2> QED
    BY <1>1, <2>1, HandlerSame DEF Same
<1>3. Wait => DeathInv'
  BY <1>1, WaitStack DEF Wait
<1>4. (\E w \in Widgets : Push(w)) \/ (\E t \in Trackers : Untrack(t)) \/ (\E t \in Trackers, w \in Widgets : Track(t, w))
      => UNCHANGED <<parent, alive, dwidgets, stack>>
  BY DEF Push, Untrack, Track
<1>5. UNCHANGED <<parent, alive, dwidgets, stack>> => DeathInv'
  BY DEF DeathInv
<1> QED
  BY <1>2, <1>3, <1>4, <1>5

\* Fl::delete_widget keeps DeathInv, also while destructors run.
LEMMA ScheduleDeath ==
    ASSUME BaseInv, LoopInv, DeathInv, NEW w \in Widgets, Schedule(w), "reschedules" \notin prog
    PROVE  DeathInv'
<1>1. /\ w \in alive /\ Schedulable(w) /\ dwidgets' = Append(dwidgets, w)
      /\ UNCHANGED <<parent, alive, stack>>
  BY DEF Schedule
<1>2. parent \in Parents /\ dwidgets \in Seq(Widgets)
  BY DEF BaseInv, TypeOK, Parents
<1> DEFINE D == ToDie(dwidgets, stack)
<1>3. D \subseteq Widgets /\ Null \notin Widgets
  BY DoomedIs, LifeAssumption
<1>4. w \notin D /\ \A d \in D : d \notin Up(parent, w) /\ w \notin Up(parent, d)
  BY <1>1, <1>3, DoomedIs, UpNow DEF Schedulable, Inside
<1>5. /\ Len(dwidgets') = Len(dwidgets) + 1 /\ dwidgets'[Len(dwidgets) + 1] = w /\ Len(dwidgets) \in Nat
      /\ \A j \in 1 .. Len(dwidgets) : dwidgets'[j] = dwidgets[j]
  BY <1>1, <1>2
<1>6. ToDie(dwidgets', stack') = D \cup {w}
  <2>1. {dwidgets'[j] : j \in 1 .. Len(dwidgets')} = {dwidgets[j] : j \in 1 .. Len(dwidgets)} \cup {w}
    BY <1>5
  <2> QED
    BY <1>1, <2>1 DEF ToDie
<1>7. Apart(parent, (D \cup {w}) \cap alive)
  BY <1>4 DEF DeathInv, Apart
<1>8. w \notin Dying(stack) /\ \A j \in 1 .. Len(dwidgets) : dwidgets[j] # w
  BY <1>4 DEF ToDie
<1>9. Fresh(dwidgets', At(stack), alive, Dying(stack))
  <2> DEFINE at == At(stack)
             dying == Dying(stack)
  <2>1. Fresh(dwidgets, at, alive, dying) /\ at <= Len(dwidgets) + 1 /\ at \in Nat
    BY <1>5 DEF DeathInv, LoopInv, Past
  <2> HIDE DEF at, D, dying
  <2>2. ASSUME NEW j \in 1 .. Len(dwidgets'), j >= at
        PROVE  dwidgets'[j] \in alive /\ dwidgets'[j] \notin dying
    <3>1. CASE j = Len(dwidgets) + 1
      BY <1>1, <1>5, <1>8, <3>1 DEF dying
    <3>2. CASE j # Len(dwidgets) + 1
      <4>1. j \in 1 .. Len(dwidgets) /\ dwidgets'[j] = dwidgets[j]
        BY <1>5, <3>2
      <4> QED
        BY <2>1, <2>2, <4>1 DEF Fresh
    <3> QED
      BY <3>1, <3>2
  <2>3. \A j, k \in 1 .. Len(dwidgets') : dwidgets'[j] = dwidgets'[k] => j = k
    BY <1>5, <1>8, <2>1 DEF Fresh
  <2>4. Fresh(dwidgets', at, alive, dying)
    BY <2>2, <2>3 DEF Fresh
  <2> QED
    BY <2>4 DEF at, dying
<1> QED
  BY <1>1, <1>6, <1>7, <1>9 DEF DeathInv

\* A handler may move widgets while destructors run.
LEMMA MoveDeath ==
    ASSUME BaseInv, DeathInv, NEW w \in Widgets, NEW g \in Groups \cup {Null}, Move(w, g)
    PROVE  DeathInv'
<1>1. /\ ~Inside(w, g) /\ (g # Null /\ InDoomed(g) => ~HasDoomed(w))
      /\ parent' = [parent EXCEPT ![w] = g] /\ UNCHANGED <<alive, dwidgets, stack>>
  BY DEF Move
<1>2. parent \in Parents
  BY DEF BaseInv, TypeOK, Parents
<1> DEFINE D == ToDie(dwidgets, stack) \cap alive
<1>3. D \in SUBSET Widgets /\ Null \notin Widgets
  BY DoomedIs, LifeAssumption
<1>4. g # Null => w \notin Up(parent, g)
  BY <1>1, UpNow DEF Inside
<1>5. \A d, e \in D : g # Null /\ e \in Up(parent, g) => w \notin Up(parent, d)
  BY <1>1, <1>3, DoomedIs, UpNow DEF InDoomed, HasDoomed, Inside
<1>6. NoLoop(parent) /\ Apart(parent, D)
  BY DEF DeathInv
<1> HIDE DEF D
<1>7. NoLoop(parent')
  BY <1>1, <1>2, <1>4, <1>6, NoLoopMoved
<1>8. Apart(parent', D)
  BY <1>1, <1>2, <1>3, <1>4, <1>5, <1>6, ApartMoved
<1> QED
  BY <1>1, <1>7, <1>8 DEF DeathInv, D

\* The loop begins the destructor of a widget nobody has destroyed, or ends.
LEMMA LoopDeath ==
    ASSUME BaseInv, LoopInv, DeathInv
    PROVE  /\ LoopDeletes => DeathInv'
           /\ LoopEnds => DeathInv'
<1>0. dwidgets \in Seq(Widgets) /\ Len(dwidgets) \in Nat
  BY DEF BaseInv, TypeOK
<1>1. ASSUME LoopDeletes
      PROVE  DeathInv'
  <2> DEFINE at == At(stack)
             w == dwidgets[at]
  <2>1. /\ at \in 1 .. Len(dwidgets) /\ At(stack') = at + 1 /\ Dying(stack) = {} /\ Dying(stack') = {w}
        /\ UNCHANGED <<parent, alive, dwidgets>> /\ (w \in alive => Once(stack', alive))
    BY <1>1, LoopDeletesStack DEF LoopDeletes
  <2>2. Fresh(dwidgets, at, alive, {})
    BY <2>1 DEF DeathInv
  <2>3. w \in alive
    BY <2>1, <2>2 DEF Fresh
  <2>4. ToDie(dwidgets', stack') = ToDie(dwidgets, stack)
    BY <2>1 DEF ToDie
  <2>5. Fresh(dwidgets, at + 1, alive, {w})
    BY <1>0, <2>1, <2>2 DEF Fresh
  <2> HIDE DEF at, w
  <2> QED
    BY <2>1, <2>3, <2>4, <2>5 DEF DeathInv
<1>2. ASSUME LoopEnds
      PROVE  DeathInv'
  <2>1. Dying(stack') = {} /\ At(stack') = 1 /\ Once(stack', alive) /\ dwidgets' = <<>> /\ UNCHANGED <<parent, alive>>
    BY <1>2, LoopEndsStack DEF LoopEnds
  <2>2. ToDie(dwidgets', stack') = {}
    BY <2>1 DEF ToDie
  <2>3. Apart(parent', ToDie(dwidgets', stack') \cap alive')
    BY <2>2 DEF Apart
  <2>4. Fresh(dwidgets', At(stack'), alive', Dying(stack'))
    BY <2>1 DEF Fresh
  <2> QED
    BY <2>1, <2>3, <2>4 DEF DeathInv
<1> QED
  BY <1>1, <1>2

\* A child that its group destroys is not scheduled itself.
LEMMA DeleteChildDeath ==
    ASSUME BaseInv, DeathInv, NEW c \in Widgets, DeleteChild(c)
    PROVE  DeathInv'
<1> DEFINE w == parent[c]
           D == ToDie(dwidgets, stack) \cap alive
<1>1. parent' = [parent EXCEPT ![c] = Null] /\ UNCHANGED <<alive, dwidgets>>
  BY DEF DeleteChild
<1>2. /\ Dying(stack') = Dying(stack) \cup {c} /\ At(stack') = At(stack)
      /\ w \in Dying(stack) /\ w \in Widgets /\ c \in alive
      /\ Once(stack', alive) <=> Once(stack, alive) /\ c \in alive \ Dying(stack)
  BY DeleteChildStack
<1>3. parent \in Parents /\ Null \notin Widgets
  BY LifeAssumption DEF BaseInv, TypeOK, Parents
<1>4. w \in D
  BY <1>2 DEF DeathInv, Once, ToDie, Dying
<1>5. D \subseteq Widgets /\ Apart(parent, D) /\ NoLoop(parent) /\ D \subseteq alive
  BY DoomedIs DEF DeathInv
<1>6. parent[c] = w /\ w # Null
  BY <1>2, <1>3
<1> HIDE DEF w, D
<1>7. w \in Up(parent, c) /\ c \notin Up(parent, w) /\ c # w
  <2>1. w \in Up(parent, w) /\ c \notin Up(parent, w)
    BY <1>2, <1>3, <1>5, <1>6, UpFacts DEF NoLoop
  <2> QED
    BY <1>3, <1>6, <2>1, UpParent
<1>8. c \notin D
  BY <1>4, <1>5, <1>7 DEF Apart
<1>9. c \notin Dying(stack) /\ \A j \in 1 .. Len(dwidgets) : dwidgets[j] # c
  BY <1>2, <1>8 DEF D, ToDie
<1>10. Once(stack', alive)
  BY <1>2, <1>9 DEF DeathInv
<1>11. ToDie(dwidgets', stack') \cap alive' = D \cup {c}
  BY <1>1, <1>2 DEF ToDie, D
<1>12. NoLoop(parent')
  BY <1>1, <1>3, <1>5, NoLoopMoved
<1>13. Apart(parent', D \cup {c})
  <2>1. parent' \in Parents /\ \A z \in Widgets : Up(parent', z) \subseteq Up(parent, z)
    BY <1>1, <1>3, UpMoved
  <2>2. Up(parent', c) = {c}
    BY <1>1, <1>3, <2>1, UpRoot DEF Parents
  <2>3. ASSUME NEW d \in D
        PROVE  c \notin Up(parent', d)
    <3>1. c \in Up(parent, d) => w \in Up(parent, d)
      BY <1>3, <1>5, <1>7, UpTrans
    <3>2. w \in Up(parent, d) => d = w
      BY <1>4, <1>5 DEF Apart
    <3> QED
      BY <1>5, <1>7, <2>1, <3>1, <3>2
  <2> QED
    BY <1>5, <2>1, <2>2, <2>3 DEF Apart
<1>14. Fresh(dwidgets', At(stack'), alive', Dying(stack'))
  BY <1>1, <1>2, <1>9 DEF DeathInv, Fresh
<1> QED
  BY <1>1, <1>10, <1>11, <1>12, <1>13, <1>14 DEF DeathInv

\* A widget dies at the end of its only destructor.
LEMMA DestroyWidgetDeath ==
    ASSUME BaseInv, LoopInv, DeathInv, DestroyWidget
    PROVE  DeathInv'
<1> DEFINE w == Last(stack).widget
           D == ToDie(dwidgets, stack) \cap alive
           al == alive \ {w}
<1>1. UNCHANGED dwidgets /\ parent \in Parents /\ alive \in SUBSET Widgets
  BY DEF DestroyWidget, BaseInv, TypeOK, Parents
<1>2. /\ w \in alive \ Windows /\ alive' = al /\ parent' = [parent EXCEPT ![w] = Null]
      /\ At(stack') = At(stack) /\ Dying(stack) = Dying(stack') \cup {w}
      /\ Once(stack, alive) => w \notin Dying(stack') /\ Once(stack', alive)
  BY <1>1, DestroyStack
<1> HIDE DEF w
<1>3. w \notin Dying(stack') /\ Once(stack', al)
  <2>1. w \notin Dying(stack') /\ Once(stack', alive)
    BY <1>2 DEF DeathInv
  <2> QED
    BY <2>1 DEF Once, Dying
<1>4. ToDie(dwidgets', stack') \cap alive' \subseteq D
  BY <1>1, <1>2 DEF ToDie
<1>5. D \in SUBSET Widgets /\ Apart(parent, D) /\ NoLoop(parent)
  BY DoomedIs DEF DeathInv
<1> HIDE DEF D
<1>6. NoLoop(parent')
  BY <1>1, <1>2, <1>5, NoLoopMoved
<1>7. Apart(parent', D)
  BY <1>1, <1>2, <1>5, ApartMoved
<1>8. Apart(parent', ToDie(dwidgets', stack') \cap alive')
  BY <1>4, <1>7 DEF Apart
<1>9. Fresh(dwidgets', At(stack'), alive', Dying(stack'))
  <2>1. Fresh(dwidgets, At(stack), alive, Dying(stack') \cup {w})
    BY <1>2 DEF DeathInv
  <2>2. Fresh(dwidgets, At(stack), al, Dying(stack'))
    BY <2>1 DEF Fresh
  <2> QED
    BY <1>1, <1>2, <2>2
<1> QED
  BY <1>2, <1>3, <1>6, <1>8, <1>9 DEF DeathInv

\* Nothing is scheduled at first.
LEMMA DeathInit == Init => LoopInv /\ DeathInv
<1> SUFFICES ASSUME Init PROVE LoopInv /\ DeathInv
  OBVIOUS
<1>1. parent = FirstParent /\ dwidgets = <<>> /\ stack = <<>> /\ Len(dwidgets) = 0 /\ Len(stack) = 0
  BY DEF Init
<1>2. ToDie(dwidgets, stack) = {} /\ Dying(stack) = {} /\ Once(stack, alive) /\ At(stack) = 1
  BY <1>1 DEF ToDie, Dying, Once, At
<1>3. Past(dwidgets, 1, alive, {}) /\ Fresh(dwidgets, 1, alive, {})
  BY <1>1 DEF Past, Fresh
<1>4. Apart(parent, {} \cap alive)
  BY DEF Apart
<1> QED
  BY <1>1, <1>2, <1>3, <1>4, NoLoopFirst DEF DeathInv, LoopInv

\* Every step keeps DeathInv, in a program that schedules no widget twice.
LEMMA DeathStep ==
    BaseInv /\ LoopInv /\ ("reschedules" \notin prog => DeathInv) /\ [Next]_vars
        => ("reschedules" \notin prog => DeathInv)'
<1> SUFFICES ASSUME BaseInv, LoopInv, "reschedules" \notin prog => DeathInv, [Next]_vars, "reschedules" \notin prog'
             PROVE  DeathInv'
  OBVIOUS
<1>1. "reschedules" \notin prog /\ DeathInv
  BY BaseStep
<1>2. UNCHANGED vars => DeathInv'
  BY <1>1 DEF vars, DeathInv
<1> QED
  BY <1>1, <1>2, Steps, QuietDeath, ScheduleDeath, MoveDeath, LoopDeath, DeleteChildDeath, DestroyWidgetDeath

-----------------------------------------------------------------------------

\* The inductive invariants hold: of the pointers into the tree, of the saved
\* focus, of the loop over dwidgets and of the widgets that are to die.
LEMMA LifeInv == Spec => [](BaseInv /\ SavedInv /\ LoopInv /\ ("reschedules" \notin prog => DeathInv))
BY BaseInit, BaseStep, SavedInit, SavedStep, DeathInit, LoopStep, DeathStep, PTL DEF Spec

\* Destroyed widgets are in no group, and no widget is left in a destroyed
\* group (~Fl_Group, ~Fl_Widget), for any tree of widgets.
THEOREM TreeOfTheLiving == Spec => []TypeOK
<1>1. BaseInv => TypeOK
  BY DEF BaseInv
<1> QED
  BY <1>1, LifeInv, PTL

\* Fl::focus(), Fl::pushed() and the focused window are never destroyed
\* widgets (~Fl_Widget, fl_throw_focus), whatever handlers do meanwhile.
THEOREM NothingPointsToTheDead == Spec => []PointersAlive
<1>1. BaseInv => PointersAlive
  BY DEF BaseInv
<1> QED
  BY <1>1, LifeInv, PTL

\* The saved focus of a group is a child of it (Fl_Group::remove, clear and
\* handle, Fl::focus), whatever moves between groups and in whatever order, in
\* a program whose FL_UNFOCUS handlers move neither the focus nor widgets.
THEOREM SavedFocusStays == Spec => []SavedFocusIsChild
<1>1. SavedInv => SavedFocusIsChild
  BY DEF SavedInv, Saved, SavedFocusIsChild
<1> QED
  BY <1>1, LifeInv, PTL

\* A tracker tells whether its widget lives (Fl::clear_widget_pointer).
THEOREM TrackersKnow == Spec => []TrackersTell
<1>1. BaseInv => TrackersTell
  BY DEF BaseInv
<1> QED
  BY <1>1, LifeInv, PTL

\* No destructor runs twice on a widget: neither from the loop over dwidgets
\* (Fl::do_widget_deletion) nor from the clear() of its group, in a program
\* that schedules no widget which already is.
THEOREM DieOnce == Spec => []NoDoubleDelete
<1>1. BaseInv /\ ("reschedules" \notin prog => DeathInv) => NoDoubleDelete
  BY DoomedIs DEF DeathInv
<1> QED
  BY <1>1, LifeInv, PTL

\* Fl::do_widget_deletion empties the schedule only when all on it are dead,
\* those included that handlers have added while it ran.
THEOREM ScheduledDie == Spec => NoneForgotten
<1>1. ASSUME BaseInv, LoopInv, [Next]_vars
      PROVE  [\A w \in Range(dwidgets) : w \in alive' => w \in Range(dwidgets')]_vars
  <2>1. /\ Range(dwidgets) = {dwidgets[j] : j \in 1 .. Len(dwidgets)}
        /\ dwidgets \in Seq(Widgets) /\ Len(dwidgets) \in Nat
    BY <1>1, DoomedIs DEF BaseInv, TypeOK
  <2>2. CASE LoopEnds
    <3>1. UNCHANGED alive /\ At(stack) \in Nat /\ At(stack) > Len(dwidgets) /\ Dying(stack) = {}
      BY <1>1, <2>2, LoopEndsStack DEF LoopEnds
    <3>2. Past(dwidgets, At(stack), alive, {})
      BY <1>1, <3>1 DEF LoopInv
    <3>3. \A j \in 1 .. Len(dwidgets) : dwidgets[j] \notin alive
      BY <2>1, <3>1, <3>2 DEF Past
    <3> QED
      BY <2>1, <3>1, <3>3
  <2>3. CASE \E w \in Widgets : Schedule(w)
    <3>1. PICK w \in Widgets : dwidgets' = Append(dwidgets, w)
      BY <2>3 DEF Schedule
    <3>2. DOMAIN dwidgets = 1 .. Len(dwidgets) /\ DOMAIN dwidgets' = 1 .. Len(dwidgets')
      BY <2>1, <3>1
    <3>3. \A j \in 1 .. Len(dwidgets) : j \in 1 .. Len(dwidgets') /\ dwidgets'[j] = dwidgets[j]
      BY <2>1, <3>1
    <3> QED
      BY <2>1, <3>2, <3>3 DEF Range
  <2>4. CASE ~(LoopEnds \/ \E w \in Widgets : Schedule(w))
    <3>1. HandlerStep => dwidgets' = dwidgets
      BY <1>1, HandlerSame
    <3>2. dwidgets' = dwidgets
      BY <1>1, <2>4, <3>1, Steps DEF vars, Push, Move, Track, Untrack, Wait, LoopDeletes, DestroyWidget, DeleteChild
    <3> QED
      BY <3>2
  <2> QED
    BY <2>2, <2>3, <2>4
<1> QED
  BY <1>1, LifeInv, PTL DEF Spec, NoneForgotten

=============================================================================
