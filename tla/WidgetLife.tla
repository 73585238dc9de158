----------------------------- MODULE WidgetLife -----------------------------
(***************************************************************************)
(* How FLTK's widgets die (src/fltk/src/Fl.cxx, Fl_Widget.cxx and          *)
(* Fl_Group.cxx): Fl::delete_widget schedules a widget, the next           *)
(* Fl::wait() destroys it, a group destroys its children first, and every  *)
(* destructor clears the global pointers to its widget and the watched     *)
(* pointers (Fl_Widget_Tracker).  In the middle of that, fl_fix_focus()    *)
(* looks for a new focus, which calls handlers of the program, and so does *)
(* Fl::focus() between its steps: they may move the focus, rearrange the   *)
(* tree or schedule more widgets.  They do not call Fl::wait(), which      *)
(* would start the loop over dwidgets anew.                                *)
(*                                                                         *)
(* prog tells what the program does that the code does not guard against:  *)
(* "refocuses" - while Fl::focus() sends FL_UNFOCUS, a handler moves the   *)
(* focus or a widget; "reschedules" - a widget is scheduled that already   *)
(* is, or whose destructor runs.                                           *)
(*                                                                         *)
(* Top-level windows live on (~Fl_Window begins with hide(), which is not  *)
(* modelled), and so no window changes hands here.  Left out: belowmouse,  *)
(* which is treated as focus is; modal windows; children's order, so that  *)
(* "the first child" is any child.                                         *)
(***************************************************************************)
EXTENDS Naturals, Sequences, SequencesExt, FiniteSets

CONSTANTS
    Widgets,
    Groups,      \* the widgets that are groups (windows included)
    Windows,     \* the top-level windows
    FirstParent, \* the widget tree to begin with
    Null,
    Programs,    \* the kinds of program: subsets of what is said of prog above
    Uses,        \* the widgets the program focuses, pushes, moves, tracks and schedules
    Trackers,    \* Fl_Widget_Trackers of the program
    MaxNested,   \* bound: calls of Fl::focus() one within the other, by handlers
    MaxScheduled \* bound: entries in dwidgets

ASSUME LifeAssumption ==
    /\ Windows \subseteq Groups /\ Groups \subseteq Widgets /\ Null \notin Widgets
    /\ FirstParent \in [Widgets -> Groups \cup {Null}]
    /\ \A x \in Windows : FirstParent[x] = Null
    /\ \A S \in SUBSET Widgets : S # {} => \E w \in S : FirstParent[w] \notin S   \* no cycle
    /\ Uses \in [{"focus", "push", "move", "track", "schedule"} -> SUBSET Widgets]
    /\ MaxNested \in Nat \ {0} /\ MaxScheduled \in Nat \ {0}

VARIABLES
    parent,      \* parent_
    alive,       \* widgets whose destructor has not run to its end
    focus, pushed, xfocus,   \* Fl::focus_, Fl::pushed_, fl_xfocus
    oldfocus,    \* fl_oldfocus
    savedfocus,  \* savedfocus_ of the groups
    watched,     \* the pointers of the trackers
    tracks,      \* the widget each tracker was made for, or Null
    dwidgets,    \* dwidgets[0 .. num_dwidgets-1]
    stack,       \* what is being executed, innermost last
    prog         \* what kind of program it is

vars == <<parent, alive, focus, pushed, xfocus, oldfocus, savedfocus, watched, tracks, dwidgets,
          stack, prog>>

pointers == <<focus, pushed, xfocus, oldfocus, savedfocus>>
trackers == <<watched, tracks>>

Init ==
    /\ parent = FirstParent /\ alive = Widgets
    /\ focus = Null /\ pushed = Null /\ xfocus = Null /\ oldfocus = Null
    /\ savedfocus = [g \in Groups |-> Null]
    /\ watched = [t \in Trackers |-> Null] /\ tracks = [t \in Trackers |-> Null]
    /\ dwidgets = <<>> /\ stack = <<>>
    /\ prog \in Programs

\* w and the groups it is in, as Fl_Widget::contains follows parent_: the groups
\* in every set that has w's parent and its members' parents.
UpClosed == {S \in SUBSET Groups : \A g \in S : parent[g] \in S \cup {Null}}
Ancestors(w) == {w} \cup {g \in Groups : \A S \in UpClosed : parent[w] \in S \cup {Null} => g \in S}
Inside(o, w) == w # Null /\ o \in Ancestors(w)
Children(g) == {w \in Widgets : parent[w] = g}

\* What is executed: the loop over dwidgets, a destructor, or a handler called
\* by fl_fix_focus() with an event that asks nothing ("handler"), by the
\* take_focus() of a window ("taking"), or by Fl::focus(): focus_changing_handler,
\* the focus going from widget to `to` ("changing"), or FL_UNFOCUS ("telling").
Code(kind, w) == [kind |-> kind, widget |-> w, to |-> Null, i |-> 1]
Running(kind) == stack # <<>> /\ Last(stack).kind = kind
InUserCode == stack = <<>> \/ \E kind \in {"handler", "taking", "changing", "telling"} : Running(kind)
Focusing(s) == \E k \in DOMAIN s : s[k].kind = "telling"
Refocusable == "refocuses" \in prog \/ ~Running("telling")
Destroying == {stack[i].widget : i \in {j \in DOMAIN stack : stack[j].kind = "delete"}}

\* Widgets the program has given away: it "must only delete the group or
\* window widget and not the individual child widgets".
Doomed == Range(dwidgets) \cup Destroying
InDoomed(w) == \E d \in Doomed : Inside(d, w)
HasDoomed(w) == \E d \in Doomed : Inside(w, d)
Schedulable(w) ==
    /\ \A d \in Doomed \ {w} : ~Inside(d, w) /\ ~Inside(w, d)
    /\ w \in Doomed => "reschedules" \in prog

-----------------------------------------------------------------------------
(* Fl::focus() and fl_fix_focus() *)

\* fl_xfocus becomes the top-level window around w; w->window() starts above w.
XFocusOf(w) ==
    IF w \in Windows \/ \A x \in Windows : ~Inside(x, w)
      THEN xfocus ELSE CHOOSE x \in Windows : Inside(x, w)

\* Fl::focus(o) called from code, when the focus is f, up to the call of
\* focus_changing_handler.
Focus(code, f, o) ==
    /\ focus' = o
    /\ stack' = IF o = f THEN code ELSE Append(code, [Code("changing", f) EXCEPT !.to = o])

\* fl_fix_focus() when the focus is f and the X server gives it to window x:
\* the window takes the focus, or the focus goes with the window.  Then the
\* widget below the mouse is told of FL_ENTER, FL_LEAVE or FL_MOVE.
FixFocus(code, x, f) ==
    /\ xfocus' = x
    /\ IF x # Null /\ ~Inside(x, f)
         THEN focus' = f /\ stack' = Append(code, Code("taking", x))
         ELSE Focus(Append(code, Code("handler", Null)), f, IF x = Null THEN Null ELSE f)

-----------------------------------------------------------------------------
(* The program: outside the event loop, or in a handler *)

SetFocus(w) ==
    /\ InUserCode /\ Refocusable /\ w \in alive \cup {Null} /\ w # focus
    /\ Cardinality({k \in DOMAIN stack : stack[k].kind \in {"changing", "telling"}}) < MaxNested
    /\ Focus(stack, focus, w)
    /\ UNCHANGED <<parent, alive, pushed, xfocus, oldfocus, savedfocus, dwidgets, prog>>
    /\ UNCHANGED trackers

\* Fl::pushed(w)
Push(w) ==
    /\ InUserCode /\ w \in alive /\ w # pushed
    /\ pushed' = w
    /\ UNCHANGED <<parent, alive, focus, xfocus, oldfocus, savedfocus, dwidgets, stack, prog>>
    /\ UNCHANGED trackers

\* Mutant: the group keeps its saved focus.
RemovedKeepsSaved(w) == savedfocus

\* Fl_Group::remove(w): the group forgets a saved focus on w.
Removed(w) == [g \in Groups |-> IF g = parent[w] /\ savedfocus[g] = w THEN Null ELSE savedfocus[g]]

\* Fl_Group::add(w): the widget leaves its group and joins g; with g = Null,
\* Fl_Group::remove(w).  The program does not put a widget it has scheduled
\* into a group it has scheduled.
Move(w, g) ==
    /\ InUserCode /\ Refocusable /\ w \in alive \ Windows /\ g \in alive \cup {Null} /\ parent[w] # g
    /\ ~Inside(w, g) /\ (g # Null /\ InDoomed(g) => ~HasDoomed(w))
    /\ parent' = [parent EXCEPT ![w] = g]
    /\ savedfocus' = Removed(w)
    /\ UNCHANGED <<alive, focus, pushed, xfocus, oldfocus, dwidgets, stack, prog>>
    /\ UNCHANGED trackers

\* A tracker is made for w, and destroyed.
Track(t, w) ==
    /\ InUserCode /\ tracks[t] = Null /\ w \in alive
    /\ watched' = [watched EXCEPT ![t] = w] /\ tracks' = [tracks EXCEPT ![t] = w]
    /\ UNCHANGED <<parent, alive, dwidgets, stack, prog>> /\ UNCHANGED pointers
Untrack(t) ==
    /\ InUserCode /\ tracks[t] # Null
    /\ watched' = [watched EXCEPT ![t] = Null] /\ tracks' = [tracks EXCEPT ![t] = Null]
    /\ UNCHANGED <<parent, alive, dwidgets, stack, prog>> /\ UNCHANGED pointers

\* Fl::delete_widget(w)
Schedule(w) ==
    /\ InUserCode /\ w \in alive \ Windows /\ Schedulable(w) /\ Len(dwidgets) < MaxScheduled
    /\ dwidgets' = Append(dwidgets, w)
    /\ UNCHANGED <<parent, alive, stack, prog>> /\ UNCHANGED pointers /\ UNCHANGED trackers

\* The program calls Fl::wait().
Wait ==
    /\ stack = <<>> /\ dwidgets # <<>>
    /\ stack' = <<Code("loop", Null)>>
    /\ UNCHANGED <<parent, alive, dwidgets, prog>> /\ UNCHANGED pointers /\ UNCHANGED trackers

\* A handler that was asked nothing returns to fl_fix_focus().
HandlerReturns ==
    /\ Running("handler")
    /\ stack' = Front(stack)
    /\ UNCHANGED <<parent, alive, dwidgets, prog>> /\ UNCHANGED pointers /\ UNCHANGED trackers

\* The take_focus() of the window: a widget in it answers FL_FOCUS and gets the
\* focus, with more handlers called ...
TakesFocus ==
    /\ Running("taking") /\ ~Inside(Last(stack).widget, focus)
    /\ \E w \in alive : Inside(Last(stack).widget, w) /\ Focus(stack, focus, w)
    /\ UNCHANGED <<parent, alive, pushed, xfocus, oldfocus, savedfocus, dwidgets, prog>>
    /\ UNCHANGED trackers

\* ... and at its end the window gets the focus if it is still outside, unless
\* the window has no visible_focus().
TakingReturns ==
    /\ Running("taking")
    /\ \E w \in {focus} \cup {win \in {Last(stack).widget} : ~Inside(win, focus)} :
          Focus(Append(Front(stack), Code("handler", Null)), focus, w)
    /\ UNCHANGED <<parent, alive, pushed, xfocus, oldfocus, savedfocus, dwidgets, prog>>
    /\ UNCHANGED trackers

\* focus_changing_handler returns to Fl::focus(), which sets fl_xfocus and
\* begins to send FL_UNFOCUS to the old focus, if any.
ChangingReturns ==
    /\ Running("changing")
    /\ LET p == Last(stack).widget IN
       /\ xfocus' = XFocusOf(Last(stack).to)
       /\ oldfocus' = Null
       /\ stack' = IF p = Null THEN Front(stack) ELSE Append(Front(stack), Code("telling", p))
    /\ UNCHANGED <<parent, alive, focus, pushed, savedfocus, dwidgets, prog>> /\ UNCHANGED trackers

\* FL_UNFOCUS: a group saves fl_oldfocus, unless its handler does not pass the
\* event on to Fl_Group::handle.
Saves(p) == {savedfocus} \cup {[savedfocus EXCEPT ![g] = oldfocus] : g \in {p} \cap Groups}

\* The handler of widget p returns to Fl_Group::handle, and this to Fl::focus(),
\* which goes on with the parent that p has now, also one that contains the new
\* focus (its documentation excepts those).  fl_oldfocus, which only an enclosing
\* Fl::focus() could still read, is forgotten with the last one.
TellingReturns ==
    /\ Running("telling")
    /\ LET p == Last(stack).widget IN
       /\ savedfocus' \in Saves(p)
       /\ oldfocus' = IF parent[p] = Null /\ ~Focusing(Front(stack)) THEN Null ELSE p
       /\ stack' = IF parent[p] = Null THEN Front(stack)
                     ELSE Append(Front(stack), Code("telling", parent[p]))
    /\ UNCHANGED <<parent, alive, focus, pushed, xfocus, dwidgets, prog>> /\ UNCHANGED trackers

-----------------------------------------------------------------------------
(* The event loop *)

\* FocusIn and FocusOut: the X server moves the keyboard focus.
XFocus(x) ==
    /\ stack = <<>> /\ x # xfocus
    /\ FixFocus(stack, x, focus)
    /\ UNCHANGED <<parent, alive, pushed, oldfocus, savedfocus, dwidgets, prog>>
    /\ UNCHANGED trackers

\* A destructor begins; ~Fl_Group starts with clear(), which forgets the saved
\* focus.
Begins(w, saved) == IF w \in Groups THEN [saved EXCEPT ![w] = Null] ELSE saved

\* Fl::do_widget_deletion: delete dwidgets[i]
LoopDeletes ==
    /\ Running("loop") /\ Last(stack).i <= Len(dwidgets)
    /\ LET w == dwidgets[Last(stack).i] IN
       /\ stack' = Append([stack EXCEPT ![Len(stack)].i = @ + 1], Code("delete", w))
       /\ savedfocus' = Begins(w, savedfocus)
    /\ UNCHANGED <<parent, alive, focus, pushed, xfocus, oldfocus, dwidgets, prog>>
    /\ UNCHANGED trackers

\* Mutant: the loop runs over the widgets there were at its start.
LoopEndsEarly ==
    /\ Running("loop") /\ Last(stack).i > 1
    /\ dwidgets' = <<>> /\ stack' = Front(stack)
    /\ UNCHANGED <<parent, alive, prog>> /\ UNCHANGED pointers /\ UNCHANGED trackers

\* num_dwidgets = 0
LoopEnds ==
    /\ Running("loop") /\ Last(stack).i > Len(dwidgets)
    /\ dwidgets' = <<>> /\ stack' = Front(stack)
    /\ UNCHANGED <<parent, alive, prog>> /\ UNCHANGED pointers /\ UNCHANGED trackers

\* Fl_Group::clear(): a child is removed and deleted.
DeleteChild(c) ==
    /\ Running("delete") /\ parent[c] = Last(stack).widget
    /\ parent' = [parent EXCEPT ![c] = Null]
    /\ savedfocus' = Begins(c, Removed(c))
    /\ stack' = Append(stack, Code("delete", c))
    /\ UNCHANGED <<alive, focus, pushed, xfocus, oldfocus, dwidgets, prog>>
    /\ UNCHANGED trackers

\* Mutant: pointers into the widget are kept.
ThrowsNothing(o, p) == p

\* fl_throw_focus: a global pointer into widget o is cleared.
Throws(o, p) == IF Inside(o, p) THEN Null ELSE p

\* Mutant: trackers are not told.
ClearedNothing(w) == watched

\* Fl::clear_widget_pointer(w)
Cleared(w) == [t \in Trackers |-> IF watched[t] = w THEN Null ELSE watched[t]]

\* Mutant: the widget stays in its group.
LeavesNoGroup(w) == parent

\* if (parent_) parent_->remove(this)
Leaves(w) == [parent EXCEPT ![w] = Null]

\* ~Fl_Widget: watched pointers first, then out of the parent group, then the
\* global pointers, and fl_fix_focus().
DestroyWidget ==
    LET w == Last(stack).widget IN
    /\ Running("delete") /\ w \in alive /\ Children(w) = {}
    /\ watched' = Cleared(w)
    /\ parent' = Leaves(w)
    /\ alive' = alive \ {w}
    /\ pushed' = Throws(w, pushed)
    /\ savedfocus' = Removed(w)
    /\ FixFocus(Front(stack), xfocus, Throws(w, focus))
    /\ UNCHANGED <<oldfocus, tracks, dwidgets, prog>>

\* The destructor of a destroyed widget: the program goes astray.
Lost == Running("delete") /\ Last(stack).widget \notin alive /\ UNCHANGED vars

-----------------------------------------------------------------------------

Deletion == LoopDeletes \/ LoopEnds \/ DestroyWidget \/ \E c \in Widgets : DeleteChild(c)

Next ==
    \/ \E w \in Uses["focus"] \cup {Null} : SetFocus(w)
    \/ \E w \in Uses["push"] : Push(w)
    \/ \E w \in Uses["move"], g \in Groups \cup {Null} : Move(w, g)
    \/ \E t \in Trackers, w \in Uses["track"] : Track(t, w)
    \/ \E w \in Uses["schedule"] : Schedule(w)
    \/ \E t \in Trackers : Untrack(t)
    \/ \E x \in Windows \cup {Null} : XFocus(x)
    \/ Wait \/ HandlerReturns \/ TakesFocus \/ TakingReturns \/ ChangingReturns \/ TellingReturns
    \/ Deletion \/ Lost

Spec == Init /\ [][Next]_vars

-----------------------------------------------------------------------------
(* Properties *)

\* Types; destroyed widgets are in no group, and no widget is left in a
\* destroyed group (~Fl_Group, ~Fl_Widget).
TypeOK ==
    /\ parent \in [Widgets -> Groups \cup {Null}] /\ alive \subseteq Widgets
    /\ \A w \in Widgets : parent[w] # Null => {w, parent[w]} \subseteq alive
    /\ {focus, pushed, oldfocus} \subseteq Widgets \cup {Null} /\ xfocus \in Windows \cup {Null}
    /\ savedfocus \in [Groups -> Widgets \cup {Null}]
    /\ dwidgets \in Seq(Widgets) /\ prog \in Programs

\* The global pointers never refer to a destroyed widget, whatever handlers do
\* while its group is being destroyed around it (~Fl_Widget, fl_throw_focus).
PointersAlive == {focus, pushed, xfocus} \subseteq alive \cup {Null}

\* The saved focus of a group is one of its children, even after handlers have
\* moved the focus or the child while the group was being cleared or
\* focus_changing_handler ran: Fl_Group::handle calls take_focus() of it.  A
\* program that moves the focus or a widget in the handler of an FL_UNFOCUS of
\* Fl::focus() has no such promise.
SavedFocusIsChild ==
    "refocuses" \notin prog =>
        \A g \in Groups \cap alive : savedfocus[g] # Null => parent[savedfocus[g]] = g

\* Fl_Widget_Tracker: "If the widget pointer is not NULL, then the widget has
\* not been deleted", and it is not NULL for a widget that lives.
TrackersTell ==
    \A t \in Trackers : watched[t] = IF tracks[t] \in alive THEN tracks[t] ELSE Null

\* No destructor runs on a widget that is destroyed or being destroyed
\* (Fl::do_widget_deletion, Fl_Group::clear), if the program schedules none that
\* already is: Fl::delete_widget does not look.
NoDoubleDelete ==
    "reschedules" \notin prog => \A i, j \in DOMAIN stack : stack[i].kind = "delete" =>
        /\ stack[i].widget \in alive
        /\ i # j /\ stack[j].kind = "delete" => stack[i].widget # stack[j].widget

\* A widget leaves the schedule only dead, also one that a handler scheduled
\* while the loop was at its last entry (Fl::delete_widget, do_widget_deletion).
NoneForgotten ==
    [][\A w \in Range(dwidgets) : w \in alive' => w \in Range(dwidgets')]_vars
=============================================================================
