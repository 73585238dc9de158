---------------------------- MODULE MCWidgetLife ----------------------------
(* WidgetLife for TLC: a window with a button and a group of one widget. *)
EXTENDS WidgetLife

CONSTANTS win, grp, inner, btn

MCFirstParent ==
    [w \in Widgets |-> IF w = win THEN Null ELSE IF w = inner THEN grp ELSE win]

\* One widget stays in the group, the other comes and goes.
MCUses ==
    [op \in {"focus", "push", "move", "track", "schedule"} |->
        CASE op = "focus" -> {btn}
          [] op = "move" -> {btn}
          [] op = "schedule" -> {grp, btn}
          [] OTHER -> {btn}]
=============================================================================
