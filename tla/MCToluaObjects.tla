--------------------------- MODULE MCToluaObjects ---------------------------
(* Two hierarchies of the binding: widgets, with two classes derived from   *)
(* the root, and images.                                                    *)
EXTENDS ToluaObjects

Base == [c \in {"Fl_Widget", "Fl_Button", "Fl_Box", "Fl_Image"} |->
            IF c \in {"Fl_Button", "Fl_Box"} THEN "Fl_Widget" ELSE ""]

ClassesValue == DOMAIN Base
SuperValue == [c \in ClassesValue |-> {Base[c]} \ {""}]
RootValue == [c \in ClassesValue |-> IF Base[c] = "" THEN c ELSE Base[c]]
=============================================================================
