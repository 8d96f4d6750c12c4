------------------------------ MODULE UndoStack ------------------------------
(***************************************************************************)
(* What undo and redo of a buffer promise (neatvi/lbuf.c), seen from the   *)
(* user: every change set leaves a version of the text behind; undo goes   *)
(* back to the version before the last change set, redo forward again, and *)
(* a new change drops the versions ahead.  Version 0 is the text at the    *)
(* start; the number of a version is that of the change set that made it.  *)
(***************************************************************************)
EXTENDS Integers

VARIABLES text,   \* the text of each version
          at,     \* the version the user sees
          set     \* the present change set

vars == <<text, at, set>>

Versions == DOMAIN text
Behind == {v \in Versions : v < at}
Ahead == {v \in Versions : v > at}

Init == at = 0 /\ set = 1 /\ Versions = {0}

(* The first change of a set makes its version, the others rewrite it.     *)
Change(t) ==
  /\ at' = set
  /\ text' = [v \in (Versions \ Ahead) \cup {set} |-> IF v = set THEN t ELSE text[v]]
  /\ UNCHANGED set

Undo ==
  /\ at' \in Behind
  /\ \A v \in Behind : v <= at'
  /\ UNCHANGED <<text, set>>

Redo ==
  /\ at' \in Ahead
  /\ \A v \in Ahead : v >= at'
  /\ UNCHANGED <<text, set>>

NewSet == set' = set + 1 /\ UNCHANGED <<text, at>>

Next == Undo \/ Redo \/ NewSet \/ Change(text'[set])

Spec == Init /\ [][Next]_vars
==============================================================================
