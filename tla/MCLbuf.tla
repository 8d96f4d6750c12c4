------------------------------- MODULE MCLbuf -------------------------------
(* Texts for TLC: commands insert one line; the file is empty, or has two  *)
(* lines of which the last has no end.                                     *)
EXTENDS Lbuf

L(w) == [txt |-> <<w>>, nl |-> TRUE]
Cut(w) == [txt |-> <<w>>, nl |-> FALSE]

MCTexts == {<<L("x")>>}
MCFiles == {<<>>, <<L("y"), Cut("x")>>}
==============================================================================
