------------------------------- MODULE MCSfm -------------------------------
(* A directory with two files and an empty one.                            *)
EXTENDS Sfm

CONSTANTS d1, d2

MCDirs == {d1, d2}
MCDisks == {[d \in MCDirs |-> IF d = d1 THEN Names ELSE {}]}
==============================================================================
