------------------------------ MODULE MCAtIpc ------------------------------
(* Instances of AtIpc for TLC.                                           *)
EXTENDS AtIpc

(* "+CSQ: 20 ... OK" and "+CMS ERROR: 512".                              *)
Answer(err, n) == [error |-> err, code |-> n, ok |-> ~err, colon |-> TRUE, value |-> TRUE]
MCTexts == {Answer(FALSE, -1), Answer(TRUE, 512)}
=============================================================================
