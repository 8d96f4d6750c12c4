------------------------------ MODULE AtService ------------------------------
(***************************************************************************)
(* What send_req_and_wait (at/at.c) promises, seen from its callers: each  *)
(* call ends once, with one answer of the modem or with a failure.  An     *)
(* answer is handed out at most once.  Normally it goes to the call that   *)
(* asked for it; it may go to another call, but only after the one that    *)
(* asked has ended with something else.                                    *)
(***************************************************************************)
CONSTANT Calls

VARIABLES asked,    \* the calls whose request has left
          outcome   \* "none", "failed", or the call whose answer was taken

vars == <<asked, outcome>>

Init == asked = {} /\ outcome = [c \in Calls |-> "none"]

Ask(c) ==
  /\ outcome[c] = "none"
  /\ asked' = asked \cup {c}
  /\ UNCHANGED outcome

Answer(c, d) ==
  /\ c \in asked /\ outcome[c] = "none"
  /\ d \in asked
  /\ \A e \in Calls : outcome[e] # d
  /\ d = c \/ outcome[d] # "none"
  /\ outcome' = [outcome EXCEPT ![c] = d]
  /\ UNCHANGED asked

Fail(c) ==
  /\ outcome[c] = "none"
  /\ outcome' = [outcome EXCEPT ![c] = "failed"]
  /\ UNCHANGED asked

Next == \E c \in Calls : Ask(c) \/ Fail(c) \/ \E d \in Calls : Answer(c, d)

Spec == Init /\ [][Next]_vars
=============================================================================
