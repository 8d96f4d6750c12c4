------------------------------ MODULE Gal_proofs ------------------------------
(***************************************************************************)
(* The hand-over of port 80, for any number of clients and of attempts.    *)
(***************************************************************************)
EXTENDS Gal, TLAPS

Serving == {"poll", "recv", "fork"}
Answering == {"linger", "write", "shut", "close"}

(* The child exists from the fork on, and the fork happens once.           *)
ForkedOnce ==
  /\ pc \in {"start", "accept"} \cup Serving => child = "none"
  /\ pc = "start" => lfd = {}

(* Who has the connection open: gal from accept to close, the child from   *)
(* the fork until it closes it.                                            *)
Holders ==
  /\ pc \in Serving \cup Answering => cur \in Conns /\ "gal" \in cfd
  /\ pc \in Serving => cfd = {"gal"}
  /\ cfd # {} => cur \in Conns

(* Before the fork the connection would be reset; after it the one left    *)
(* with it closes a connection that was answered, or that its client ended.*)
Farewell ==
  /\ pc \in Serving => linger
  /\ pc \in {"shut", "close"} => cur \in reply
  /\ cfd = {"child"} => cur \in reply \/ conn[cur] = "rst"

IInv == TypeOK /\ ForkedOnce /\ Holders /\ Farewell
        /\ PortFreeAtStart /\ OnlyTriggerLingers

-----------------------------------------------------------------------------
LEMMA EmptyQueue == <<>> \in Seq(Conns)
  OBVIOUS

LEMMA InitInv == Init => IInv
  <1> SUFFICES ASSUME Init
               PROVE  IInv
    OBVIOUS
  <1>1. backlog \in Seq(Conns)
    BY EmptyQueue DEF Init
  <1>2. tries \in 0..Tries
    BY TriesAssumption DEF Init
  <1>3. conn \in [Conns -> {"new", "queued", "open", "half", "fin", "rst"}]
    BY DEF Init
  <1>4. TypeOK
    BY <1>1, <1>2, <1>3 DEF Init, TypeOK
  <1>5. \A c \in Conns : conn[c] # "fin"
    BY DEF Init
  <1> QED
    BY <1>4, <1>5 DEF Init, IInv, ForkedOnce, Holders, Farewell, PortFreeAtStart,
                      OnlyTriggerLingers, Serving, Answering

(* Closing the connection: a function of the same type, which differs from *)
(* the old one at most at cur, and there by an end of the connection.      *)
LEMMA CloseConnEffect ==
  ASSUME TypeOK, NEW p \in {"gal", "child"}, CloseConn(p), cur \in Conns
  PROVE  /\ conn' \in [Conns -> {"new", "queued", "open", "half", "fin", "rst"}]
         /\ \A c \in Conns : c # cur => conn'[c] = conn[c]
         /\ conn[cur] = "rst" => conn'[cur] = "rst"
         /\ (cfd = {p} /\ linger) => conn'[cur] = "rst"
         /\ cfd # {p} => conn' = conn
         /\ cfd' = cfd \ {p}
  BY DEF CloseConn, TypeOK

(* Closing the listening socket ends connections by a reset only.          *)
LEMMA CloseListenerEffect ==
  ASSUME TypeOK, NEW p \in {"gal", "child"}, CloseListener(p)
  PROVE  /\ conn' \in [Conns -> {"new", "queued", "open", "half", "fin", "rst"}]
         /\ backlog' \in Seq(Conns)
         /\ \A c \in Conns : conn'[c] \in {conn[c], "rst"}
         /\ lfd' = lfd \ {p}
  <1>1. CASE lfd = {p}
    <2>1. backlog' \in Seq(Conns)
      BY <1>1, EmptyQueue DEF CloseListener
    <2>2. conn' \in [Conns -> {"new", "queued", "open", "half", "fin", "rst"}]
      BY <1>1 DEF CloseListener, TypeOK
    <2>3. \A c \in Conns : conn'[c] \in {conn[c], "rst"}
      BY <1>1 DEF CloseListener, TypeOK
    <2> QED
      BY <2>1, <2>2, <2>3 DEF CloseListener
  <1>2. CASE lfd # {p}
    BY <1>2 DEF CloseListener, TypeOK
  <1> QED
    BY <1>1, <1>2

LEMMA NextInv == IInv /\ [Next]_vars => IInv'
  <1> SUFFICES ASSUME IInv, [Next]_vars
               PROVE  IInv'
    OBVIOUS
  <1> USE ConnsAssumption, TriesAssumption
      DEF IInv, ForkedOnce, Holders, Farewell, PortFreeAtStart, OnlyTriggerLingers,
          Serving, Answering, sockets, clients
  <1>1. CASE UNCHANGED vars
    BY <1>1 DEF vars, TypeOK
  <1>2. CASE Listen
    BY <1>2 DEF Listen, TypeOK
  <1>3. CASE ListenFails
    BY <1>3 DEF ListenFails, TypeOK
  <1>4. CASE Accept
    <2>1. Head(backlog) \in Conns /\ Tail(backlog) \in Seq(Conns)
      BY <1>4 DEF Accept, TypeOK
    <2> QED
      BY <1>4, <2>1 DEF Accept, TypeOK
  <1>5. ASSUME pc \in Serving, Discard
        PROVE  IInv'
    <2>1. conn' \in [Conns -> {"new", "queued", "open", "half", "fin", "rst"}]
          /\ (\A c \in Conns : c # cur => conn'[c] = conn[c])
          /\ conn'[cur] = "rst" /\ cfd' = {}
      BY <1>5, CloseConnEffect DEF Discard
    <2> QED
      BY <1>5, <2>1 DEF Discard, TypeOK
  <1>6. CASE PollReady
    BY <1>6 DEF PollReady, TypeOK
  <1>7. CASE RecvMatches
    BY <1>7 DEF RecvMatches, TypeOK
  <1>8. CASE Fork
    BY <1>8 DEF Fork, TypeOK
  <1>9. CASE LingerOff
    BY <1>9 DEF LingerOff, TypeOK
  <1>10. CASE Write
    BY <1>10 DEF Write, TypeOK
  <1>11. CASE WriteKills
    <2>1. conn' \in [Conns -> {"new", "queued", "open", "half", "fin", "rst"}]
          /\ (\A c \in Conns : conn'[c] \in {conn[c], "rst"}) /\ conn'[cur] = "rst"
          /\ backlog' \in Seq(Conns)
      BY <1>11, EmptyQueue DEF WriteKills, TypeOK
    <2> QED
      BY <1>11, <2>1 DEF WriteKills, TypeOK
  <1>12. CASE Shutdown
    BY <1>12 DEF Shutdown, TypeOK
  <1>13. CASE Close
    <2>1. conn' \in [Conns -> {"new", "queued", "open", "half", "fin", "rst"}]
          /\ (\A c \in Conns : c # cur => conn'[c] = conn[c])
          /\ cfd' = cfd \ {"gal"} /\ cur \in reply
      BY <1>13, CloseConnEffect DEF Close
    <2> QED
      BY <1>13, <2>1 DEF Close, TypeOK
  <1>14. CASE Release
    <2>1. conn' \in [Conns -> {"new", "queued", "open", "half", "fin", "rst"}]
          /\ (\A c \in Conns : conn'[c] \in {conn[c], "rst"})
          /\ backlog' \in Seq(Conns) /\ lfd' = lfd \ {"gal"}
      BY <1>14, CloseListenerEffect DEF Release
    <2> QED
      BY <1>14, <2>1 DEF Release, TypeOK
  <1>15. CASE KillSelf
    BY <1>15 DEF KillSelf, TypeOK
  <1>16. CASE ChildClosesListener
    <2>1. conn' \in [Conns -> {"new", "queued", "open", "half", "fin", "rst"}]
          /\ (\A c \in Conns : conn'[c] \in {conn[c], "rst"})
          /\ backlog' \in Seq(Conns) /\ lfd' = lfd \ {"child"}
      BY <1>16, CloseListenerEffect DEF ChildClosesListener
    <2> QED
      BY <1>16, <2>1 DEF ChildClosesListener, TypeOK
  <1>17. CASE ChildClosesConn
    <2>1. CASE "child" \in cfd
      <3>1. conn' \in [Conns -> {"new", "queued", "open", "half", "fin", "rst"}]
            /\ (\A c \in Conns : c # cur => conn'[c] = conn[c])
            /\ (conn[cur] = "rst" => conn'[cur] = "rst")
            /\ (cfd # {"child"} => conn' = conn)
            /\ cfd' = cfd \ {"child"}
        BY <1>17, <2>1, CloseConnEffect DEF ChildClosesConn
      <3> QED
        BY <1>17, <3>1 DEF ChildClosesConn, TypeOK
    <2>2. CASE "child" \notin cfd
      BY <1>17, <2>2 DEF ChildClosesConn, TypeOK
    <2> QED
      BY <2>1, <2>2
  <1>18. CASE BindWorks
    BY <1>18 DEF BindWorks, TypeOK
  <1>19. CASE BindFails
    BY <1>19 DEF BindFails, TypeOK
  <1>20. CASE GiveUpWaiting
    BY <1>20 DEF GiveUpWaiting, TypeOK
  <1>21. CASE Exec
    BY <1>21 DEF Exec, TypeOK
  <1>22. ASSUME NEW c \in Conns, Connect(c)
         PROVE  IInv'
    <2>1. backlog' \in Seq(Conns)
      BY <1>22 DEF Connect, TypeOK
    <2> QED
      BY <1>22, <2>1 DEF Connect, TypeOK
  <1>23. CASE PollTimesOut
    BY <1>5, <1>23 DEF PollTimesOut
  <1>24. CASE RecvRefused
    BY <1>5, <1>24 DEF RecvRefused
  <1>25. CASE ForkFails
    BY <1>5, <1>25 DEF ForkFails
  <1> QED
    BY <1>1, <1>2, <1>3, <1>4, <1>6, <1>7, <1>8, <1>9, <1>10, <1>11, <1>12, <1>13,
       <1>14, <1>15, <1>16, <1>17, <1>18, <1>19, <1>20, <1>21, <1>22, <1>23, <1>24, <1>25
    DEF Next, Launcher, Successor

-----------------------------------------------------------------------------
(* The inductive invariant holds in every reachable state.                 *)
THEOREM Invariance == Spec => []IInv
  BY InitInv, NextInv, PTL DEF Spec

(* Every variable keeps its type.                                          *)
THEOREM TypeCorrect == Spec => []TypeOK
  <1>1. IInv => TypeOK
    BY DEF IInv
  <1> QED
    BY Invariance, <1>1, PTL

(* The child runs goahead while gal still has the port only if it used up  *)
(* every attempt.                                                          *)
THEOREM PortIsFreeAtStart == Spec => []PortFreeAtStart
  <1>1. IInv => PortFreeAtStart
    BY DEF IInv
  <1> QED
    BY Invariance, <1>1, PTL

(* A connection is ended by FIN only if the 503 was written on it: every   *)
(* other one is reset and leaves no TIME_WAIT.                             *)
THEOREM OnlyTriggersLinger == Spec => []OnlyTriggerLingers
  <1>1. IInv => OnlyTriggerLingers
    BY DEF IInv
  <1> QED
    BY Invariance, <1>1, PTL
=============================================================================
