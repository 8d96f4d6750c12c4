------------------------- MODULE ShellServer_proofs -------------------------
(***************************************************************************)
(* Child accounting and descriptor hygiene of the accept loop, for any     *)
(* finite set of connections and any MAX_CHILDREN.                         *)
(***************************************************************************)
EXTENDS ShellServer, FiniteSetTheorems, TLAPS

Busy == {"peer", "reap", "headers", "route"}

(* A connection not yet disposed of has no child, so a fork adds one.      *)
OpenHasNoChild ==
  \A c \in Conns : conn[c] # "closed" => kid[c] = "none"

(* The listen queue holds each waiting connection once.                    *)
QueueIsWaiting ==
  /\ \A i \in DOMAIN listenq : conn[listenq[i]] = "waiting"
  /\ \A i, j \in DOMAIN listenq : listenq[i] = listenq[j] => i = j

RoomWhenAdmitted == pc \in {"headers", "route"} => active < MaxChildren

IInv ==
  /\ TypeOK
  /\ ChildrenCounted
  /\ NoDescriptorKept
  /\ pc \in Busy <=> cur # NoConn
  /\ OpenHasNoChild
  /\ QueueIsWaiting
  /\ RoomWhenAdmitted

-----------------------------------------------------------------------------
LEMMA UnreapedFinite == IsFiniteSet(Unreaped) /\ Cardinality(Unreaped) \in Nat
  <1>1. Unreaped \subseteq Conns
    BY DEF Unreaped
  <1> QED
    BY <1>1, ConnsAssumption, FS_Subset, FS_CardinalityType

LEMMA InitInv == Init => IInv
  <1> SUFFICES ASSUME Init
               PROVE  IInv
    OBVIOUS
  <1>1. Unreaped = {}
    BY DEF Init, Unreaped
  <1>2. ChildrenCounted
    BY <1>1, FS_EmptySet, MaxChildrenAssumption DEF ChildrenCounted, Init
  <1> QED
    BY <1>2 DEF Init, IInv, TypeOK, Busy, NoDescriptorKept, OpenHasNoChild,
       QueueIsWaiting, RoomWhenAdmitted, NoConn

(* Steps that close the current connection and leave the children alone.   *)
LEMMA DropInv ==
  ASSUME IInv, cur # NoConn, NEW says \in {"nothing", "error"}, NEW next \in {"accept", "sleep"},
         Drop(says, next), UNCHANGED <<listenq, kind, kid, active>>
  PROVE  IInv'
  <1> USE ConnsAssumption DEF IInv, TypeOK, Drop
  <1>1. TypeOK'
    OBVIOUS
  <1>2. ChildrenCounted'
    BY DEF ChildrenCounted, Unreaped
  <1>3. NoDescriptorKept' /\ (pc' \in Busy <=> cur' # NoConn)
    BY DEF NoDescriptorKept, Busy
  <1>4. OpenHasNoChild'
    BY DEF OpenHasNoChild, NoDescriptorKept
  <1>5. QueueIsWaiting'
    BY DEF QueueIsWaiting, NoDescriptorKept
  <1> QED
    BY <1>1, <1>2, <1>3, <1>4, <1>5 DEF RoomWhenAdmitted

LEMMA NextInv == IInv /\ [Next]_vars => IInv'
  <1> SUFFICES ASSUME IInv, [Next]_vars
               PROVE  IInv'
    OBVIOUS
  <1> USE ConnsAssumption, MaxChildrenAssumption
  <1>1. CASE UNCHANGED vars
    BY <1>1 DEF vars, IInv, TypeOK, ChildrenCounted, Unreaped, NoDescriptorKept,
       OpenHasNoChild, QueueIsWaiting, RoomWhenAdmitted
  <1>2. ASSUME NEW c \in Conns, Connect(c)
        PROVE  IInv'
    <2> USE <1>2 DEF IInv, TypeOK, Connect
    <2>1. TypeOK'
      OBVIOUS
    <2>2. ChildrenCounted' /\ RoomWhenAdmitted'
      BY DEF ChildrenCounted, Unreaped, RoomWhenAdmitted
    <2>3. NoDescriptorKept' /\ OpenHasNoChild'
      BY DEF NoDescriptorKept, OpenHasNoChild
    <2>4. QueueIsWaiting'
      BY DEF QueueIsWaiting
    <2> QED
      BY <2>1, <2>2, <2>3, <2>4
  <1>3. CASE Accept
    <2> USE <1>3 DEF IInv, TypeOK, Accept
    <2>1. /\ Head(listenq) = listenq[1] /\ 1 \in DOMAIN listenq /\ Head(listenq) \in Conns
          /\ \A i \in DOMAIN Tail(listenq) :
               i + 1 \in DOMAIN listenq /\ i + 1 # 1 /\ i \in Int /\ Tail(listenq)[i] = listenq[i + 1]
      OBVIOUS
    <2>2. TypeOK'
      BY <2>1
    <2>3. ChildrenCounted' /\ RoomWhenAdmitted'
      BY DEF ChildrenCounted, Unreaped, RoomWhenAdmitted
    <2>4. NoDescriptorKept' /\ (pc' \in Busy <=> cur' # NoConn)
      BY <2>1 DEF NoDescriptorKept, Busy, NoConn
    <2>5. OpenHasNoChild'
      BY <2>1 DEF OpenHasNoChild, QueueIsWaiting
    <2>6. QueueIsWaiting'
      BY <2>1 DEF QueueIsWaiting
    <2> QED
      BY <2>2, <2>3, <2>4, <2>5, <2>6
  <1>4. CASE CheckPeer
    <2>1. CASE Drop("nothing", "accept")
      BY <1>4, <2>1, DropInv DEF CheckPeer, IInv, Busy
    <2>2. CASE pc' = "reap" /\ UNCHANGED <<cur, conn, answer>>
      BY <1>4, <2>2 DEF CheckPeer, IInv, TypeOK, ChildrenCounted, Unreaped,
         NoDescriptorKept, OpenHasNoChild, QueueIsWaiting, RoomWhenAdmitted, Busy
    <2> QED
      BY <1>4, <2>1, <2>2 DEF CheckPeer
  <1>5. ASSUME NEW c \in Conns, Reap(c)
        PROVE  IInv'
    <2> USE <1>5 DEF IInv, TypeOK, Reap
    <2>1. Unreaped' = Unreaped \ {c} /\ c \in Unreaped
      BY DEF Unreaped
    <2>2. Cardinality(Unreaped') = Cardinality(Unreaped) - 1
      BY <2>1, UnreapedFinite, FS_RemoveElement
    <2>3. active > 0
      <3>1. Cardinality(Unreaped) # 0
        BY <2>1, UnreapedFinite, FS_EmptySet
      <3> QED
        BY <3>1, UnreapedFinite DEF ChildrenCounted
    <2>4. ChildrenCounted'
      BY <2>2, <2>3 DEF ChildrenCounted
    <2>5. TypeOK' /\ RoomWhenAdmitted' /\ NoDescriptorKept' /\ QueueIsWaiting'
      BY DEF RoomWhenAdmitted, NoDescriptorKept, QueueIsWaiting
    <2>6. OpenHasNoChild'
      BY DEF OpenHasNoChild
    <2> QED
      BY <2>4, <2>5, <2>6
  <1>6. CASE Refuse
    BY <1>6, DropInv DEF Refuse, IInv, Busy
  <1>7. CASE Admit
    BY <1>7 DEF Admit, IInv, TypeOK, ChildrenCounted, Unreaped, NoDescriptorKept,
       OpenHasNoChild, QueueIsWaiting, RoomWhenAdmitted, Busy
  <1>8. CASE ReadHeaders
    <2>1. CASE Drop("nothing", "accept") \/ Drop("error", "accept")
      BY <1>8, <2>1, DropInv DEF ReadHeaders, IInv, Busy
    <2>2. CASE pc' = "route" /\ UNCHANGED <<cur, conn, answer>>
      BY <1>8, <2>2 DEF ReadHeaders, IInv, TypeOK, ChildrenCounted, Unreaped,
         NoDescriptorKept, OpenHasNoChild, QueueIsWaiting, RoomWhenAdmitted, Busy
    <2> QED
      BY <1>8, <2>1, <2>2 DEF ReadHeaders
  <1>9. CASE RouteWrong
    BY <1>9, DropInv DEF RouteWrong, IInv, Busy
  <1>10. CASE Fork
    <2> USE <1>10 DEF IInv, TypeOK, Fork, Drop
    <2>1. cur \in Conns /\ conn[cur] = "open" /\ kid[cur] = "none"
      BY DEF NoDescriptorKept, OpenHasNoChild, Busy
    <2>2. Unreaped' = Unreaped \cup {cur} /\ cur \notin Unreaped
      BY <2>1 DEF Unreaped
    <2>3. Cardinality(Unreaped') = Cardinality(Unreaped) + 1
      BY <2>2, UnreapedFinite, FS_AddElement
    <2>4. ChildrenCounted'
      BY <2>3, UnreapedFinite DEF ChildrenCounted, RoomWhenAdmitted
    <2>5. TypeOK' /\ RoomWhenAdmitted' /\ NoDescriptorKept' /\ (pc' \in Busy <=> cur' # NoConn)
      BY <2>1 DEF RoomWhenAdmitted, NoDescriptorKept, Busy
    <2>6. OpenHasNoChild' /\ QueueIsWaiting'
      BY <2>1 DEF OpenHasNoChild, QueueIsWaiting
    <2> QED
      BY <2>4, <2>5, <2>6
  <1>11. CASE ForkFails
    BY <1>11, DropInv DEF ForkFails, IInv, Busy
  <1>12. CASE WakeUp
    BY <1>12 DEF WakeUp, IInv, TypeOK, ChildrenCounted, Unreaped, NoDescriptorKept,
       OpenHasNoChild, QueueIsWaiting, RoomWhenAdmitted, Busy
  <1>13. ASSUME NEW c \in Conns, KidExits(c)
         PROVE  IInv'
    <2> USE <1>13 DEF IInv, TypeOK, KidExits
    <2>1. Unreaped' = Unreaped
      BY DEF Unreaped
    <2> QED
      BY <2>1 DEF ChildrenCounted, RoomWhenAdmitted, NoDescriptorKept, OpenHasNoChild, QueueIsWaiting
  <1> QED
    BY <1>1, <1>2, <1>3, <1>4, <1>5, <1>6, <1>7, <1>8, <1>9, <1>10, <1>11, <1>12, <1>13
    DEF Next, Parent

-----------------------------------------------------------------------------
(* The inductive invariant holds in every reachable state.                 *)
THEOREM Invariance == Spec => []IInv
  BY InitInv, NextInv, PTL DEF Spec

(* Every variable keeps its type.                                          *)
THEOREM TypeCorrect == Spec => []TypeOK
  <1>1. IInv => TypeOK
    BY DEF IInv
  <1> QED
    BY Invariance, <1>1, PTL

(* active_children never drifts from the number of children and never      *)
(* exceeds MAX_CHILDREN.                                                   *)
THEOREM ChildrenAreCounted == Spec => []ChildrenCounted
  <1>1. IInv => ChildrenCounted
    BY DEF IInv
  <1> QED
    BY Invariance, <1>1, PTL

(* No path through the loop leaves a connection open in the parent.        *)
THEOREM DescriptorsAreClosed == Spec => []NoDescriptorKept
  <1>1. IInv => NoDescriptorKept
    BY DEF IInv
  <1> QED
    BY Invariance, <1>1, PTL

(* A refusal for lack of room happens only with MAX_CHILDREN running       *)
(* children.                                                               *)
THEOREM RefusalsAreJustified == Spec => RefusesOnlyWhenFull
  <1>1. ASSUME IInv, Refuse
        PROVE  Cardinality({c \in Conns : kid[c] = "running"}) = MaxChildren
    <2>1. {c \in Conns : kid[c] = "running"} = Unreaped
      BY <1>1 DEF Refuse, NoDeadChild, Unreaped
    <2> QED
      BY <1>1, <2>1, UnreapedFinite, MaxChildrenAssumption
      DEF IInv, ChildrenCounted, Refuse
  <1> QED
    BY Invariance, <1>1, PTL DEF RefusesOnlyWhenFull
=============================================================================
