----------------------------- MODULE ShellServer -----------------------------
(***************************************************************************)
(* The accept loop that websh.c and wssh.c share.  One parent process      *)
(* takes connections off the listen queue one at a time, refuses them      *)
(* while it has MaxChildren children it has not waited for, reads the      *)
(* request head itself, and forks a child for a page and for a shell.      *)
(*                                                                         *)
(* A connection is known by what its peer does: its `kind`.  A child is    *)
(* known by the connection it serves.  The content of requests, and what   *)
(* a child does, are in WebshSession and WsshSession.                      *)
(***************************************************************************)
EXTENDS Integers, Sequences, FiniteSets

CONSTANTS Conns,        \* the connections clients make
          MaxChildren,  \* MAX_CHILDREN
          SleepAfterPageFork  \* websh sleeps when it cannot fork for a page, wssh does not

NoConn == "none"

ASSUME ConnsAssumption == IsFiniteSet(Conns) /\ NoConn \notin Conns
ASSUME MaxChildrenAssumption == MaxChildren \in Nat \ {0}
ASSUME SleepAssumption == SleepAfterPageFork \in BOOLEAN

(* foreign: peer outside 192.168.0.0/24.  stalled: the head does not come  *)
(* in time, or the peer closes.  huge: no end of head within HEAD_MAX.     *)
(* page, shell: served by a child.  wrong: any request answered by an      *)
(* error status in the parent (404, 405, 400, 411, 413).                   *)
Kinds == {"foreign", "stalled", "huge", "page", "shell", "wrong"}

VARIABLES
  pc,        \* where the parent is in its loop
  cur,       \* c, the connection the parent has accepted
  listenq,   \* the listen queue of the kernel
  kind,      \* what each peer does
  conn,      \* each connection, as the parent sees it
  answer,    \* what the parent itself wrote on it
  kid,       \* the child of each connection
  active     \* active_children

vars == <<pc, cur, listenq, kind, conn, answer, kid, active>>

TypeOK ==
  /\ pc \in {"accept", "peer", "reap", "headers", "route", "sleep"}
  /\ cur \in Conns \cup {NoConn}
  /\ listenq \in Seq(Conns)
  /\ kind \in [Conns -> Kinds]
  /\ conn \in [Conns -> {"new", "waiting", "open", "closed"}]
  /\ answer \in [Conns -> {"nothing", "error"}]
  /\ kid \in [Conns -> {"none", "running", "zombie", "reaped"}]
  /\ active \in Nat

Init ==
  /\ pc = "accept" /\ cur = NoConn /\ listenq = <<>> /\ active = 0
  /\ kind \in [Conns -> Kinds]
  /\ conn = [c \in Conns |-> "new"]
  /\ answer = [c \in Conns |-> "nothing"]
  /\ kid = [c \in Conns |-> "none"]

(* The children the parent has not waited for.                             *)
Unreaped == {c \in Conns : kid[c] \in {"running", "zombie"}}

-----------------------------------------------------------------------------
Connect(c) ==
  /\ conn[c] = "new"
  /\ conn' = [conn EXCEPT ![c] = "waiting"]
  /\ listenq' = Append(listenq, c)
  /\ UNCHANGED <<pc, cur, kind, answer, kid, active>>

Accept ==
  /\ pc = "accept" /\ listenq # <<>>
  /\ cur' = Head(listenq)
  /\ listenq' = Tail(listenq)
  /\ conn' = [conn EXCEPT ![Head(listenq)] = "open"]
  /\ pc' = "peer"
  /\ UNCHANGED <<kind, answer, kid, active>>

(* close(c), possibly after an error answer, then the next turn of the     *)
(* loop, at once or after sleep(1).                                        *)
Drop(says, next) ==
  /\ conn' = [conn EXCEPT ![cur] = "closed"]
  /\ answer' = [answer EXCEPT ![cur] = says]
  /\ cur' = NoConn
  /\ pc' = next

CheckPeer ==
  /\ pc = "peer"
  /\ \/ /\ kind[cur] = "foreign"
        /\ Drop("nothing", "accept")
     \/ /\ kind[cur] # "foreign"
        /\ pc' = "reap"
        /\ UNCHANGED <<cur, conn, answer>>
  /\ UNCHANGED <<listenq, kind, kid, active>>

(* One turn of the waitpid(-1, WNOHANG) loop that found a dead child.      *)
Reap(c) ==
  /\ pc = "reap"
  /\ kid[c] = "zombie"
  /\ kid' = [kid EXCEPT ![c] = "reaped"]
  /\ active' = IF active > 0 THEN active - 1 ELSE active
  /\ UNCHANGED <<pc, cur, listenq, kind, conn, answer>>

(* Mutant of NoDeadChild: waitpid is called at most once per connection.   *)
ReapedEnough == TRUE

(* waitpid returns 0.  The comparison with MAX_CHILDREN after it is in the *)
(* same step: a child that exits in between is not seen by it either way.  *)
NoDeadChild == \A c \in Conns : kid[c] # "zombie"

Refuse ==
  /\ pc = "reap" /\ NoDeadChild
  /\ active >= MaxChildren
  /\ Drop("nothing", "sleep")
  /\ UNCHANGED <<listenq, kind, kid, active>>

Admit ==
  /\ pc = "reap" /\ NoDeadChild
  /\ active < MaxChildren
  /\ pc' = "headers"
  /\ UNCHANGED <<cur, listenq, kind, conn, answer, kid, active>>

(* Mutant of ReadHeaders: no time-out on the head.                         *)
ReadHeadersForever ==
  /\ pc = "headers"
  /\ \/ kind[cur] = "huge" /\ Drop("error", "accept")
     \/ /\ kind[cur] \notin {"stalled", "huge"}
        /\ pc' = "route"
        /\ UNCHANGED <<cur, conn, answer>>
  /\ UNCHANGED <<listenq, kind, kid, active>>

(* read_headers runs in the parent, which accepts nobody meanwhile.        *)
ReadHeaders ==
  /\ pc = "headers"
  /\ \/ kind[cur] = "stalled" /\ Drop("nothing", "accept")
     \/ kind[cur] = "huge" /\ Drop("error", "accept")
     \/ /\ kind[cur] \notin {"stalled", "huge"}
        /\ pc' = "route"
        /\ UNCHANGED <<cur, conn, answer>>
  /\ UNCHANGED <<listenq, kind, kid, active>>

(* Mutant of RouteWrong: an error answer without close.                    *)
RouteWrongKeeps ==
  /\ pc = "route"
  /\ kind[cur] = "wrong"
  /\ answer' = [answer EXCEPT ![cur] = "error"]
  /\ cur' = NoConn /\ pc' = "accept"
  /\ UNCHANGED <<listenq, kind, conn, kid, active>>

RouteWrong ==
  /\ pc = "route"
  /\ kind[cur] = "wrong"
  /\ Drop("error", "accept")
  /\ UNCHANGED <<listenq, kind, kid, active>>

(* Mutant of Fork: a page's child is not counted.                          *)
ForkCountsShells ==
  /\ pc = "route"
  /\ kind[cur] \in {"page", "shell"}
  /\ kid' = [kid EXCEPT ![cur] = "running"]
  /\ active' = IF kind[cur] = "shell" THEN active + 1 ELSE active
  /\ Drop("nothing", "accept")
  /\ UNCHANGED <<listenq, kind>>

(* The child has the connection; the parent closes its copy.               *)
Fork ==
  /\ pc = "route"
  /\ kind[cur] \in {"page", "shell"}
  /\ kid' = [kid EXCEPT ![cur] = "running"]
  /\ active' = active + 1
  /\ Drop("nothing", "accept")
  /\ UNCHANGED <<listenq, kind>>

ForkFails ==
  /\ pc = "route"
  /\ kind[cur] \in {"page", "shell"}
  /\ Drop("error", IF kind[cur] = "page" /\ ~SleepAfterPageFork
                   THEN "accept" ELSE "sleep")
  /\ UNCHANGED <<listenq, kind, kid, active>>

WakeUp ==
  /\ pc = "sleep"
  /\ pc' = "accept"
  /\ UNCHANGED <<cur, listenq, kind, conn, answer, kid, active>>

KidExits(c) ==
  /\ kid[c] = "running"
  /\ kid' = [kid EXCEPT ![c] = "zombie"]
  /\ UNCHANGED <<pc, cur, listenq, kind, conn, answer, active>>

Parent == \/ Accept \/ CheckPeer \/ (\E c \in Conns : Reap(c)) \/ Refuse \/ Admit
          \/ ReadHeaders \/ RouteWrong \/ Fork \/ ForkFails \/ WakeUp

Next == Parent \/ \E c \in Conns : Connect(c) \/ KidExits(c)

Spec == Init /\ [][Next]_vars

(* The parent is scheduled, and its reads and writes have time-outs.       *)
LiveSpec == Spec /\ WF_vars(Parent)

-----------------------------------------------------------------------------
(* Properties *)

(* active_children is the number of children not waited for, whatever the  *)
(* order of exits, forks and refusals, so it never drifts and never        *)
(* exceeds MAX_CHILDREN.                                                   *)
ChildrenCounted == active = Cardinality(Unreaped) /\ active <= MaxChildren

(* On every path through the loop the accepted connection is closed before *)
(* the next accept: the parent never keeps a descriptor.                   *)
NoDescriptorKept ==
  /\ \A c \in Conns : conn[c] = "open" => c = cur
  /\ cur # NoConn => conn[cur] = "open" /\ pc \notin {"accept", "sleep"}

(* A connection is refused for lack of room only if MAX_CHILDREN children  *)
(* were really running when waitpid last looked: dead ones do not count.   *)
RefusesOnlyWhenFull ==
  [][Refuse => Cardinality({c \in Conns : kid[c] = "running"}) = MaxChildren]_vars

(* Every client in the listen queue is taken and its connection disposed   *)
(* of, though others stall, are refused, or cannot be forked for.          *)
EveryConnectionHandled ==
  \A c \in Conns : conn[c] = "waiting" ~> conn[c] = "closed"
=============================================================================
