--------------------------------- MODULE Gal ---------------------------------
(***************************************************************************)
(* The launcher gal.c: it listens on port 80 in place of goahead.  The     *)
(* first request it takes for HTTP makes it fork a child that will become  *)
(* goahead; gal itself answers 503, gives up the port and kills itself,    *)
(* while the child tries to bind the port until it is free.                *)
(*                                                                         *)
(* Both processes have the listening socket (lfd) and the connection (cfd) *)
(* after the fork: a socket is closed when the last of them closes it.     *)
(* Closing a connection resets it if SO_LINGER is set to 0, or if data     *)
(* that came was not read (TCP, RFC 1122 4.2.2.13); otherwise it sends FIN *)
(* and leaves a TIME_WAIT behind.  Connections that nobody accepted are    *)
(* reset with the listening socket.                                        *)
(***************************************************************************)
EXTENDS Integers, Sequences

CONSTANTS Conns,  \* the connections clients make
          Tries   \* attempts of the child to bind the port (60)

NoConn == "none"

ASSUME ConnsAssumption == NoConn \notin Conns
ASSUME TriesAssumption == Tries \in Nat \ {0}

(* silent: sends nothing in 400 ms.  short: fewer than 4 bytes, or the end *)
(* of the stream.  other: not GET or POST.  exact, request: GET or POST,   *)
(* of which 8 bytes at most, or more, have come when gal closes.           *)
Kinds == {"silent", "short", "other", "exact", "request"}
Triggers == {"exact", "request"}

VARIABLES
  pc,       \* where gal is
  cur,      \* cfd, the connection gal has accepted
  backlog,  \* the listen queue
  lfd,      \* who has the listening socket open
  cfd,      \* who has the connection cur open
  linger,   \* SO_LINGER of cur is on, with time-out 0
  kind,     \* what each client sends
  conn,     \* each connection, as its client sees it
  reply,    \* the connections on which 503 was written
  child,    \* where the child is
  tries     \* i of its loop

vars == <<pc, cur, backlog, lfd, cfd, linger, kind, conn, reply, child, tries>>
sockets == <<backlog, lfd, cfd, linger>>
clients == <<kind, conn, reply>>

TypeOK ==
  /\ pc \in {"start", "accept", "poll", "recv", "fork", "linger", "write",
             "shut", "close", "release", "kill", "dead"}
  /\ cur \in Conns \cup {NoConn}
  /\ backlog \in Seq(Conns)
  /\ lfd \subseteq {"gal", "child"} /\ cfd \subseteq {"gal", "child"}
  /\ linger \in BOOLEAN
  /\ kind \in [Conns -> Kinds]
  /\ conn \in [Conns -> {"new", "queued", "open", "half", "fin", "rst"}]
  /\ reply \subseteq Conns
  /\ child \in {"none", "lfd", "cfd", "try", "exec", "goahead", "failed"}
  /\ tries \in 0..Tries

Init ==
  /\ pc = "start" /\ cur = NoConn /\ backlog = <<>>
  /\ lfd = {} /\ cfd = {} /\ linger = FALSE
  /\ kind \in [Conns -> Kinds]
  /\ conn = [c \in Conns |-> "new"] /\ reply = {}
  /\ child = "none" /\ tries = 0

-----------------------------------------------------------------------------
(* What closing a descriptor does *)

(* p closes cfd: with nobody else on it, the connection ends, unless the   *)
(* client has ended it.                                                    *)
CloseConn(p) ==
  /\ cfd' = cfd \ {p}
  /\ conn' = IF cfd = {p} /\ conn[cur] # "rst"
             THEN [conn EXCEPT ![cur] =
                     IF linger \/ kind[cur] \in {"other", "request"} THEN "rst" ELSE "fin"]
             ELSE conn

Unaccepted == {c \in Conns : conn[c] = "queued"}

(* p closes lfd: with nobody else on it, the queue is reset.               *)
CloseListener(p) ==
  /\ lfd' = lfd \ {p}
  /\ IF lfd = {p}
     THEN /\ backlog' = <<>>
          /\ conn' = [c \in Conns |-> IF c \in Unaccepted THEN "rst" ELSE conn[c]]
     ELSE UNCHANGED <<backlog, conn>>

-----------------------------------------------------------------------------
(* gal *)

Listen ==
  /\ pc = "start"
  /\ pc' = "accept" /\ lfd' = {"gal"}
  /\ UNCHANGED <<cur, backlog, cfd, linger, clients, child, tries>>

(* Another program has the port, or there is no socket.                    *)
ListenFails ==
  /\ pc = "start"
  /\ pc' = "dead"
  /\ UNCHANGED <<cur, sockets, clients, child, tries>>

(* Mutant of Accept: SO_LINGER is not set.                                 *)
AcceptLingers ==
  /\ pc = "accept" /\ backlog # <<>>
  /\ pc' = "poll"
  /\ cur' = Head(backlog) /\ backlog' = Tail(backlog)
  /\ conn' = [conn EXCEPT ![Head(backlog)] = "open"]
  /\ cfd' = {"gal"}
  /\ UNCHANGED <<lfd, linger, kind, reply, child, tries>>

Accept ==
  /\ pc = "accept" /\ backlog # <<>>
  /\ pc' = "poll"
  /\ cur' = Head(backlog) /\ backlog' = Tail(backlog)
  /\ conn' = [conn EXCEPT ![Head(backlog)] = "open"]
  /\ cfd' = {"gal"} /\ linger' = TRUE
  /\ UNCHANGED <<lfd, kind, reply, child, tries>>

(* close(cfd) and continue.                                                *)
Discard ==
  /\ pc' = "accept" /\ cur' = NoConn
  /\ CloseConn("gal")
  /\ UNCHANGED <<backlog, lfd, linger, kind, reply, child, tries>>

(* Mutant of PollTimesOut: poll waits until the client ends.               *)
PollWaits ==
  /\ pc = "poll" /\ kind[cur] = "silent" /\ conn[cur] # "open"
  /\ Discard

PollTimesOut ==
  /\ pc = "poll" /\ kind[cur] = "silent"
  /\ Discard

PollReady ==
  /\ pc = "poll" /\ kind[cur] # "silent"
  /\ pc' = "recv"
  /\ UNCHANGED <<cur, sockets, clients, child, tries>>

RecvRefused ==
  /\ pc = "recv" /\ kind[cur] \notin Triggers
  /\ Discard

RecvMatches ==
  /\ pc = "recv" /\ kind[cur] \in Triggers
  /\ pc' = "fork"
  /\ UNCHANGED <<cur, sockets, clients, child, tries>>

Fork ==
  /\ pc = "fork"
  /\ pc' = "linger" /\ child' = "lfd"
  /\ lfd' = lfd \cup {"child"} /\ cfd' = cfd \cup {"child"}
  /\ UNCHANGED <<cur, backlog, linger, clients, tries>>

ForkFails ==
  /\ pc = "fork"
  /\ Discard

LingerOff ==
  /\ pc = "linger"
  /\ pc' = "write" /\ linger' = FALSE
  /\ UNCHANGED <<cur, backlog, lfd, cfd, clients, child, tries>>

Write ==
  /\ pc = "write"
  /\ pc' = "shut" /\ reply' = reply \cup {cur}
  /\ UNCHANGED <<cur, sockets, kind, conn, child, tries>>

(* The client has reset the connection: SIGPIPE ends gal, and its          *)
(* descriptors close with it.                                              *)
WriteKills ==
  /\ pc = "write"
  /\ pc' = "dead"
  /\ cfd' = cfd \ {"gal"} /\ lfd' = lfd \ {"gal"}
  /\ backlog' = IF lfd = {"gal"} THEN <<>> ELSE backlog
  /\ conn' = [c \in Conns |->
                IF c = cur \/ (lfd = {"gal"} /\ c \in Unaccepted) THEN "rst" ELSE conn[c]]
  /\ UNCHANGED <<cur, linger, kind, reply, child, tries>>

Shutdown ==
  /\ pc = "shut"
  /\ pc' = "close" /\ conn' = [conn EXCEPT ![cur] = "half"]
  /\ UNCHANGED <<cur, sockets, kind, reply, child, tries>>

Close ==
  /\ pc = "close"
  /\ pc' = "release"
  /\ CloseConn("gal")
  /\ UNCHANGED <<cur, backlog, lfd, linger, kind, reply, child, tries>>

Release ==
  /\ pc = "release"
  /\ pc' = "kill"
  /\ CloseListener("gal")
  /\ UNCHANGED <<cur, cfd, linger, kind, reply, child, tries>>

KillSelf ==
  /\ pc = "kill"
  /\ pc' = "dead"
  /\ UNCHANGED <<cur, sockets, clients, child, tries>>

Launcher ==
  \/ Listen \/ ListenFails \/ Accept \/ PollTimesOut \/ PollReady
  \/ RecvRefused \/ RecvMatches \/ Fork \/ ForkFails \/ LingerOff
  \/ Write \/ WriteKills \/ Shutdown \/ Close \/ Release \/ KillSelf

-----------------------------------------------------------------------------
(* The child: it closes descriptors 3 to 63, of which lfd is the first.    *)

(* Mutant of ChildClosesListener: the loop starts at 4, after lfd.         *)
ChildKeepsListener ==
  /\ child = "lfd"
  /\ child' = "cfd"
  /\ UNCHANGED <<pc, cur, sockets, clients, tries>>

ChildClosesListener ==
  /\ child = "lfd"
  /\ child' = "cfd"
  /\ CloseListener("child")
  /\ UNCHANGED <<pc, cur, cfd, linger, kind, reply, tries>>

ChildClosesConn ==
  /\ child = "cfd"
  /\ child' = "try"
  /\ IF "child" \in cfd
     THEN CloseConn("child")
     ELSE UNCHANGED <<cfd, conn>>
  /\ UNCHANGED <<pc, cur, backlog, lfd, linger, kind, reply, tries>>

(* Mutant of BindWorks: the probe shares the port (SO_REUSEPORT).          *)
BindShares ==
  /\ child = "try" /\ tries < Tries
  /\ child' = "exec"
  /\ UNCHANGED <<pc, cur, sockets, clients, tries>>

(* SO_REUSEADDR lets bind pass a TIME_WAIT but not a listening socket.     *)
BindWorks ==
  /\ child = "try" /\ tries < Tries
  /\ lfd = {}
  /\ child' = "exec"
  /\ UNCHANGED <<pc, cur, sockets, clients, tries>>

(* Also when there is no socket to be had.                                 *)
BindFails ==
  /\ child = "try" /\ tries < Tries
  /\ tries' = tries + 1
  /\ UNCHANGED <<pc, cur, sockets, clients, child>>

GiveUpWaiting ==
  /\ child = "try" /\ tries = Tries
  /\ child' = "exec"
  /\ UNCHANGED <<pc, cur, sockets, clients, tries>>

Exec ==
  /\ child = "exec"
  /\ child' \in {"goahead", "failed"}
  /\ UNCHANGED <<pc, cur, sockets, clients, tries>>

Successor == \/ ChildClosesListener \/ ChildClosesConn \/ BindWorks \/ BindFails
             \/ GiveUpWaiting \/ Exec

-----------------------------------------------------------------------------
Connect(c) ==
  /\ lfd # {} /\ conn[c] = "new"
  /\ conn' = [conn EXCEPT ![c] = "queued"]
  /\ backlog' = Append(backlog, c)
  /\ UNCHANGED <<pc, cur, lfd, cfd, linger, kind, reply, child, tries>>

Next == Launcher \/ Successor \/ \E c \in Conns : Connect(c)

Spec == Init /\ [][Next]_vars

(* Both processes are scheduled; the clients need do nothing.              *)
LiveSpec == Spec /\ WF_vars(Launcher) /\ WF_vars(Successor)

-----------------------------------------------------------------------------
(* Properties *)

(* The child becomes goahead only when nobody listens on the port any      *)
(* more, or after all of its attempts.                                     *)
PortFreeAtStart == child \in {"exec", "goahead"} => lfd = {} \/ tries = Tries

(* gal.c:49: only the connection that was answered may leave a TIME_WAIT.  *)
OnlyTriggerLingers == \A c \in Conns : conn[c] = "fin" => c \in reply

(* A client that got into the queue is not left hanging: not by a silent   *)
(* one before it, and not by the hand-over, whoever closes last.           *)
ClientsReleased == \A c \in Conns : conn[c] = "queued" ~> conn[c] \in {"fin", "rst"}

(* After the fork both processes give the port up, whatever becomes of the *)
(* 503, so that goahead can have it.                                       *)
PortReleased == child # "none" ~> lfd = {}
=============================================================================
