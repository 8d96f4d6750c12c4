----------------------------- MODULE WsshSession -----------------------------
(***************************************************************************)
(* A wssh session (ws_session in wssh.c): one process polls the WebSocket  *)
(* and the master of a pseudo-terminal, copies frames and output, and ends *)
(* by killing the shell, closing the terminal and waiting for the shell.   *)
(* The shell is a second process, forked at the start, which makes itself  *)
(* a session leader and takes the terminal before it runs anything.        *)
(*                                                                         *)
(* Both blocking calls on the socket move a frame in pieces: each piece    *)
(* comes within the socket's time-out, and the call goes on while pieces   *)
(* come.  Payloads are left out; `now` counts coarse units, and a blocking *)
(* call that has reached its time-out returns before time passes.          *)
(***************************************************************************)
EXTENDS Integers

CONSTANTS MaxLife,   \* SESSION_MAX_SEC
          IdleLimit, \* SESSION_IDLE_SEC
          IoLimit,   \* IO_TIMEOUT_SEC, of one recv or write
          Pieces,    \* pieces a frame may come or go in
          Horizon    \* bound on now

ASSUME LimitsAssumption ==
  /\ MaxLife \in Nat \ {0} /\ IdleLimit \in Nat \ {0} /\ IoLimit \in Nat \ {0}
  /\ Pieces \in Nat \ {0} /\ Horizon \in Nat

PollLimit == 1   \* poll(fds, 2, 1000), one unit

VARIABLES
  pc,       \* where the session process is
  now,
  t,        \* its variable now, read after each poll
  idle,     \* its variable idle
  since,    \* when the pending blocking call began
  left,     \* pieces of the frame still to come or to go
  sending,  \* why it sends a frame: "close", "pong" or "out"
  ev,       \* what poll reported and is still to be served
  master,   \* the master of the terminal is open
  sh,       \* the shell process
  traffic   \* when the session last carried something (not in the code)

vars == <<pc, now, t, idle, since, left, sending, ev, master, sh, traffic>>
clock == <<now, t, idle, traffic>>
frame == <<since, left, sending>>

Events == {"in", "gone", "out", "hup"}

TypeOK ==
  /\ pc \in {"start", "poll", "recv", "send", "after", "output", "hup",
             "kill", "close", "wait", "end"}
  /\ now \in 0..Horizon /\ t \in 0..Horizon /\ since \in 0..Horizon
  /\ traffic \in 0..Horizon /\ idle \in 0..(Horizon + IdleLimit)
  /\ left \in 0..Pieces
  /\ sending \in {"none", "close", "pong", "out"}
  /\ ev \subseteq Events
  /\ master \in BOOLEAN
  /\ sh \in {"none", "forked", "leader", "tty", "running", "dead"}

Init ==
  /\ pc = "start" /\ now = 0 /\ t = 0 /\ idle = IdleLimit /\ since = 0
  /\ left = 0 /\ sending = "none" /\ ev = {} /\ traffic = 0
  /\ master = FALSE /\ sh = "none"

-----------------------------------------------------------------------------
(* The session process *)

(* open_pty, O_NONBLOCK on the master, fork.                               *)
Open ==
  /\ pc = "start"
  /\ pc' = "poll" /\ master' = TRUE /\ sh' = "forked"
  /\ UNCHANGED <<clock, frame, ev>>

OpenFails ==
  /\ pc = "start"
  /\ pc' = "end"
  /\ UNCHANGED <<clock, frame, ev, master, sh>>

(* Mutant of PollReturns: the maximum is not looked at.                    *)
PollReturnsIdleOnly ==
  /\ pc = "poll"
  /\ t' = now
  /\ \/ /\ now >= idle
        /\ pc' = "kill"
        /\ UNCHANGED <<frame, ev>>
     \/ /\ now < idle
        /\ ev' = {"in"} /\ since' = now
        /\ pc' = "recv" /\ left' \in 1..Pieces
        /\ UNCHANGED sending
  /\ UNCHANGED <<now, idle, traffic, master, sh>>

(* poll returned.  The two limits are looked at here and nowhere else.  A  *)
(* terminal reports a hang-up only when its shell is dead; a process the   *)
(* shell left behind may hold the terminal open, and then it reports none. *)
PollReturns ==
  /\ pc = "poll"
  /\ t' = now
  /\ \/ /\ now >= MaxLife \/ now >= idle
        /\ pc' = "kill"
        /\ UNCHANGED <<frame, ev>>
     \/ /\ now < MaxLife /\ now < idle
        /\ ev' \in SUBSET Events
        /\ "hup" \in ev' => sh = "dead"
        /\ "gone" \in ev' => "in" \in ev'
        /\ since' = now
        /\ IF "in" \in ev'
           THEN pc' = "recv" /\ left' \in 1..Pieces
           ELSE pc' = (IF ev' = {} THEN "poll" ELSE "output") /\ UNCHANGED left
        /\ UNCHANGED sending
  /\ UNCHANGED <<now, idle, traffic, master, sh>>

(* recv_exact: some bytes of the frame came.                               *)
RecvPiece ==
  /\ pc = "recv" /\ left > 1
  /\ left' = left - 1 /\ since' = now
  /\ UNCHANGED <<pc, clock, sending, ev, master, sh>>

(* End of stream, error, time-out, an unmasked or an oversized frame.      *)
RecvFails ==
  /\ pc = "recv"
  /\ pc' = "kill"
  /\ UNCHANGED <<clock, frame, ev, master, sh>>

Refresh == idle' = t + IdleLimit /\ traffic' = now

(* The last piece came.  What the frame is decides how the turn goes on.   *)
GotControl ==
  /\ pc = "recv" /\ left = 1
  /\ pc' = "send" /\ sending' \in {"close", "pong"}
  /\ left' \in 1..Pieces /\ since' = now
  /\ UNCHANGED <<clock, ev, master, sh>>

(* A resize message starts the next turn: output and hang-ups wait.        *)
GotResize ==
  /\ pc = "recv" /\ left = 1
  /\ pc' = "poll" /\ left' = 0 /\ since' = now /\ ev' = {}
  /\ Refresh
  /\ UNCHANGED <<now, t, sending, master, sh>>

(* Input goes to the terminal without blocking: what does not fit is lost. *)
GotInput ==
  /\ pc = "recv" /\ left = 1
  /\ pc' = "after" /\ left' = 0
  /\ Refresh
  /\ UNCHANGED <<now, t, since, sending, ev, master, sh>>

(* Mutant of GotOther: a frame that is dropped counts as traffic.          *)
GotOtherRefreshes ==
  /\ pc = "recv" /\ left = 1
  /\ pc' = "after" /\ left' = 0
  /\ idle' = t + IdleLimit
  /\ UNCHANGED <<now, t, traffic, since, sending, ev, master, sh>>

(* A pong, a continuation frame or an empty one is dropped.                *)
GotOther ==
  /\ pc = "recv" /\ left = 1
  /\ pc' = "after" /\ left' = 0
  /\ UNCHANGED <<clock, since, sending, ev, master, sh>>

AfterFrame ==
  /\ pc = "after"
  /\ pc' = IF "gone" \in ev THEN "kill" ELSE "output"
  /\ UNCHANGED <<clock, frame, ev, master, sh>>

(* read of the terminal: output to send, nothing (EAGAIN), or the end.     *)
ReadOutput ==
  /\ pc = "output"
  /\ \/ /\ "out" \notin ev /\ pc' = "hup" /\ UNCHANGED frame
     \/ /\ "out" \in ev
        /\ \/ pc' = "send" /\ sending' = "out" /\ left' \in 1..Pieces /\ since' = now
           \/ pc' \in {"hup", "kill"} /\ UNCHANGED frame
  /\ UNCHANGED <<clock, ev, master, sh>>

CheckHup ==
  /\ pc = "hup"
  /\ pc' = IF "hup" \in ev THEN "kill" ELSE "poll"
  /\ since' = now /\ ev' = {}
  /\ UNCHANGED <<clock, left, sending, master, sh>>

SendPiece ==
  /\ pc = "send" /\ left > 1
  /\ left' = left - 1 /\ since' = now
  /\ UNCHANGED <<pc, clock, sending, ev, master, sh>>

(* ws_send returned, with or without success: nobody looks.                *)
SendReturns ==
  /\ pc = "send"
  /\ left' = 0 /\ sending' = "none" /\ since' = now
  /\ CASE sending = "close" -> pc' = "kill" /\ UNCHANGED <<idle, traffic, ev>>
       [] sending = "pong" -> pc' = "poll" /\ ev' = {} /\ Refresh
       [] sending = "out" -> pc' = "hup" /\ UNCHANGED ev /\ Refresh
  /\ UNCHANGED <<now, t, master, sh>>

(* kill(-shpid, SIGKILL) finds no group while the shell has not made one.  *)
KillShell ==
  /\ pc = "kill"
  /\ pc' = "close"
  /\ sh' = IF sh \in {"leader", "tty", "running"} THEN "dead" ELSE sh
  /\ UNCHANGED <<clock, frame, ev, master>>

(* Mutant of CloseMaster: the terminal is left open while the shell is     *)
(* waited for.                                                             *)
CloseMasterLater ==
  /\ pc = "close"
  /\ pc' = "wait"
  /\ UNCHANGED <<clock, frame, ev, master, sh>>

(* close(ptm) hangs the terminal up: SIGHUP for the shell that has it.     *)
CloseMaster ==
  /\ pc = "close"
  /\ pc' = "wait"
  /\ master' = FALSE
  /\ sh' = IF sh \in {"tty", "running"} THEN "dead" ELSE sh
  /\ UNCHANGED <<clock, frame, ev>>

(* Mutant of WaitShell: waitpid with WNOHANG.                              *)
WaitShellOnce ==
  /\ pc = "wait"
  /\ pc' = "end"
  /\ UNCHANGED <<clock, frame, ev, master, sh>>

WaitShell ==
  /\ pc = "wait" /\ sh = "dead"
  /\ pc' = "end"
  /\ UNCHANGED <<clock, frame, ev, master, sh>>

Session ==
  \/ Open \/ OpenFails \/ PollReturns \/ RecvPiece \/ RecvFails
  \/ GotControl \/ GotResize \/ GotInput \/ GotOther \/ AfterFrame
  \/ ReadOutput \/ CheckHup \/ SendPiece \/ SendReturns
  \/ KillShell \/ CloseMaster \/ WaitShell

-----------------------------------------------------------------------------
(* The shell process *)

ShellBecomes(from, to) ==
  /\ sh \in from /\ sh' = to
  /\ UNCHANGED <<pc, clock, frame, ev, master>>

Setsid == ShellBecomes({"forked"}, "leader")

(* TIOCSCTTY fails on a terminal that was hung up, and the child exits.    *)
TakeTerminal == ShellBecomes({"leader"}, IF master THEN "tty" ELSE "dead")

ExecShell == ShellBecomes({"tty"}, "running")

ShellExits == ShellBecomes({"forked", "leader", "tty", "running"}, "dead")

Startup == Setsid \/ TakeTerminal \/ ExecShell

-----------------------------------------------------------------------------
Blocked == \/ pc = "poll" /\ now < since + PollLimit
           \/ pc \in {"recv", "send"} /\ now < since + IoLimit
           \/ pc = "wait"

Tick ==
  /\ now < Horizon
  /\ Blocked
  /\ now' = now + 1
  /\ UNCHANGED <<pc, t, idle, traffic, frame, ev, master, sh>>

Next == Session \/ Startup \/ ShellExits \/ Tick

Spec == Init /\ [][Next]_vars

(* Both processes are scheduled until the shell runs what it was given.    *)
LiveSpec == Spec /\ WF_vars(Session) /\ WF_vars(Startup)

-----------------------------------------------------------------------------
(* Properties *)

InSession == pc \in {"poll", "recv", "send", "after", "output", "hup"}

(* A session outlives its maximum by the longest frame each way at most.   *)
SessionBounded == InSession => now <= MaxLife + 2 * Pieces * IoLimit

(* A session that carries nothing ends: IdleLimit counts from the last     *)
(* traffic, whatever frames are dropped after it.  The slack is one frame  *)
(* that began to come before the limit, and one poll.                      *)
IdleSessionEnds ==
  pc = "poll" => now <= traffic + IdleLimit + Pieces * IoLimit + PollLimit

(* The session process ends only when its shell is dead, and it does end   *)
(* even if the shell was not yet a session leader when it was killed.      *)
NoShellLeft == pc = "end" => sh \in {"none", "dead"} /\ ~master

SessionEnds == (pc = "kill") ~> (pc = "end")
=============================================================================
