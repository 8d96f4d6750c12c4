---------------------------- MODULE WebshSession ----------------------------
(***************************************************************************)
(* The child that websh.c forks for a POST: it stores the body in a        *)
(* temporary file, takes the file and the socket as its standard streams,  *)
(* makes a session of its own, starts a watchdog process, and becomes sh.  *)
(* The watchdog waits on a pipe whose write end sh and its descendants     *)
(* inherit; at the end of the pipe or after its time-out it kills the      *)
(* whole process group.                                                    *)
(*                                                                         *)
(* Sh is the child, before and after execve; Tasks are the processes the   *)
(* script starts.  `now` counts coarse units of time from the accept; a    *)
(* pending alarm, a poll time-out or an event on the pipe is served before *)
(* time passes.  The local steps from the end of the body to execve take   *)
(* no time.                                                                *)
(***************************************************************************)
EXTENDS Integers, FiniteSets

CONSTANTS Tasks,     \* processes the script may start
          Pieces,    \* pieces in which the body arrives
          IoLimit,   \* IO_TIMEOUT_SEC, of one recv
          BodyLimit, \* TOTAL_TIMEOUT_SEC, for head and body
          WallLimit, \* CHILD_WALL_LIMIT, the alarm of sh
          Watch,     \* CHILD_WALL_LIMIT + 2, the poll of the watchdog
          MaxBytes,  \* bound on bytes written to the pipe
          Horizon    \* bound on now

Sh == "sh"
Procs == Tasks \cup {Sh}
Never == -1

ASSUME TasksAssumption == IsFiniteSet(Tasks) /\ Sh \notin Tasks
ASSUME NumbersAssumption ==
  /\ Pieces \in Nat /\ MaxBytes \in Nat /\ Horizon \in Nat
  /\ IoLimit \in Nat \ {0} /\ BodyLimit \in Nat
  /\ WallLimit \in Nat \ {0} /\ Watch \in Nat \ {0}

VARIABLES
  stage,     \* where the child is
  now,
  tmpfile,   \* the temporary file has a name in /tmp
  have,      \* pieces of the body received
  since,     \* when the pending recv was called
  alive,     \* live processes of the session
  group,     \* members of the process group gpid
  writers,   \* processes with the write end of the pipe
  wdog,      \* the watchdog: "none", "polling" or "dead"
  pollEnd,   \* when its poll times out
  written,   \* bytes written to the pipe
  read,      \* bytes the watchdog has read
  alarmAt,   \* when the alarm of sh goes off
  started    \* when the watchdog was started

vars == <<stage, now, tmpfile, have, since, alive, group, writers, wdog,
          pollEnd, written, read, alarmAt, started>>
body == <<tmpfile, have, since>>
pipe == <<wdog, pollEnd, written, read, started>>

TypeOK ==
  /\ stage \in {"start", "body", "takeover", "session", "watchdog", "header", "exec", "sh", "gone"}
  /\ now \in 0..Horizon
  /\ tmpfile \in BOOLEAN /\ have \in 0..Pieces /\ since \in 0..Horizon
  /\ alive \subseteq Procs /\ group \subseteq Procs /\ writers \subseteq alive
  /\ wdog \in {"none", "polling", "dead"}
  /\ pollEnd \in Int /\ alarmAt \in Int /\ started \in Int
  /\ written \in 0..MaxBytes /\ read \in 0..written

(* The parent has read the head by its deadline, give or take one recv.    *)
Init ==
  /\ stage = "start" /\ now \in {t \in 0..Horizon : t <= BodyLimit + IoLimit}
  /\ tmpfile = FALSE /\ have = 0 /\ since = now
  /\ alive = {Sh} /\ group = {} /\ writers = {}
  /\ wdog = "none" /\ pollEnd = Never /\ written = 0 /\ read = 0
  /\ alarmAt = Never /\ started = Never

(* _exit of the child: its descriptors close with it.                      *)
Quit ==
  /\ stage' = "gone"
  /\ alive' = alive \ {Sh} /\ writers' = writers \ {Sh}

-----------------------------------------------------------------------------
(* Before execve *)

(* mkstemp, and the part of the body that came with the head.              *)
MakeFile ==
  /\ stage = "start"
  /\ \/ /\ stage' = "body" /\ tmpfile' = TRUE /\ have' \in 0..Pieces /\ since' = now
        /\ UNCHANGED <<alive, writers>>
     \/ Quit /\ UNCHANGED body
  /\ UNCHANGED <<now, group, pipe, alarmAt>>

(* recv returned a piece and it was written.                               *)
Receive ==
  /\ stage = "body" /\ have < Pieces
  /\ since <= BodyLimit
  /\ have' = have + 1
  /\ since' = now
  /\ UNCHANGED <<stage, now, tmpfile, alive, group, writers, pipe, alarmAt>>

(* Mutant of BodyFails: an exit without unlink.                            *)
BodyFailsKeeps ==
  /\ stage = "body"
  /\ Quit
  /\ UNCHANGED <<now, body, group, pipe, alarmAt>>

(* The deadline has passed, recv failed, timed out or found the end of the *)
(* stream, or the file could not be written: unlink, _exit.                *)
BodyFails ==
  /\ stage = "body"
  /\ tmpfile' = FALSE
  /\ Quit
  /\ UNCHANGED <<now, have, since, group, pipe, alarmAt>>

BodyComplete ==
  /\ stage = "body" /\ have = Pieces
  /\ stage' = "takeover"
  /\ UNCHANGED <<now, body, alive, group, writers, pipe, alarmAt>>

(* dup2 of the socket and of the file, then unlink, whether it worked or   *)
(* not.                                                                    *)
TakeStreams ==
  /\ stage = "takeover"
  /\ tmpfile' = FALSE
  /\ \/ Quit
     \/ stage' = "session" /\ UNCHANGED <<alive, writers>>
  /\ UNCHANGED <<now, have, since, group, pipe, alarmAt>>

NewSession ==
  /\ stage = "session"
  /\ \/ Quit /\ UNCHANGED group
     \/ stage' = "watchdog" /\ group' = {Sh} /\ UNCHANGED <<alive, writers>>
  /\ UNCHANGED <<now, body, pipe, alarmAt>>

StartWatchdog ==
  /\ stage = "watchdog"
  /\ stage' = "header"
  /\ wdog' = "polling" /\ writers' = {Sh}
  /\ pollEnd' = now + Watch /\ started' = now
  /\ UNCHANGED <<now, body, alive, group, written, read, alarmAt>>

(* pipe or fork failed: the child goes on without a watchdog.              *)
NoWatchdog ==
  /\ stage = "watchdog"
  /\ stage' = "header"
  /\ UNCHANGED <<now, body, alive, group, writers, pipe, alarmAt>>

SendHeader ==
  /\ stage = "header"
  /\ \/ Quit
     \/ stage' = "exec" /\ UNCHANGED <<alive, writers>>
  /\ UNCHANGED <<now, body, group, pipe, alarmAt>>

Exec ==
  /\ stage = "exec"
  /\ \/ stage' = "sh" /\ alarmAt' = now + WallLimit /\ UNCHANGED <<alive, writers>>
     \/ Quit /\ UNCHANGED alarmAt
  /\ UNCHANGED <<now, body, group, pipe>>

-----------------------------------------------------------------------------
(* The script *)

Running(p) == p \in alive /\ (p = Sh => stage = "sh")

(* fork: the new process is in its parent's group and has its descriptors. *)
Spawn(p, t) ==
  /\ Running(p) /\ t \notin alive \cup group
  /\ alive' = alive \cup {t}
  /\ group' = IF p \in group THEN group \cup {t} ELSE group
  /\ writers' = IF p \in writers THEN writers \cup {t} ELSE writers
  /\ UNCHANGED <<stage, now, body, pipe, alarmAt>>

(* A daemon closes what it inherited.                                      *)
CloseInherited(p) ==
  /\ Running(p) /\ p \in writers
  /\ writers' = writers \ {p}
  /\ UNCHANGED <<stage, now, body, alive, group, pipe, alarmAt>>

(* setsid or setpgid: not for sh, which leads the group.                   *)
LeaveGroup(t) ==
  /\ Running(t) /\ t # Sh /\ t \in group
  /\ group' = group \ {t}
  /\ UNCHANGED <<stage, now, body, alive, writers, pipe, alarmAt>>

(* The script writes to the descriptor it does not know it has.            *)
WriteByte(p) ==
  /\ Running(p) /\ p \in writers /\ written < MaxBytes
  /\ written' = written + 1
  /\ UNCHANGED <<stage, now, body, alive, group, writers, wdog, pollEnd, read,
                 alarmAt, started>>

Dies(p) ==
  /\ alive' = alive \ {p} /\ writers' = writers \ {p}
  /\ stage' = IF p = Sh THEN "gone" ELSE stage
  /\ UNCHANGED <<now, body, group, pipe, alarmAt>>

Exit(p) == Running(p) /\ Dies(p)

AlarmDue == stage = "sh" /\ now >= alarmAt
AlarmKillsSh == AlarmDue /\ Dies(Sh)

-----------------------------------------------------------------------------
(* The watchdog *)

(* kill(-gpid, SIGKILL): the watchdog is in the group itself.              *)
KillGroup ==
  /\ alive' = alive \ group /\ writers' = writers \ group
  /\ stage' = IF Sh \in alive /\ Sh \in group THEN "gone" ELSE stage
  /\ wdog' = "dead"
  /\ UNCHANGED <<now, body, group, pollEnd, written, read, alarmAt, started>>

(* Mutant of ReadByte: poll starts again with the byte still in the pipe.  *)
ReadByteLeft ==
  /\ wdog = "polling" /\ read < written
  /\ pollEnd' = now + Watch
  /\ UNCHANGED <<stage, now, body, alive, group, writers, wdog, written, read, alarmAt, started>>

(* A byte in the pipe is thrown away, and the poll starts again.           *)
ReadByte ==
  /\ wdog = "polling" /\ read < written
  /\ read' = read + 1
  /\ pollEnd' = now + Watch
  /\ UNCHANGED <<stage, now, body, alive, group, writers, wdog, written, alarmAt, started>>

(* Mutant of PipeEnds: the end of the pipe is taken for the group's end.   *)
PipeEndsQuietly ==
  /\ wdog = "polling" /\ read = written /\ writers = {}
  /\ wdog' = "dead"
  /\ UNCHANGED <<stage, now, body, alive, group, writers, pollEnd, written, read,
                 alarmAt, started>>

PipeEnds ==
  /\ wdog = "polling" /\ read = written /\ writers = {}
  /\ KillGroup

(* Mutant of PollTimesOut: the time-out of poll starts it again.           *)
PollTimesOutRetries ==
  /\ wdog = "polling" /\ read = written /\ writers # {}
  /\ now >= pollEnd
  /\ pollEnd' = now + Watch
  /\ UNCHANGED <<stage, now, body, alive, group, writers, wdog, written, read, alarmAt, started>>

PollTimesOut ==
  /\ wdog = "polling" /\ read = written /\ writers # {}
  /\ now >= pollEnd
  /\ KillGroup

Watchdog == ReadByte \/ PipeEnds \/ PollTimesOut

-----------------------------------------------------------------------------
RecvDue == /\ stage = "body"
           /\ have = Pieces \/ since > BodyLimit \/ now >= since + IoLimit
Local == stage \in {"start", "takeover", "session", "watchdog", "header", "exec"}
WatchdogDue == wdog = "polling" /\ (read < written \/ writers = {} \/ now >= pollEnd)

Tick ==
  /\ now < Horizon
  /\ ~Local /\ ~RecvDue /\ ~AlarmDue /\ ~WatchdogDue
  /\ now' = now + 1
  /\ UNCHANGED <<stage, body, alive, group, writers, pipe, alarmAt>>

Child == \/ MakeFile \/ Receive \/ BodyFails \/ BodyComplete \/ TakeStreams
         \/ NewSession \/ StartWatchdog \/ NoWatchdog \/ SendHeader \/ Exec

Script == \E p \in Procs :
  \/ \E t \in Tasks : Spawn(p, t)
  \/ CloseInherited(p) \/ LeaveGroup(p) \/ WriteByte(p) \/ Exit(p)

Next == Child \/ Script \/ AlarmKillsSh \/ Watchdog \/ Tick

Spec == Init /\ [][Next]_vars

(* The kernel schedules the child and the watchdog, and time goes on.  The *)
(* script need do nothing.                                                 *)
LiveSpec == Spec /\ WF_vars(Child) /\ WF_vars(AlarmKillsSh) /\ WF_vars(Watchdog)
                 /\ WF_vars(Tick)

-----------------------------------------------------------------------------
(* Properties *)

(* The temporary file has a name only while the body comes in: no exit and *)
(* no running script leaves one in /tmp, and none stays longer than the    *)
(* deadline and one recv.                                                  *)
TempFileRemoved ==
  tmpfile => stage \in {"body", "takeover"} /\ now <= BodyLimit + IoLimit

(* Once the watchdog has struck, the group is empty: also the daemons that *)
(* had closed the pipe and made it end early.                              *)
NoSurvivorInGroup == wdog = "dead" => alive \cap group = {}

(* The watchdog bounds the life of the group: Watch from its start, and as *)
(* much again for each byte the script wrote to the pipe.  The alarm alone *)
(* bounds sh, watchdog or not.                                             *)
GroupWithinWall ==
  /\ (wdog # "none" /\ now > started + Watch * (1 + written)) => alive \cap group = {}
  /\ stage = "sh" => now <= alarmAt

(* The watchdog does not outlive its session: it ends, whatever the script *)
(* does with the pipe.                                                     *)
WatchdogEnds == (wdog = "polling") ~> (wdog = "dead")
=============================================================================
