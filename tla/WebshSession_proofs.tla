------------------------- MODULE WebshSession_proofs -------------------------
(***************************************************************************)
(* What the watchdog of a websh session guarantees, for any script and any *)
(* values of the time limits.                                              *)
(***************************************************************************)
EXTENDS WebshSession, TLAPS

(* The watchdog exists from the stage that starts it on.                   *)
WatchdogStarts ==
  stage \in {"start", "body", "takeover", "session", "watchdog"} => wdog = "none"

(* A poll has not run over, and each byte read moved its end by at most    *)
(* Watch.                                                                  *)
PollBounded ==
  wdog = "polling" =>
    /\ now <= pollEnd
    /\ pollEnd <= started + Watch * (1 + read)

ShLives == stage # "gone" => Sh \in alive

ShBounded == stage = "sh" => now <= alarmAt

(* recv returns at most IoLimit after a call that began by the deadline.   *)
FileBounded ==
  /\ tmpfile => stage \in {"body", "takeover"}
  /\ stage = "start" => now <= BodyLimit + IoLimit
  /\ stage \in {"body", "takeover"} => now <= BodyLimit + IoLimit
  /\ stage = "body" => since <= now /\ (since <= BodyLimit => now <= since + IoLimit)

IInv ==
  /\ TypeOK
  /\ WatchdogStarts
  /\ NoSurvivorInGroup
  /\ PollBounded
  /\ ShLives
  /\ ShBounded
  /\ FileBounded

-----------------------------------------------------------------------------
LEMMA TimesOne == \A w \in Int : w * 1 = w
  OBVIOUS

LEMMA TimesNext == \A w, n \in Int : w * (1 + (n + 1)) = w * (1 + n) + w
  OBVIOUS

LEMMA TimesMonotone == \A w, m, n \in Nat : m <= n => w * (1 + m) <= w * (1 + n)
  <1> SUFFICES ASSUME NEW w \in Nat, NEW m \in Nat, NEW n \in Nat, m <= n
               PROVE  w * (1 + m) <= w * (1 + n)
    OBVIOUS
  <1>1. n - m \in Nat /\ n = m + (n - m)
    OBVIOUS
  <1>2. w * (1 + n) = w * (1 + m) + w * (n - m)
    BY <1>1
  <1>3. \A a, b \in Nat : a * b \in Nat
    OBVIOUS
  <1>4. w * (n - m) \in Nat /\ w * (1 + m) \in Nat
    BY <1>1, <1>3
  <1> QED
    BY <1>2, <1>4

LEMMA FirstPoll ==
  \A t, w, n \in Nat : t <= t + w /\ t + w <= t + w * (1 + n)
  <1> SUFFICES ASSUME NEW t \in Nat, NEW w \in Nat, NEW n \in Nat
               PROVE  t <= t + w /\ t + w <= t + w * (1 + n)
    OBVIOUS
  <1>1. w <= w * (1 + n)
    <2>1. w * (1 + 0) = w /\ 0 <= n
      BY TimesOne
    <2> QED
      BY <2>1, TimesMonotone
  <1>2. w * (1 + n) \in Int
    OBVIOUS
  <1> QED
    BY <1>1, <1>2

LEMMA InitInv == Init => IInv
  <1> SUFFICES ASSUME Init
               PROVE  IInv
    OBVIOUS
  <1> USE TasksAssumption, NumbersAssumption DEF Init
  <1>1. now \in 0..Horizon /\ now <= BodyLimit + IoLimit
    OBVIOUS
  <1>2. TypeOK
    <2>1. tmpfile \in BOOLEAN /\ stage = "start" /\ wdog = "none"
      OBVIOUS
    <2>2. have \in 0..Pieces /\ since \in 0..Horizon /\ now \in 0..Horizon
      BY <1>1
    <2>3. alive \subseteq Procs /\ group \subseteq Procs /\ writers \subseteq alive
      BY DEF Procs
    <2>4. pollEnd \in Int /\ alarmAt \in Int /\ started \in Int
      BY DEF Never
    <2>5. written \in 0..MaxBytes /\ read \in 0..written
      OBVIOUS
    <2> QED
      BY <2>1, <2>2, <2>3, <2>4, <2>5 DEF TypeOK
  <1>3. WatchdogStarts /\ NoSurvivorInGroup /\ PollBounded /\ ShLives /\ ShBounded
    BY DEF WatchdogStarts, NoSurvivorInGroup, PollBounded, ShLives, ShBounded
  <1>4. FileBounded
    BY <1>1 DEF FileBounded
  <1> QED
    BY <1>2, <1>3, <1>4 DEF IInv

LEMMA NextInv == IInv /\ [Next]_vars => IInv'
  <1> SUFFICES ASSUME IInv, [Next]_vars
               PROVE  IInv'
    OBVIOUS
  <1> USE TasksAssumption, NumbersAssumption
      DEF IInv, TypeOK, Procs, WatchdogStarts, NoSurvivorInGroup, PollBounded,
          ShLives, ShBounded, FileBounded, Quit, body, pipe, Running, Never
  <1>1. CASE UNCHANGED vars
    BY <1>1 DEF vars
  <1>2. CASE MakeFile
    <2>1. CASE stage' = "body"
      BY <1>2, <2>1 DEF MakeFile
    <2>2. CASE Quit /\ UNCHANGED body
      BY <1>2, <2>2 DEF MakeFile
    <2> QED
      BY <1>2, <2>1, <2>2 DEF MakeFile
  <1>3. CASE Receive
    BY <1>3 DEF Receive
  <1>4. CASE BodyFails
    BY <1>4 DEF BodyFails
  <1>5. CASE BodyComplete
    BY <1>5 DEF BodyComplete
  <1>6. CASE TakeStreams
    <2>1. CASE Quit
      BY <1>6, <2>1 DEF TakeStreams
    <2>2. CASE stage' = "session" /\ UNCHANGED <<alive, writers>>
      BY <1>6, <2>2 DEF TakeStreams
    <2> QED
      BY <1>6, <2>1, <2>2 DEF TakeStreams
  <1>7. CASE NewSession
    BY <1>7 DEF NewSession
  <1>8. CASE StartWatchdog
    <2>1. now <= now + Watch /\ now + Watch <= now + Watch * (1 + read)
      BY FirstPoll
    <2>2. PollBounded'
      <3>1. pollEnd' = now + Watch /\ started' = now /\ now' = now /\ read' = read
        BY <1>8 DEF StartWatchdog
      <3> QED
        BY ONLY <2>1, <3>1 DEF PollBounded
    <2>3. TypeOK' /\ WatchdogStarts' /\ NoSurvivorInGroup' /\ ShLives' /\ ShBounded' /\ FileBounded'
      <3> HIDE DEF PollBounded
      <3> QED
        BY <1>8 DEF StartWatchdog
    <2> QED
      BY <2>2, <2>3
  <1>9. CASE NoWatchdog
    BY <1>9 DEF NoWatchdog
  <1>10. CASE SendHeader
    BY <1>10 DEF SendHeader
  <1>11. CASE Exec
    BY <1>11 DEF Exec
  <1>12. ASSUME NEW p \in Procs, NEW t \in Tasks, Spawn(p, t)
         PROVE  IInv'
    BY <1>12 DEF Spawn
  <1>13. ASSUME NEW p \in Procs, CloseInherited(p)
         PROVE  IInv'
    BY <1>13 DEF CloseInherited
  <1>14. ASSUME NEW p \in Procs, LeaveGroup(p)
         PROVE  IInv'
    BY <1>14 DEF LeaveGroup
  <1>15. ASSUME NEW p \in Procs, WriteByte(p)
         PROVE  IInv'
    BY <1>15 DEF WriteByte
  <1>16. ASSUME NEW p \in Procs, Exit(p)
         PROVE  IInv'
    BY <1>16 DEF Exit, Dies
  <1>17. CASE AlarmKillsSh
    BY <1>17 DEF AlarmKillsSh, AlarmDue, Dies
  <1>18. CASE ReadByte
    BY <1>18, TimesNext DEF ReadByte
  <1>19. CASE PipeEnds
    BY <1>19 DEF PipeEnds, KillGroup
  <1>20. CASE PollTimesOut
    BY <1>20 DEF PollTimesOut, KillGroup
  <1>21. CASE Tick
    BY <1>21 DEF Tick, Local, RecvDue, AlarmDue, WatchdogDue
  <1> QED
    BY <1>1, <1>2, <1>3, <1>4, <1>5, <1>6, <1>7, <1>8, <1>9, <1>10, <1>11, <1>12,
       <1>13, <1>14, <1>15, <1>16, <1>17, <1>18, <1>19, <1>20, <1>21
    DEF Next, Child, Script, Watchdog

-----------------------------------------------------------------------------
(* The inductive invariant holds in every reachable state.                 *)
THEOREM Invariance == Spec => []IInv
  BY InitInv, NextInv, PTL DEF Spec

(* Every variable keeps its type.                                          *)
THEOREM TypeCorrect == Spec => []TypeOK
  <1>1. IInv => TypeOK
    BY DEF IInv
  <1> QED
    BY Invariance, <1>1, PTL

(* When the watchdog has struck, nobody of its process group is left, nor  *)
(* ever comes back.                                                        *)
THEOREM WatchdogEmptiesGroup == Spec => []NoSurvivorInGroup
  <1>1. IInv => NoSurvivorInGroup
    BY DEF IInv
  <1> QED
    BY Invariance, <1>1, PTL

(* The group ends within Watch of the watchdog's start, extended by Watch  *)
(* for each byte written to the pipe; sh ends by its alarm.                *)
THEOREM GroupIsBounded == Spec => []GroupWithinWall
  <1>1. IInv => GroupWithinWall
    <2> SUFFICES ASSUME IInv
                 PROVE  GroupWithinWall
      OBVIOUS
    <2>1. Watch * (1 + read) <= Watch * (1 + written)
      BY TimesMonotone, NumbersAssumption DEF IInv, TypeOK
    <2>2. wdog = "polling" => now <= started + Watch * (1 + written)
      <3>1. Watch * (1 + read) \in Int /\ Watch * (1 + written) \in Int
        BY NumbersAssumption DEF IInv, TypeOK
      <3>2. now \in Int /\ pollEnd \in Int /\ started \in Int
        BY NumbersAssumption DEF IInv, TypeOK
      <3> QED
        BY <2>1, <3>1, <3>2 DEF IInv, PollBounded
    <2>3. wdog = "dead" => alive \cap group = {}
      BY DEF IInv, NoSurvivorInGroup
    <2>4. stage = "sh" => now <= alarmAt
      BY DEF IInv, ShBounded
    <2>5. (wdog # "none" /\ now > started + Watch * (1 + written)) => alive \cap group = {}
      <3>1. wdog \in {"none", "polling", "dead"}
        BY DEF IInv, TypeOK
      <3>2. now \in Int /\ started + Watch * (1 + written) \in Int
        BY NumbersAssumption DEF IInv, TypeOK
      <3> QED
        BY <2>2, <2>3, <3>1, <3>2
    <2> QED
      BY <2>4, <2>5 DEF GroupWithinWall
  <1> QED
    BY Invariance, <1>1, PTL

(* The temporary file is unlinked on every path, by the deadline and one   *)
(* recv.                                                                   *)
THEOREM TempFileIsRemoved == Spec => []TempFileRemoved
  <1>1. IInv => TempFileRemoved
    BY DEF IInv, FileBounded, TempFileRemoved
  <1> QED
    BY Invariance, <1>1, PTL
=============================================================================
