------------------------- MODULE WsshSession_proofs -------------------------
(***************************************************************************)
(* The bounds of a wssh session, and its end, for any time limits and any  *)
(* number of pieces a frame may come in.                                   *)
(***************************************************************************)
EXTENDS WsshSession, TLAPS

(* The time a frame may take that comes or goes in n pieces.               *)
Time(n) == n * IoLimit

InTurn == {"recv", "send", "after", "output", "hup"}

(* A blocking call has not overrun its time-out.                           *)
CallBounded ==
  /\ pc = "start" => now = 0 /\ since = 0
  /\ since <= now
  /\ pc = "poll" => now <= since + PollLimit
  /\ pc \in {"recv", "send"} => now <= since + IoLimit /\ left >= 1
  /\ pc = "send" => sending # "none"

(* The turn began at t within both limits.  It reads at most one frame and *)
(* sends at most one: what is left of them is what is left of its time.    *)
TurnBounded ==
  /\ t <= now
  /\ pc \notin {"kill", "close", "wait", "end"} => t < MaxLife
  /\ pc \in InTurn => t < idle
  /\ pc = "recv" => since + Time(left) <= t + Time(Pieces)
  /\ pc \in {"after", "output"} => now <= t + Time(Pieces)
  /\ pc = "send" => since + Time(left) <= t + Time(Pieces) + Time(Pieces)
  /\ pc = "hup" => now <= t + Time(Pieces) + Time(Pieces)
  /\ pc = "poll" => since <= t + Time(Pieces) + Time(Pieces)

(* The idle limit counts from the last traffic.                            *)
IdleBounded ==
  /\ traffic <= now
  /\ idle <= traffic + IdleLimit
  /\ pc = "hup" => now <= traffic + IdleLimit + Time(Pieces)
  /\ pc = "poll" => since <= traffic + IdleLimit + Time(Pieces)

ShellOwned ==
  /\ pc = "start" => sh = "none" /\ ~master
  /\ pc = "wait" => ~master
  /\ NoShellLeft

IInv == TypeOK /\ CallBounded /\ TurnBounded /\ IdleBounded /\ ShellOwned

-----------------------------------------------------------------------------
LEMMA TimeType == \A n \in Nat : Time(n) \in Nat
  <1>1. \A a, b \in Nat : a * b \in Nat
    OBVIOUS
  <1> QED
    BY <1>1, LimitsAssumption DEF Time

LEMMA TimeOne == Time(1) = IoLimit
  BY LimitsAssumption DEF Time

LEMMA TimeNext == \A n \in Nat : Time(n + 1) = Time(n) + IoLimit
  BY LimitsAssumption DEF Time

LEMMA TimeMonotone == \A m, n \in Nat : m <= n => Time(m) <= Time(n)
  <1> SUFFICES ASSUME NEW m \in Nat, NEW n \in Nat, m <= n
               PROVE  Time(m) <= Time(n)
    OBVIOUS
  <1>1. n - m \in Nat /\ n = m + (n - m)
    OBVIOUS
  <1>2. Time(n) = Time(m) + Time(n - m)
    BY <1>1, LimitsAssumption DEF Time
  <1> QED
    BY <1>1, <1>2, TimeType

LEMMA InitInv == Init => IInv
  <1> SUFFICES ASSUME Init
               PROVE  IInv
    OBVIOUS
  <1>1. Time(Pieces) \in Nat
    BY TimeType, LimitsAssumption
  <1>2. IdleLimit \in 0..(Horizon + IdleLimit) /\ 0 \in 0..Horizon /\ 0 \in 0..Pieces
    BY LimitsAssumption
  <1>3. TypeOK
    BY <1>2 DEF Init, TypeOK
  <1>4. CallBounded /\ TurnBounded /\ IdleBounded
    BY <1>1, LimitsAssumption
    DEF Init, CallBounded, TurnBounded, IdleBounded, InTurn, PollLimit
  <1>5. ShellOwned
    BY DEF Init, ShellOwned, NoShellLeft
  <1> QED
    BY <1>3, <1>4, <1>5 DEF IInv

LEMMA NextInv == IInv /\ [Next]_vars => IInv'
  <1> SUFFICES ASSUME IInv, [Next]_vars
               PROVE  IInv'
    OBVIOUS
  <1>1. Time(Pieces) \in Nat
    BY TimeType, LimitsAssumption
  <1>2. left \in 0..Pieces /\ Time(left) \in Nat
    BY TimeType, LimitsAssumption DEF IInv, TypeOK
  <1>3. left >= 1 => Time(left) >= IoLimit /\ Time(left - 1) + IoLimit = Time(left)
                     /\ Time(left - 1) \in Nat
    <2> SUFFICES ASSUME left >= 1
                 PROVE  Time(left) >= IoLimit /\ Time(left - 1) + IoLimit = Time(left)
                        /\ Time(left - 1) \in Nat
      OBVIOUS
    <2>1. left - 1 \in Nat /\ (left - 1) + 1 = left
      BY <1>2, LimitsAssumption
    <2> QED
      BY <2>1, TimeType, TimeNext, LimitsAssumption
  <1>4. \A n \in 1..Pieces : Time(n) \in Nat /\ Time(n) <= Time(Pieces)
    BY TimeType, TimeMonotone, LimitsAssumption
  <1> USE LimitsAssumption
      DEF IInv, TypeOK, CallBounded, TurnBounded, IdleBounded, ShellOwned,
          NoShellLeft, InTurn, clock, frame, PollLimit, Events
  <1>5. CASE UNCHANGED vars
    BY <1>5 DEF vars
  <1>6. CASE Open
    BY <1>1, <1>6 DEF Open
  <1>7. CASE OpenFails
    BY <1>7 DEF OpenFails
  <1>8. CASE PollReturns
    <2>1. CASE (now >= MaxLife \/ now >= idle) /\ pc' = "kill" /\ UNCHANGED <<frame, ev>>
      BY <1>8, <2>1 DEF PollReturns
    <2>2. CASE "in" \in ev' /\ pc' = "recv"
      <3>1. left' \in 1..Pieces /\ since' = now /\ now < MaxLife /\ now < idle
        BY <1>8, <2>2 DEF PollReturns
      <3>2. Time(left') \in Nat /\ Time(left') <= Time(Pieces)
        BY <3>1, <1>4
      <3> QED
        BY <1>1, <1>8, <2>2, <3>1, <3>2 DEF PollReturns
    <2>3. CASE "in" \notin ev' /\ pc' \in {"poll", "output"}
      BY <1>1, <1>8, <2>3 DEF PollReturns
    <2> QED
      BY <1>8, <2>1, <2>2, <2>3 DEF PollReturns
  <1>9. CASE RecvPiece
    BY <1>1, <1>2, <1>3, <1>9 DEF RecvPiece
  <1>10. CASE RecvFails
    BY <1>10 DEF RecvFails
  <1>11. CASE GotControl
    <2>1. Time(left') \in Nat /\ Time(left') <= Time(Pieces)
      BY <1>4, <1>11 DEF GotControl
    <2> QED
      BY <1>1, <1>2, <1>3, <1>11, <2>1 DEF GotControl
  <1>12. CASE GotResize
    BY <1>1, <1>2, <1>3, <1>12 DEF GotResize, Refresh
  <1>13. CASE GotInput
    BY <1>1, <1>2, <1>3, <1>13 DEF GotInput, Refresh
  <1>14. CASE GotOther
    BY <1>1, <1>2, <1>3, <1>14 DEF GotOther
  <1>15. CASE AfterFrame
    BY <1>1, <1>15 DEF AfterFrame
  <1>16. CASE ReadOutput
    <2>1. CASE pc' = "send" /\ left' \in 1..Pieces /\ sending' = "out" /\ since' = now
      <3>1. Time(left') \in Nat /\ Time(left') <= Time(Pieces)
        BY <1>4, <2>1
      <3> QED
        BY <1>1, <1>16, <2>1, <3>1 DEF ReadOutput
    <2>2. CASE pc' \in {"hup", "kill"} /\ UNCHANGED frame
      BY <1>1, <1>16, <2>2 DEF ReadOutput
    <2> QED
      BY <1>16, <2>1, <2>2 DEF ReadOutput
  <1>17. CASE CheckHup
    BY <1>1, <1>17 DEF CheckHup
  <1>18. CASE SendPiece
    BY <1>1, <1>2, <1>3, <1>18 DEF SendPiece
  <1>19. CASE SendReturns
    <2>1. CASE sending = "close"
      BY <1>1, <1>2, <1>3, <1>19, <2>1 DEF SendReturns
    <2>2. CASE sending = "pong"
      BY <1>1, <1>2, <1>3, <1>19, <2>2 DEF SendReturns, Refresh
    <2>3. CASE sending = "out"
      BY <1>1, <1>2, <1>3, <1>19, <2>3 DEF SendReturns, Refresh
    <2> QED
      BY <1>19, <2>1, <2>2, <2>3 DEF SendReturns
  <1>20. CASE KillShell
    BY <1>20 DEF KillShell
  <1>21. CASE CloseMaster
    BY <1>21 DEF CloseMaster
  <1>22. CASE WaitShell
    BY <1>22 DEF WaitShell
  <1>23. CASE Startup \/ ShellExits
    <2>1. /\ UNCHANGED <<pc, clock, frame, ev, master>>
          /\ sh \in {"forked", "leader", "tty", "running"}
          /\ sh' \in {"leader", "tty", "running", "dead"}
      BY <1>23 DEF Startup, Setsid, TakeTerminal, ExecShell, ShellExits, ShellBecomes
    <2> QED
      BY <2>1
  <1>24. CASE Tick
    BY <1>1, <1>24 DEF Tick, Blocked
  <1> QED
    BY <1>5, <1>6, <1>7, <1>8, <1>9, <1>10, <1>11, <1>12, <1>13, <1>14, <1>15, <1>16,
       <1>17, <1>18, <1>19, <1>20, <1>21, <1>22, <1>23, <1>24
    DEF Next, Session

-----------------------------------------------------------------------------
(* The inductive invariant holds in every reachable state.                 *)
THEOREM Invariance == Spec => []IInv
  BY InitInv, NextInv, PTL DEF Spec

(* Every variable keeps its type.                                          *)
THEOREM TypeCorrect == Spec => []TypeOK
  <1>1. IInv => TypeOK
    BY DEF IInv
  <1> QED
    BY Invariance, <1>1, PTL

(* A session outlives SESSION_MAX_SEC by one frame each way at most.       *)
THEOREM SessionIsBounded == Spec => []SessionBounded
  <1>1. IInv => SessionBounded
    <2> SUFFICES ASSUME IInv, InSession
                 PROVE  now <= MaxLife + 2 * Pieces * IoLimit
      BY DEF SessionBounded
    <2>1. Time(Pieces) \in Nat /\ 2 * Pieces * IoLimit = Time(Pieces) + Time(Pieces)
      BY TimeType, LimitsAssumption DEF Time
    <2>2. left \in Nat /\ Time(left) \in Nat /\ (left >= 1 => Time(1) <= Time(left))
      BY TimeType, TimeMonotone, LimitsAssumption DEF IInv, TypeOK
    <2>3. now <= MaxLife + Time(Pieces) + Time(Pieces)
      BY <2>1, <2>2, TimeOne, LimitsAssumption
      DEF IInv, TypeOK, CallBounded, TurnBounded, InTurn, InSession, PollLimit
    <2> QED
      BY <2>1, <2>3, LimitsAssumption DEF IInv, TypeOK
  <1> QED
    BY Invariance, <1>1, PTL

(* A session that carries nothing ends within SESSION_IDLE_SEC, one frame  *)
(* that is dropped and one poll.                                           *)
THEOREM IdleSessionIsEnded == Spec => []IdleSessionEnds
  <1>1. IInv => IdleSessionEnds
    <2> SUFFICES ASSUME IInv, pc = "poll"
                 PROVE  now <= traffic + IdleLimit + Pieces * IoLimit + PollLimit
      BY DEF IdleSessionEnds
    <2>1. Pieces * IoLimit = Time(Pieces) /\ Time(Pieces) \in Nat
      BY TimeType, LimitsAssumption DEF Time
    <2>2. now <= traffic + IdleLimit + Time(Pieces) + PollLimit
      BY <2>1, LimitsAssumption DEF IInv, TypeOK, CallBounded, IdleBounded, PollLimit
    <2> QED
      BY <2>1, <2>2
  <1> QED
    BY Invariance, <1>1, PTL

(* When the session process has ended, its shell is dead and the terminal  *)
(* closed, whatever stage of its start the shell was killed in.            *)
THEOREM ShellIsDead == Spec => []NoShellLeft
  <1>1. IInv => NoShellLeft
    BY DEF IInv, ShellOwned
  <1> QED
    BY Invariance, <1>1, PTL
=============================================================================
