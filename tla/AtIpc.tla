-------------------------------- MODULE AtIpc --------------------------------
(***************************************************************************)
(* The AT client (at/at.c): each run of the `at` program is one call.  A   *)
(* call creates a System V message queue under the first free key of a     *)
(* range agreed with the modem service, sends its request naming that key, *)
(* and waits in msgrcv for the answer with alarm(3) as its only time-out.  *)
(* The modem service (zte_mifi) is not in the repository: it is modelled   *)
(* by what the client relies on.  It answers a request at most once, at    *)
(* any later time, into whatever queue then bears the request's key.       *)
(*                                                                         *)
(* Queue contents are sequences, because msgrcv with type 0 is FIFO.  The  *)
(* modem's own queue is the set of calls whose request is "queued": it may *)
(* serve them in any order.  Time is left out: an armed alarm may fire at  *)
(* any point.                                                              *)
(***************************************************************************)
EXTENDS Integers, Sequences, FiniteSets

CONSTANTS Calls,    \* the executions of the at program
          NKeys,    \* AT_MSG_KEY_END - AT_MSG_KEY_START (257 in the code)
          Backlog,  \* requests the modem's queue holds before senders block
          Texts     \* the answers a modem may give, reduced to what is tested

Keys == 1..NKeys

NoCall == "nobody"
Text == [error : BOOLEAN, code : Int, ok : BOOLEAN,
         colon : BOOLEAN, value : BOOLEAN]

ASSUME CallsAssumption == {NoCall, "none", "failed"} \cap Calls = {}
ASSUME SizesAssumption == NKeys \in Nat \ {0} /\ Backlog \in Nat \ {0}
ASSUME TextsAssumption == Texts \subseteq Text

(* at_ipc_msg: "rsp" is MSG_CMD_SEND_AT_MSG_RSP, "other" any other command *)
(* word, "big" a message longer than MSG_DATA_SIZE.  `re` is the request   *)
(* it answers: it is known to the modem, and is not a field of the C       *)
(* structure.                                                              *)
Message == [cmd : {"rsp", "other", "big"}, re : Calls, text : Texts]
NoMessage == [cmd |-> "none"]

VARIABLES
  pc,        \* where each call is in main / send_req_and_wait
  key,       \* srcid: the key a call is trying, then the one it created
  owner,     \* owner[k]: the call that created the queue now under key k
  msgs,      \* msgs[k]: the messages in that queue
  request,   \* what became of each call's request at the modem
  alarm,     \* calls with an alarm pending
  timedOut,  \* g_timed_out of each call
  got,       \* msg, once it is the answer the loop was waiting for
  result     \* the return value of send_req_and_wait

vars == <<pc, key, owner, msgs, request, alarm, timedOut, got, result>>

Ended == {"exit", "killed"}
(* Program points at which the call has a queue and has not destroyed it.  *)
Holding == {"send", "arm", "loop", "recv", "eintr", "fatal", "disarm", "cleanup"}
PC == {"start", "alloc"} \cup Holding \cup Ended

TypeOK ==
  /\ pc \in [Calls -> PC]
  /\ key \in [Calls -> 1..(NKeys + 1)]
  /\ \A c \in Calls : pc[c] \in Holding => key[c] \in Keys
  /\ owner \in [Keys -> Calls \cup {NoCall}]
  /\ msgs \in [Keys -> Seq(Message)]
  /\ request \in [Calls -> {"unsent", "queued", "working", "gone"}]
  /\ alarm \in [Calls -> BOOLEAN]
  /\ timedOut \in [Calls -> BOOLEAN]
  /\ got \in [Calls -> Message \cup {NoMessage}]
  /\ result \in [Calls -> Int]

Init ==
  /\ pc = [c \in Calls |-> "start"]
  /\ key = [c \in Calls |-> 1]
  /\ owner = [k \in Keys |-> NoCall]
  /\ msgs = [k \in Keys |-> <<>>]
  /\ request = [c \in Calls |-> "unsent"]
  /\ alarm = [c \in Calls |-> FALSE]
  /\ timedOut = [c \in Calls |-> FALSE]
  /\ got = [c \in Calls |-> NoMessage]
  /\ result = [c \in Calls |-> -1]

Goto(c, from, to) == pc[c] = from /\ pc' = [pc EXCEPT ![c] = to]

-----------------------------------------------------------------------------
(* The call *)

(* main refuses its arguments, or send_req_and_wait does: nothing is sent. *)
Reject(c) ==
  /\ Goto(c, "start", "exit")
  /\ UNCHANGED <<key, owner, msgs, request, alarm, timedOut, got, result>>

Accept(c) ==
  /\ Goto(c, "start", "alloc")
  /\ UNCHANGED <<key, owner, msgs, request, alarm, timedOut, got, result>>

(* Mutant of CreateQueue: msgget without IPC_EXCL.                         *)
CreateQueueShared(c) ==
  /\ Goto(c, "alloc", "send")
  /\ key[c] \in Keys
  /\ owner' = [owner EXCEPT ![key[c]] = c]
  /\ UNCHANGED <<key, msgs, request, alarm, timedOut, got, result>>

(* msgget(srcid, IPC_CREAT | IPC_EXCL | 0600) creates the queue ...        *)
CreateQueue(c) ==
  /\ Goto(c, "alloc", "send")
  /\ key[c] \in Keys
  /\ owner[key[c]] = NoCall
  /\ owner' = [owner EXCEPT ![key[c]] = c]
  /\ UNCHANGED <<key, msgs, request, alarm, timedOut, got, result>>

(* ... or fails because the key is in use, and the loop tries the next.    *)
NextKey(c) ==
  /\ pc[c] = "alloc"
  /\ key[c] \in Keys
  /\ owner[key[c]] # NoCall
  /\ key' = [key EXCEPT ![c] = key[c] + 1]
  /\ UNCHANGED <<pc, owner, msgs, request, alarm, timedOut, got, result>>

NoKeyLeft(c) ==
  /\ Goto(c, "alloc", "exit")
  /\ key[c] \notin Keys
  /\ UNCHANGED <<key, owner, msgs, request, alarm, timedOut, got, result>>

(* send_app_req blocks while the modem's queue is full (ipc_nowait is 0),  *)
(* and this is before the alarm is set.                                    *)
Send(c) ==
  /\ Goto(c, "send", "arm")
  /\ Cardinality({d \in Calls : request[d] = "queued"}) < Backlog
  /\ request' = [request EXCEPT ![c] = "queued"]
  /\ UNCHANGED <<key, owner, msgs, alarm, timedOut, got, result>>

(* The result of ipc_send_message is ignored: a request that could not be  *)
(* sent is waited for like any other.                                      *)
SendLost(c) ==
  /\ Goto(c, "send", "arm")
  /\ request' = [request EXCEPT ![c] = "gone"]
  /\ UNCHANGED <<key, owner, msgs, alarm, timedOut, got, result>>

Arm(c) ==
  /\ Goto(c, "arm", "loop")
  /\ timedOut' = [timedOut EXCEPT ![c] = FALSE]
  /\ alarm' = [alarm EXCEPT ![c] = TRUE]
  /\ UNCHANGED <<key, owner, msgs, request, got, result>>

(* From the memset to the entry of the system call: the handler may run in *)
(* between, and nothing tests g_timed_out here.                            *)
EnterRecv(c) ==
  /\ Goto(c, "loop", "recv")
  /\ UNCHANGED <<key, owner, msgs, request, alarm, timedOut, got, result>>

(* Mutant of TakeHead: the message is copied and stays (MSG_COPY).         *)
PeekHead(c) == UNCHANGED msgs

TakeHead(c) == msgs' = [msgs EXCEPT ![key[c]] = Tail(@)]

(* msgrcv returned a message with the command word of an answer ...        *)
RecvAnswer(c) ==
  /\ Goto(c, "recv", "disarm")
  /\ msgs[key[c]] # <<>>
  /\ Head(msgs[key[c]]).cmd = "rsp"
  /\ got' = [got EXCEPT ![c] = Head(msgs[key[c]])]
  /\ TakeHead(c)
  /\ UNCHANGED <<key, owner, request, alarm, timedOut, result>>

(* ... or with another one: the loop goes round, time-out or not.          *)
RecvOther(c) ==
  /\ Goto(c, "recv", "loop")
  /\ msgs[key[c]] # <<>>
  /\ Head(msgs[key[c]]).cmd = "other"
  /\ TakeHead(c)
  /\ UNCHANGED <<key, owner, request, alarm, timedOut, got, result>>

(* E2BIG: msgrcv fails with an errno other than EINTR.                     *)
RecvFatal(c) ==
  /\ Goto(c, "recv", "fatal")
  /\ msgs[key[c]] # <<>>
  /\ Head(msgs[key[c]]).cmd = "big"
  /\ UNCHANGED <<key, owner, msgs, request, alarm, timedOut, got, result>>

(* The kernel interrupts msgrcv for a stop and a continue: EINTR, with     *)
(* g_timed_out as it was.                                                  *)
StopContinue(c) ==
  /\ Goto(c, "recv", "eintr")
  /\ msgs[key[c]] = <<>>
  /\ UNCHANGED <<key, owner, msgs, request, alarm, timedOut, got, result>>

(* SIGALRM runs alarm_handler.  It interrupts msgrcv only if the call      *)
(* sleeps in it: outside the system call only the flag remains.            *)
AlarmFires(c) ==
  /\ alarm[c]
  /\ pc[c] \in {"loop", "recv", "eintr", "fatal", "disarm"}
  /\ alarm' = [alarm EXCEPT ![c] = FALSE]
  /\ timedOut' = [timedOut EXCEPT ![c] = TRUE]
  /\ pc' = [pc EXCEPT ![c] = IF @ = "recv" /\ msgs[key[c]] = <<>>
                             THEN "eintr" ELSE @]
  /\ UNCHANGED <<key, owner, msgs, request, got, result>>

(* Mutant of AfterEintr: every EINTR is taken for the time-out.            *)
AfterEintrGivesUp(c) ==
  /\ Goto(c, "eintr", "disarm")
  /\ UNCHANGED <<key, owner, msgs, request, alarm, timedOut, got, result>>

(* ret < 0 and EINTR: leave the loop if the alarm did it, go round if not. *)
AfterEintr(c) ==
  /\ Goto(c, "eintr", IF timedOut[c] THEN "disarm" ELSE "loop")
  /\ UNCHANGED <<key, owner, msgs, request, alarm, timedOut, got, result>>

(* Mutant of AfterFatal: every error of msgrcv is retried.                 *)
AfterFatalRetries(c) ==
  /\ Goto(c, "fatal", "loop")
  /\ UNCHANGED <<key, owner, msgs, request, alarm, timedOut, got, result>>

AfterFatal(c) ==
  /\ Goto(c, "fatal", "disarm")
  /\ UNCHANGED <<key, owner, msgs, request, alarm, timedOut, got, result>>

(* ERROR is looked for before OK; the number after it, if any, is the      *)
(* result.  A text with no number has code -1, what err_code starts with.  *)
Verdict(m) ==
  IF m = NoMessage \/ ~(m.text.error \/ m.text.ok) THEN -1
  ELSE IF m.text.error THEN m.text.code ELSE 0

(* extract_respond: 1 for an answer with no ": ", -1 for an empty value.   *)
Extract(t) == CASE ~t.colon -> 1
                [] t.colon /\ t.value -> 0
                [] t.colon /\ ~t.value -> -1

(* A call that ended before it tried its first key.                        *)
Refused(c) == pc[c] = "exit" /\ request[c] = "unsent" /\ key[c] = 1

(* The exit status of main, of which the kernel keeps 8 bits: a refused    *)
(* command line gives 1, the raw mode (more = 0) the result of the call,   *)
(* the formatted mode also fails when there is no value to print.          *)
ExitStatus(c, more) ==
  CASE pc[c] = "exit" /\ Refused(c) -> 1
    [] pc[c] = "exit" /\ ~Refused(c) ->
         (IF more /\ result[c] = 0 THEN Extract(got[c].text) ELSE result[c]) % 256
    [] OTHER -> -1

(* Mutant of Disarm: alarm(0) is missing.                                  *)
DisarmForgotten(c) ==
  /\ Goto(c, "disarm", "cleanup")
  /\ result' = [result EXCEPT ![c] = Verdict(got[c])]
  /\ UNCHANGED <<key, owner, msgs, request, alarm, timedOut, got>>

(* alarm(0), then the default action of SIGALRM, then the verdict.         *)
Disarm(c) ==
  /\ Goto(c, "disarm", "cleanup")
  /\ alarm' = [alarm EXCEPT ![c] = FALSE]
  /\ result' = [result EXCEPT ![c] = Verdict(got[c])]
  /\ UNCHANGED <<key, owner, msgs, request, timedOut, got>>

(* Mutant of Cleanup: a return that skips msgctl(IPC_RMID).                *)
CleanupSkipped(c) ==
  /\ Goto(c, "cleanup", "exit")
  /\ UNCHANGED <<key, owner, msgs, request, alarm, timedOut, got, result>>

(* msgctl(IPC_RMID) destroys the queue with what is left in it.            *)
Cleanup(c) ==
  /\ Goto(c, "cleanup", "exit")
  /\ owner' = [owner EXCEPT ![key[c]] = NoCall]
  /\ msgs' = [msgs EXCEPT ![key[c]] = <<>>]
  /\ UNCHANGED <<key, request, alarm, timedOut, got, result>>

(* SIGKILL, SIGINT or SIGTERM: the queue survives the process.             *)
Kill(c) ==
  /\ pc[c] \notin Ended
  /\ pc' = [pc EXCEPT ![c] = "killed"]
  /\ alarm' = [alarm EXCEPT ![c] = FALSE]
  /\ UNCHANGED <<key, owner, msgs, request, timedOut, got, result>>

-----------------------------------------------------------------------------
(* The modem service *)

ModemTake(c) ==
  /\ request[c] = "queued"
  /\ request' = [request EXCEPT ![c] = "working"]
  /\ UNCHANGED <<pc, key, owner, msgs, alarm, timedOut, got, result>>

(* The answer goes to the queue that now has the key of the request, the   *)
(* only return address the request carries; without one it is lost.        *)
ModemReply(c) ==
  /\ request[c] = "working"
  /\ request' = [request EXCEPT ![c] = "gone"]
  /\ \E m \in Message :
       /\ m.re = c
       /\ msgs' = IF owner[key[c]] # NoCall
                  THEN [msgs EXCEPT ![key[c]] = Append(@, m)]
                  ELSE msgs
  /\ UNCHANGED <<pc, key, owner, alarm, timedOut, got, result>>

-----------------------------------------------------------------------------
Step(c) ==
  \/ Reject(c) \/ Accept(c) \/ CreateQueue(c) \/ NextKey(c) \/ NoKeyLeft(c)
  \/ Send(c) \/ Arm(c) \/ EnterRecv(c)
  \/ RecvAnswer(c) \/ RecvOther(c) \/ RecvFatal(c)
  \/ AfterEintr(c) \/ AfterFatal(c) \/ Disarm(c) \/ Cleanup(c)

Modem(c) == ModemTake(c) \/ ModemReply(c)

Next == \E c \in Calls :
  \/ Step(c) \/ AlarmFires(c) \/ Modem(c)
  \/ SendLost(c) \/ StopContinue(c) \/ Kill(c)

Spec == Init /\ [][Next]_vars

(* The kernel schedules every runnable call, and delivers its alarm.  The  *)
(* modem need not do anything.                                             *)
Fairness == \A c \in Calls : WF_vars(Step(c)) /\ WF_vars(AlarmFires(c))
LiveSpec == Spec /\ Fairness

-----------------------------------------------------------------------------
(* Properties *)

(* A queue is destroyed by the call that made it, on every path that       *)
(* returns: a key is lost for good only when its call was killed, and no   *)
(* live call works on a queue that is not its own.                         *)
QueueHeldByItsCall ==
  /\ \A c \in Calls : pc[c] \in Holding => owner[key[c]] = c
  /\ \A k \in Keys : owner[k] # NoCall =>
       key[owner[k]] = k /\ pc[owner[k]] \in Holding \cup {"killed"}

(* An answer that is not the call's own was meant for a call that had the  *)
(* same key and has ended, so while a call lives nobody else reads its     *)
(* answer.                                                                 *)
ForeignAnswerIsStale ==
  \A c \in Calls : (got[c] # NoMessage /\ got[c].re # c) =>
     LET d == got[c].re IN key[d] = key[c] /\ pc[d] \in Ended

(* No two calls return the same answer of the modem, and an answer that    *)
(* was returned lies in no queue to be read again.                         *)
AnswerReadOnce ==
  \A c \in Calls : got[c] # NoMessage =>
     /\ \A d \in Calls : (got[d] # NoMessage /\ got[d].re = got[c].re) => c = d
     /\ \A k \in Keys : \A i \in DOMAIN msgs[k] : msgs[k][i].re # got[c].re

(* A call that sent its request returns without an answer only when its    *)
(* alarm went off or a message did not fit: a job-control stop of the      *)
(* process does not make it fail.                                          *)
FailsOnlyOnTimeout ==
  \A c \in Calls : (pc[c] \in {"disarm", "cleanup"} /\ got[c] = NoMessage) =>
     \/ timedOut[c]
     \/ msgs[key[c]] # <<>> /\ Head(msgs[key[c]]).cmd = "big"

(* SIGALRM has its default action, which terminates the process and leaks  *)
(* the queue, outside the wait: no alarm is pending there.                 *)
NoAlarmOutsideWait ==
  \A c \in Calls : alarm[c] => pc[c] \in {"loop", "recv", "eintr", "fatal", "disarm"}

(* Refinement of AtService: a call's outcome is the answer it took, or     *)
(* failure once it has ended without one.                                  *)
Outcome(c) == IF got[c] # NoMessage THEN got[c].re
              ELSE IF pc[c] \in Ended THEN "failed" ELSE "none"

Service == INSTANCE AtService WITH
  asked <- {c \in Calls : request[c] # "unsent"},
  outcome <- [c \in Calls |-> Outcome(c)]

ImplementsService == Service!Spec

(* A call that sleeps with its alarm spent and nothing in its queue.       *)
Deaf(c) == pc[c] = "recv" /\ timedOut[c] /\ ~alarm[c] /\ msgs[key[c]] = <<>>

Waiting(c) == pc[c] \in {"arm", "loop", "recv", "eintr", "fatal", "disarm", "cleanup"}

(* at.c:118: the alarm bounds the whole wait.                              *)
AlarmBoundsWait == \A c \in Calls : Waiting(c) ~> pc[c] \in Ended

(* What the code does achieve: a call that armed its alarm ends, unless    *)
(* the alarm went off while it was not asleep and no answer ever comes.    *)
EndsOrDeaf == \A c \in Calls : Waiting(c) ~> (pc[c] \in Ended \/ Deaf(c))

=============================================================================
