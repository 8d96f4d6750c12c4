---------------------------- MODULE AtIpc_proofs ----------------------------
(***************************************************************************)
(* The safety of the AT client for any number of calls and keys.  The      *)
(* argument: a live call owns the queue under its key, keys do not change  *)
(* once a request is sent, and a message lies in the queue of its own      *)
(* request's key.  So if the call that asked still lived, it would own the *)
(* queue, and no other call could read the message.                        *)
(***************************************************************************)
EXTENDS AtIpc, SequenceTheorems, TLAPS

(* A call that has not sent has no request at the modem and no answer; one *)
(* that waits has sent.                                                    *)
UnsentCallsAreQuiet ==
  \A c \in Calls :
     /\ pc[c] \in {"start", "alloc", "send"} =>
          request[c] = "unsent" /\ got[c] = NoMessage
     /\ Waiting(c) => request[c] # "unsent"

(* A message is under the key of the request it answers, and that request  *)
(* is settled.                                                             *)
MessagesAddressed ==
  \A k \in Keys : \A i \in DOMAIN msgs[k] :
     request[msgs[k][i].re] = "gone" /\ key[msgs[k][i].re] = k

AnswersSettled ==
  \A c \in Calls : got[c] # NoMessage =>
     /\ pc[c] \in {"disarm", "cleanup"} \cup Ended
     /\ request[got[c].re] = "gone"

(* Each request has at most one answer, in one queue or in one call.       *)
MessagesDistinct ==
  \A k \in Keys : \A i, j \in DOMAIN msgs[k] : msgs[k][i].re = msgs[k][j].re => i = j

MessagesUntaken ==
  \A c \in Calls, k \in Keys : \A i \in DOMAIN msgs[k] :
     got[c] # NoMessage => msgs[k][i].re # got[c].re

TakenOnce ==
  \A c, d \in Calls :
     (got[c] # NoMessage /\ got[d] # NoMessage /\ got[c].re = got[d].re) => c = d

FatalHasBigHead ==
  \A c \in Calls : pc[c] = "fatal" =>
     msgs[key[c]] # <<>> /\ Head(msgs[key[c]]).cmd = "big"

IInv ==
  /\ TypeOK
  /\ QueueHeldByItsCall
  /\ UnsentCallsAreQuiet
  /\ MessagesAddressed
  /\ AnswersSettled
  /\ ForeignAnswerIsStale
  /\ MessagesDistinct
  /\ MessagesUntaken
  /\ TakenOnce
  /\ FatalHasBigHead
  /\ FailsOnlyOnTimeout
  /\ NoAlarmOutsideWait

-----------------------------------------------------------------------------
(* A Message is never NoMessage, and its fields have their types.          *)
LEMMA MessageFields ==
  /\ NoMessage \notin Message
  /\ \A m \in Message : m.re \in Calls /\ m.text \in Text /\ m.text.code \in Int
  <1>1. \A m \in Message : m.cmd # "none"
    BY DEF Message
  <1>2. NoMessage.cmd = "none"
    BY DEF NoMessage
  <1>3. \A m \in Message : m.re \in Calls /\ m.text \in Texts
    BY DEF Message
  <1>4. \A t \in Texts : t \in Text /\ t.code \in Int
    BY TextsAssumption DEF Text
  <1> QED
    BY <1>1, <1>2, <1>3, <1>4

(* What the rest of a queue is after msgrcv took its head.                 *)
LEMMA TailOfQueue ==
  ASSUME NEW s \in Seq(Message), s # <<>>
  PROVE  /\ Tail(s) \in Seq(Message)
         /\ Head(s) = s[1] /\ 1 \in DOMAIN s /\ s[1] \in Message
         /\ \A i \in DOMAIN Tail(s) :
              i + 1 \in DOMAIN s /\ i + 1 # 1 /\ Tail(s)[i] = s[i + 1]
  OBVIOUS

(* What a queue is after a message was added.                              *)
LEMMA AppendToQueue ==
  ASSUME NEW s \in Seq(Message), NEW m \in Message
  PROVE  /\ Append(s, m) \in Seq(Message)
         /\ Append(s, m) # <<>>
         /\ \A i \in DOMAIN Append(s, m) :
              \/ i \in DOMAIN s /\ Append(s, m)[i] = s[i]
              \/ i = Len(s) + 1 /\ Append(s, m)[i] = m
         /\ s # <<>> => Head(Append(s, m)) = Head(s)
  OBVIOUS

LEMMA TypeInductive == TypeOK /\ [Next]_vars => TypeOK'
  <1> SUFFICES ASSUME TypeOK, [Next]_vars
               PROVE  TypeOK'
    OBVIOUS
  <1> USE DEF TypeOK, PC, Holding, Ended, Goto
  <1>1. CASE UNCHANGED vars
    BY <1>1 DEF vars
  <1>2. ASSUME NEW c \in Calls,
               Reject(c) \/ Accept(c) \/ CreateQueue(c) \/ NoKeyLeft(c)
               \/ Send(c) \/ SendLost(c) \/ Arm(c) \/ EnterRecv(c)
        PROVE  TypeOK'
    <2>1. CASE Reject(c) \/ Accept(c) \/ NoKeyLeft(c)
      BY <2>1 DEF Reject, Accept, NoKeyLeft
    <2>2. CASE CreateQueue(c)
      BY <2>2 DEF CreateQueue
    <2>3. CASE Send(c)
      BY <2>3 DEF Send
    <2>4. CASE SendLost(c) \/ Arm(c) \/ EnterRecv(c)
      BY <2>4 DEF SendLost, Arm, EnterRecv
    <2> QED BY <1>2, <2>1, <2>2, <2>3, <2>4
  <1>3. \A c \in Calls : NextKey(c) => TypeOK'
    <2> SUFFICES ASSUME NEW c \in Calls, NextKey(c) PROVE TypeOK'
      OBVIOUS
    <2>1. key[c] + 1 \in 1 .. NKeys + 1
      BY SizesAssumption DEF NextKey, Keys
    <2> QED BY <2>1 DEF NextKey
  <1>4. ASSUME NEW c \in Calls, RecvFatal(c) \/ StopContinue(c) \/ AlarmFires(c)
               \/ AfterEintr(c) \/ AfterFatal(c) \/ Kill(c) \/ ModemTake(c)
        PROVE  TypeOK'
    BY <1>4 DEF RecvFatal, StopContinue, AlarmFires, AfterEintr, AfterFatal, Kill, ModemTake
  <1>5. ASSUME NEW c \in Calls, RecvAnswer(c) \/ RecvOther(c)
        PROVE  TypeOK'
    <2>1. key[c] \in Keys /\ msgs[key[c]] \in Seq(Message) /\ msgs[key[c]] # <<>>
      BY <1>5 DEF RecvAnswer, RecvOther
    <2>2. Head(msgs[key[c]]) \in Message /\ Tail(msgs[key[c]]) \in Seq(Message)
      BY <2>1, TailOfQueue
    <2>3. msgs' \in [Keys -> Seq(Message)]
      BY <1>5, <2>1, <2>2 DEF RecvAnswer, RecvOther, TakeHead
    <2>4. CASE RecvAnswer(c)
      BY <2>2, <2>3, <2>4 DEF RecvAnswer
    <2>5. CASE RecvOther(c)
      BY <2>3, <2>5 DEF RecvOther
    <2> QED
      BY <1>5, <2>4, <2>5
  <1>6. ASSUME NEW c \in Calls, Disarm(c)
        PROVE  TypeOK'
    <2>1. Verdict(got[c]) \in Int
      BY MessageFields DEF Verdict
    <2> QED
      BY <1>6, <2>1 DEF Disarm
  <1>7. \A c \in Calls : Cleanup(c) => TypeOK'
    BY DEF Cleanup
  <1>8. ASSUME NEW c \in Calls, ModemReply(c)
        PROVE  TypeOK'
    <2>1. PICK m \in Message :
            msgs' = IF owner[key[c]] # NoCall
                    THEN [msgs EXCEPT ![key[c]] = Append(@, m)] ELSE msgs
      BY <1>8 DEF ModemReply
    <2>2. key[c] \in Keys => Append(msgs[key[c]], m) \in Seq(Message)
      BY AppendToQueue
    <2>3. msgs' \in [Keys -> Seq(Message)]
      BY <2>1, <2>2
    <2> QED
      BY <1>8, <2>3 DEF ModemReply
  <1> QED
    BY <1>1, <1>2, <1>3, <1>4, <1>5, <1>6, <1>7, <1>8 DEF Next, Step, Modem

-----------------------------------------------------------------------------
(* Ownership of the queues.                                                *)
LEMMA OwnershipInductive ==
  TypeOK /\ QueueHeldByItsCall /\ [Next]_vars => QueueHeldByItsCall'
  <1> SUFFICES ASSUME TypeOK, QueueHeldByItsCall, [Next]_vars
               PROVE  QueueHeldByItsCall'
    OBVIOUS
  <1> USE CallsAssumption DEF TypeOK, QueueHeldByItsCall, PC, Holding, Ended, Goto
  <1>1. CASE UNCHANGED vars
    BY <1>1 DEF vars
  <1>2. \A c \in Calls : Reject(c) => QueueHeldByItsCall'
    BY DEF Reject
  <1>3. \A c \in Calls : Accept(c) => QueueHeldByItsCall'
    BY DEF Accept
  <1>4. \A c \in Calls : CreateQueue(c) => QueueHeldByItsCall'
    BY DEF CreateQueue
  <1>5. \A c \in Calls : NextKey(c) => QueueHeldByItsCall'
    BY DEF NextKey
  <1>6. \A c \in Calls : NoKeyLeft(c) => QueueHeldByItsCall'
    BY DEF NoKeyLeft
  <1>7. \A c \in Calls : Send(c) => QueueHeldByItsCall'
    BY DEF Send
  <1>8. \A c \in Calls : SendLost(c) => QueueHeldByItsCall'
    BY DEF SendLost
  <1>9. \A c \in Calls : Arm(c) => QueueHeldByItsCall'
    BY DEF Arm
  <1>10. \A c \in Calls : EnterRecv(c) => QueueHeldByItsCall'
    BY DEF EnterRecv
  <1>11. \A c \in Calls : RecvAnswer(c) => QueueHeldByItsCall'
    BY DEF RecvAnswer
  <1>12. \A c \in Calls : RecvOther(c) => QueueHeldByItsCall'
    BY DEF RecvOther
  <1>13. \A c \in Calls : RecvFatal(c) => QueueHeldByItsCall'
    BY DEF RecvFatal
  <1>14. \A c \in Calls : StopContinue(c) => QueueHeldByItsCall'
    BY DEF StopContinue
  <1>15. \A c \in Calls : AlarmFires(c) => QueueHeldByItsCall'
    BY DEF AlarmFires
  <1>16. \A c \in Calls : AfterEintr(c) => QueueHeldByItsCall'
    BY DEF AfterEintr
  <1>17. \A c \in Calls : AfterFatal(c) => QueueHeldByItsCall'
    BY DEF AfterFatal
  <1>18. \A c \in Calls : Disarm(c) => QueueHeldByItsCall'
    BY DEF Disarm
  <1>19. \A c \in Calls : Cleanup(c) => QueueHeldByItsCall'
    BY DEF Cleanup
  <1>20. \A c \in Calls : Kill(c) => QueueHeldByItsCall'
    BY DEF Kill
  <1>21. \A c \in Calls : ModemTake(c) => QueueHeldByItsCall'
    BY DEF ModemTake
  <1>22. \A c \in Calls : ModemReply(c) => QueueHeldByItsCall'
    BY DEF ModemReply
  <1> QED
    BY <1>1, <1>2, <1>3, <1>4, <1>5, <1>6, <1>7, <1>8, <1>9, <1>10, <1>11, <1>12,
       <1>13, <1>14, <1>15, <1>16, <1>17, <1>18, <1>19, <1>20, <1>21, <1>22 DEF Next, Step, Modem

(* A call sends once, and takes an answer only after it has sent.          *)
LEMMA QuietInductive ==
  TypeOK /\ UnsentCallsAreQuiet /\ [Next]_vars => UnsentCallsAreQuiet'
  <1> SUFFICES ASSUME TypeOK, UnsentCallsAreQuiet, [Next]_vars
               PROVE  UnsentCallsAreQuiet'
    OBVIOUS
  <1> USE DEF TypeOK, UnsentCallsAreQuiet, Waiting, PC, Holding, Ended, Goto
  <1>1. CASE UNCHANGED vars
    BY <1>1 DEF vars
  <1>2. ASSUME NEW c \in Calls, Reject(c) \/ Accept(c) \/ NoKeyLeft(c) \/ NextKey(c)
               \/ CreateQueue(c) \/ Send(c) \/ SendLost(c) \/ Arm(c)
        PROVE  UnsentCallsAreQuiet'
    BY <1>2 DEF Reject, Accept, NoKeyLeft, NextKey, CreateQueue, Send, SendLost, Arm
  <1>3. ASSUME NEW c \in Calls, EnterRecv(c)
               \/ RecvAnswer(c) \/ RecvOther(c) \/ RecvFatal(c) \/ StopContinue(c)
        PROVE  UnsentCallsAreQuiet'
    BY <1>3 DEF EnterRecv, RecvAnswer, RecvOther, RecvFatal, StopContinue
  <1>4. ASSUME NEW c \in Calls, AlarmFires(c) \/ AfterEintr(c) \/ AfterFatal(c)
               \/ Disarm(c) \/ Kill(c) \/ ModemTake(c) \/ ModemReply(c) \/ Cleanup(c)
        PROVE  UnsentCallsAreQuiet'
    BY <1>4 DEF AlarmFires, AfterEintr, AfterFatal, Disarm, Kill, ModemTake, ModemReply, Cleanup
  <1> QED
    BY <1>1, <1>2, <1>3, <1>4 DEF Next, Step, Modem

(* Every element of a queue is a message.                                  *)
LEMMA ElementsAreMessages ==
  TypeOK => \A k \in Keys : \A i \in DOMAIN msgs[k] :
              msgs[k][i] \in Message /\ msgs[k][i].re \in Calls
  BY MessageFields DEF TypeOK

(* What the queues hold after a call took the head of its own.             *)
LEMMA HeadTaken ==
  ASSUME TypeOK, NEW c \in Calls, pc[c] = "recv", msgs[key[c]] # <<>>, TakeHead(c)
  PROVE  /\ key[c] \in Keys
         /\ 1 \in DOMAIN msgs[key[c]]
         /\ Head(msgs[key[c]]) = msgs[key[c]][1]
         /\ Head(msgs[key[c]]) \in Message /\ Head(msgs[key[c]]).re \in Calls
         /\ \A k \in Keys : \A i \in DOMAIN msgs'[k] :
              \/ k # key[c] /\ i \in DOMAIN msgs[k] /\ msgs'[k][i] = msgs[k][i]
              \/ /\ k = key[c] /\ i + 1 \in DOMAIN msgs[k] /\ i + 1 # 1
                 /\ i \in Int /\ msgs'[k][i] = msgs[k][i + 1]
         /\ \A k \in Keys \ {key[c]} : msgs'[k] = msgs[k]
  <1>1. key[c] \in Keys /\ msgs[key[c]] \in Seq(Message)
    BY DEF TypeOK, Holding
  <1>2. /\ Head(msgs[key[c]]) = msgs[key[c]][1] /\ 1 \in DOMAIN msgs[key[c]]
        /\ Head(msgs[key[c]]) \in Message
        /\ \A i \in DOMAIN Tail(msgs[key[c]]) :
              /\ i + 1 \in DOMAIN msgs[key[c]] /\ i + 1 # 1
              /\ Tail(msgs[key[c]])[i] = msgs[key[c]][i + 1]
    BY <1>1, TailOfQueue
  <1>3. \A i \in DOMAIN Tail(msgs[key[c]]) : i \in Int
    BY <1>1
  <1>4. /\ msgs'[key[c]] = Tail(msgs[key[c]])
        /\ \A k \in Keys \ {key[c]} : msgs'[k] = msgs[k]
    BY <1>1 DEF TakeHead, TypeOK
  <1> QED
    BY <1>1, <1>2, <1>3, <1>4, MessageFields

(* What the queues hold after the modem replied.                           *)
LEMMA Delivered ==
  ASSUME TypeOK, NEW c \in Calls, ModemReply(c)
  PROVE  \E m \in Message :
           /\ m.re = c
           /\ \A k \in Keys : \A i \in DOMAIN msgs'[k] :
                \/ i \in DOMAIN msgs[k] /\ msgs'[k][i] = msgs[k][i]
                \/ /\ k = key[c] /\ i \notin DOMAIN msgs[k] /\ i = Len(msgs[k]) + 1
                   /\ msgs'[k][i] = m
           /\ \A k \in Keys : msgs[k] # <<>> =>
                msgs'[k] # <<>> /\ Head(msgs'[k]) = Head(msgs[k])
  <1>1. PICK m \in Message :
          /\ m.re = c
          /\ msgs' = IF owner[key[c]] # NoCall
                     THEN [msgs EXCEPT ![key[c]] = Append(@, m)] ELSE msgs
    BY DEF ModemReply
  <1>2. ASSUME NEW k \in Keys
        PROVE  /\ \A i \in DOMAIN msgs'[k] :
                    \/ i \in DOMAIN msgs[k] /\ msgs'[k][i] = msgs[k][i]
                    \/ /\ k = key[c] /\ i \notin DOMAIN msgs[k] /\ i = Len(msgs[k]) + 1
                       /\ msgs'[k][i] = m
               /\ msgs[k] # <<>> =>
                    msgs'[k] # <<>> /\ Head(msgs'[k]) = Head(msgs[k])
    <2>1. CASE msgs'[k] = msgs[k]
      BY <2>1
    <2>2. CASE msgs'[k] # msgs[k]
      <3>1. k = key[c] /\ msgs'[k] = Append(msgs[k], m)
        BY <1>1, <2>2 DEF TypeOK
      <3>2. msgs[k] \in Seq(Message)
        BY DEF TypeOK
      <3>3. Len(msgs[k]) + 1 \notin DOMAIN msgs[k]
        BY <3>2
      <3> QED
        BY <3>1, <3>2, <3>3, AppendToQueue
    <2> QED
      BY <2>1, <2>2
  <1> QED
    BY <1>1, <1>2

(* Messages stay under the key of their request.                           *)
LEMMA AddressedInductive ==
  TypeOK /\ UnsentCallsAreQuiet /\ MessagesAddressed /\ [Next]_vars => MessagesAddressed'
  <1> SUFFICES ASSUME TypeOK, UnsentCallsAreQuiet, MessagesAddressed, [Next]_vars
               PROVE  MessagesAddressed'
    OBVIOUS
  <1> USE ElementsAreMessages DEF TypeOK, MessagesAddressed, UnsentCallsAreQuiet, PC, Holding, Ended, Goto
  <1>1. CASE UNCHANGED vars
    BY <1>1 DEF vars
  <1>2. \A c \in Calls : Reject(c) => MessagesAddressed'
    BY DEF Reject
  <1>3. \A c \in Calls : Accept(c) => MessagesAddressed'
    BY DEF Accept
  <1>4. \A c \in Calls : CreateQueue(c) => MessagesAddressed'
    BY DEF CreateQueue
  <1>5. \A c \in Calls : NextKey(c) => MessagesAddressed'
    BY DEF NextKey
  <1>6. \A c \in Calls : NoKeyLeft(c) => MessagesAddressed'
    BY DEF NoKeyLeft
  <1>7. \A c \in Calls : Send(c) => MessagesAddressed'
    BY DEF Send
  <1>8. \A c \in Calls : SendLost(c) => MessagesAddressed'
    BY DEF SendLost
  <1>9. \A c \in Calls : Arm(c) => MessagesAddressed'
    BY DEF Arm
  <1>10. \A c \in Calls : EnterRecv(c) => MessagesAddressed'
    BY DEF EnterRecv
  <1>11. ASSUME NEW c \in Calls, RecvAnswer(c)
        PROVE  MessagesAddressed'
    <2>1. pc[c] = "recv" /\ msgs[key[c]] # <<>> /\ TakeHead(c) /\ UNCHANGED <<request, key>>
      BY <1>11 DEF RecvAnswer
    <2> HIDE DEF TypeOK
    <2>2. \A k \in Keys : \A i \in DOMAIN msgs'[k] :
            \E j \in DOMAIN msgs[k] : msgs'[k][i] = msgs[k][j]
      BY <2>1, HeadTaken
    <2> QED
      BY <2>1, <2>2
  <1>12. ASSUME NEW c \in Calls, RecvOther(c)
        PROVE  MessagesAddressed'
    <2>1. pc[c] = "recv" /\ msgs[key[c]] # <<>> /\ TakeHead(c) /\ UNCHANGED <<request, key>>
      BY <1>12 DEF RecvOther
    <2> HIDE DEF TypeOK
    <2>2. \A k \in Keys : \A i \in DOMAIN msgs'[k] :
            \E j \in DOMAIN msgs[k] : msgs'[k][i] = msgs[k][j]
      BY <2>1, HeadTaken
    <2> QED
      BY <2>1, <2>2
  <1>13. \A c \in Calls : RecvFatal(c) => MessagesAddressed'
    BY DEF RecvFatal
  <1>14. \A c \in Calls : StopContinue(c) => MessagesAddressed'
    BY DEF StopContinue
  <1>15. \A c \in Calls : AlarmFires(c) => MessagesAddressed'
    BY DEF AlarmFires
  <1>16. \A c \in Calls : AfterEintr(c) => MessagesAddressed'
    BY DEF AfterEintr
  <1>17. \A c \in Calls : AfterFatal(c) => MessagesAddressed'
    BY DEF AfterFatal
  <1>18. \A c \in Calls : Disarm(c) => MessagesAddressed'
    BY DEF Disarm
  <1>19. \A c \in Calls : Cleanup(c) => MessagesAddressed'
    BY DEF Cleanup
  <1>20. \A c \in Calls : Kill(c) => MessagesAddressed'
    BY DEF Kill
  <1>21. \A c \in Calls : ModemTake(c) => MessagesAddressed'
    BY DEF ModemTake
  <1>22. \A c \in Calls : ModemReply(c) => MessagesAddressed'
    BY Delivered DEF ModemReply
  <1> QED
    BY <1>1, <1>2, <1>3, <1>4, <1>5, <1>6, <1>7, <1>8, <1>9, <1>10, <1>11, <1>12,
       <1>13, <1>14, <1>15, <1>16, <1>17, <1>18, <1>19, <1>20, <1>21, <1>22 DEF Next, Step, Modem

(* Only a call that left the loop has an answer.                           *)
LEMMA SettledInductive ==
  TypeOK /\ UnsentCallsAreQuiet /\ MessagesAddressed /\ AnswersSettled /\ [Next]_vars => AnswersSettled'
  <1> SUFFICES ASSUME TypeOK, UnsentCallsAreQuiet, MessagesAddressed, AnswersSettled, [Next]_vars
               PROVE  AnswersSettled'
    OBVIOUS
  <1> USE ElementsAreMessages, MessageFields DEF TypeOK, MessagesAddressed, AnswersSettled, UnsentCallsAreQuiet, PC, Holding, Ended, Goto
  <1>1. CASE UNCHANGED vars
    BY <1>1 DEF vars
  <1>2. \A c \in Calls : Reject(c) => AnswersSettled'
    BY DEF Reject
  <1>3. \A c \in Calls : Accept(c) => AnswersSettled'
    BY DEF Accept
  <1>4. \A c \in Calls : CreateQueue(c) => AnswersSettled'
    BY DEF CreateQueue
  <1>5. \A c \in Calls : NextKey(c) => AnswersSettled'
    BY DEF NextKey
  <1>6. \A c \in Calls : NoKeyLeft(c) => AnswersSettled'
    BY DEF NoKeyLeft
  <1>7. \A c \in Calls : Send(c) => AnswersSettled'
    BY DEF Send
  <1>8. \A c \in Calls : SendLost(c) => AnswersSettled'
    BY DEF SendLost
  <1>9. \A c \in Calls : Arm(c) => AnswersSettled'
    BY DEF Arm
  <1>10. \A c \in Calls : EnterRecv(c) => AnswersSettled'
    BY DEF EnterRecv
  <1>11. ASSUME NEW c \in Calls, RecvAnswer(c)
        PROVE  AnswersSettled'
    <2>1. pc[c] = "recv" /\ msgs[key[c]] # <<>> /\ TakeHead(c)
      BY <1>11 DEF RecvAnswer
    <2>2. request[Head(msgs[key[c]]).re] = "gone"
      BY <2>1, HeadTaken
    <2> QED
      BY <1>11, <2>2 DEF RecvAnswer
  <1>12. \A c \in Calls : RecvOther(c) => AnswersSettled'
    BY DEF RecvOther
  <1>13. \A c \in Calls : RecvFatal(c) => AnswersSettled'
    BY DEF RecvFatal
  <1>14. \A c \in Calls : StopContinue(c) => AnswersSettled'
    BY DEF StopContinue
  <1>15. \A c \in Calls : AlarmFires(c) => AnswersSettled'
    BY DEF AlarmFires
  <1>16. \A c \in Calls : AfterEintr(c) => AnswersSettled'
    BY DEF AfterEintr
  <1>17. \A c \in Calls : AfterFatal(c) => AnswersSettled'
    BY DEF AfterFatal
  <1>18. \A c \in Calls : Disarm(c) => AnswersSettled'
    BY DEF Disarm
  <1>19. \A c \in Calls : Cleanup(c) => AnswersSettled'
    BY DEF Cleanup
  <1>20. \A c \in Calls : Kill(c) => AnswersSettled'
    BY DEF Kill
  <1>21. \A c \in Calls : ModemTake(c) => AnswersSettled'
    BY DEF ModemTake
  <1>22. \A c \in Calls : ModemReply(c) => AnswersSettled'
    BY Delivered DEF ModemReply
  <1> QED
    BY <1>1, <1>2, <1>3, <1>4, <1>5, <1>6, <1>7, <1>8, <1>9, <1>10, <1>11, <1>12,
       <1>13, <1>14, <1>15, <1>16, <1>17, <1>18, <1>19, <1>20, <1>21, <1>22 DEF Next, Step, Modem

(* A call alive that has sent its request owns the queue its answer goes   *)
(* to, so whoever reads that answer in its queue is that call.             *)
LEMMA ForeignInductive ==
  TypeOK /\ QueueHeldByItsCall /\ UnsentCallsAreQuiet /\ MessagesAddressed /\ AnswersSettled /\ ForeignAnswerIsStale /\ [Next]_vars => ForeignAnswerIsStale'
  <1> SUFFICES ASSUME TypeOK, QueueHeldByItsCall, UnsentCallsAreQuiet, MessagesAddressed, AnswersSettled, ForeignAnswerIsStale, [Next]_vars
               PROVE  ForeignAnswerIsStale'
    OBVIOUS
  <1> USE MessageFields DEF TypeOK, ForeignAnswerIsStale, AnswersSettled, UnsentCallsAreQuiet, PC, Holding, Ended, Goto
  <1>1. CASE UNCHANGED vars
    BY <1>1 DEF vars
  <1>2. \A c \in Calls : Reject(c) => ForeignAnswerIsStale'
    BY DEF Reject
  <1>3. \A c \in Calls : Accept(c) => ForeignAnswerIsStale'
    BY DEF Accept
  <1>4. \A c \in Calls : CreateQueue(c) => ForeignAnswerIsStale'
    BY DEF CreateQueue
  <1>5. \A c \in Calls : NextKey(c) => ForeignAnswerIsStale'
    BY DEF NextKey
  <1>6. \A c \in Calls : NoKeyLeft(c) => ForeignAnswerIsStale'
    BY DEF NoKeyLeft
  <1>7. \A c \in Calls : Send(c) => ForeignAnswerIsStale'
    BY DEF Send
  <1>8. \A c \in Calls : SendLost(c) => ForeignAnswerIsStale'
    BY DEF SendLost
  <1>9. \A c \in Calls : Arm(c) => ForeignAnswerIsStale'
    BY DEF Arm
  <1>10. \A c \in Calls : EnterRecv(c) => ForeignAnswerIsStale'
    BY DEF EnterRecv
  <1>11. ASSUME NEW c \in Calls, RecvAnswer(c)
        PROVE  ForeignAnswerIsStale'
    <2>1. pc[c] = "recv" /\ msgs[key[c]] # <<>> /\ TakeHead(c)
      BY <1>11 DEF RecvAnswer
    <2> DEFINE d == Head(msgs[key[c]]).re
    <2>2. d \in Calls /\ request[d] = "gone" /\ key[d] = key[c]
      BY <2>1, HeadTaken DEF MessagesAddressed
    <2>3. pc[d] \in Holding \cup Ended
      <3>1. pc[d] \notin {"start", "alloc"}
        BY <2>2 DEF UnsentCallsAreQuiet
      <3>2. pc[d] \in PC
        BY <2>2 DEF TypeOK
      <3> QED
        BY <3>1, <3>2
    <2>4. d = c \/ pc[d] \in Ended
      <3>1. CASE pc[d] \in Holding
        <4>1. owner[key[c]] = c /\ owner[key[d]] = d
          BY <2>1, <2>2, <3>1 DEF QueueHeldByItsCall
        <4> QED
          BY <4>1, <2>2
      <3> QED
        BY <2>3, <3>1
    <2>5. got' = [got EXCEPT ![c] = Head(msgs[key[c]])] /\ key' = key /\ pc' = [pc EXCEPT ![c] = "disarm"]
      BY <1>11 DEF RecvAnswer
    <2> HIDE DEF d
    <2>6. ASSUME NEW e \in Calls, got'[e] # NoMessage, got'[e].re # e
          PROVE  key'[got'[e].re] = key'[e] /\ pc'[got'[e].re] \in Ended
      <3>1. CASE e = c
        BY <2>2, <2>4, <2>5, <2>6, <3>1 DEF d
      <3>2. CASE e # c
        BY <2>1, <2>5, <2>6, <3>2
      <3> QED
        BY <3>1, <3>2
    <2> QED
      BY <2>6
  <1>12. \A c \in Calls : RecvOther(c) => ForeignAnswerIsStale'
    BY DEF RecvOther
  <1>13. \A c \in Calls : RecvFatal(c) => ForeignAnswerIsStale'
    BY DEF RecvFatal
  <1>14. \A c \in Calls : StopContinue(c) => ForeignAnswerIsStale'
    BY DEF StopContinue
  <1>15. \A c \in Calls : AlarmFires(c) => ForeignAnswerIsStale'
    BY DEF AlarmFires
  <1>16. \A c \in Calls : AfterEintr(c) => ForeignAnswerIsStale'
    BY DEF AfterEintr
  <1>17. \A c \in Calls : AfterFatal(c) => ForeignAnswerIsStale'
    BY DEF AfterFatal
  <1>18. \A c \in Calls : Disarm(c) => ForeignAnswerIsStale'
    BY DEF Disarm
  <1>19. \A c \in Calls : Cleanup(c) => ForeignAnswerIsStale'
    BY DEF Cleanup
  <1>20. \A c \in Calls : Kill(c) => ForeignAnswerIsStale'
    BY DEF Kill
  <1>21. \A c \in Calls : ModemTake(c) => ForeignAnswerIsStale'
    BY DEF ModemTake
  <1>22. \A c \in Calls : ModemReply(c) => ForeignAnswerIsStale'
    BY DEF ModemReply
  <1> QED
    BY <1>1, <1>2, <1>3, <1>4, <1>5, <1>6, <1>7, <1>8, <1>9, <1>10, <1>11, <1>12,
       <1>13, <1>14, <1>15, <1>16, <1>17, <1>18, <1>19, <1>20, <1>21, <1>22 DEF Next, Step, Modem

(* The modem answers a request only while it works on it.                  *)
LEMMA DistinctInductive ==
  TypeOK /\ MessagesAddressed /\ MessagesDistinct /\ [Next]_vars => MessagesDistinct'
  <1> SUFFICES ASSUME TypeOK, MessagesAddressed, MessagesDistinct, [Next]_vars
               PROVE  MessagesDistinct'
    OBVIOUS
  <1> USE DEF TypeOK, MessagesDistinct, PC, Holding, Ended, Goto
  <1>1. CASE UNCHANGED vars
    BY <1>1 DEF vars
  <1>2. \A c \in Calls : Reject(c) => MessagesDistinct'
    BY DEF Reject
  <1>3. \A c \in Calls : Accept(c) => MessagesDistinct'
    BY DEF Accept
  <1>4. \A c \in Calls : CreateQueue(c) => MessagesDistinct'
    BY DEF CreateQueue
  <1>5. \A c \in Calls : NextKey(c) => MessagesDistinct'
    BY DEF NextKey
  <1>6. \A c \in Calls : NoKeyLeft(c) => MessagesDistinct'
    BY DEF NoKeyLeft
  <1>7. \A c \in Calls : Send(c) => MessagesDistinct'
    BY DEF Send
  <1>8. \A c \in Calls : SendLost(c) => MessagesDistinct'
    BY DEF SendLost
  <1>9. \A c \in Calls : Arm(c) => MessagesDistinct'
    BY DEF Arm
  <1>10. \A c \in Calls : EnterRecv(c) => MessagesDistinct'
    BY DEF EnterRecv
  <1>11. ASSUME NEW c \in Calls, RecvAnswer(c)
        PROVE  MessagesDistinct'
    <2>1. pc[c] = "recv" /\ msgs[key[c]] # <<>> /\ TakeHead(c)
      BY <1>11 DEF RecvAnswer
    <2> HIDE DEF TypeOK
    <2> QED
      BY <2>1, HeadTaken
  <1>12. ASSUME NEW c \in Calls, RecvOther(c)
        PROVE  MessagesDistinct'
    <2>1. pc[c] = "recv" /\ msgs[key[c]] # <<>> /\ TakeHead(c)
      BY <1>12 DEF RecvOther
    <2> HIDE DEF TypeOK
    <2> QED
      BY <2>1, HeadTaken
  <1>13. \A c \in Calls : RecvFatal(c) => MessagesDistinct'
    BY DEF RecvFatal
  <1>14. \A c \in Calls : StopContinue(c) => MessagesDistinct'
    BY DEF StopContinue
  <1>15. \A c \in Calls : AlarmFires(c) => MessagesDistinct'
    BY DEF AlarmFires
  <1>16. \A c \in Calls : AfterEintr(c) => MessagesDistinct'
    BY DEF AfterEintr
  <1>17. \A c \in Calls : AfterFatal(c) => MessagesDistinct'
    BY DEF AfterFatal
  <1>18. \A c \in Calls : Disarm(c) => MessagesDistinct'
    BY DEF Disarm
  <1>19. \A c \in Calls : Cleanup(c) => MessagesDistinct'
    BY DEF Cleanup
  <1>20. \A c \in Calls : Kill(c) => MessagesDistinct'
    BY DEF Kill
  <1>21. \A c \in Calls : ModemTake(c) => MessagesDistinct'
    BY DEF ModemTake
  <1>22. ASSUME NEW c \in Calls, ModemReply(c)
        PROVE  MessagesDistinct'
    <2>1. request[c] = "working"
      BY <1>22 DEF ModemReply
    <2> HIDE DEF TypeOK
    <2>2. \A k \in Keys : \A i \in DOMAIN msgs[k] : msgs[k][i].re # c
      BY <2>1 DEF MessagesAddressed
    <2> QED
      BY <1>22, <2>2, Delivered
  <1> QED
    BY <1>1, <1>2, <1>3, <1>4, <1>5, <1>6, <1>7, <1>8, <1>9, <1>10, <1>11, <1>12,
       <1>13, <1>14, <1>15, <1>16, <1>17, <1>18, <1>19, <1>20, <1>21, <1>22 DEF Next, Step, Modem

(* An answer taken is in no queue any more.                                *)
LEMMA UntakenInductive ==
  TypeOK /\ MessagesAddressed /\ MessagesDistinct /\ AnswersSettled /\ MessagesUntaken /\ [Next]_vars => MessagesUntaken'
  <1> SUFFICES ASSUME TypeOK, MessagesAddressed, MessagesDistinct, AnswersSettled, MessagesUntaken, [Next]_vars
               PROVE  MessagesUntaken'
    OBVIOUS
  <1> USE DEF TypeOK, MessagesUntaken, PC, Holding, Ended, Goto
  <1>1. CASE UNCHANGED vars
    BY <1>1 DEF vars
  <1>2. \A c \in Calls : Reject(c) => MessagesUntaken'
    BY DEF Reject
  <1>3. \A c \in Calls : Accept(c) => MessagesUntaken'
    BY DEF Accept
  <1>4. \A c \in Calls : CreateQueue(c) => MessagesUntaken'
    BY DEF CreateQueue
  <1>5. \A c \in Calls : NextKey(c) => MessagesUntaken'
    BY DEF NextKey
  <1>6. \A c \in Calls : NoKeyLeft(c) => MessagesUntaken'
    BY DEF NoKeyLeft
  <1>7. \A c \in Calls : Send(c) => MessagesUntaken'
    BY DEF Send
  <1>8. \A c \in Calls : SendLost(c) => MessagesUntaken'
    BY DEF SendLost
  <1>9. \A c \in Calls : Arm(c) => MessagesUntaken'
    BY DEF Arm
  <1>10. \A c \in Calls : EnterRecv(c) => MessagesUntaken'
    BY DEF EnterRecv
  <1>11. ASSUME NEW c \in Calls, RecvAnswer(c)
        PROVE  MessagesUntaken'
    <2>1. pc[c] = "recv" /\ msgs[key[c]] # <<>> /\ TakeHead(c)
      BY <1>11 DEF RecvAnswer
    <2> DEFINE m == Head(msgs[key[c]])
    <2>2. \A e \in Calls : got'[e] = IF e = c THEN m ELSE got[e]
      BY <1>11 DEF RecvAnswer
    <2> HIDE DEF TypeOK, m
    <2>3. ASSUME NEW k \in Keys, NEW i \in DOMAIN msgs'[k]
          PROVE  msgs'[k][i].re # m.re
      <3>1. CASE k = key[c]
        BY <2>1, <2>3, <3>1, HeadTaken DEF MessagesDistinct, m
      <3>2. CASE k # key[c]
        BY <2>1, <2>3, <3>2, HeadTaken DEF MessagesAddressed, m
      <3> QED
        BY <3>1, <3>2
    <2>4. ASSUME NEW e \in Calls, NEW k \in Keys, NEW i \in DOMAIN msgs'[k],
                 got[e] # NoMessage
          PROVE  msgs'[k][i].re # got[e].re
      BY <2>1, <2>4, HeadTaken
    <2> QED
      BY <2>2, <2>3, <2>4
  <1>12. ASSUME NEW c \in Calls, RecvOther(c)
        PROVE  MessagesUntaken'
    <2>1. pc[c] = "recv" /\ msgs[key[c]] # <<>> /\ TakeHead(c) /\ got' = got
      BY <1>12 DEF RecvOther
    <2> HIDE DEF TypeOK
    <2> QED
      BY <2>1, HeadTaken
  <1>13. \A c \in Calls : RecvFatal(c) => MessagesUntaken'
    BY DEF RecvFatal
  <1>14. \A c \in Calls : StopContinue(c) => MessagesUntaken'
    BY DEF StopContinue
  <1>15. \A c \in Calls : AlarmFires(c) => MessagesUntaken'
    BY DEF AlarmFires
  <1>16. \A c \in Calls : AfterEintr(c) => MessagesUntaken'
    BY DEF AfterEintr
  <1>17. \A c \in Calls : AfterFatal(c) => MessagesUntaken'
    BY DEF AfterFatal
  <1>18. \A c \in Calls : Disarm(c) => MessagesUntaken'
    BY DEF Disarm
  <1>19. \A c \in Calls : Cleanup(c) => MessagesUntaken'
    BY DEF Cleanup
  <1>20. \A c \in Calls : Kill(c) => MessagesUntaken'
    BY DEF Kill
  <1>21. \A c \in Calls : ModemTake(c) => MessagesUntaken'
    BY DEF ModemTake
  <1>22. ASSUME NEW c \in Calls, ModemReply(c)
        PROVE  MessagesUntaken'
    <2>1. request[c] = "working" /\ got' = got
      BY <1>22 DEF ModemReply
    <2> HIDE DEF TypeOK
    <2>2. \A e \in Calls : got[e] # NoMessage => got[e].re # c
      BY <2>1 DEF AnswersSettled
    <2> QED
      BY <1>22, <2>1, <2>2, Delivered
  <1> QED
    BY <1>1, <1>2, <1>3, <1>4, <1>5, <1>6, <1>7, <1>8, <1>9, <1>10, <1>11, <1>12,
       <1>13, <1>14, <1>15, <1>16, <1>17, <1>18, <1>19, <1>20, <1>21, <1>22 DEF Next, Step, Modem

(* So the answer a call takes is no other call's.                          *)
LEMMA ReadOnceInductive ==
  TypeOK /\ MessagesUntaken /\ TakenOnce /\ [Next]_vars => TakenOnce'
  <1> SUFFICES ASSUME TypeOK, MessagesUntaken, TakenOnce, [Next]_vars
               PROVE  TakenOnce'
    OBVIOUS
  <1> USE DEF TypeOK, TakenOnce, PC, Holding, Ended, Goto
  <1>1. CASE UNCHANGED vars
    BY <1>1 DEF vars
  <1>2. \A c \in Calls : Reject(c) => TakenOnce'
    BY DEF Reject
  <1>3. \A c \in Calls : Accept(c) => TakenOnce'
    BY DEF Accept
  <1>4. \A c \in Calls : CreateQueue(c) => TakenOnce'
    BY DEF CreateQueue
  <1>5. \A c \in Calls : NextKey(c) => TakenOnce'
    BY DEF NextKey
  <1>6. \A c \in Calls : NoKeyLeft(c) => TakenOnce'
    BY DEF NoKeyLeft
  <1>7. \A c \in Calls : Send(c) => TakenOnce'
    BY DEF Send
  <1>8. \A c \in Calls : SendLost(c) => TakenOnce'
    BY DEF SendLost
  <1>9. \A c \in Calls : Arm(c) => TakenOnce'
    BY DEF Arm
  <1>10. \A c \in Calls : EnterRecv(c) => TakenOnce'
    BY DEF EnterRecv
  <1>11. ASSUME NEW c \in Calls, RecvAnswer(c)
        PROVE  TakenOnce'
    <2>1. pc[c] = "recv" /\ msgs[key[c]] # <<>> /\ TakeHead(c)
      BY <1>11 DEF RecvAnswer
    <2>2. key[c] \in Keys /\ 1 \in DOMAIN msgs[key[c]] /\ Head(msgs[key[c]]) = msgs[key[c]][1]
      BY <2>1, HeadTaken
    <2>3. \A e \in Calls : got[e] # NoMessage => got[e].re # Head(msgs[key[c]]).re
      BY <2>2 DEF MessagesUntaken
    <2> QED
      BY <1>11, <2>3 DEF RecvAnswer
  <1>12. \A c \in Calls : RecvOther(c) => TakenOnce'
    BY DEF RecvOther
  <1>13. \A c \in Calls : RecvFatal(c) => TakenOnce'
    BY DEF RecvFatal
  <1>14. \A c \in Calls : StopContinue(c) => TakenOnce'
    BY DEF StopContinue
  <1>15. \A c \in Calls : AlarmFires(c) => TakenOnce'
    BY DEF AlarmFires
  <1>16. \A c \in Calls : AfterEintr(c) => TakenOnce'
    BY DEF AfterEintr
  <1>17. \A c \in Calls : AfterFatal(c) => TakenOnce'
    BY DEF AfterFatal
  <1>18. \A c \in Calls : Disarm(c) => TakenOnce'
    BY DEF Disarm
  <1>19. \A c \in Calls : Cleanup(c) => TakenOnce'
    BY DEF Cleanup
  <1>20. \A c \in Calls : Kill(c) => TakenOnce'
    BY DEF Kill
  <1>21. \A c \in Calls : ModemTake(c) => TakenOnce'
    BY DEF ModemTake
  <1>22. \A c \in Calls : ModemReply(c) => TakenOnce'
    BY DEF ModemReply
  <1> QED
    BY <1>1, <1>2, <1>3, <1>4, <1>5, <1>6, <1>7, <1>8, <1>9, <1>10, <1>11, <1>12,
       <1>13, <1>14, <1>15, <1>16, <1>17, <1>18, <1>19, <1>20, <1>21, <1>22 DEF Next, Step, Modem

(* Only its own call takes messages from a queue.                          *)
LEMMA FatalInductive ==
  TypeOK /\ QueueHeldByItsCall /\ FatalHasBigHead /\ [Next]_vars => FatalHasBigHead'
  <1> SUFFICES ASSUME TypeOK, QueueHeldByItsCall, FatalHasBigHead, [Next]_vars
               PROVE  FatalHasBigHead'
    OBVIOUS
  <1> USE DEF TypeOK, FatalHasBigHead, PC, Holding, Ended, Goto
  <1>1. CASE UNCHANGED vars
    BY <1>1 DEF vars
  <1>2. \A c \in Calls : Reject(c) => FatalHasBigHead'
    BY DEF Reject
  <1>3. \A c \in Calls : Accept(c) => FatalHasBigHead'
    BY DEF Accept
  <1>4. \A c \in Calls : CreateQueue(c) => FatalHasBigHead'
    BY DEF CreateQueue
  <1>5. \A c \in Calls : NextKey(c) => FatalHasBigHead'
    BY DEF NextKey
  <1>6. \A c \in Calls : NoKeyLeft(c) => FatalHasBigHead'
    BY DEF NoKeyLeft
  <1>7. \A c \in Calls : Send(c) => FatalHasBigHead'
    BY DEF Send
  <1>8. \A c \in Calls : SendLost(c) => FatalHasBigHead'
    BY DEF SendLost
  <1>9. \A c \in Calls : Arm(c) => FatalHasBigHead'
    BY DEF Arm
  <1>10. \A c \in Calls : EnterRecv(c) => FatalHasBigHead'
    BY DEF EnterRecv
  <1>11. ASSUME NEW c \in Calls, RecvAnswer(c)
        PROVE  FatalHasBigHead'
    <2>1. pc[c] = "recv" /\ msgs[key[c]] # <<>> /\ TakeHead(c)
      BY <1>11 DEF RecvAnswer
    <2>2. \A d \in Calls : pc[d] = "fatal" => key[d] \in Keys \ {key[c]}
      BY <2>1 DEF QueueHeldByItsCall
    <2>3. \A k \in Keys \ {key[c]} : msgs'[k] = msgs[k]
      BY <2>1, HeadTaken
    <2>4. Head(msgs[key[c]]) # NoMessage
      <3> HIDE DEF TypeOK
      <3> QED
        BY <2>1, HeadTaken, MessageFields
    <2> QED
      BY <1>11, <2>1, <2>2, <2>3, <2>4 DEF RecvAnswer
  <1>12. ASSUME NEW c \in Calls, RecvOther(c)
        PROVE  FatalHasBigHead'
    <2>1. pc[c] = "recv" /\ msgs[key[c]] # <<>> /\ TakeHead(c)
      BY <1>12 DEF RecvOther
    <2>2. \A d \in Calls : pc[d] = "fatal" => key[d] \in Keys \ {key[c]}
      BY <2>1 DEF QueueHeldByItsCall
    <2>3. \A k \in Keys \ {key[c]} : msgs'[k] = msgs[k]
      BY <2>1, HeadTaken
    <2>4. Head(msgs[key[c]]) # NoMessage
      <3> HIDE DEF TypeOK
      <3> QED
        BY <2>1, HeadTaken, MessageFields
    <2> QED
      BY <1>12, <2>1, <2>2, <2>3, <2>4 DEF RecvOther
  <1>13. \A c \in Calls : RecvFatal(c) => FatalHasBigHead'
    BY DEF RecvFatal
  <1>14. \A c \in Calls : StopContinue(c) => FatalHasBigHead'
    BY DEF StopContinue
  <1>15. \A c \in Calls : AlarmFires(c) => FatalHasBigHead'
    BY DEF AlarmFires
  <1>16. \A c \in Calls : AfterEintr(c) => FatalHasBigHead'
    BY DEF AfterEintr
  <1>17. \A c \in Calls : AfterFatal(c) => FatalHasBigHead'
    BY DEF AfterFatal
  <1>18. \A c \in Calls : Disarm(c) => FatalHasBigHead'
    BY DEF Disarm
  <1>19. ASSUME NEW c \in Calls, Cleanup(c)
        PROVE  FatalHasBigHead'
    <2>1. \A d \in Calls : pc[d] = "fatal" => key[d] \in Keys \ {key[c]}
      BY <1>19 DEF Cleanup, QueueHeldByItsCall
    <2> QED
      BY <1>19, <2>1 DEF Cleanup
  <1>20. \A c \in Calls : Kill(c) => FatalHasBigHead'
    BY DEF Kill
  <1>21. \A c \in Calls : ModemTake(c) => FatalHasBigHead'
    BY DEF ModemTake
  <1>22. ASSUME NEW c \in Calls, ModemReply(c)
        PROVE  FatalHasBigHead'
    <2>1. \A d \in Calls : pc[d] = "fatal" => key[d] \in Keys
      OBVIOUS
    <2>2. \A k \in Keys : msgs[k] # <<>> =>
            msgs'[k] # <<>> /\ Head(msgs'[k]) = Head(msgs[k])
      <3> HIDE DEF TypeOK
      <3> QED
        BY <1>22, Delivered
    <2>3. UNCHANGED <<pc, key, got, timedOut>>
      BY <1>22 DEF ModemReply
    <2> QED
      BY <2>1, <2>2, <2>3
  <1> QED
    BY <1>1, <1>2, <1>3, <1>4, <1>5, <1>6, <1>7, <1>8, <1>9, <1>10, <1>11, <1>12,
       <1>13, <1>14, <1>15, <1>16, <1>17, <1>18, <1>19, <1>20, <1>21, <1>22 DEF Next, Step, Modem

(* The two ways out of the loop without an answer.                         *)
LEMMA TimeoutInductive ==
  TypeOK /\ QueueHeldByItsCall /\ FatalHasBigHead /\ FailsOnlyOnTimeout /\ [Next]_vars => FailsOnlyOnTimeout'
  <1> SUFFICES ASSUME TypeOK, QueueHeldByItsCall, FatalHasBigHead, FailsOnlyOnTimeout, [Next]_vars
               PROVE  FailsOnlyOnTimeout'
    OBVIOUS
  <1> USE DEF TypeOK, FailsOnlyOnTimeout, FatalHasBigHead, PC, Holding, Ended, Goto
  <1>1. CASE UNCHANGED vars
    BY <1>1 DEF vars
  <1>2. \A c \in Calls : Reject(c) => FailsOnlyOnTimeout'
    BY DEF Reject
  <1>3. \A c \in Calls : Accept(c) => FailsOnlyOnTimeout'
    BY DEF Accept
  <1>4. \A c \in Calls : CreateQueue(c) => FailsOnlyOnTimeout'
    BY DEF CreateQueue
  <1>5. \A c \in Calls : NextKey(c) => FailsOnlyOnTimeout'
    BY DEF NextKey
  <1>6. \A c \in Calls : NoKeyLeft(c) => FailsOnlyOnTimeout'
    BY DEF NoKeyLeft
  <1>7. \A c \in Calls : Send(c) => FailsOnlyOnTimeout'
    BY DEF Send
  <1>8. \A c \in Calls : SendLost(c) => FailsOnlyOnTimeout'
    BY DEF SendLost
  <1>9. \A c \in Calls : Arm(c) => FailsOnlyOnTimeout'
    BY DEF Arm
  <1>10. \A c \in Calls : EnterRecv(c) => FailsOnlyOnTimeout'
    BY DEF EnterRecv
  <1>11. ASSUME NEW c \in Calls, RecvAnswer(c)
        PROVE  FailsOnlyOnTimeout'
    <2>1. pc[c] = "recv" /\ msgs[key[c]] # <<>> /\ TakeHead(c)
      BY <1>11 DEF RecvAnswer
    <2>2. \A d \in Calls : pc[d] \in {"disarm", "cleanup"} => key[d] \in Keys \ {key[c]}
      BY <2>1 DEF QueueHeldByItsCall
    <2>3. \A k \in Keys \ {key[c]} : msgs'[k] = msgs[k]
      BY <2>1, HeadTaken
    <2>4. Head(msgs[key[c]]) # NoMessage
      <3> HIDE DEF TypeOK
      <3> QED
        BY <2>1, HeadTaken, MessageFields
    <2> QED
      BY <1>11, <2>1, <2>2, <2>3, <2>4 DEF RecvAnswer
  <1>12. ASSUME NEW c \in Calls, RecvOther(c)
        PROVE  FailsOnlyOnTimeout'
    <2>1. pc[c] = "recv" /\ msgs[key[c]] # <<>> /\ TakeHead(c)
      BY <1>12 DEF RecvOther
    <2>2. \A d \in Calls : pc[d] \in {"disarm", "cleanup"} => key[d] \in Keys \ {key[c]}
      BY <2>1 DEF QueueHeldByItsCall
    <2>3. \A k \in Keys \ {key[c]} : msgs'[k] = msgs[k]
      BY <2>1, HeadTaken
    <2>4. Head(msgs[key[c]]) # NoMessage
      <3> HIDE DEF TypeOK
      <3> QED
        BY <2>1, HeadTaken, MessageFields
    <2> QED
      BY <1>12, <2>1, <2>2, <2>3, <2>4 DEF RecvOther
  <1>13. \A c \in Calls : RecvFatal(c) => FailsOnlyOnTimeout'
    BY DEF RecvFatal
  <1>14. \A c \in Calls : StopContinue(c) => FailsOnlyOnTimeout'
    BY DEF StopContinue
  <1>15. \A c \in Calls : AlarmFires(c) => FailsOnlyOnTimeout'
    BY DEF AlarmFires
  <1>16. \A c \in Calls : AfterEintr(c) => FailsOnlyOnTimeout'
    BY DEF AfterEintr
  <1>17. \A c \in Calls : AfterFatal(c) => FailsOnlyOnTimeout'
    BY DEF AfterFatal
  <1>18. \A c \in Calls : Disarm(c) => FailsOnlyOnTimeout'
    BY DEF Disarm
  <1>19. ASSUME NEW c \in Calls, Cleanup(c)
        PROVE  FailsOnlyOnTimeout'
    <2>1. \A d \in Calls : d # c /\ pc[d] \in {"disarm", "cleanup"} => key[d] \in Keys \ {key[c]}
      BY <1>19 DEF Cleanup, QueueHeldByItsCall
    <2> QED
      BY <1>19, <2>1 DEF Cleanup
  <1>20. \A c \in Calls : Kill(c) => FailsOnlyOnTimeout'
    BY DEF Kill
  <1>21. \A c \in Calls : ModemTake(c) => FailsOnlyOnTimeout'
    BY DEF ModemTake
  <1>22. ASSUME NEW c \in Calls, ModemReply(c)
        PROVE  FailsOnlyOnTimeout'
    <2>1. \A d \in Calls : pc[d] \in {"disarm", "cleanup"} => key[d] \in Keys
      OBVIOUS
    <2>2. \A k \in Keys : msgs[k] # <<>> =>
            msgs'[k] # <<>> /\ Head(msgs'[k]) = Head(msgs[k])
      <3> HIDE DEF TypeOK
      <3> QED
        BY <1>22, Delivered
    <2>3. UNCHANGED <<pc, key, got, timedOut>>
      BY <1>22 DEF ModemReply
    <2> QED
      BY <2>1, <2>2, <2>3
  <1> QED
    BY <1>1, <1>2, <1>3, <1>4, <1>5, <1>6, <1>7, <1>8, <1>9, <1>10, <1>11, <1>12,
       <1>13, <1>14, <1>15, <1>16, <1>17, <1>18, <1>19, <1>20, <1>21, <1>22 DEF Next, Step, Modem

(* The alarm is set on entry to the wait and cancelled on leaving it.      *)
LEMMA AlarmInductive ==
  TypeOK /\ NoAlarmOutsideWait /\ [Next]_vars => NoAlarmOutsideWait'
  <1> SUFFICES ASSUME TypeOK, NoAlarmOutsideWait, [Next]_vars
               PROVE  NoAlarmOutsideWait'
    OBVIOUS
  <1> USE DEF TypeOK, NoAlarmOutsideWait, PC, Holding, Ended, Goto
  <1>1. CASE UNCHANGED vars
    BY <1>1 DEF vars
  <1>2. \A c \in Calls : Reject(c) => NoAlarmOutsideWait'
    BY DEF Reject
  <1>3. \A c \in Calls : Accept(c) => NoAlarmOutsideWait'
    BY DEF Accept
  <1>4. \A c \in Calls : CreateQueue(c) => NoAlarmOutsideWait'
    BY DEF CreateQueue
  <1>5. \A c \in Calls : NextKey(c) => NoAlarmOutsideWait'
    BY DEF NextKey
  <1>6. \A c \in Calls : NoKeyLeft(c) => NoAlarmOutsideWait'
    BY DEF NoKeyLeft
  <1>7. \A c \in Calls : Send(c) => NoAlarmOutsideWait'
    BY DEF Send
  <1>8. \A c \in Calls : SendLost(c) => NoAlarmOutsideWait'
    BY DEF SendLost
  <1>9. \A c \in Calls : Arm(c) => NoAlarmOutsideWait'
    BY DEF Arm
  <1>10. \A c \in Calls : EnterRecv(c) => NoAlarmOutsideWait'
    BY DEF EnterRecv
  <1>11. \A c \in Calls : RecvAnswer(c) => NoAlarmOutsideWait'
    BY DEF RecvAnswer
  <1>12. \A c \in Calls : RecvOther(c) => NoAlarmOutsideWait'
    BY DEF RecvOther
  <1>13. \A c \in Calls : RecvFatal(c) => NoAlarmOutsideWait'
    BY DEF RecvFatal
  <1>14. \A c \in Calls : StopContinue(c) => NoAlarmOutsideWait'
    BY DEF StopContinue
  <1>15. \A c \in Calls : AlarmFires(c) => NoAlarmOutsideWait'
    BY DEF AlarmFires
  <1>16. \A c \in Calls : AfterEintr(c) => NoAlarmOutsideWait'
    BY DEF AfterEintr
  <1>17. \A c \in Calls : AfterFatal(c) => NoAlarmOutsideWait'
    BY DEF AfterFatal
  <1>18. \A c \in Calls : Disarm(c) => NoAlarmOutsideWait'
    BY DEF Disarm
  <1>19. \A c \in Calls : Cleanup(c) => NoAlarmOutsideWait'
    BY DEF Cleanup
  <1>20. \A c \in Calls : Kill(c) => NoAlarmOutsideWait'
    BY DEF Kill
  <1>21. \A c \in Calls : ModemTake(c) => NoAlarmOutsideWait'
    BY DEF ModemTake
  <1>22. \A c \in Calls : ModemReply(c) => NoAlarmOutsideWait'
    BY DEF ModemReply
  <1> QED
    BY <1>1, <1>2, <1>3, <1>4, <1>5, <1>6, <1>7, <1>8, <1>9, <1>10, <1>11, <1>12,
       <1>13, <1>14, <1>15, <1>16, <1>17, <1>18, <1>19, <1>20, <1>21, <1>22 DEF Next, Step, Modem

-----------------------------------------------------------------------------
(* The initial state satisfies the invariant.                              *)
LEMMA InitInv == Init => IInv
  <1> SUFFICES ASSUME Init
               PROVE  IInv
    OBVIOUS
  <1> USE CallsAssumption, SizesAssumption DEF Init, PC, Holding, Ended
  <1>1. TypeOK
    BY DEF TypeOK, Keys
  <1>2. QueueHeldByItsCall
    BY DEF QueueHeldByItsCall
  <1>3. UnsentCallsAreQuiet
    BY DEF UnsentCallsAreQuiet, Waiting
  <1>4. \A k \in Keys : msgs[k] = <<>> /\ DOMAIN msgs[k] = {}
    OBVIOUS
  <1>5. MessagesAddressed /\ MessagesDistinct /\ MessagesUntaken
    BY <1>4 DEF MessagesAddressed, MessagesDistinct, MessagesUntaken
  <1>6. AnswersSettled /\ ForeignAnswerIsStale /\ TakenOnce
    BY DEF AnswersSettled, ForeignAnswerIsStale, TakenOnce
  <1>7. FatalHasBigHead /\ FailsOnlyOnTimeout /\ NoAlarmOutsideWait
    BY DEF FatalHasBigHead, FailsOnlyOnTimeout, NoAlarmOutsideWait
  <1> QED
    BY <1>1, <1>2, <1>3, <1>5, <1>6, <1>7 DEF IInv

LEMMA NextInv == IInv /\ [Next]_vars => IInv'
  BY TypeInductive, OwnershipInductive, QuietInductive, AddressedInductive,
     SettledInductive, ForeignInductive, DistinctInductive, UntakenInductive,
     ReadOnceInductive, FatalInductive, TimeoutInductive, AlarmInductive
  DEF IInv

(* The inductive invariant holds in every reachable state.                 *)
THEOREM Invariance == Spec => []IInv
  BY InitInv, NextInv, PTL DEF Spec

(* The state of every call stays of its type, and a call that holds a      *)
(* queue has a key of the agreed range.                                    *)
THEOREM TypeCorrect == Spec => []TypeOK
  <1>1. IInv => TypeOK
    BY DEF IInv
  <1> QED
    BY Invariance, <1>1, PTL

(* Every call works on its own queue, and only killed calls leave one.     *)
THEOREM QueuesAreOwned == Spec => []QueueHeldByItsCall
  <1>1. IInv => QueueHeldByItsCall
    BY DEF IInv
  <1> QED
    BY Invariance, <1>1, PTL

(* A call that reads another one's answer reads the answer of a call that  *)
(* had its key and is over: the answers of live calls are safe.            *)
THEOREM ForeignAnswersAreStale == Spec => []ForeignAnswerIsStale
  <1>1. IInv => ForeignAnswerIsStale
    BY DEF IInv
  <1> QED
    BY Invariance, <1>1, PTL

(* An answer of the modem is returned by one call at most.                 *)
THEOREM AnswersAreReadOnce == Spec => []AnswerReadOnce
  <1>1. IInv => AnswerReadOnce
    BY DEF IInv, TakenOnce, MessagesUntaken, AnswerReadOnce
  <1> QED
    BY Invariance, <1>1, PTL

(* A call that has sent its request fails only for its alarm or a message  *)
(* that does not fit: stopping and continuing the process is no reason.    *)
THEOREM FailuresAreTimeouts == Spec => []FailsOnlyOnTimeout
  <1>1. IInv => FailsOnlyOnTimeout
    BY DEF IInv
  <1> QED
    BY Invariance, <1>1, PTL

(* No alarm is armed before the request is sent or after the wait.         *)
THEOREM AlarmEndsWithTheWait == Spec => []NoAlarmOutsideWait
  <1>1. IInv => NoAlarmOutsideWait
    BY DEF IInv
  <1> QED
    BY Invariance, <1>1, PTL

-----------------------------------------------------------------------------
(* The client implements AtService.                                        *)
LEMMA ServiceInit == Init => Service!Init
  BY DEF Init, Service!Init, Outcome, Ended

(* A call that has an answer asked for one, and the asking is settled.     *)
LEMMA OutcomeTypes ==
  ASSUME TypeOK
  PROVE  \A c \in Calls :
           /\ got[c] # NoMessage => got[c] \in Message /\ got[c].re \in Calls
           /\ Outcome(c) \in Calls \cup {"none", "failed"}
  BY MessageFields DEF TypeOK, Outcome

LEMMA ServiceStep == IInv /\ IInv' /\ [Next]_vars => [Service!Next]_Service!vars
  <1> SUFFICES ASSUME IInv, IInv', [Next]_vars
               PROVE  [Service!Next]_Service!vars
    OBVIOUS
  <1> DEFINE Asked == {c \in Calls : request[c] # "unsent"}
  <1> DEFINE Out == [c \in Calls |-> Outcome(c)]
  <1>a. TypeOK /\ TypeOK'
    BY DEF IInv
  <1>1. CASE UNCHANGED vars
    BY <1>1 DEF vars, Service!vars, Outcome, Ended
  <1>2. ASSUME NEW c \in Calls, Reject(c)
        PROVE  [Service!Next]_Service!vars
    <2>1. Asked' = Asked /\ Out' = [Out EXCEPT ![c] = "failed"] /\ Out[c] = "none"
      <3>1. Asked' = Asked
        BY <1>2 DEF Reject
      <3>2. Out[c] = "none"
        BY <1>2, <1>a DEF Reject, Goto, TypeOK, Outcome, Ended, IInv, UnsentCallsAreQuiet
      <3>3. \A d \in Calls : Outcome(d)' = IF d = c THEN "failed" ELSE Outcome(d)
        BY <1>2, <1>a DEF Reject, Goto, TypeOK, Outcome, Ended, IInv, UnsentCallsAreQuiet
      <3> QED BY <3>1, <3>2, <3>3
    <2> QED
      BY <2>1 DEF Service!Next, Service!Fail
  <1>3. \A c \in Calls : Accept(c) => (Asked' = Asked /\ Out' = Out)
    BY <1>a DEF Accept, Goto, TypeOK, Outcome, Ended
  <1>4. \A c \in Calls : CreateQueue(c) => (Asked' = Asked /\ Out' = Out)
    BY <1>a DEF CreateQueue, Goto, TypeOK, Outcome, Ended
  <1>5. \A c \in Calls : NextKey(c) => (Asked' = Asked /\ Out' = Out)
    BY <1>a DEF NextKey, Goto, TypeOK, Outcome, Ended
  <1>6. ASSUME NEW c \in Calls, NoKeyLeft(c)
        PROVE  [Service!Next]_Service!vars
    <2>1. pc[c] = "alloc" /\ got[c] = NoMessage
      BY <1>6 DEF NoKeyLeft, Goto, IInv, UnsentCallsAreQuiet
    <2>2. Asked' = Asked /\ Out' = [Out EXCEPT ![c] = "failed"] /\ Out[c] = "none"
      BY <1>6, <1>a, <2>1 DEF NoKeyLeft, Goto, TypeOK, Outcome, Ended
    <2> QED
      BY <2>2 DEF Service!Next, Service!Fail
  <1>7. ASSUME NEW c \in Calls, Send(c)
        PROVE  [Service!Next]_Service!vars
    <2>1. Asked' = Asked \cup {c} /\ Out' = Out
      BY <1>7, <1>a DEF Send, Goto, TypeOK, Outcome, Ended
    <2>2. Out[c] = "none"
      BY <1>7 DEF Send, Goto, Outcome, Ended, IInv, UnsentCallsAreQuiet
    <2> QED
      BY <2>1, <2>2 DEF Service!Next, Service!Ask
  <1>8. ASSUME NEW c \in Calls, SendLost(c)
        PROVE  [Service!Next]_Service!vars
    <2>1. Asked' = Asked \cup {c} /\ Out' = Out
      BY <1>8, <1>a DEF SendLost, Goto, TypeOK, Outcome, Ended
    <2>2. Out[c] = "none"
      BY <1>8 DEF SendLost, Goto, Outcome, Ended, IInv, UnsentCallsAreQuiet
    <2> QED
      BY <2>1, <2>2 DEF Service!Next, Service!Ask
  <1>9. \A c \in Calls : Arm(c) => (Asked' = Asked /\ Out' = Out)
    BY <1>a DEF Arm, Goto, TypeOK, Outcome, Ended
  <1>10. \A c \in Calls : EnterRecv(c) => (Asked' = Asked /\ Out' = Out)
    BY <1>a DEF EnterRecv, Goto, TypeOK, Outcome, Ended
  <1>11. ASSUME NEW c \in Calls, RecvAnswer(c)
        PROVE  [Service!Next]_Service!vars
    <2>1. pc[c] = "recv" /\ msgs[key[c]] # <<>> /\ TakeHead(c)
      BY <1>11 DEF RecvAnswer, Goto
    <2> DEFINE m == Head(msgs[key[c]])
               d == m.re
    <2>2. m \in Message /\ d \in Calls /\ request[d] = "gone"
      BY <1>a, <2>1, HeadTaken DEF IInv, MessagesAddressed
    <2>3. \A e \in Calls : Out[e] # d
      <3>1. \A e \in Calls : got[e] # NoMessage => got[e].re # d
        BY <1>a, <2>1, HeadTaken DEF IInv, MessagesUntaken
      <3> QED
        BY <3>1, <2>2, CallsAssumption DEF Outcome
    <2>4. got' = [got EXCEPT ![c] = m] /\ got'[c] = m
      BY <1>11, <1>a DEF RecvAnswer, TypeOK
    <2>5. UNCHANGED request /\ pc' = [pc EXCEPT ![c] = "disarm"]
      BY <1>11 DEF RecvAnswer, Goto
    <2>6. got[c] = NoMessage /\ Out[c] = "none"
      BY <2>1 DEF IInv, AnswersSettled, Outcome, Ended
    <2>7. request[c] # "unsent"
      BY <2>1 DEF IInv, UnsentCallsAreQuiet, Waiting
    <2>8. d = c \/ pc[d] \in Ended
      BY <2>2, <2>4, <2>5, MessageFields DEF IInv, ForeignAnswerIsStale, Ended
    <2>9. d = c \/ Out[d] # "none"
      BY <2>2, <2>8, <1>a, OutcomeTypes, CallsAssumption DEF Outcome
    <2>10. Out' = [Out EXCEPT ![c] = d]
      BY <2>2, <2>4, <2>5, <1>a, MessageFields DEF Outcome, TypeOK, Ended
    <2>11. Asked' = Asked
      BY <2>5
    <2> QED
      BY <2>2, <2>3, <2>6, <2>7, <2>9, <2>10, <2>11 DEF Service!Next, Service!Answer
  <1>12. \A c \in Calls : RecvOther(c) => (Asked' = Asked /\ Out' = Out)
    BY <1>a DEF RecvOther, Goto, TypeOK, Outcome, Ended
  <1>13. \A c \in Calls : RecvFatal(c) => (Asked' = Asked /\ Out' = Out)
    BY <1>a DEF RecvFatal, Goto, TypeOK, Outcome, Ended
  <1>14. \A c \in Calls : StopContinue(c) => (Asked' = Asked /\ Out' = Out)
    BY <1>a DEF StopContinue, Goto, TypeOK, Outcome, Ended
  <1>15. \A c \in Calls : AlarmFires(c) => (Asked' = Asked /\ Out' = Out)
    BY <1>a DEF AlarmFires, Goto, TypeOK, Outcome, Ended
  <1>16. \A c \in Calls : AfterEintr(c) => (Asked' = Asked /\ Out' = Out)
    BY <1>a DEF AfterEintr, Goto, TypeOK, Outcome, Ended
  <1>17. \A c \in Calls : AfterFatal(c) => (Asked' = Asked /\ Out' = Out)
    BY <1>a DEF AfterFatal, Goto, TypeOK, Outcome, Ended
  <1>18. \A c \in Calls : Disarm(c) => (Asked' = Asked /\ Out' = Out)
    BY <1>a DEF Disarm, Goto, TypeOK, Outcome, Ended
  <1>19. ASSUME NEW c \in Calls, Cleanup(c)
        PROVE  [Service!Next]_Service!vars
    <2>1. Asked' = Asked
      BY <1>19 DEF Cleanup
    <2>2. CASE got[c] # NoMessage
      <3>1. Out' = Out
        BY <1>19, <2>2, <1>a DEF Cleanup, Goto, TypeOK, Outcome, Ended
      <3> QED
        BY <2>1, <3>1 DEF Service!vars
    <2>3. CASE got[c] = NoMessage
      <3>1. Out' = [Out EXCEPT ![c] = "failed"] /\ Out[c] = "none"
        BY <1>19, <2>3, <1>a DEF Cleanup, Goto, TypeOK, Outcome, Ended
      <3> QED
        BY <2>1, <3>1 DEF Service!Next, Service!Fail
    <2> QED
      BY <2>2, <2>3
  <1>20. ASSUME NEW c \in Calls, Kill(c)
        PROVE  [Service!Next]_Service!vars
    <2>1. Asked' = Asked
      BY <1>20 DEF Kill
    <2>2. CASE got[c] # NoMessage
      <3>1. Out' = Out
        BY <1>20, <2>2, <1>a DEF Kill, Goto, TypeOK, Outcome, Ended
      <3> QED
        BY <2>1, <3>1 DEF Service!vars
    <2>3. CASE got[c] = NoMessage
      <3>1. Out' = [Out EXCEPT ![c] = "failed"] /\ Out[c] = "none"
        BY <1>20, <2>3, <1>a DEF Kill, Goto, TypeOK, Outcome, Ended
      <3> QED
        BY <2>1, <3>1 DEF Service!Next, Service!Fail
    <2> QED
      BY <2>2, <2>3
  <1>21. \A c \in Calls : ModemTake(c) => (Asked' = Asked /\ Out' = Out)
    BY <1>a DEF ModemTake, Goto, TypeOK, Outcome, Ended
  <1>22. \A c \in Calls : ModemReply(c) => (Asked' = Asked /\ Out' = Out)
    BY <1>a DEF ModemReply, Goto, TypeOK, Outcome, Ended
  <1>23. ASSUME NEW c \in Calls, Asked' = Asked /\ Out' = Out
        PROVE  [Service!Next]_Service!vars
    BY <1>23 DEF Service!vars
  <1> HIDE DEF Asked, Out
  <1> QED
    BY <1>1, <1>2, <1>3, <1>4, <1>5, <1>6, <1>7, <1>8, <1>9, <1>10, <1>11, <1>12,
       <1>13, <1>14, <1>15, <1>16, <1>17, <1>18, <1>19, <1>20, <1>21, <1>22, <1>23 DEF Next, Step, Modem

(* The calls together behave as AtService: one outcome each, an answer     *)
(* handed out once, and to a stranger only when its owner has given up.    *)
THEOREM ClientImplementsService == Spec => ImplementsService
  <1>1. Spec => Service!Init /\ [][Service!Next]_Service!vars
    BY ServiceInit, ServiceStep, Invariance, PTL DEF Spec
  <1> QED
    BY <1>1 DEF ImplementsService, Service!Spec

=============================================================================
