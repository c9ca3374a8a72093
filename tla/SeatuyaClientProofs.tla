------------------------ MODULE SeatuyaClientProofs ------------------------
(***************************************************************************)
(* Theorems about SeatuyaClient, for every value of its constants: any set *)
(* of versions, keys and retry limits, any number of calls, any length of  *)
(* the queues.                                                             *)
(***************************************************************************)
EXTENDS SeatuyaClient, SequenceTheorems, TLAPS

-----------------------------------------------------------------------------
(* Types.                                                                  *)

\* While a frame is awaited, the loop has one left to read.
FrameLeft == pc = "recv" => frame < RecvAttempts

\* A new connection starts with well-typed queues.
LEMMA EmptyQueues == <<>> \in Seq(Request) /\ <<>> \in Seq(Reply)
  OBVIOUS

\* A STATUS frame the device pushes is a frame of the connection.
LEMMA PushType == Push \in Reply
  BY DEF Push, Reply, FrameKinds

\* Whatever is called, the frame built for it is a request.
LEMMA RequestFrameType ==
  ASSUME TypeOK  PROVE RequestFrame \in Request
<1>1. WireCommand(cmd) \in WireCommands
  BY DEF TypeOK, CallType, WireCommand, WireCommands, Commands
<1>2. Sealed \in BOOLEAN
  BY DEF Sealed
<1>3. WellFormedPayload(WireCommand(cmd)) \in BOOLEAN
  BY DEF WellFormedPayload
<1> QED
  BY <1>1, <1>2, <1>3 DEF TypeOK, CallType, CountType, RequestFrame, Request

\* Whatever the device sends back is a sequence of replies.
LEMMA AnswersType ==
  ASSUME NEW f \in Request, NEW a \in Answers(f)
  PROVE  a \in Seq(Reply)
<1> DEFINE r(kind) == [call |-> f.call, attempt |-> f.attempt, kind |-> kind]
<1>1. r("json") \in Reply /\ r("text") \in Reply /\ r("empty") \in Reply
  BY DEF Request, Reply, FrameKinds
<1>2. a \in {<<>>, <<r("empty")>>, <<r("empty"), Push>>, <<r("json")>>, <<r("text")>>}
  BY DEF Answers
<1>3. \A x, y \in Reply : <<x>> \in Seq(Reply) /\ <<x, y>> \in Seq(Reply)
  OBVIOUS
<1>4. <<>> \in Seq(Reply)
  OBVIOUS
<1> HIDE DEF r
<1> QED
  BY <1>1, <1>2, <1>3, <1>4, PushType

\* A reconnection keeps the types of what it changes.
LEMMA ReconnectType ==
  ASSUME TypeOK, NEW up \in BOOLEAN, NEW ok \in BOOLEAN, Reconnect(up, ok)
  PROVE  LinkType' /\ QueueType'
<1>1. LinkType'
  BY DEF TypeOK, LinkType, Reconnect, ConnectFails
<1>2. toDevice' \in {toDevice, <<>>} /\ toClient' \in {toClient, <<>>}
  BY DEF Reconnect, ConnectFails
<1>3. QueueType'
  BY <1>2, EmptyQueues, Zenon DEF TypeOK, QueueType
<1> QED
  BY <1>1, <1>3

\* Every initial state is well typed.
THEOREM TypeInit == Init => TypeOK
<1> SUFFICES ASSUME Init PROVE TypeOK
  OBVIOUS
<1>1. HandleType
  BY LimitAssumption DEF Init, HandleType
<1>2. LinkType
  BY DEF Init, LinkType
<1>3. CallType
  BY DEF Init, CallType, Commands
<1>4. CountType
  BY DEF Init, CountType
<1>5. QueueType
  BY DEF Init, QueueType
<1> QED
  BY <1>1, <1>2, <1>3, <1>4, <1>5 DEF TypeOK

\* Every step keeps the types.  A received frame is one the loop had left to
\* read, so that the frame count stays within its range.
LEMMA TypeStep ==
  TypeOK /\ FrameLeft /\ [Next]_vars => TypeOK'
<1> SUFFICES ASSUME TypeOK, FrameLeft, [Next]_vars PROVE TypeOK'
  OBVIOUS
<1> USE DEF CallState, handle, api, local, net, count, trail
<1>1. CASE Application
  <2>1. ASSUME NEW v \in Versions, TuyaAlloc(v)
        PROVE  TypeOK'
    <3>1. HandleType'
      BY <2>1, LimitAssumption DEF TypeOK, HandleType, TuyaAlloc
    <3>2. LinkType'
      BY <2>1 DEF TypeOK, LinkType, TuyaAlloc
    <3>3. CallType'
      BY <2>1 DEF TypeOK, CallType, TuyaAlloc
    <3>4. CountType'
      BY <2>1 DEF TypeOK, CountType, TuyaAlloc
    <3>5. QueueType'
      BY <2>1 DEF TypeOK, QueueType, TuyaAlloc
    <3> QED
      BY <3>1, <3>2, <3>3, <3>4, <3>5 DEF TypeOK
  <2>2. ASSUME NEW v \in Versions, NEW k \in Keys, TuyaCreate(v, k)
        PROVE  TypeOK'
    <3>1. HandleType'
      BY <2>2, LimitAssumption DEF TypeOK, HandleType, TuyaCreate
    <3>2. LinkType'
      BY <2>2 DEF TypeOK, LinkType, TuyaCreate
    <3>3. CallType'
      BY <2>2 DEF TypeOK, CallType, TuyaCreate
    <3>4. CountType'
      BY <2>2 DEF TypeOK, CountType, TuyaCreate
    <3>5. QueueType'
      BY <2>2 DEF TypeOK, QueueType, TuyaCreate
    <3> QED
      BY <3>1, <3>2, <3>3, <3>4, <3>5 DEF TypeOK
  <2>3. CASE TuyaDestroy
    <3>1. HandleType'
      BY <2>3 DEF TypeOK, HandleType, TuyaDestroy, Disconnect
    <3>2. LinkType'
      BY <2>3 DEF TypeOK, LinkType, TuyaDestroy, Disconnect
    <3>3. CallType'
      BY <2>3 DEF TypeOK, CallType, TuyaDestroy, Disconnect
    <3>4. CountType'
      BY <2>3 DEF TypeOK, CountType, TuyaDestroy, Disconnect
    <3>5. QueueType'
      BY <2>3 DEF TypeOK, QueueType, TuyaDestroy, Disconnect
    <3> QED
      BY <3>1, <3>2, <3>3, <3>4, <3>5 DEF TypeOK
  <2>4. ASSUME NEW id \in BOOLEAN, NEW k \in Keys \cup {NoKey},
               TuyaSetCredentials(id, k)
        PROVE  TypeOK'
    <3>1. HandleType'
      BY <2>4 DEF TypeOK, HandleType, TuyaSetCredentials
    <3>2. LinkType'
      BY <2>4 DEF TypeOK, LinkType, TuyaSetCredentials
    <3>3. CallType'
      BY <2>4 DEF TypeOK, CallType, TuyaSetCredentials
    <3>4. CountType'
      BY <2>4 DEF TypeOK, CountType, TuyaSetCredentials
    <3>5. QueueType'
      BY <2>4 DEF TypeOK, QueueType, TuyaSetCredentials
    <3> QED
      BY <3>1, <3>2, <3>3, <3>4, <3>5 DEF TypeOK
  <2>5. CASE TuyaConnect
    <3>1. HandleType'
      BY <2>5 DEF TypeOK, HandleType, TuyaConnect, ConnectToDevice, ConnectFails
    <3>2. LinkType'
      BY <2>5 DEF TypeOK, LinkType, TuyaConnect, ConnectToDevice, ConnectFails
    <3>3. CallType'
      BY <2>5 DEF TypeOK, CallType, TuyaConnect, ConnectToDevice, ConnectFails
    <3>4. CountType'
      BY <2>5 DEF TypeOK, CountType, TuyaConnect, ConnectToDevice, ConnectFails
    <3>5. QueueType'
      BY <2>5, EmptyQueues, Zenon DEF TypeOK, QueueType, TuyaConnect, ConnectToDevice, ConnectFails
    <3> QED
      BY <3>1, <3>2, <3>3, <3>4, <3>5 DEF TypeOK
  <2>6. ASSUME NEW ok \in BOOLEAN, TuyaReconnect(ok)
        PROVE  TypeOK'
    <3>1. connected \in BOOLEAN /\ Reconnect(connected, ok)
      BY <2>6 DEF TypeOK, LinkType, TuyaReconnect
    <3>2. LinkType' /\ QueueType'
      BY <3>1, ReconnectType
    <3>3. HandleType' /\ CallType' /\ CountType'
      BY <2>6 DEF TypeOK, HandleType, CallType, CountType, TuyaReconnect
    <3> QED
      BY <3>2, <3>3 DEF TypeOK
  <2>7. CASE TuyaDisconnect
    <3>1. HandleType'
      BY <2>7 DEF TypeOK, HandleType, TuyaDisconnect, Disconnect
    <3>2. LinkType'
      BY <2>7 DEF TypeOK, LinkType, TuyaDisconnect, Disconnect
    <3>3. CallType'
      BY <2>7 DEF TypeOK, CallType, TuyaDisconnect, Disconnect
    <3>4. CountType'
      BY <2>7 DEF TypeOK, CountType, TuyaDisconnect, Disconnect
    <3>5. QueueType'
      BY <2>7 DEF TypeOK, QueueType, TuyaDisconnect, Disconnect
    <3> QED
      BY <3>1, <3>2, <3>3, <3>4, <3>5 DEF TypeOK
  <2>8. ASSUME NEW k \in Keys, TuyaNegotiateSession(k)
        PROVE  TypeOK'
    <3>1. HandleType'
      BY <2>8 DEF TypeOK, HandleType, TuyaNegotiateSession, Negotiate
    <3>2. LinkType'
      BY <2>8 DEF TypeOK, LinkType, TuyaNegotiateSession, Negotiate
    <3>3. CallType'
      BY <2>8 DEF TypeOK, CallType, TuyaNegotiateSession, Negotiate
    <3>4. CountType'
      BY <2>8 DEF TypeOK, CountType, TuyaNegotiateSession, Negotiate
    <3>5. QueueType'
      BY <2>8 DEF TypeOK, QueueType, TuyaNegotiateSession, Negotiate
    <3> QED
      BY <3>1, <3>2, <3>3, <3>4, <3>5 DEF TypeOK
  <2>9. ASSUME NEW n \in RetryLimits, TuyaSetRetryLimit(n)
        PROVE  TypeOK'
    <3>1. HandleType'
      BY <2>9, LimitAssumption DEF TypeOK, HandleType, TuyaSetRetryLimit
    <3>2. LinkType'
      BY <2>9 DEF TypeOK, LinkType, TuyaSetRetryLimit
    <3>3. CallType'
      BY <2>9 DEF TypeOK, CallType, TuyaSetRetryLimit
    <3>4. CountType'
      BY <2>9 DEF TypeOK, CountType, TuyaSetRetryLimit
    <3>5. QueueType'
      BY <2>9 DEF TypeOK, QueueType, TuyaSetRetryLimit
    <3> QED
      BY <3>1, <3>2, <3>3, <3>4, <3>5 DEF TypeOK
  <2>10. ASSUME NEW on \in BOOLEAN, TuyaSetDevice22(on)
        PROVE  TypeOK'
    <3>1. HandleType'
      BY <2>10 DEF TypeOK, HandleType, TuyaSetDevice22
    <3>2. LinkType'
      BY <2>10 DEF TypeOK, LinkType, TuyaSetDevice22
    <3>3. CallType'
      BY <2>10 DEF TypeOK, CallType, TuyaSetDevice22
    <3>4. CountType'
      BY <2>10 DEF TypeOK, CountType, TuyaSetDevice22
    <3>5. QueueType'
      BY <2>10 DEF TypeOK, QueueType, TuyaSetDevice22
    <3> QED
      BY <3>1, <3>2, <3>3, <3>4, <3>5 DEF TypeOK
  <2>11. CASE RoundTripRefused
    <3>1. HandleType'
      BY <2>11 DEF TypeOK, HandleType, RoundTripRefused, Return
    <3>2. LinkType'
      BY <2>11 DEF TypeOK, LinkType, RoundTripRefused, Return
    <3>3. CallType'
      BY <2>11 DEF TypeOK, CallType, RoundTripRefused, Return
    <3>4. CountType'
      BY <2>11 DEF TypeOK, CountType, RoundTripRefused, Return
    <3>5. QueueType'
      BY <2>11 DEF TypeOK, QueueType, RoundTripRefused, Return
    <3> QED
      BY <3>1, <3>2, <3>3, <3>4, <3>5 DEF TypeOK
  <2>12. ASSUME NEW c \in Commands, RoundTrip(c)
        PROVE  TypeOK'
    <3>1. HandleType'
      BY <2>12 DEF TypeOK, HandleType, RoundTrip
    <3>2. LinkType'
      BY <2>12 DEF TypeOK, LinkType, RoundTrip
    <3>3. CallType'
      BY <2>12 DEF TypeOK, CallType, RoundTrip
    <3>4. CountType'
      BY <2>12 DEF TypeOK, CountType, RoundTrip
    <3>5. QueueType'
      BY <2>12 DEF TypeOK, QueueType, RoundTrip
    <3> QED
      BY <3>1, <3>2, <3>3, <3>4, <3>5 DEF TypeOK
  <2> QED
    BY <1>1, <2>1, <2>2, <2>3, <2>4, <2>5, <2>6, <2>7, <2>8, <2>9, <2>10, <2>11,
       <2>12 DEF Application
<1>2. CASE Loop
  <2>1. CASE Send
    <3>1. HandleType'
      BY <2>1 DEF TypeOK, HandleType, Send
    <3>2. LinkType'
      BY <2>1 DEF TypeOK, LinkType, Send
    <3>3. CallType'
      BY <2>1 DEF TypeOK, CallType, Send
    <3>4. CountType'
      BY <2>1 DEF TypeOK, CountType, Send
    <3>5. QueueType'
      BY <2>1, RequestFrameType DEF TypeOK, QueueType, Send
    <3> QED
      BY <3>1, <3>2, <3>3, <3>4, <3>5 DEF TypeOK
  <2>2. CASE SendFails
    <3>1. HandleType'
      BY <2>2 DEF TypeOK, HandleType, SendFails
    <3>2. LinkType'
      BY <2>2 DEF TypeOK, LinkType, SendFails
    <3>3. CallType'
      BY <2>2 DEF TypeOK, CallType, SendFails
    <3>4. CountType'
      BY <2>2 DEF TypeOK, CountType, SendFails
    <3>5. QueueType'
      BY <2>2 DEF TypeOK, QueueType, SendFails
    <3> QED
      BY <3>1, <3>2, <3>3, <3>4, <3>5 DEF TypeOK
  <2>3. CASE BuildFails
    <3>1. HandleType'
      BY <2>3 DEF TypeOK, HandleType, BuildFails, Return
    <3>2. LinkType'
      BY <2>3 DEF TypeOK, LinkType, BuildFails, Return
    <3>3. CallType'
      BY <2>3 DEF TypeOK, CallType, BuildFails, Return
    <3>4. CountType'
      BY <2>3 DEF TypeOK, CountType, BuildFails, Return
    <3>5. QueueType'
      BY <2>3 DEF TypeOK, QueueType, BuildFails, Return
    <3> QED
      BY <3>1, <3>2, <3>3, <3>4, <3>5 DEF TypeOK
  <2>4. CASE ReceiveFrame
    <3>1. Head(toClient) \in Reply /\ Tail(toClient) \in Seq(Reply)
      BY <2>4 DEF TypeOK, QueueType, ReceiveFrame
    <3>2. frame \in Nat /\ frame + 1 <= 3 /\ frame' = frame + 1
      BY <2>4 DEF TypeOK, CountType, FrameLeft, RecvAttempts, ReceiveFrame
    <3>3. HandleType' /\ LinkType'
      BY <2>4 DEF TypeOK, HandleType, LinkType, ReceiveFrame
    <3>4. CallType'
      BY <2>4, <3>1 DEF TypeOK, CallType, ReceiveFrame, Return
    <3>5. CountType'
      BY <2>4, <3>2 DEF TypeOK, CountType, ReceiveFrame
    <3>6. QueueType'
      BY <2>4, <3>1 DEF TypeOK, QueueType, ReceiveFrame
    <3> QED
      BY <3>3, <3>4, <3>5, <3>6 DEF TypeOK
  <2>5. CASE ReceiveFails
    <3>1. HandleType'
      BY <2>5 DEF TypeOK, HandleType, ReceiveFails
    <3>2. LinkType'
      BY <2>5 DEF TypeOK, LinkType, ReceiveFails
    <3>3. CallType'
      BY <2>5 DEF TypeOK, CallType, ReceiveFails
    <3>4. CountType'
      BY <2>5 DEF TypeOK, CountType, ReceiveFails
    <3>5. QueueType'
      BY <2>5 DEF TypeOK, QueueType, ReceiveFails
    <3> QED
      BY <3>1, <3>2, <3>3, <3>4, <3>5 DEF TypeOK
  <2>6. CASE GiveUp
    <3>1. HandleType'
      BY <2>6 DEF TypeOK, HandleType, GiveUp, Return
    <3>2. LinkType'
      BY <2>6 DEF TypeOK, LinkType, GiveUp, Return
    <3>3. CallType'
      BY <2>6 DEF TypeOK, CallType, GiveUp, Return
    <3>4. CountType'
      BY <2>6 DEF TypeOK, CountType, GiveUp, Return
    <3>5. QueueType'
      BY <2>6 DEF TypeOK, QueueType, GiveUp, Return
    <3> QED
      BY <3>1, <3>2, <3>3, <3>4, <3>5 DEF TypeOK
  <2>7. CASE Retry
    <3>1. PICK ok \in BOOLEAN : /\ Reconnect(FALSE, ok)
                                /\ IF ok THEN pc' = "send" /\ UNCHANGED answer
                                         ELSE Return(NullAnswer)
      BY <2>7 DEF Retry, RetryWith
    <3>2. LinkType' /\ QueueType'
      BY <3>1, ReconnectType
    <3>3. HandleType' /\ CountType'
      BY <2>7 DEF TypeOK, HandleType, CountType, Retry, RetryWith
    <3>4. CallType'
      BY <2>7, <3>1 DEF TypeOK, CallType, Retry, RetryWith, Return
    <3> QED
      BY <3>2, <3>3, <3>4 DEF TypeOK
  <2> QED
    BY <1>2, <2>1, <2>2, <2>3, <2>4, <2>5, <2>6, <2>7 DEF Loop
<1>3. CASE Environment
  <2>1. CASE DeviceServe
    <3>1. Head(toDevice) \in Request /\ Tail(toDevice) \in Seq(Request)
      BY <2>1 DEF TypeOK, QueueType, DeviceServe
    <3>2. PICK a \in Answers(Head(toDevice)) :
            toClient' = IF link THEN toClient \o a ELSE toClient
      BY <2>1 DEF DeviceServe
    <3>3. a \in Seq(Reply)
      BY <3>1, <3>2, AnswersType
    <3>4. toClient' \in Seq(Reply)
      BY <3>2, <3>3 DEF TypeOK, QueueType
    <3>5. QueueType'
      BY <2>1, <3>1, <3>4 DEF QueueType, DeviceServe
    <3>6. CountType'
      BY <2>1 DEF TypeOK, CountType, DeviceServe
    <3>7. HandleType' /\ LinkType' /\ CallType'
      BY <2>1 DEF TypeOK, HandleType, LinkType, CallType, DeviceServe
    <3> QED
      BY <3>5, <3>6, <3>7 DEF TypeOK
  <2>2. CASE DevicePush
    <3>1. HandleType'
      BY <2>2 DEF TypeOK, HandleType, DevicePush
    <3>2. LinkType'
      BY <2>2 DEF TypeOK, LinkType, DevicePush
    <3>3. CallType'
      BY <2>2 DEF TypeOK, CallType, DevicePush
    <3>4. CountType'
      BY <2>2 DEF TypeOK, CountType, DevicePush
    <3>5. QueueType'
      BY <2>2, PushType DEF TypeOK, QueueType, DevicePush
    <3> QED
      BY <3>1, <3>2, <3>3, <3>4, <3>5 DEF TypeOK
  <2>3. CASE PeerDrop
    <3>1. HandleType'
      BY <2>3 DEF TypeOK, HandleType, PeerDrop
    <3>2. LinkType'
      BY <2>3 DEF TypeOK, LinkType, PeerDrop
    <3>3. CallType'
      BY <2>3 DEF TypeOK, CallType, PeerDrop
    <3>4. CountType'
      BY <2>3 DEF TypeOK, CountType, PeerDrop
    <3>5. QueueType'
      BY <2>3 DEF TypeOK, QueueType, PeerDrop
    <3> QED
      BY <3>1, <3>2, <3>3, <3>4, <3>5 DEF TypeOK
  <2> QED
    BY <1>3, <2>1, <2>2, <2>3 DEF Environment
<1>4. CASE UNCHANGED vars
  <2>1. HandleType'
    BY <1>4 DEF TypeOK, HandleType, vars
  <2>2. LinkType'
    BY <1>4 DEF TypeOK, LinkType, vars
  <2>3. CallType'
    BY <1>4 DEF TypeOK, CallType, vars
  <2>4. CountType'
    BY <1>4 DEF TypeOK, CountType, vars
  <2>5. QueueType'
    BY <1>4 DEF TypeOK, QueueType, vars
  <2> QED
    BY <2>1, <2>2, <2>3, <2>4, <2>5 DEF TypeOK
<1> QED
  BY <1>1, <1>2, <1>3, <1>4 DEF Next

-----------------------------------------------------------------------------
(* The inductive invariant.                                                *)

\* A call counts each transmission before it counts the next retry.
AttemptsCounted ==
  pc # "idle" =>
    /\ sends <= IF pc = "send" THEN retries ELSE retries + 1
    /\ retries = 0 \/ retries <= retryLimit

\* The answer is written on return only.
AnswerPending == pc # "idle" => answer = NoAnswer

\* The requests of the call in progress carry its command; none is newer.
RequestsKnown ==
  \A i \in DOMAIN toDevice :
    /\ toDevice[i].call <= callNo
    /\ toDevice[i].call = callNo => toDevice[i].op = cmd

\* Of the current call at most one request is on its way, and it has not been
\* sent again; what was performed was transmitted.
OneRequest ==
  /\ applied <= sends
  /\ \A i \in DOMAIN toDevice : toDevice[i].call = callNo =>
       /\ pc # "send"
       /\ applied < sends
       /\ \A j \in DOMAIN toDevice : toDevice[j].call = callNo => i = j

\* After a retry the connection carries nothing older than that retry.
OnlyThisAttempt ==
  pc # "idle" /\ retries > 0 =>
    /\ \A i \in DOMAIN toDevice :
         toDevice[i].call = callNo /\ toDevice[i].attempt = retries
    /\ \A i \in DOMAIN toClient : toClient[i].call # 0 =>
         /\ toClient[i].call = callNo /\ toClient[i].attempt = retries
         /\ cmd = "CONTROL" => applied > 0

IInv ==
  /\ TypeOK
  /\ FrameLeft
  /\ AttemptsCounted
  /\ AnswerPending
  /\ RequestsKnown
  /\ OneRequest
  /\ OnlyThisAttempt
  /\ RetryUnderSession
  /\ RetriedAnswerIsFresh
  /\ QueryPrefersDataPoints

IndVars == <<pc, cmd, retries, frame, sends, callNo, applied>>

\* Between two round trips a call leaves the last one's record alone and may
\* empty the queues.
Between ==
  /\ pc = "idle" /\ UNCHANGED IndVars
  /\ answer' \in {answer, NullAnswer}
  /\ toDevice' \in {toDevice, <<>>} /\ toClient' \in {toClient, <<>>}

\* Every call of the application but a round trip keeps the call at rest: it may
\* forget an answer and empty the queues, never add to them.
LEMMA ApplicationEffect ==
  ASSUME Application
  PROVE  Between \/ \E c \in Commands : RoundTrip(c)
<1> USE DEF CallState, handle, api, local, net, count, trail, Idle, Between, IndVars
<1>1. ASSUME NEW v \in Versions, TuyaAlloc(v) PROVE Between
  BY <1>1 DEF TuyaAlloc
<1>2. ASSUME NEW v \in Versions, NEW k \in Keys, TuyaCreate(v, k) PROVE Between
  BY <1>2 DEF TuyaCreate
<1>3. CASE TuyaDestroy
  BY <1>3 DEF TuyaDestroy, Disconnect
<1>4. ASSUME NEW id \in BOOLEAN, NEW k \in Keys \cup {NoKey},
             TuyaSetCredentials(id, k)
      PROVE  Between
  BY <1>4 DEF TuyaSetCredentials
<1>5. CASE TuyaConnect
  BY <1>5 DEF TuyaConnect, ConnectToDevice, ConnectFails
<1>6. ASSUME NEW ok \in BOOLEAN, TuyaReconnect(ok) PROVE Between
  BY <1>6 DEF TuyaReconnect, Reconnect, ConnectFails
<1>7. CASE TuyaDisconnect
  BY <1>7 DEF TuyaDisconnect, Disconnect
<1>8. ASSUME NEW k \in Keys, TuyaNegotiateSession(k) PROVE Between
  BY <1>8 DEF TuyaNegotiateSession, Negotiate
<1>9. ASSUME NEW n \in RetryLimits, TuyaSetRetryLimit(n) PROVE Between
  BY <1>9 DEF TuyaSetRetryLimit
<1>10. ASSUME NEW on \in BOOLEAN, TuyaSetDevice22(on) PROVE Between
  BY <1>10 DEF TuyaSetDevice22
<1>11. CASE RoundTripRefused
  BY <1>11 DEF RoundTripRefused, Return
<1> QED
  BY <1>1, <1>2, <1>3, <1>4, <1>5, <1>6, <1>7, <1>8, <1>9, <1>10, <1>11
     DEF Application

\* A retry either ends the call, or goes on over a fresh connection.
Resumes ==
  /\ pc' = "send" /\ answer' = answer
  /\ connected' = TRUE /\ opened' = opened + 1
  /\ toDevice' = <<>> /\ toClient' = <<>>
  /\ NewCommandSet => session' = "ESTABLISHED" /\ negotiated' = opened'

Abandons ==
  /\ pc' = "idle" /\ answer' = NullAnswer
  /\ toDevice' \in {toDevice, <<>>} /\ toClient' \in {toClient, <<>>}

\* A retry is counted and either resumes the call over an empty connection or
\* returns NULL.
LEMMA RetryEffect ==
  ASSUME Retry
  PROVE  /\ pc = "failed" /\ retries < retryLimit /\ retries' = retries + 1
         /\ UNCHANGED <<handle, cmd, frame, applied, callNo, sends>>
         /\ Resumes \/ Abandons
<1>1. PICK ok \in BOOLEAN : /\ Reconnect(FALSE, ok)
                            /\ IF ok THEN pc' = "send" /\ UNCHANGED answer
                                     ELSE Return(NullAnswer)
  BY DEF Retry, RetryWith
<1>a. /\ opened' = IF connected' THEN opened + 1 ELSE opened
      /\ negotiated' = IF session' = "ESTABLISHED" THEN opened' ELSE negotiated
  BY DEF Retry, RetryWith
<1>2. CASE ok
  <2>1. Resumes
    BY <1>1, <1>a, <1>2 DEF Reconnect, Resumes
  <2> QED
    BY <2>1 DEF Retry, RetryWith, count, trail
<1>3. CASE ~ok
  <2>1. Abandons
    BY <1>1, <1>3 DEF Reconnect, ConnectFails, Abandons, Return
  <2> QED
    BY <2>1 DEF Retry, RetryWith, count, trail
<1> QED
  BY <1>2, <1>3

\* What a received frame does to the call.
LEMMA ReceiveEffect ==
  ASSUME TypeOK, FrameLeft, ReceiveFrame
  PROVE  /\ pc = "recv" /\ frame' = frame + 1
         /\ toClient # <<>> /\ Head(toClient) \in Reply
         /\ toClient' = Tail(toClient)
         /\ UNCHANGED <<handle, api, cmd, retries, toDevice, applied, callNo, sends>>
         /\ \/ /\ pc' = "recv" /\ answer' = answer /\ frame' < RecvAttempts
            \/ /\ pc' = "failed" /\ answer' = answer
            \/ /\ pc' = "idle" /\ answer' = Head(toClient)
               /\ cmd = "DP_QUERY" /\ answer'.kind = "text" => frame' = RecvAttempts
<1>1. frame + 1 <= RecvAttempts /\ frame \in Nat /\ RecvAttempts \in {1, 3}
  BY DEF TypeOK, CountType, FrameLeft, RecvAttempts, ReceiveFrame
<1>2. Head(toClient) \in Reply
  BY DEF TypeOK, QueueType, ReceiveFrame
<1>3. \/ /\ pc' = "recv" /\ answer' = answer /\ frame + 1 < RecvAttempts
      \/ /\ pc' = "failed" /\ answer' = answer
      \/ /\ pc' = "idle" /\ answer' = Head(toClient)
         /\ cmd = "DP_QUERY" /\ answer'.kind = "text" => ~(frame + 1 < RecvAttempts)
  BY DEF ReceiveFrame, Return
<1> QED
  BY <1>1, <1>2, <1>3 DEF ReceiveFrame, handle, api, count, trail

\* The elements of a tail are those of the sequence, one place later.
LEMMA TailElement ==
  ASSUME NEW S, NEW s \in Seq(S), s # <<>>, NEW i \in DOMAIN Tail(s)
  PROVE  i + 1 \in DOMAIN s /\ Tail(s)[i] = s[i + 1] /\ i \in Nat \ {0}
BY HeadTailProperties, LenProperties

\* The head of a sequence is its first element.
LEMMA HeadElement ==
  ASSUME NEW S, NEW s \in Seq(S), s # <<>>
  PROVE  1 \in DOMAIN s /\ Head(s) = s[1] /\ Head(s) \in S
BY HeadTailProperties, LenProperties, EmptySeq

\* What is queued is a request or a reply.
LEMMA QueueElements ==
  ASSUME TypeOK
  PROVE  /\ \A i \in DOMAIN toDevice : toDevice[i] \in Request
         /\ \A i \in DOMAIN toClient : toClient[i] \in Reply
BY ElementOfSeq, LenProperties DEF TypeOK, QueueType

\* A reply that is not a push names the request it answers, which the device
\* understood.
LEMMA AnswerElement ==
  ASSUME NEW f \in Request, NEW a \in Answers(f), NEW i \in DOMAIN a
  PROVE  a[i].call # 0 => a[i].call = f.call /\ a[i].attempt = f.attempt /\ Understood(f)
<1> DEFINE r(kind) == [call |-> f.call, attempt |-> f.attempt, kind |-> kind]
<1>1. CASE ~Understood(f)
  <2>1. a = <<>>
    BY <1>1 DEF Answers
  <2> QED
    BY <2>1
<1>2. CASE Understood(f)
  <2>1. a \in {<<>>, <<r("empty")>>, <<r("empty"), Push>>, <<r("json")>>, <<r("text")>>}
    BY DEF Answers
  <2>2. \A k \in FrameKinds : r(k).call = f.call /\ r(k).attempt = f.attempt
    OBVIOUS
  <2>3. a[i] = r("empty") \/ a[i] = Push \/ a[i] = r("json") \/ a[i] = r("text")
    BY <2>1
  <2>4. Push.call = 0
    BY DEF Push
  <2> QED
    BY <1>2, <2>2, <2>3, <2>4 DEF FrameKinds
<1> QED
  BY <1>1, <1>2

\* What the device's taking a request does.
LEMMA ServeEffect ==
  ASSUME TypeOK, DeviceServe
  PROVE  /\ toDevice # <<>> /\ Head(toDevice) \in Request
         /\ toDevice' = Tail(toDevice)
         /\ UNCHANGED <<pc, cmd, retries, frame, answer, callNo, sends>>
         /\ applied' = IF Understood(Head(toDevice)) /\ Head(toDevice).op = "CONTROL"
                            /\ Head(toDevice).call = callNo
                         THEN applied + 1 ELSE applied
         /\ \A i \in DOMAIN toClient' : toClient'[i].call # 0 =>
              \/ i \in DOMAIN toClient /\ toClient'[i] = toClient[i]
              \/ /\ toClient'[i].call = Head(toDevice).call
                 /\ toClient'[i].attempt = Head(toDevice).attempt
                 /\ Understood(Head(toDevice))
<1>1. toDevice # <<>> /\ Head(toDevice) \in Request
  BY HeadElement DEF TypeOK, QueueType, DeviceServe
<1>2. PICK a \in Answers(Head(toDevice)) :
        toClient' = IF link THEN toClient \o a ELSE toClient
  BY DEF DeviceServe
<1>3. a \in Seq(Reply) /\ toClient \in Seq(Reply)
  BY <1>1, AnswersType DEF TypeOK, QueueType
<1>4. ASSUME NEW i \in DOMAIN toClient', toClient'[i].call # 0
      PROVE  \/ i \in DOMAIN toClient /\ toClient'[i] = toClient[i]
             \/ /\ toClient'[i].call = Head(toDevice).call
                /\ toClient'[i].attempt = Head(toDevice).attempt
                /\ Understood(Head(toDevice))
  <2>1. CASE toClient' = toClient
    BY <1>4, <2>1
  <2>2. CASE toClient' = toClient \o a
    <3>1. CASE i \in DOMAIN toClient
      BY <1>3, <2>2, <3>1, ConcatProperties, LenProperties
    <3>2. CASE i \notin DOMAIN toClient
      <4>1. i - Len(toClient) \in DOMAIN a /\ toClient'[i] = a[i - Len(toClient)]
        BY <1>3, <1>4, <2>2, <3>2, ConcatProperties, LenProperties
      <4> QED
        BY <1>1, <1>4, <4>1, AnswerElement
    <3> QED
      BY <3>1, <3>2
  <2> QED
    BY <1>2, <2>1, <2>2
<1> QED
  BY <1>1, <1>4 DEF DeviceServe, local, count, trail

-----------------------------------------------------------------------------
(* Each part of the invariant is preserved.                                *)

\* The invariant holds before the first call.
THEOREM InvInit == Init => IInv
<1> SUFFICES ASSUME Init PROVE IInv
  OBVIOUS
<1>1. TypeOK
  BY TypeInit
<1>2. /\ pc = "idle" /\ answer = NoAnswer /\ retries = 0
      /\ toDevice = <<>> /\ applied = 0 /\ sends = 0
  BY DEF Init
<1>3. RequestsKnown /\ OneRequest
  BY <1>2 DEF RequestsKnown, OneRequest
<1>4. FrameLeft /\ AttemptsCounted /\ AnswerPending /\ OnlyThisAttempt
      /\ RetryUnderSession
  BY <1>2 DEF FrameLeft, AttemptsCounted, AnswerPending, OnlyThisAttempt,
              RetryUnderSession
<1>5. answer.kind = "none"
  BY <1>2 DEF NoAnswer
<1>6. RetriedAnswerIsFresh /\ QueryPrefersDataPoints
  BY <1>2, <1>5 DEF RetriedAnswerIsFresh, QueryPrefersDataPoints, FrameKinds
<1> QED
  BY <1>1, <1>3, <1>4, <1>6 DEF IInv

\* The loop never counts past the frames it may read.
LEMMA FrameLeftStep ==
  TypeOK /\ FrameLeft /\ [Next]_vars => FrameLeft'
<1> SUFFICES ASSUME TypeOK, FrameLeft, [Next]_vars PROVE FrameLeft'
  OBVIOUS
<1> USE DEF FrameLeft, RecvAttempts
<1>1. CASE Between
  BY <1>1 DEF Between, IndVars
<1>2. ASSUME NEW c \in Commands, RoundTrip(c) PROVE FrameLeft'
  BY <1>2 DEF RoundTrip
<1>3. CASE Send
  BY <1>3 DEF Send
<1>4. CASE SendFails \/ BuildFails \/ ReceiveFails \/ GiveUp
  BY <1>4 DEF SendFails, BuildFails, ReceiveFails, GiveUp, Return
<1>5. CASE ReceiveFrame
  BY <1>5, ReceiveEffect
<1>6. CASE Retry
  BY <1>6, RetryEffect DEF Resumes, Abandons
<1>7. CASE Environment
  BY <1>7 DEF Environment, DeviceServe, DevicePush, PeerDrop, local
<1>8. CASE UNCHANGED vars
  BY <1>8 DEF vars, local
<1> QED
  BY <1>1, <1>2, <1>3, <1>4, <1>5, <1>6, <1>7, <1>8, ApplicationEffect
     DEF Next, Loop

\* A retry is counted before the next transmission.
LEMMA AttemptsStep ==
  TypeOK /\ FrameLeft /\ AttemptsCounted /\ [Next]_vars => AttemptsCounted'
<1> SUFFICES ASSUME TypeOK, FrameLeft, AttemptsCounted, [Next]_vars
             PROVE AttemptsCounted'
  OBVIOUS
<1> USE DEF AttemptsCounted
<1>0. retries \in Nat /\ sends \in Nat /\ retryLimit \in Int
  BY DEF TypeOK, CountType, HandleType
<1>1. CASE Between
  BY <1>1 DEF Between, IndVars
<1>2. ASSUME NEW c \in Commands, RoundTrip(c) PROVE AttemptsCounted'
  BY <1>2 DEF RoundTrip
<1>3. CASE Send
  BY <1>0, <1>3 DEF Send, handle
<1>4. CASE SendFails
  BY <1>0, <1>4 DEF SendFails, handle, count, trail
<1>5. CASE BuildFails \/ GiveUp
  BY <1>5 DEF BuildFails, GiveUp, Return
<1>6. CASE ReceiveFails
  BY <1>6 DEF ReceiveFails, handle, count, trail
<1>7. CASE ReceiveFrame
  BY <1>7, ReceiveEffect DEF handle
<1>8. CASE Retry
  BY <1>0, <1>8, RetryEffect DEF Resumes, Abandons, handle
<1>9. CASE Environment
  BY <1>9 DEF Environment, DeviceServe, DevicePush, PeerDrop, local, handle, count, trail
<1>10. CASE UNCHANGED vars
  BY <1>10 DEF vars, local, handle, count, trail
<1> QED
  BY <1>1, <1>2, <1>3, <1>4, <1>5, <1>6, <1>7, <1>8, <1>9, <1>10, ApplicationEffect
     DEF Next, Loop

\* Only a return writes the answer.
LEMMA AnswerStep ==
  TypeOK /\ FrameLeft /\ AnswerPending /\ [Next]_vars => AnswerPending'
<1> SUFFICES ASSUME TypeOK, FrameLeft, AnswerPending, [Next]_vars PROVE AnswerPending'
  OBVIOUS
<1> USE DEF AnswerPending
<1>1. CASE Between
  BY <1>1 DEF Between, IndVars
<1>2. ASSUME NEW c \in Commands, RoundTrip(c) PROVE AnswerPending'
  BY <1>2 DEF RoundTrip, NoAnswer
<1>3. CASE Send \/ SendFails \/ ReceiveFails
  BY <1>3 DEF Send, SendFails, ReceiveFails, NoAnswer
<1>4. CASE BuildFails \/ GiveUp
  BY <1>4 DEF BuildFails, GiveUp, Return
<1>5. CASE ReceiveFrame
  BY <1>5, ReceiveEffect, Zenon DEF NoAnswer
<1>6. CASE Retry
  BY <1>6, RetryEffect DEF Resumes, Abandons, NoAnswer
<1>7. CASE Environment
  BY <1>7 DEF Environment, DeviceServe, DevicePush, PeerDrop, NoAnswer
<1>8. CASE UNCHANGED vars
  BY <1>8 DEF vars, NoAnswer
<1> QED
  BY <1>1, <1>2, <1>3, <1>4, <1>5, <1>6, <1>7, <1>8, ApplicationEffect
     DEF Next, Loop

\* Appending, serving or dropping requests keeps them this call's or an older
\* one's.
LEMMA RequestsStep ==
  TypeOK /\ FrameLeft /\ RequestsKnown /\ [Next]_vars => RequestsKnown'
<1> SUFFICES ASSUME TypeOK, FrameLeft, RequestsKnown, [Next]_vars PROVE RequestsKnown'
  OBVIOUS
<1> USE DEF RequestsKnown
<1>0. callNo \in Nat /\ toDevice \in Seq(Request)
  BY DEF TypeOK, CountType, QueueType
<1>1. CASE Between
  BY <1>1 DEF Between, IndVars
<1>2. ASSUME NEW c \in Commands, RoundTrip(c) PROVE RequestsKnown'
  <2>1. callNo' = callNo + 1 /\ toDevice' = toDevice
    BY <1>2 DEF RoundTrip
  <2>2. \A i \in DOMAIN toDevice : toDevice[i].call \in Nat
    BY QueueElements DEF Request
  <2> QED
    BY <1>0, <2>1, <2>2
<1>3. CASE Send
  <2>1. RequestFrame \in Request /\ RequestFrame.call = callNo /\ RequestFrame.op = cmd
    BY RequestFrameType DEF RequestFrame
  <2>2. callNo' = callNo /\ cmd' = cmd
    BY <1>3 DEF Send
  <2>3. \A i \in DOMAIN Append(toDevice, RequestFrame) :
          \/ i \in DOMAIN toDevice /\ Append(toDevice, RequestFrame)[i] = toDevice[i]
          \/ Append(toDevice, RequestFrame)[i] = RequestFrame
    BY <1>0, <2>1
  <2> QED
    BY <1>0, <1>3, <2>1, <2>2, <2>3 DEF Send
<1>4. CASE SendFails \/ BuildFails \/ ReceiveFails \/ GiveUp
  BY <1>4 DEF SendFails, BuildFails, ReceiveFails, GiveUp, net, count, trail, local
<1>5. CASE ReceiveFrame
  BY <1>5, ReceiveEffect
<1>6. CASE Retry
  <2>1. callNo' = callNo /\ cmd' = cmd /\ toDevice' \in {toDevice, <<>>}
    BY <1>6, RetryEffect DEF Resumes, Abandons
  <2> QED
    BY <2>1
<1>7. CASE DeviceServe
  BY <1>0, <1>7, ServeEffect, TailElement
<1>8. CASE DevicePush \/ PeerDrop
  BY <1>8 DEF DevicePush, PeerDrop, local, count, trail
<1>9. CASE UNCHANGED vars
  BY <1>9 DEF vars, net, count, trail, local
<1> QED
  BY <1>1, <1>2, <1>3, <1>4, <1>5, <1>6, <1>7, <1>8, <1>9, ApplicationEffect
     DEF Next, Loop, Environment

\* A transmission finds none of its call under way; serving the one there is
\* leaves none.
LEMMA OneRequestStep ==
  TypeOK /\ FrameLeft /\ RequestsKnown /\ OneRequest /\ [Next]_vars => OneRequest'
<1> SUFFICES ASSUME TypeOK, FrameLeft, RequestsKnown, OneRequest, [Next]_vars
             PROVE OneRequest'
  OBVIOUS
<1>0. /\ callNo \in Nat /\ applied \in Nat /\ sends \in Nat
      /\ toDevice \in Seq(Request)
  BY DEF TypeOK, CountType, QueueType
<1>1. CASE Between
  BY <1>1 DEF Between, IndVars, OneRequest
<1>2. ASSUME NEW c \in Commands, RoundTrip(c) PROVE OneRequest'
  <2>1. /\ callNo' = callNo + 1 /\ toDevice' = toDevice
        /\ applied' = 0 /\ sends' = 0
    BY <1>2 DEF RoundTrip
  <2>2. \A i \in DOMAIN toDevice : toDevice[i].call \in Nat /\ toDevice[i].call <= callNo
    BY QueueElements DEF Request, RequestsKnown
  <2> QED
    BY <1>0, <2>1, <2>2 DEF OneRequest
<1>3. CASE Send
  <2>1. /\ callNo' = callNo /\ applied' = applied /\ sends' = sends + 1
        /\ pc = "send" /\ pc' = "recv"
    BY <1>3 DEF Send
  <2>2. \A i \in DOMAIN toDevice : toDevice[i].call # callNo
    BY <2>1 DEF OneRequest
  <2>3. CASE toDevice' = toDevice
    BY <1>0, <2>1, <2>2, <2>3 DEF OneRequest
  <2>4. CASE toDevice' = Append(toDevice, RequestFrame)
    <3>1. \A i \in DOMAIN toDevice' :
            \/ i \in DOMAIN toDevice /\ toDevice'[i] = toDevice[i]
            \/ i = Len(toDevice) + 1
      BY <1>0, <2>4, RequestFrameType
    <3>2. \A i \in DOMAIN toDevice' :
            toDevice'[i].call = callNo => i = Len(toDevice) + 1
      BY <2>2, <3>1
    <3> QED
      BY <1>0, <2>1, <3>2 DEF OneRequest
  <2> QED
    BY <1>3, <2>3, <2>4 DEF Send
<1>4. CASE SendFails \/ BuildFails \/ ReceiveFails \/ GiveUp
  BY <1>4 DEF SendFails, BuildFails, ReceiveFails, GiveUp, Return, net, count, trail, local,
              OneRequest
<1>5. CASE ReceiveFrame
  BY <1>5, ReceiveEffect DEF OneRequest
<1>6. CASE Retry
  <2>1. callNo' = callNo /\ applied' = applied /\ sends' = sends
    BY <1>6, RetryEffect
  <2>2. CASE toDevice' = <<>>
    BY <2>1, <2>2 DEF OneRequest
  <2>3. CASE pc' = "idle" /\ toDevice' = toDevice
    BY <2>1, <2>3 DEF OneRequest
  <2> QED
    BY <1>6, <2>2, <2>3, RetryEffect DEF Resumes, Abandons
<1>7. CASE DeviceServe
  <2> DEFINE f == Head(toDevice)
  <2>1. /\ toDevice # <<>> /\ toDevice' = Tail(toDevice)
        /\ callNo' = callNo /\ sends' = sends /\ pc' = pc
        /\ applied' = IF Understood(f) /\ f.op = "CONTROL" /\ f.call = callNo
                        THEN applied + 1 ELSE applied
    BY <1>7, ServeEffect
  <2>2. 1 \in DOMAIN toDevice /\ f = toDevice[1]
    BY <1>0, <2>1, HeadElement
  <2>3. \A i \in DOMAIN toDevice' :
          i + 1 \in DOMAIN toDevice /\ toDevice'[i] = toDevice[i + 1] /\ i \in Nat \ {0}
    BY <1>0, <2>1, TailElement
  <2>4. applied' <= sends
    BY <1>0, <2>1, <2>2 DEF OneRequest
  <2> HIDE DEF f
  <2>5. ASSUME NEW i \in DOMAIN toDevice', toDevice'[i].call = callNo
        PROVE  /\ pc # "send" /\ applied' < sends
               /\ \A j \in DOMAIN toDevice' : toDevice'[j].call = callNo => i = j
    <3>1. /\ i + 1 \in DOMAIN toDevice /\ toDevice[i + 1].call = callNo
          /\ i \in Nat \ {0}
      BY <2>3, <2>5
    <3>2. i + 1 # 1
      BY <3>1
    <3>3. /\ pc # "send" /\ applied < sends
          /\ \A j \in DOMAIN toDevice : toDevice[j].call = callNo => i + 1 = j
      BY <3>1 DEF OneRequest
    <3>4. f.call # callNo
      BY <2>2, <3>2, <3>3
    <3>5. \A j \in DOMAIN toDevice' : toDevice'[j].call = callNo => i + 1 = j + 1
      BY <2>3, <3>3
    <3> QED
      BY <2>1, <2>3, <3>1, <3>3, <3>4, <3>5
  <2> QED
    BY <2>1, <2>4, <2>5 DEF OneRequest
<1>8. CASE DevicePush \/ PeerDrop
  BY <1>8 DEF DevicePush, PeerDrop, local, count, trail, OneRequest
<1>9. CASE UNCHANGED vars
  BY <1>9 DEF vars, net, count, trail, local, OneRequest
<1> QED
  BY <1>1, <1>2, <1>3, <1>4, <1>5, <1>6, <1>7, <1>8, <1>9, ApplicationEffect
     DEF Next, Loop, Environment

\* A retry starts with empty queues; what enters them afterwards is of its
\* attempt, and an answer to a command means the command was performed.
LEMMA OnlyThisAttemptStep ==
  /\ TypeOK /\ FrameLeft /\ RequestsKnown /\ OnlyThisAttempt
  /\ [Next]_vars
  => OnlyThisAttempt'
<1> SUFFICES ASSUME TypeOK, FrameLeft, RequestsKnown, OnlyThisAttempt, [Next]_vars
             PROVE OnlyThisAttempt'
  OBVIOUS
<1>0. /\ callNo \in Nat /\ applied \in Nat /\ retries \in Nat
      /\ toDevice \in Seq(Request) /\ toClient \in Seq(Reply)
  BY DEF TypeOK, CountType, QueueType
<1>1. CASE Between
  BY <1>1 DEF Between, IndVars, OnlyThisAttempt
<1>2. ASSUME NEW c \in Commands, RoundTrip(c) PROVE OnlyThisAttempt'
  BY <1>2 DEF RoundTrip, OnlyThisAttempt
<1>3. CASE Send
  <2>1. /\ callNo' = callNo /\ retries' = retries /\ cmd' = cmd /\ applied' = applied
        /\ toClient' = toClient /\ pc = "send"
        /\ toDevice' = toDevice \/ toDevice' = Append(toDevice, RequestFrame)
    BY <1>3 DEF Send
  <2>2. RequestFrame.call = callNo /\ RequestFrame.attempt = retries
    BY DEF RequestFrame
  <2>3. \A i \in DOMAIN toDevice' :
          \/ i \in DOMAIN toDevice /\ toDevice'[i] = toDevice[i]
          \/ toDevice'[i] = RequestFrame
    BY <1>0, <2>1, RequestFrameType
  <2> QED
    BY <2>1, <2>2, <2>3 DEF OnlyThisAttempt
<1>4. CASE SendFails \/ BuildFails \/ ReceiveFails \/ GiveUp
  BY <1>4 DEF SendFails, BuildFails, ReceiveFails, GiveUp, Return, net, count, trail, local,
              OnlyThisAttempt
<1>5. CASE ReceiveFrame
  <2>1. \A i \in DOMAIN toClient' :
          i + 1 \in DOMAIN toClient /\ toClient'[i] = toClient[i + 1]
    BY <1>0, <1>5, ReceiveEffect, TailElement
  <2>2. /\ pc = "recv"
        /\ UNCHANGED <<callNo, retries, cmd, applied, toDevice>>
    BY <1>5, ReceiveEffect
  <2> QED
    BY <2>1, <2>2 DEF OnlyThisAttempt
<1>6. CASE Retry
  <2>1. CASE toDevice' = <<>> /\ toClient' = <<>>
    BY <2>1 DEF OnlyThisAttempt
  <2>2. CASE pc' = "idle"
    BY <2>2 DEF OnlyThisAttempt
  <2> QED
    BY <1>6, <2>1, <2>2, RetryEffect DEF Resumes, Abandons
<1>7. CASE DeviceServe
  <2> DEFINE f == Head(toDevice)
  <2>1. /\ toDevice # <<>> /\ toDevice' = Tail(toDevice)
        /\ UNCHANGED <<pc, retries, callNo, cmd>>
        /\ applied' = IF Understood(f) /\ f.op = "CONTROL" /\ f.call = callNo
                        THEN applied + 1 ELSE applied
        /\ \A i \in DOMAIN toClient' : toClient'[i].call # 0 =>
              \/ i \in DOMAIN toClient /\ toClient'[i] = toClient[i]
              \/ /\ toClient'[i].call = f.call /\ toClient'[i].attempt = f.attempt
                 /\ Understood(f)
    BY <1>7, ServeEffect
  <2>2. 1 \in DOMAIN toDevice /\ f = toDevice[1]
    BY <1>0, <2>1, HeadElement
  <2>3. \A i \in DOMAIN toDevice' :
          i + 1 \in DOMAIN toDevice /\ toDevice'[i] = toDevice[i + 1]
    BY <1>0, <2>1, TailElement
  <2> HIDE DEF f
  <2> SUFFICES ASSUME pc # "idle", retries > 0
               PROVE  /\ \A i \in DOMAIN toDevice' :
                           toDevice'[i].call = callNo /\ toDevice'[i].attempt = retries
                      /\ \A i \in DOMAIN toClient' : toClient'[i].call # 0 =>
                           /\ toClient'[i].call = callNo
                           /\ toClient'[i].attempt = retries
                           /\ cmd = "CONTROL" => applied' > 0
    BY <2>1 DEF OnlyThisAttempt
  <2>4. f.call = callNo /\ f.attempt = retries /\ f.op = cmd
    BY <2>2 DEF OnlyThisAttempt, RequestsKnown
  <2>5. \A i \in DOMAIN toDevice' :
          toDevice'[i].call = callNo /\ toDevice'[i].attempt = retries
    BY <2>3 DEF OnlyThisAttempt
  <2>6. ASSUME NEW i \in DOMAIN toClient', toClient'[i].call # 0
        PROVE  /\ toClient'[i].call = callNo
               /\ toClient'[i].attempt = retries
               /\ cmd = "CONTROL" => applied' > 0
    <3>1. CASE i \in DOMAIN toClient /\ toClient'[i] = toClient[i]
      BY <1>0, <2>1, <2>6, <3>1 DEF OnlyThisAttempt
    <3>2. CASE /\ toClient'[i].call = f.call /\ toClient'[i].attempt = f.attempt
               /\ Understood(f)
      BY <1>0, <2>1, <2>4, <3>2
    <3> QED
      BY <2>1, <2>6, <3>1, <3>2
  <2> QED
    BY <2>5, <2>6
<1>8. CASE DevicePush
  <2>1. toClient' = Append(toClient, Push) /\ Push.call = 0
    BY <1>8 DEF DevicePush, Push
  <2>2. \A i \in DOMAIN toClient' :
          \/ i \in DOMAIN toClient /\ toClient'[i] = toClient[i]
          \/ toClient'[i] = Push
    BY <1>0, <2>1, PushType
  <2>3. UNCHANGED <<pc, cmd, retries, callNo, applied, toDevice>>
    BY <1>8 DEF DevicePush, local, count, trail
  <2> QED
    BY <2>1, <2>2, <2>3 DEF OnlyThisAttempt
<1>9. CASE PeerDrop
  BY <1>9 DEF PeerDrop, OnlyThisAttempt
<1>10. CASE UNCHANGED vars
  BY <1>10 DEF vars, net, count, trail, local, OnlyThisAttempt
<1> QED
  BY <1>1, <1>2, <1>3, <1>4, <1>5, <1>6, <1>7, <1>8, <1>9, <1>10, ApplicationEffect
     DEF Next, Loop, Environment

\* A retransmission is tried only on the connection the retry made, which was opened
\* after the attempt before it.
LEMMA RetryUnderSessionStep ==
  TypeOK /\ FrameLeft /\ RetryUnderSession /\ [Next]_vars
  => RetryUnderSession'
<1> SUFFICES ASSUME TypeOK, FrameLeft, RetryUnderSession, [Next]_vars
             PROVE RetryUnderSession'
  OBVIOUS
<1> USE DEF RetryUnderSession, NewCommandSet
<1>0. opened \in Nat
  BY DEF TypeOK, CountType
<1>1. CASE Between
  BY <1>1 DEF Between, IndVars
<1>2. ASSUME NEW c \in Commands, RoundTrip(c) PROVE RetryUnderSession'
  BY <1>2 DEF RoundTrip
<1>3. CASE Send \/ SendFails \/ ReceiveFails
  BY <1>3 DEF Send, SendFails, ReceiveFails
<1>4. CASE BuildFails \/ GiveUp
  BY <1>4 DEF BuildFails, GiveUp, Return
<1>5. CASE ReceiveFrame
  BY <1>5, ReceiveEffect
<1>6. CASE Retry
  <2>1. pc = "failed" /\ version' = version
    BY <1>6, RetryEffect DEF handle
  <2>2. CASE Resumes
    BY <1>0, <2>1, <2>2 DEF Resumes
  <2>3. CASE Abandons
    BY <2>3 DEF Abandons
  <2> QED
    BY <1>6, <2>2, <2>3, RetryEffect
<1>7. CASE Environment
  BY <1>7 DEF Environment, DeviceServe, DevicePush, PeerDrop, handle, api, local, trail
<1>8. CASE UNCHANGED vars
  BY <1>8 DEF vars, handle, api, local, trail
<1> QED
  BY <1>1, <1>2, <1>3, <1>4, <1>5, <1>6, <1>7, <1>8, ApplicationEffect
     DEF Next, Loop

\* NULL and no answer are not frames.
LEMMA NoReply ==
  /\ NoAnswer.kind \notin FrameKinds /\ NullAnswer.kind \notin FrameKinds
  /\ NoAnswer.kind # "text" /\ NullAnswer.kind # "text"
BY DEF NoAnswer, NullAnswer, FrameKinds

\* An answer is the head of the queue it was read from, and after a retry that
\* queue holds this attempt's replies only.
LEMMA FreshStep ==
  /\ TypeOK /\ FrameLeft /\ AnswerPending /\ OnlyThisAttempt /\ RetriedAnswerIsFresh
  /\ [Next]_vars
  => RetriedAnswerIsFresh'
<1> SUFFICES ASSUME TypeOK, FrameLeft, AnswerPending, OnlyThisAttempt,
                    RetriedAnswerIsFresh, [Next]_vars
             PROVE RetriedAnswerIsFresh'
  OBVIOUS
<1> USE NoReply DEF RetriedAnswerIsFresh
<1>0. applied \in Nat /\ toClient \in Seq(Reply)
  BY DEF TypeOK, CountType, QueueType
<1>1. CASE answer' = NoAnswer \/ answer' = NullAnswer
  BY <1>1
<1>2. CASE Between
  BY <1>1, <1>2 DEF Between, IndVars
<1>3. ASSUME NEW c \in Commands, RoundTrip(c) PROVE RetriedAnswerIsFresh'
  BY <1>1, <1>3 DEF RoundTrip
<1>4. CASE Send \/ SendFails \/ ReceiveFails
  BY <1>1, <1>4 DEF Send, SendFails, ReceiveFails, AnswerPending
<1>5. CASE BuildFails \/ GiveUp
  BY <1>1, <1>5 DEF BuildFails, GiveUp, Return
<1>6. CASE ReceiveFrame
  <2>1. /\ pc = "recv" /\ toClient # <<>>
        /\ UNCHANGED <<cmd, retries, applied, callNo>>
        /\ answer' = answer \/ answer' = Head(toClient)
    BY <1>6, ReceiveEffect
  <2>2. answer = NoAnswer
    BY <2>1 DEF AnswerPending
  <2>3. 1 \in DOMAIN toClient /\ Head(toClient) = toClient[1]
    BY <1>0, <2>1, HeadElement
  <2> QED
    BY <1>1, <2>1, <2>2, <2>3 DEF OnlyThisAttempt
<1>7. CASE Retry
  BY <1>1, <1>7, RetryEffect DEF Resumes, Abandons, AnswerPending
<1>8. CASE DeviceServe
  BY <1>0, <1>8, ServeEffect
<1>9. CASE DevicePush \/ PeerDrop
  BY <1>9 DEF DevicePush, PeerDrop, local, count, trail
<1>10. CASE UNCHANGED vars
  BY <1>10 DEF vars, local, count, trail, net
<1> QED
  BY <1>2, <1>3, <1>4, <1>5, <1>6, <1>7, <1>8, <1>9, <1>10, ApplicationEffect
     DEF Next, Loop, Environment

\* A status query takes a reply without data points from its last frame only.
LEMMA QueryStep ==
  TypeOK /\ FrameLeft /\ AnswerPending /\ QueryPrefersDataPoints /\ [Next]_vars
  => QueryPrefersDataPoints'
<1> SUFFICES ASSUME TypeOK, FrameLeft, AnswerPending, QueryPrefersDataPoints,
                    [Next]_vars
             PROVE QueryPrefersDataPoints'
  OBVIOUS
<1> USE NoReply DEF QueryPrefersDataPoints, RecvAttempts
<1>1. CASE answer' = NoAnswer \/ answer' = NullAnswer
  BY <1>1
<1>2. CASE Between
  BY <1>1, <1>2 DEF Between, IndVars
<1>3. ASSUME NEW c \in Commands, RoundTrip(c) PROVE QueryPrefersDataPoints'
  BY <1>1, <1>3 DEF RoundTrip
<1>4. CASE Send \/ SendFails \/ ReceiveFails
  BY <1>1, <1>4 DEF Send, SendFails, ReceiveFails, AnswerPending
<1>5. CASE BuildFails \/ GiveUp
  BY <1>1, <1>5 DEF BuildFails, GiveUp, Return
<1>6. CASE ReceiveFrame
  BY <1>1, <1>6, ReceiveEffect DEF AnswerPending
<1>7. CASE Retry
  BY <1>1, <1>7, RetryEffect DEF Resumes, Abandons, AnswerPending
<1>8. CASE Environment
  BY <1>8 DEF Environment, DeviceServe, DevicePush, PeerDrop, local
<1>9. CASE UNCHANGED vars
  BY <1>9 DEF vars, local
<1> QED
  BY <1>2, <1>3, <1>4, <1>5, <1>6, <1>7, <1>8, <1>9, ApplicationEffect
     DEF Next, Loop

-----------------------------------------------------------------------------
(* The theorems.                                                           *)

\* The invariant is inductive.
LEMMA InvStep == IInv /\ [Next]_vars => IInv'
BY TypeStep, FrameLeftStep, AttemptsStep, AnswerStep, RequestsStep, OneRequestStep,
   OnlyThisAttemptStep, RetryUnderSessionStep, FreshStep, QueryStep, Zenon
   DEF IInv

\* The invariant always holds.
LEMMA Invariance == Spec => []IInv
BY InvInit, InvStep, PTL DEF Spec

\* Every variable keeps its type, whatever is called, lost or answered.
THEOREM TypeCorrect == Spec => []TypeOK
<1>1. IInv => TypeOK
  BY DEF IInv
<1> QED
  BY <1>1, Invariance, PTL

\* round_trip transmits at most once plus once per permitted retry, for every
\* retry limit, negative ones included.
THEOREM Attempts == Spec => []AttemptsBounded
<1>1. IInv => AttemptsBounded
  <2>1. ASSUME IInv PROVE retries \in Nat /\ sends \in Nat /\ AttemptsCounted
    BY <2>1 DEF IInv, TypeOK, CountType
  <2> QED
    BY <2>1 DEF AttemptsBounded, AttemptsCounted
<1> QED
  BY <1>1, Invariance, PTL

\* A retry transmits over a connection opened, and from 3.4 on under a session
\* negotiated over it, after the failed attempt (round_trip's disconnect and reconnect).
THEOREM RetrySession == Spec => []RetryUnderSession
<1>1. IInv => RetryUnderSession
  BY DEF IInv
<1> QED
  BY <1>1, Invariance, PTL

\* What a retried call returns answers its last transmission, and a command so
\* answered was performed.
THEOREM RetriedAnswer == Spec => []RetriedAnswerIsFresh
<1>1. IInv => RetriedAnswerIsFresh
  BY DEF IInv
<1> QED
  BY <1>1, Invariance, PTL

\* A status query gives up looking for data points only after its last frame.
THEOREM QueryAnswer == Spec => []QueryPrefersDataPoints
<1>1. IInv => QueryPrefersDataPoints
  BY DEF IInv
<1> QED
  BY <1>1, Invariance, PTL

-----------------------------------------------------------------------------
(* Round trips implement the at-least-once call.                           *)

\* One transmission plus the permitted retries, for any limit.
LEMMA BudgetType ==
  ASSUME NEW n \in Int  PROVE (IF n > 0 THEN n + 1 ELSE 1) \in Nat \ {0}
<1>1. CASE n > 0
  BY <1>1
<1>2. CASE ~(n > 0)
  BY <1>2
<1> QED
  BY <1>1, <1>2

\* An idle handle is an abstract call not begun.
LEMMA CallInit == Init => Call!Init
<1> SUFFICES ASSUME Init PROVE Call!Init
  OBVIOUS
<1>1. retryLimit \in Int
  BY LimitAssumption DEF Init
<1>2. pc = "idle" /\ sends = 0 /\ applied = 0
  BY DEF Init
<1> QED
  BY <1>1, <1>2 DEF Call!Init

\* Every step of the handle, the network or the device is a step of the
\* abstract call or leaves it as it is.
LEMMA CallStep == IInv /\ IInv' /\ [Next]_vars => [Call!Next]_Call!vars
<1> SUFFICES ASSUME IInv, IInv', [Next]_vars PROVE [Call!Next]_Call!vars
  OBVIOUS
<1> USE DEF Call!Next, Call!vars
<1>0. /\ retries \in Nat /\ sends \in Nat /\ applied \in Nat /\ retryLimit \in Int
      /\ retryLimit' \in Int
  BY DEF IInv, TypeOK, CountType, HandleType
<1>1. CASE Between
  <2>1. pc = "idle" /\ pc' = "idle" /\ sends' = sends /\ applied' = applied
    BY <1>1 DEF Between, IndVars
  <2>2. (IF retryLimit' > 0 THEN retryLimit' + 1 ELSE 1) \in Nat \ {0}
    BY <1>0, BudgetType
  <2>3. Call!SetBudget
    BY <2>1, <2>2 DEF Call!SetBudget
  <2> QED
    BY <2>3
<1>2. ASSUME NEW c \in Commands, RoundTrip(c) PROVE Call!Begin
  BY <1>2 DEF RoundTrip, Idle, Call!Begin, handle
<1>3. CASE Send
  <2>1. /\ pc = "send" /\ pc' = "recv" /\ sends' = sends + 1
        /\ retryLimit' = retryLimit /\ applied' = applied
    BY <1>3 DEF Send, handle
  <2>2. sends <= retries /\ (retries = 0 \/ retries <= retryLimit)
    BY <2>1 DEF IInv, AttemptsCounted
  <2> QED
    BY <1>0, <2>1, <2>2 DEF Call!Transmit
<1>4. CASE SendFails \/ ReceiveFails
  BY <1>4 DEF SendFails, ReceiveFails, handle, net, count, trail
<1>5. CASE BuildFails \/ GiveUp
  BY <1>5 DEF BuildFails, GiveUp, Return, handle, net, count, trail, Call!Return
<1>6. CASE ReceiveFrame
  <2>1. IInv => TypeOK /\ FrameLeft
    BY DEF IInv
  <2> QED
    BY <1>6, <2>1, ReceiveEffect DEF handle, Call!Return
<1>7. CASE Retry
  BY <1>7, RetryEffect DEF Resumes, Abandons, handle, Call!Return
<1>8. CASE DeviceServe
  <2> DEFINE f == Head(toDevice)
  <2>1. /\ toDevice # <<>> /\ pc' = pc /\ sends' = sends
        /\ applied' = IF Understood(f) /\ f.op = "CONTROL" /\ f.call = callNo
                        THEN applied + 1 ELSE applied
    BY <1>8, ServeEffect DEF IInv
  <2>2. retryLimit' = retryLimit
    BY <1>8 DEF DeviceServe, handle
  <2>3. 1 \in DOMAIN toDevice /\ f = toDevice[1]
    BY <2>1, HeadElement DEF IInv, TypeOK, QueueType
  <2>4. f.call = callNo => applied < sends
    BY <2>3 DEF IInv, OneRequest
  <2> HIDE DEF f
  <2> QED
    BY <2>1, <2>2, <2>4 DEF Call!Perform
<1>9. CASE DevicePush \/ PeerDrop
  BY <1>9 DEF DevicePush, PeerDrop, handle, local, count, trail
<1>10. CASE UNCHANGED vars
  BY <1>10 DEF vars, handle, net, count, trail
<1> QED
  BY <1>1, <1>2, <1>3, <1>4, <1>5, <1>6, <1>7, <1>8, <1>9, <1>10, ApplicationEffect
     DEF Next, Loop, Environment

\* Whatever the network loses, delays or delivers after a disconnect, the device
\* performs a command at most once per transmission, and the call transmits
\* within its budget.
THEOREM Refinement == Spec => ImplementsRetriedCall
BY CallInit, CallStep, Invariance, PTL DEF Spec, ImplementsRetriedCall, Call!Spec

-----------------------------------------------------------------------------
(* A round trip takes a bounded number of steps of its own.                *)

\* The retries that the limit still permits.
RetriesLeft == IF retryLimit > retries THEN retryLimit - retries ELSE 0

\* The steps of this attempt that are still to come, at most: the send, a receive for
\* each frame it may read, and its failure.
StepsLeft ==
  CASE pc = "idle" -> 0
    [] pc = "send" -> RecvAttempts + 2
    [] pc = "recv" -> RecvAttempts - frame + 1
    [] pc = "failed" -> 1

\* A further attempt takes at most five steps, and the retry that begins it.
LeftToDo == IF pc = "idle" THEN 0 ELSE 6 * RetriesLeft + StepsLeft

\* What is left is a number, and none only when the call has returned.
LEMMA LeftType ==
  ASSUME IInv
  PROVE  /\ RetriesLeft \in Nat /\ StepsLeft \in 0..5 /\ LeftToDo \in Nat
         /\ pc # "idle" => StepsLeft > 0 /\ LeftToDo > 0
<1>1. /\ retries \in Nat /\ retryLimit \in Int /\ frame \in 0..3
      /\ pc \in {"idle", "send", "recv", "failed"}
      /\ pc = "recv" => frame < RecvAttempts
  BY DEF IInv, TypeOK, HandleType, CountType, CallType, FrameLeft
<1>2. RecvAttempts \in {1, 3}
  BY DEF RecvAttempts
<1>3. RetriesLeft \in Nat
  BY <1>1 DEF RetriesLeft
<1>4. StepsLeft \in 0..5 /\ (pc # "idle" => StepsLeft > 0)
  BY <1>1, <1>2 DEF StepsLeft
<1> QED
  BY <1>3, <1>4 DEF LeftToDo

\* Each step of the loop gets nearer to its return.
LEMMA LoopCost ==
  ASSUME IInv, Loop
  PROVE  LeftToDo' < LeftToDo
<1>0. /\ retries \in Nat /\ retryLimit \in Int /\ frame \in 0..3
      /\ RecvAttempts \in {1, 3}
      /\ pc = "recv" => frame < RecvAttempts
  BY DEF IInv, TypeOK, HandleType, CountType, FrameLeft, RecvAttempts
<1>1. RetriesLeft \in Nat /\ LeftToDo \in Nat /\ (pc # "idle" => LeftToDo > 0)
  BY LeftType
<1>2. ASSUME pc # "idle", pc' = "idle" PROVE LeftToDo' < LeftToDo
  BY <1>1, <1>2 DEF LeftToDo
<1>3. ASSUME UNCHANGED <<handle, cmd, retries>>
      PROVE  RetriesLeft' = RetriesLeft /\ RecvAttempts' = RecvAttempts
  BY <1>3 DEF RetriesLeft, RecvAttempts, handle
<1>4. CASE Send
  <2>1. pc = "send" /\ pc' = "recv" /\ frame' = 0 /\ UNCHANGED <<handle, cmd, retries>>
    BY <1>4 DEF Send
  <2> QED
    BY <1>0, <1>1, <1>3, <2>1 DEF LeftToDo, StepsLeft
<1>5. CASE SendFails
  <2>1. pc = "send" /\ pc' = "failed" /\ UNCHANGED <<handle, cmd, retries>>
    BY <1>5 DEF SendFails
  <2> QED
    BY <1>0, <1>1, <1>3, <2>1 DEF LeftToDo, StepsLeft
<1>6. CASE ReceiveFails
  <2>1. pc = "recv" /\ pc' = "failed" /\ UNCHANGED <<handle, cmd, retries>>
    BY <1>6 DEF ReceiveFails
  <2> QED
    BY <1>0, <1>1, <1>3, <2>1 DEF LeftToDo, StepsLeft
<1>7. CASE BuildFails \/ GiveUp
  BY <1>2, <1>7 DEF BuildFails, GiveUp, Return
<1>8. CASE ReceiveFrame
  <2>1. /\ pc = "recv" /\ frame' = frame + 1 /\ UNCHANGED <<handle, cmd, retries>>
        /\ pc' \in {"recv", "failed", "idle"}
    BY <1>8, ReceiveEffect DEF IInv
  <2> QED
    BY <1>0, <1>1, <1>2, <1>3, <2>1 DEF LeftToDo, StepsLeft
<1>9. CASE Retry
  <2>1. /\ pc = "failed" /\ retries < retryLimit /\ retries' = retries + 1
        /\ UNCHANGED <<handle, cmd>> /\ pc' \in {"send", "idle"}
    BY <1>9, RetryEffect DEF Resumes, Abandons
  <2>2. RecvAttempts' = RecvAttempts
    BY <2>1 DEF RecvAttempts
  <2>3. RetriesLeft' = RetriesLeft - 1
    BY <1>0, <2>1 DEF RetriesLeft, handle
  <2> QED
    BY <1>0, <1>1, <1>2, <2>1, <2>2, <2>3 DEF LeftToDo, StepsLeft
<1> QED
  BY <1>4, <1>5, <1>6, <1>7, <1>8, <1>9 DEF Loop

\* The network and the device put nothing off, and the application does nothing
\* meanwhile.
LEMMA OthersCost ==
  ASSUME pc # "idle", [Application \/ Environment]_vars
  PROVE  LeftToDo' = LeftToDo
<1>1. UNCHANGED <<handle, pc, cmd, retries, frame>>
  <2>1. CASE Application
    BY <2>1, ApplicationEffect DEF Between, RoundTrip, Idle
  <2>2. CASE Environment
    BY <2>2 DEF Environment, DeviceServe, DevicePush, PeerDrop, local
  <2>3. CASE UNCHANGED vars
    BY <2>3 DEF vars, local
  <2> QED
    BY <2>1, <2>2, <2>3
<1> QED
  BY <1>1 DEF LeftToDo, StepsLeft, RetriesLeft, RecvAttempts, handle

\* A round trip that runs comes to its return: each step of its loop lessens what is
\* left to do, a number that the retry limit bounds when the call begins, and nothing
\* that the network or the device does meanwhile adds to it. What is missing for
\* CallReturns is that the loop does take its steps.
THEOREM RoundTripEnds ==
  Spec => /\ [](LeftToDo \in Nat)
          /\ [][pc # "idle" =>
                  IF Loop THEN LeftToDo' < LeftToDo ELSE LeftToDo' = LeftToDo]_vars
<1>1. IInv => LeftToDo \in Nat
  BY LeftType
<1>2. IInv /\ [Next]_vars =>
        [pc # "idle" => IF Loop THEN LeftToDo' < LeftToDo ELSE LeftToDo' = LeftToDo]_vars
  BY LoopCost, OthersCost DEF Next
<1> QED
  BY <1>1, <1>2, Invariance, PTL DEF Spec

=============================================================================
