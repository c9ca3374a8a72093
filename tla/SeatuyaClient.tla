--------------------------- MODULE SeatuyaClient ---------------------------
(***************************************************************************)
(* One tuya_device handle of src/seatuya.cpp, the application that calls   *)
(* it, and the device at the other end of the TCP connection.              *)
(*                                                                         *)
(* The application is single-threaded: a library call is one action,       *)
(* except round_trip, whose loop is cut at every send and receive so that  *)
(* the network and the device act in between.  tuyapp (the socket and the  *)
(* Tuya framing) is not in the repository; what is assumed of it is what   *)
(* seatuya.cpp relies on, and its part of the state is `connected' (what   *)
(* isConnected() answers, which may be stale), `session', and the two      *)
(* queues of the connection.                                               *)
(***************************************************************************)
EXTENDS Integers, Sequences

CONSTANTS
  Versions,      \* protocol versions the application may ask for
  Keys,          \* local keys the application may hold
  NoKey,         \* a NULL local key
  DeviceKey,     \* the key the device was paired with
  DefaultRetryLimit, \* TUYA_DEFAULT_RETRY_LIMIT
  RetryLimits,   \* values passed to tuya_set_retry_limit()
  Id22,          \* TRUE: the device id has 22 characters
  Firmware22,    \* TRUE: the device runs the "device22" firmware
  Pushes,        \* TRUE: the device sends STATUS frames on its own
  MaxCalls,      \* bound: high-level calls in a behaviour
  MaxQueue       \* bound: frames queued towards the client

ASSUME KeyAssumption == DeviceKey \in Keys /\ NoKey \notin Keys

ASSUME LimitAssumption == DefaultRetryLimit \in Int /\ RetryLimits \subseteq Int

ASSUME BoundAssumption == MaxCalls \in Nat /\ MaxQueue \in Nat

Commands == {"DP_QUERY", "CONTROL", "HEART_BEAT"}
WireCommands == Commands \cup {"DP_QUERY_NEW", "CONTROL_NEW"}
FrameKinds == {"json", "text", "empty"}

VARIABLES
  \* struct tuya_device
  live, version, hasId, localKey, hasIp, retryLimit, device22,
  \* tuyaAPI
  connected, session,
  \* round_trip
  pc, cmd, retries, frame,
  \* what the application saw last
  answer,
  \* the network and the device; callNo and sends count for the properties
  link, toDevice, toClient, applied, callNo, sends,
  \* for the properties: the connections that a round trip has opened since its last
  \* attempt to send, and over which of these its session was negotiated, 0 for none
  opened, negotiated

handle == <<live, version, hasId, localKey, hasIp, retryLimit, device22>>
api == <<connected, session>>
local == <<cmd, retries, frame>>
net == <<link, toDevice, toClient, applied>>
count == <<callNo, sends>>
trail == <<opened, negotiated>>
vars == <<handle, api, pc, local, answer, net, count, trail>>

-----------------------------------------------------------------------------
(* Frames and answers.                                                     *)

Request == [call : Nat, attempt : Nat, op : Commands, wire : WireCommands,
            sealed : BOOLEAN, wellFormed : BOOLEAN]

\* call 0 marks a STATUS frame the device pushed, not a reply.
Reply == [call : Nat, attempt : Nat, kind : FrameKinds]

NoAnswer == [call |-> 0, attempt |-> 0, kind |-> "none"]
NullAnswer == [call |-> 0, attempt |-> 0, kind |-> "NULL"]
Push == [call |-> 0, attempt |-> 0, kind |-> "json"]

\* Protocols that need a negotiated session and the new command set.
NewCommandSet == version \in {"3.4", "3.5"}

\* The command remapping at the head of round_trip.
WireCommand(c) ==
  CASE device22 /\ c \in {"DP_QUERY", "CONTROL"} -> "CONTROL_NEW"
    [] ~device22 /\ NewCommandSet /\ c = "DP_QUERY" -> "DP_QUERY_NEW"
    [] ~device22 /\ NewCommandSet /\ c = "CONTROL" -> "CONTROL_NEW"
    [] OTHER -> c

\* Mutant: reads one frame too many.
RecvAttemptsPlusOne == IF cmd = "DP_QUERY" THEN 4 ELSE 1

\* A status query may be answered by a later frame than the first.
RecvAttempts == IF cmd = "DP_QUERY" THEN 3 ELSE 1

\* The device can decrypt the frame: under the session of this connection, or
\* before 3.4 under the stored local key.
Sealed == IF NewCommandSet THEN session = "ESTABLISHED"
                           ELSE localKey = DeviceKey

\* GeneratePayload() of tuyapp corrupts HEART_BEAT for 22-character ids.
WellFormedPayload(wire) == ~(Id22 /\ wire = "HEART_BEAT")

RequestFrame ==
  [call |-> callNo, attempt |-> retries, op |-> cmd, wire |-> WireCommand(cmd),
   sealed |-> Sealed, wellFormed |-> WellFormedPayload(WireCommand(cmd))]

-----------------------------------------------------------------------------
(* tuyaAPI: connecting, negotiating, disconnecting.  Each operator fixes   *)
(* connected, session, link and the queues.                                *)

\* The device serves one connection: accepting a new one ends the old one.
ConnectToDevice ==
  /\ connected' = TRUE
  /\ session' = "INVALID"
  /\ link' = TRUE
  /\ toDevice' = <<>>
  /\ toClient' = <<>>

ConnectFails ==
  /\ connected' = FALSE
  /\ session' = "INVALID"
  /\ link' = FALSE
  /\ toClient' = <<>>
  /\ UNCHANGED toDevice

\* The client closes its socket.  Bytes already sent may still be served.
Disconnect ==
  /\ connected' = FALSE
  /\ session' = "INVALID"
  /\ link' = FALSE
  /\ toClient' = <<>>
  /\ UNCHANGED toDevice

\* NegotiateSession() over the current connection.  Before 3.4 it does nothing
\* and succeeds.  A failure leaves the socket as it is.
Negotiate(k, ok) ==
  /\ UNCHANGED <<connected, link, toDevice, toClient>>
  /\ IF NewCommandSet
       THEN \/ ok /\ link /\ k = DeviceKey /\ session' = "ESTABLISHED"
            \/ ~ok /\ session' = "INVALID"
       ELSE ok /\ UNCHANGED session

\* tuya_reconnect(), shared by the application and by round_trip's retry: `up'
\* is what isConnected() answers and `ok' what the call returns.
Reconnect(up, ok) ==
  \/ /\ ~hasIp \/ localKey = NoKey
     /\ ~ok
     /\ UNCHANGED <<connected, session, link, toDevice, toClient>>
  \/ /\ hasIp /\ localKey # NoKey /\ up
     /\ ok
     /\ UNCHANGED <<connected, session, link, toDevice, toClient>>
  \/ /\ hasIp /\ localKey # NoKey /\ ~up
     /\ ~ok
     /\ ConnectFails
  \/ /\ hasIp /\ localKey # NoKey /\ ~up
     /\ connected' = TRUE
     /\ link' = TRUE
     /\ toDevice' = <<>>
     /\ toClient' = <<>>
     /\ IF NewCommandSet
          THEN \/ ok /\ localKey = DeviceKey /\ session' = "ESTABLISHED"
               \/ ~ok /\ session' = "INVALID"
          ELSE ok /\ session' = "INVALID"

-----------------------------------------------------------------------------
(* The application's calls, between two round trips.                       *)

Idle == pc = "idle"

\* What no call but a round trip touches.
CallState == <<pc, local, answer, count, trail, applied>>

TuyaAlloc(v) ==
  /\ Idle /\ ~live
  /\ live' = TRUE
  /\ version' = v
  /\ hasId' = FALSE /\ localKey' = NoKey /\ hasIp' = FALSE
  /\ retryLimit' = DefaultRetryLimit
  /\ device22' = FALSE
  /\ UNCHANGED <<api, CallState, link, toDevice, toClient>>

\* tuya_create(): alloc, credentials, connect and negotiate, or nothing at all.
\* Only its success is a step: on failure the handle is destroyed again.
TuyaCreate(v, k) ==
  /\ Idle /\ ~live
  /\ v \in {"3.4", "3.5"} => k = DeviceKey
  /\ live' = TRUE
  /\ version' = v
  /\ hasId' = TRUE /\ localKey' = k /\ hasIp' = TRUE
  /\ retryLimit' = DefaultRetryLimit
  /\ device22' = FALSE
  /\ connected' = TRUE /\ link' = TRUE
  /\ session' = IF v \in {"3.4", "3.5"} THEN "ESTABLISHED" ELSE "INVALID"
  /\ toDevice' = <<>> /\ toClient' = <<>>
  /\ UNCHANGED CallState

TuyaDestroy ==
  /\ Idle /\ live
  /\ live' = FALSE
  /\ hasId' = FALSE /\ localKey' = NoKey /\ hasIp' = FALSE
  /\ Disconnect
  /\ UNCHANGED <<version, retryLimit, device22, CallState>>

TuyaSetCredentials(id, k) ==
  /\ Idle /\ live
  /\ hasId' = id
  /\ localKey' = k
  /\ UNCHANGED <<live, version, hasIp, retryLimit, device22, api, CallState,
                 link, toDevice, toClient>>

\* The address is stored before the connection is tried, and kept if it fails.
TuyaConnect ==
  /\ Idle /\ live
  /\ hasIp' = TRUE
  /\ ConnectToDevice \/ ConnectFails
  /\ UNCHANGED <<live, version, hasId, localKey, retryLimit, device22, CallState>>

TuyaReconnect(ok) ==
  /\ Idle /\ live
  /\ Reconnect(connected, ok)
  /\ UNCHANGED <<handle, CallState>>

TuyaDisconnect ==
  /\ Idle /\ live
  /\ Disconnect
  /\ UNCHANGED <<handle, CallState>>

\* The key is the caller's argument, not the stored one.
TuyaNegotiateSession(k) ==
  /\ Idle /\ live
  /\ \E ok \in BOOLEAN : Negotiate(k, ok)
  /\ UNCHANGED <<handle, CallState>>

TuyaSetRetryLimit(n) ==
  /\ Idle /\ live
  /\ retryLimit' = n
  /\ UNCHANGED <<live, version, hasId, localKey, hasIp, device22, api, CallState,
                 link, toDevice, toClient>>

TuyaSetDevice22(on) ==
  /\ Idle /\ live
  /\ device22' = on
  /\ UNCHANGED <<live, version, hasId, localKey, hasIp, retryLimit, api, CallState,
                 link, toDevice, toClient>>

-----------------------------------------------------------------------------
(* round_trip(), called by tuya_status, tuya_set_value_*, tuya_turn_on,     *)
(* tuya_turn_off and tuya_heartbeat.                                       *)

Return(a) == pc' = "idle" /\ answer' = a

\* Without credentials the call fails at once.
RoundTripRefused ==
  /\ Idle /\ live
  /\ ~hasId \/ localKey = NoKey
  /\ Return(NullAnswer)
  /\ UNCHANGED <<handle, api, local, net, count, trail>>

RoundTrip(c) ==
  /\ Idle /\ live
  /\ hasId /\ localKey # NoKey
  /\ callNo < MaxCalls
  /\ pc' = "send"
  /\ cmd' = c
  /\ retries' = 0 /\ frame' = 0
  /\ answer' = NoAnswer
  /\ callNo' = callNo + 1
  /\ sends' = 0
  /\ applied' = 0
  /\ opened' = 0 /\ negotiated' = 0
  /\ UNCHANGED <<handle, api, link, toDevice, toClient>>

\* send() put the frame on the connection.  If the peer is gone the bytes are
\* lost, and send() may not notice.
Send ==
  /\ pc = "send" /\ connected
  /\ toDevice' = IF link THEN Append(toDevice, RequestFrame) ELSE toDevice
  /\ sends' = sends + 1
  /\ pc' = "recv"
  /\ frame' = 0
  /\ opened' = 0 /\ negotiated' = 0
  /\ UNCHANGED <<handle, api, cmd, retries, answer, link, toClient, applied, callNo>>

\* send() failed: not connected, or the peer is gone.
SendFails ==
  /\ pc = "send"
  /\ ~connected \/ ~link
  /\ pc' = "failed"
  /\ \E c \in {connected, FALSE} : connected' = c
  /\ opened' = 0 /\ negotiated' = 0
  /\ UNCHANGED <<handle, session, cmd, retries, frame, answer, net, count>>

\* BuildTuyaMessage() or GeneratePayload() failed: NULL, the connection stays.
BuildFails ==
  /\ pc = "send"
  /\ Return(NullAnswer)
  /\ UNCHANGED <<handle, api, local, net, count, trail>>

\* Mutant: a status query takes the first reply that has a payload.
ReceiveFirstPayload ==
  /\ pc = "recv" /\ toClient # <<>>
  /\ frame' = frame + 1
  /\ IF Head(toClient).kind # "empty"
       THEN Return(Head(toClient))
       ELSE /\ UNCHANGED answer
            /\ pc' = IF frame + 1 < RecvAttempts THEN "recv" ELSE "failed"
  /\ toClient' = Tail(toClient)
  /\ UNCHANGED <<handle, api, cmd, retries, link, toDevice, applied, count, trail>>

\* A frame was received and decoded.  An empty payload is skipped, and so is a
\* reply without a JSON object while a status query has frames left to read;
\* when none is left the attempt has failed.
ReceiveFrame ==
  /\ pc = "recv" /\ toClient # <<>>
  /\ LET f == Head(toClient)
         more == frame + 1 < RecvAttempts
     IN \/ /\ f.kind = "empty" \/ (f.kind = "text" /\ cmd = "DP_QUERY" /\ more)
           /\ frame' = frame + 1
           /\ pc' = IF more THEN "recv" ELSE "failed"
           /\ UNCHANGED answer
        \/ /\ f.kind = "json" \/ (f.kind = "text" /\ ~(cmd = "DP_QUERY" /\ more))
           /\ frame' = frame + 1
           /\ Return(f)
  /\ toClient' = Tail(toClient)
  /\ UNCHANGED <<handle, api, cmd, retries, link, toDevice, applied, count, trail>>

\* receive() timed out or failed: no frame was there in time.
ReceiveFails ==
  /\ pc = "recv" /\ toClient = <<>>
  /\ pc' = "failed"
  /\ \E c \in {connected, link} : connected' = c
  /\ UNCHANGED <<handle, session, cmd, retries, frame, answer, net, count, trail>>

\* Out of retries: NULL, and the connection is left as it is.
GiveUp ==
  /\ pc = "failed"
  /\ retries >= retryLimit
  /\ Return(NullAnswer)
  /\ UNCHANGED <<handle, api, cmd, retries, frame, net, count, trail>>

\* What a retry does, given the guard on the count, its step, and what
\* isConnected() says when tuya_reconnect() asks: if it is up nothing is opened.
RetryWith(allowed, step, up) ==
  /\ pc = "failed"
  /\ allowed
  /\ retries' = retries + step
  /\ \E ok \in BOOLEAN :
       /\ Reconnect(up, ok)
       /\ IF ok THEN pc' = "send" /\ UNCHANGED answer
                ELSE Return(NullAnswer)
  /\ opened' = IF connected' /\ ~up THEN opened + 1 ELSE opened
  /\ negotiated' = IF session' = "ESTABLISHED" /\ ~up THEN opened' ELSE negotiated
  /\ UNCHANGED <<handle, cmd, frame, applied, count>>

\* Mutants: one retry too many; retries not counted; no disconnect() first.
RetryOnceMore == RetryWith(retries <= retryLimit, 1, FALSE)
RetryUncounted == RetryWith(retries < retryLimit, 0, FALSE)
RetryStillConnected == RetryWith(retries < retryLimit, 1, connected)

\* disconnect(), a pause, then tuya_reconnect(), for which isConnected() is now
\* false; a failed reconnect ends the call.  Nothing is left to disconnect on a
\* handle that has no address yet.
Retry == RetryWith(retries < retryLimit, 1, FALSE)

-----------------------------------------------------------------------------
(* The device and the network.                                             *)

\* What the device does not drop.  device22 firmware ignores DP_QUERY and
\* CONTROL; from 3.4 on the device knows the new commands only.
Understood(f) ==
  /\ f.sealed /\ f.wellFormed
  /\ Firmware22 \/ NewCommandSet => f.wire \notin {"DP_QUERY", "CONTROL"}

\* What the device may send back: a query gets the data points or an error text;
\* device22 firmware acknowledges with an empty payload and pushes the data
\* points, if it does, in a frame of their own.  Any answer may fail to come.
Answers(f) ==
  LET r(kind) == [call |-> f.call, attempt |-> f.attempt, kind |-> kind]
  IN CASE ~Understood(f) -> {<<>>}
       [] Understood(f) /\ Firmware22 ->
            {<<>>, <<r("empty")>>, <<r("empty"), Push>>}
       [] Understood(f) /\ ~Firmware22 /\ f.op = "DP_QUERY" ->
            {<<>>, <<r("json")>>, <<r("text")>>}
       [] OTHER -> {<<>>, <<r("json")>>}

\* The device takes the next frame.  It may do so after the client closed its
\* end, and then no answer arrives.
DeviceServe ==
  /\ toDevice # <<>>
  /\ LET f == Head(toDevice)
     IN /\ applied' = IF Understood(f) /\ f.op = "CONTROL" /\ f.call = callNo
                        THEN applied + 1 ELSE applied
        /\ \E a \in Answers(f) :
             /\ Len(toClient \o a) <= MaxQueue
             /\ toClient' = IF link THEN toClient \o a ELSE toClient
  /\ toDevice' = Tail(toDevice)
  /\ UNCHANGED <<handle, api, pc, local, answer, link, count, trail>>

\* A data point changed: STATUS, unasked for.
DevicePush ==
  /\ Pushes /\ link
  /\ Len(toClient) < MaxQueue
  /\ toClient' = Append(toClient, Push)
  /\ UNCHANGED <<handle, api, pc, local, answer, link, toDevice, applied, count, trail>>

\* The connection is lost; the client has not noticed yet.
PeerDrop ==
  /\ link
  /\ link' = FALSE
  /\ toDevice' = <<>> /\ toClient' = <<>>
  /\ UNCHANGED <<handle, api, pc, local, answer, applied, count, trail>>

-----------------------------------------------------------------------------
Init ==
  /\ live = FALSE
  /\ version \in Versions
  /\ hasId = FALSE /\ localKey = NoKey /\ hasIp = FALSE
  /\ retryLimit = DefaultRetryLimit
  /\ device22 = FALSE
  /\ connected = FALSE /\ session = "INVALID"
  /\ pc = "idle" /\ cmd = "DP_QUERY" /\ retries = 0 /\ frame = 0
  /\ answer = NoAnswer
  /\ link = FALSE /\ toDevice = <<>> /\ toClient = <<>>
  /\ applied = 0 /\ callNo = 0 /\ sends = 0
  /\ opened = 0 /\ negotiated = 0

Application ==
  \/ \E v \in Versions : TuyaAlloc(v)
  \/ \E v \in Versions, k \in Keys : TuyaCreate(v, k)
  \/ TuyaDestroy
  \/ \E id \in BOOLEAN, k \in Keys \cup {NoKey} : TuyaSetCredentials(id, k)
  \/ TuyaConnect
  \/ \E ok \in BOOLEAN : TuyaReconnect(ok)
  \/ TuyaDisconnect
  \/ \E k \in Keys : TuyaNegotiateSession(k)
  \/ \E n \in RetryLimits : TuyaSetRetryLimit(n)
  \/ \E on \in BOOLEAN : TuyaSetDevice22(on)
  \/ RoundTripRefused
  \/ \E c \in Commands : RoundTrip(c)

\* The loop of round_trip, from its first send to its return.
Loop == Send \/ SendFails \/ BuildFails \/ ReceiveFrame \/ ReceiveFails
        \/ GiveUp \/ Retry

Environment == DeviceServe \/ DevicePush \/ PeerDrop

Next == Application \/ Loop \/ Environment

Spec == Init /\ [][Next]_vars

\* The thread in round_trip keeps running: it never waits without a timeout.
\* Nothing is assumed of the application, the network or the device.
FairSpec == Spec /\ WF_vars(Loop)

-----------------------------------------------------------------------------
(* Properties.                                                             *)

\* Types of all variables, part by part.
HandleType ==
  /\ live \in BOOLEAN /\ version \in Versions
  /\ hasId \in BOOLEAN /\ localKey \in Keys \cup {NoKey} /\ hasIp \in BOOLEAN
  /\ retryLimit \in Int /\ device22 \in BOOLEAN

LinkType ==
  /\ connected \in BOOLEAN /\ session \in {"INVALID", "ESTABLISHED"}
  /\ link \in BOOLEAN

CallType ==
  /\ pc \in {"idle", "send", "recv", "failed"} /\ cmd \in Commands
  /\ answer \in Reply \cup {NoAnswer, NullAnswer}

CountType ==
  /\ retries \in Nat /\ frame \in 0..3
  /\ applied \in Nat /\ callNo \in Nat /\ sends \in Nat
  /\ opened \in Nat /\ negotiated \in Nat

QueueType == toDevice \in Seq(Request) /\ toClient \in Seq(Reply)

\* The type invariant: every variable keeps its type.
TypeOK == HandleType /\ LinkType /\ CallType /\ CountType /\ QueueType

\* A round trip transmits its frame at most once plus once per permitted retry,
\* whatever limit was set (seatuya.h: "retries up to retry_limit times"); with a
\* limit of zero or less there is exactly one transmission.
AttemptsBounded ==
  pc # "idle" =>
    /\ sends <= retries + 1
    /\ retries = 0 \/ retries <= retryLimit

\* A retransmission goes over a connection that was opened after the attempt before
\* it had failed, and from 3.4 on under a session negotiated over that connection: a
\* half-open connection, or the key of the session before, is never used again
\* (round_trip() disconnects, then calls tuya_reconnect()).
RetryUnderSession ==
  pc = "send" /\ retries > 0 =>
    /\ connected /\ opened > 0
    /\ NewCommandSet => session = "ESTABLISHED" /\ negotiated = opened

\* What a call returns after a retry answers its last transmission: no reply to
\* an earlier attempt, nor to an earlier call that gave up and left its reply on
\* the connection, is taken for it; and a set command so answered was applied.
RetriedAnswerIsFresh ==
  answer.kind \in FrameKinds /\ answer.call # 0 /\ retries > 0 =>
    /\ answer.call = callNo /\ answer.attempt = retries
    /\ cmd = "CONTROL" => applied > 0

\* A status query returns a reply without data points only when it has read all
\* the frames it is willing to read.
QueryPrefersDataPoints ==
  cmd = "DP_QUERY" /\ answer.kind = "text" => frame = RecvAttempts

\* A round trip always returns, on a network and a device that may do anything.
CallReturns == pc # "idle" ~> pc = "idle"

\* The round trips implement the at-least-once call of RetriedCall: whatever is
\* lost, delayed or served after a disconnect, the device performs a command at
\* most once per transmission and a call transmits within its budget.
Call == INSTANCE RetriedCall
          WITH calling <- pc # "idle",
               budget <- IF retryLimit > 0 THEN retryLimit + 1 ELSE 1,
               sent <- sends,
               done <- applied

ImplementsRetriedCall == Call!Spec

=============================================================================
