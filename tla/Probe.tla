--------------------------------- MODULE Probe ---------------------------------
(***************************************************************************)
(* examples/tuyaprobe.c: what a mute device does with its TCP ports.  Per  *)
(* port: a connection (phase 1); junk written until the writes stall, are  *)
(* reset or are too many, with a verdict on whether an application reads   *)
(* it (phase 2); a frame on a connection of its own for each of several    *)
(* versions, or the start of a session (phase 3); an idle connection       *)
(* (phase 4).                                                              *)
(*                                                                         *)
(* Bytes are counted: those in the local send buffer, in the peer's        *)
(* receive buffer, and those its application has read.                     *)
(***************************************************************************)
EXTENDS Integers, FiniteSets, Sequences

CONSTANTS
  Ports,        \* arg_ports, in order
  WithKey,      \* whether an id and a key were given
  JUNK_CHUNK, JUNK_LIMIT,
  StallLimit,   \* 65536: a stall after more bytes is ambiguous
  SndBuf,       \* the send buffer that the kernel has granted
  RcvBuf,       \* the peer's receive buffer
  Waits,        \* what -t may give, in ticks: 0 for what is not positive
  IDLE_HOLD_SEC \* the wait of phase 4, in ticks

ASSUME ProbeAssumption ==
  /\ Ports \in Seq(Nat) /\ WithKey \in BOOLEAN
  /\ JUNK_CHUNK \in Nat \ {0} /\ JUNK_LIMIT \in Nat /\ StallLimit \in Nat
  /\ SndBuf \in Nat /\ RcvBuf \in Nat
  /\ Waits \subseteq Nat /\ IDLE_HOLD_SEC \in Nat \ {0}

\* "Tens of KB at most": the buffers together hold less than what the verdicts look for.
ASSUME BufferAssumption == SndBuf + RcvBuf <= StallLimit /\ SndBuf + RcvBuf < JUNK_LIMIT

VARIABLES
  arg_wait,  \* the wait for the answer to a frame
  pc,        \* where probe_one_port() is
  next,      \* the port that is probed: an index of Ports
  todo,      \* the sub-probes of phase 3 that are left
  sockets,   \* connections that are open, tuya_connect()'s too
  handles,   \* handles that are allocated
  total,     \* bytes of junk that send() has accepted
  sndq, rcvq, drained,  \* junk in the two buffers and read by the application
  reading,   \* whether the application reads (phase 2)
  verdict,   \* of phase 2
  got,       \* whether this wait has received anything
  inbox,     \* whether the peer has sent something that was not received yet
  sentBack,  \* for the properties: whether it has sent anything on it
  hungUp,    \* whether it has closed or reset the connection
  remain,    \* ticks until the deadline of this wait
  report     \* of the last wait

pipe == <<sndq, rcvq, drained, reading>>
wire == <<got, inbox, sentBack, hungUp>>
progress == <<arg_wait, next, todo>>
held == <<sockets, handles>>
vars == <<pc, progress, held, total, pipe, verdict, wire, remain, report>>

Raw == {"heartbeat", "query", "null", "query31"}
Sessions == {"3.4", "3.5"}
phase_frames == <<"heartbeat", "query", "null", "query31", "3.4", "3.5">>

\* A new connection.
Fresh == got' = FALSE /\ inbox' = FALSE /\ sentBack' = FALSE /\ hungUp' = FALSE

-----------------------------------------------------------------------------
(* Phases 1 and 2.                                                         *)

\* The connection of phase 1, closed at once; without it the port is skipped.
Port ==
  /\ pc = "port" /\ next <= Len(Ports)
  /\ \/ pc' = "junkConnect" /\ UNCHANGED next
     \/ next' = next + 1 /\ UNCHANGED pc
  /\ UNCHANGED <<arg_wait, todo, held, total, pipe, verdict, wire, remain, report>>

\* Phase 3 comes next, with nothing to do if there is no key.
Frames == pc' = "frames" /\ todo' = IF WithKey THEN phase_frames ELSE <<>>

JunkConnect ==
  /\ pc = "junkConnect"
  /\ \/ /\ pc' = "junk" /\ sockets' = sockets + 1
        /\ reading' \in BOOLEAN
        /\ sndq' = 0 /\ rcvq' = 0 /\ drained' = 0 /\ total' = 0
        /\ Fresh
        /\ UNCHANGED todo
     \/ Frames /\ UNCHANGED <<sockets, total, pipe, wire>>
  /\ verdict' = "none"
  /\ UNCHANGED <<arg_wait, next, handles, remain, report>>

\* Mutant: each send() is counted as a whole chunk.
CountChunk(n) == total' = total + JUNK_CHUNK

Count(n) == total' = total + n

\* send() takes what there is room for, up to a chunk.
JunkSend ==
  /\ pc = "junk" /\ total < JUNK_LIMIT /\ ~hungUp
  /\ \E n \in 1..JUNK_CHUNK :
       /\ sndq + n <= SndBuf
       /\ sndq' = sndq + n
       /\ Count(n)
  /\ UNCHANGED <<pc, progress, held, rcvq, drained, reading, verdict, wire, remain, report>>

\* The verdict after a stall, by the bytes that were accepted.
Stalled == IF total <= StallLimit THEN "unread" ELSE "ambiguous"

\* The verdict, after a look at what the peer may have sent; the connection is closed.
Judge(v) ==
  /\ verdict' = v
  /\ sockets' = sockets - 1
  /\ Frames
  /\ UNCHANGED <<arg_wait, next, handles, total, pipe, wire, remain, report>>

\* The send timeout passes with the send buffer full: the peer's is full too, or the network
\* or the application has not been fast enough.
JunkStall ==
  /\ pc = "junk" /\ total < JUNK_LIMIT /\ ~hungUp
  /\ sndq = SndBuf
  /\ Judge(Stalled)

\* send() fails: the peer has reset the connection.
JunkReset == pc = "junk" /\ total < JUNK_LIMIT /\ hungUp /\ Judge("rejected")

JunkDone == pc = "junk" /\ total >= JUNK_LIMIT /\ Judge("consumed")

\* The network and the peer's kernel take junk over; an application reads it or stops
\* reading; the connection may be reset.
Transmit ==
  /\ pc = "junk" /\ sndq > 0 /\ rcvq < RcvBuf /\ ~hungUp
  /\ sndq' = sndq - 1 /\ rcvq' = rcvq + 1
  /\ UNCHANGED <<pc, progress, held, total, drained, reading, verdict, wire, remain, report>>

ReadJunk ==
  /\ pc = "junk" /\ reading /\ rcvq > 0 /\ ~hungUp
  /\ rcvq' = rcvq - 1 /\ drained' = drained + 1
  /\ UNCHANGED <<pc, progress, held, total, sndq, reading, verdict, wire, remain, report>>

StopReading ==
  /\ pc = "junk" /\ reading
  /\ reading' = FALSE
  /\ UNCHANGED <<pc, progress, held, total, sndq, rcvq, drained, verdict, wire, remain, report>>

Reset ==
  /\ pc = "junk" /\ ~hungUp
  /\ hungUp' = TRUE
  /\ UNCHANGED <<pc, progress, held, total, pipe, verdict, got, inbox, sentBack, remain, report>>

-----------------------------------------------------------------------------
(* Phases 3 and 4.                                                         *)

\* The next sub-probe begins with a handle; without one it is left out.
Alloc ==
  /\ pc = "frames" /\ todo # <<>>
  /\ \/ /\ handles' = handles + 1
        /\ pc' = IF Head(todo) \in Raw THEN "build" ELSE "connect"
        /\ UNCHANGED todo
     \/ todo' = Tail(todo) /\ UNCHANGED <<pc, handles>>
  /\ UNCHANGED <<arg_wait, next, sockets, total, pipe, verdict, wire, remain, report>>

\* A step of a sub-probe fails: what was made so far is given back.
GiveUp(s) ==
  /\ sockets' = sockets - s /\ handles' = handles - 1
  /\ pc' = "frames" /\ todo' = Tail(todo)
  /\ UNCHANGED <<arg_wait, next, total, pipe, verdict, wire, remain, report>>

\* tuya_generate_payload() and tuya_build_message().
Build ==
  /\ pc = "build"
  /\ \/ /\ pc' = "connect"
        /\ UNCHANGED <<progress, held, total, pipe, verdict, wire, remain, report>>
     \/ GiveUp(0)

\* tcp_connect(), or tuya_connect() for a session.
Connect ==
  /\ pc = "connect"
  /\ \/ /\ pc' = "send" /\ sockets' = sockets + 1 /\ Fresh
        /\ UNCHANGED <<progress, handles, total, pipe, verdict, remain, report>>
     \/ GiveUp(0)

\* Mutant: a connection on which nothing could be sent stays open.
NotSentKeeps == GiveUp(0)

NotSent == GiveUp(1)

\* send(), or tuya_negotiate_session_start().
SendFrame ==
  /\ pc = "send"
  /\ \/ /\ pc' = IF Head(todo) \in Raw THEN "drain" ELSE "session"
        /\ remain' = arg_wait /\ report' = "none"
        /\ UNCHANGED <<progress, held, total, pipe, verdict, wire>>
     \/ NotSent

FramesDone ==
  /\ pc = "frames" /\ todo = <<>>
  /\ pc' = "idleConnect"
  /\ UNCHANGED <<progress, held, total, pipe, verdict, wire, remain, report>>

IdleConnect ==
  /\ pc = "idleConnect"
  /\ \/ /\ pc' = "idle" /\ sockets' = sockets + 1 /\ Fresh
        /\ remain' = IDLE_HOLD_SEC /\ report' = "none"
        /\ UNCHANGED next
     \/ /\ pc' = "port" /\ next' = next + 1
        /\ UNCHANGED <<sockets, wire, remain, report>>
  /\ UNCHANGED <<arg_wait, todo, handles, total, pipe, verdict>>

Waiting == {"drain", "session", "idle"}
Connected == {"junk", "send"} \cup Waiting

\* What is reported, at the end of a sub-probe: the connection is closed, and the handle
\* destroyed.
EndSubProbe(r) ==
  /\ pc \in {"drain", "session"}
  /\ report' = r
  /\ sockets' = sockets - 1 /\ handles' = handles - 1
  /\ pc' = "frames" /\ todo' = Tail(todo)
  /\ UNCHANGED <<arg_wait, next, total, pipe, verdict, wire, remain>>

\* Mutant: phase 4 destroys a handle too.
EndIdleFrees(r) ==
  /\ pc = "idle"
  /\ report' = r
  /\ sockets' = sockets - 1 /\ handles' = handles - 1
  /\ pc' = "port" /\ next' = next + 1
  /\ UNCHANGED <<arg_wait, todo, total, pipe, verdict, wire, remain>>

\* At the end of phase 4, and of the port.
EndIdle(r) ==
  /\ pc = "idle"
  /\ report' = r
  /\ sockets' = sockets - 1
  /\ pc' = "port" /\ next' = next + 1
  /\ UNCHANGED <<arg_wait, todo, handles, total, pipe, verdict, wire, remain>>

EndWait(r) == EndSubProbe(r) \/ EndIdle(r)

\* What this wait takes, and whether select() is called: not once the deadline has been
\* seen to pass, and never if there is no time to wait.
Span == IF pc = "idle" THEN IDLE_HOLD_SEC ELSE arg_wait
InSelect == remain > 0 \/ (Span > 0 /\ ~got)

Heard == IF got THEN "bytes" ELSE "silence"

\* Mutants: the wait starts anew with each piece; the end of the connection passes for
\* silence.
TakeAnew == got' = TRUE /\ inbox' \in {FALSE, inbox} /\ remain' = Span
ClosedSilently == EndWait(Heard)

\* recv(): all or part of what was sent.
Take == got' = TRUE /\ inbox' \in {FALSE, inbox} /\ UNCHANGED remain

\* drain_and_report(): one turn of its loop that receives something.
Receive ==
  /\ pc \in {"drain", "idle"} /\ inbox /\ InSelect
  /\ Take
  /\ UNCHANGED <<pc, progress, held, total, pipe, verdict, sentBack, hungUp, report>>

Closed == EndWait(IF got THEN "bytes" ELSE "closed")

\* The end of the connection, which comes after all that was sent.
SeeEnd ==
  /\ pc \in {"drain", "idle"} /\ ~inbox /\ hungUp /\ InSelect
  /\ Closed

\* The deadline: select() has found nothing, or is not called.
Deadline ==
  /\ pc \in {"drain", "idle"} /\ remain = 0
  /\ ~InSelect \/ (~inbox /\ ~hungUp)
  /\ EndWait(Heard)

\* probe_negotiation(): the first answer is taken for the peer's part of the session;
\* the end of the connection only makes tuya_receive() fail, until the deadline.
SessionAnswer ==
  /\ pc = "session" /\ inbox /\ arg_wait > 0
  /\ \E r \in {"established", "refused"} : EndWait(r)

SessionDeadline ==
  /\ pc = "session" /\ remain = 0
  /\ EndWait("silence")

\* The peer sends something or ends the connection; time passes.
PeerSends ==
  /\ pc \in Waiting /\ ~hungUp /\ ~inbox
  /\ inbox' = TRUE /\ sentBack' = TRUE
  /\ UNCHANGED <<pc, progress, held, total, pipe, verdict, got, hungUp, remain, report>>

PeerHangsUp ==
  /\ pc \in Waiting /\ ~hungUp
  /\ hungUp' = TRUE
  /\ UNCHANGED <<pc, progress, held, total, pipe, verdict, got, inbox, sentBack, remain, report>>

Tick ==
  /\ pc \in Waiting /\ remain > 0
  /\ remain' = remain - 1
  /\ UNCHANGED <<pc, progress, held, total, pipe, verdict, wire, report>>

-----------------------------------------------------------------------------
Init ==
  /\ arg_wait \in Waits
  /\ pc = "port" /\ next = 1 /\ todo = <<>>
  /\ sockets = 0 /\ handles = 0 /\ total = 0
  /\ sndq = 0 /\ rcvq = 0 /\ drained = 0 /\ reading = FALSE /\ verdict = "none"
  /\ got = FALSE /\ inbox = FALSE /\ sentBack = FALSE /\ hungUp = FALSE
  /\ remain = 0 /\ report = "none"

Sending == JunkSend \/ JunkStall \/ JunkReset \/ JunkDone
Program == Port \/ JunkConnect \/ Alloc \/ Build \/ Connect \/ SendFrame
           \/ FramesDone \/ IdleConnect
           \/ Receive \/ SeeEnd \/ Deadline \/ SessionAnswer \/ SessionDeadline

Peer == Transmit \/ ReadJunk \/ StopReading \/ Reset \/ PeerSends \/ PeerHangsUp
Next == Program \/ Sending \/ Peer \/ Tick

\* The program runs, its send timeout ends a send(), and time passes; the peer and the
\* network need do nothing.
Spec == Init /\ [][Next]_vars /\ WF_vars(Program) /\ WF_vars(Sending) /\ WF_vars(Tick)

-----------------------------------------------------------------------------
(* Properties.                                                             *)

\* Every variable has its type.
TypeOK ==
  /\ arg_wait \in Waits
  /\ pc \in {"port", "junkConnect", "frames", "build", "connect", "idleConnect"}
            \cup Connected
  /\ next \in 1..(Len(Ports) + 1) /\ todo \in Seq(Raw \cup Sessions)
  /\ sockets \in Nat /\ handles \in Nat /\ total \in Nat
  /\ sndq \in 0..SndBuf /\ rcvq \in 0..RcvBuf /\ drained \in Nat /\ reading \in BOOLEAN
  /\ verdict \in {"none", "unread", "ambiguous", "rejected", "consumed"}
  /\ got \in BOOLEAN /\ inbox \in BOOLEAN /\ sentBack \in BOOLEAN /\ hungUp \in BOOLEAN
  /\ remain \in Nat
  /\ report \in {"none", "bytes", "silence", "closed", "established", "refused"}

\* What phase 2 says of the application behind the port, as far as it is so: it has read
\* something if junk was taken beyond the threshold or to the end, and that nothing drained
\* the buffers is said only if what was read, with the send buffer, is within the threshold.
VerdictSound ==
  /\ verdict = "unread" => drained + SndBuf <= StallLimit
  /\ verdict \in {"ambiguous", "consumed"} => drained > 0

\* The device takes one connection at a time: there is never a second one, none is left
\* between the phases, and a handle lives as long as its sub-probe, whatever fails.
OneConnection ==
  /\ sockets = IF pc \in Connected THEN 1 ELSE 0
  /\ handles = IF pc \in {"build", "connect", "send", "drain", "session"} THEN 1 ELSE 0

\* Silence on a raw frame or an idle connection that was waited on at all is reported only
\* for a peer that has sent nothing and has kept the connection, and bytes and sessions
\* only for one that has sent something.
ReportTrue ==
  [][report' # report =>
       /\ report' = "silence" /\ pc # "session" /\ Span > 0 => ~sentBack /\ ~hungUp
       /\ report' = "closed" => hungUp
       /\ report' \in {"bytes", "established", "refused"} => sentBack]_vars

\* The probe ends, however the peer reads, sends and hangs up.
Ends == <>(pc = "port" /\ next > Len(Ports))

=============================================================================
