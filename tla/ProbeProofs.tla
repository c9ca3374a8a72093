------------------------------ MODULE ProbeProofs ------------------------------
(***************************************************************************)
(* Theorems about Probe: for every list of ports, every size of a chunk    *)
(* and of the buffers, any peer and any failure of a step.                 *)
(***************************************************************************)
EXTENDS Probe, SequenceTheorems, TLAPS

-----------------------------------------------------------------------------
(* The inductive invariant.                                                *)

\* The types of Probe's TypeOK in groups that the provers take one at a time.
PlaceType ==
  /\ pc \in {"port", "junkConnect", "frames", "build", "connect", "idleConnect"}
            \cup Connected
  /\ next \in 1..(Len(Ports) + 1) /\ todo \in Seq(Raw \cup Sessions)
  /\ sockets \in Nat /\ handles \in Nat

PipeType ==
  /\ total \in Nat
  /\ sndq \in 0..SndBuf /\ rcvq \in 0..RcvBuf /\ drained \in Nat /\ reading \in BOOLEAN
  /\ verdict \in {"none", "unread", "ambiguous", "rejected", "consumed"}

WireType ==
  /\ got \in BOOLEAN /\ inbox \in BOOLEAN /\ sentBack \in BOOLEAN /\ hungUp \in BOOLEAN
  /\ remain \in Nat
  /\ report \in {"none", "bytes", "silence", "closed", "established", "refused"}

\* The wait that was asked for.
ArgType == arg_wait \in Waits

\* A port is being probed, and in phase 3 a frame of the list.
Probing ==
  /\ pc # "port" => next <= Len(Ports)
  /\ pc \in {"build", "connect", "send", "drain", "session"} => todo # <<>>

\* While junk is written there is no verdict, and no byte gets lost.
Conserved == pc = "junk" => verdict = "none" /\ total = sndq + rcvq + drained

\* The peer has sent something on this connection exactly if something was received of it
\* or is there to receive: a wait never forgets what it has heard.
SentBefore == sentBack <=> got \/ inbox

IInv ==
  /\ PlaceType
  /\ PipeType
  /\ WireType
  /\ Probing
  /\ OneConnection
  /\ Conserved
  /\ VerdictSound
  /\ SentBefore

-----------------------------------------------------------------------------
(* What each part of the state needs of a step.                            *)

\* Steps that leave the junk and its verdict alone keep what is known of them.
LEMMA PipeKept ==
  ASSUME IInv, UNCHANGED <<total, pipe, verdict>>, pc' # "junk"
  PROVE  PipeType' /\ Conserved' /\ VerdictSound'
BY DEF IInv, pipe, PipeType, Conserved, VerdictSound

\* Steps that leave the connection's data alone.
LEMMA WireKept ==
  ASSUME IInv, UNCHANGED wire  PROVE SentBefore'
BY DEF IInv, wire, SentBefore

\* The list of sub-probes.
LEMMA FramesList == phase_frames \in Seq(Raw \cup Sessions) /\ <<>> \in Seq(Raw \cup Sessions)
BY DEF phase_frames, Raw, Sessions

\* What is left of it.
LEMMA Shorter ==
  ASSUME PlaceType, todo # <<>>  PROVE Tail(todo) \in Seq(Raw \cup Sessions)
BY HeadTailProperties DEF PlaceType

\* The counts are numbers.
LEMMA Sizes ==
  /\ Waits \subseteq Nat /\ IDLE_HOLD_SEC \in Nat \ {0} /\ Len(Ports) \in Nat
  /\ SndBuf \in Nat /\ RcvBuf \in Nat /\ StallLimit \in Nat /\ JUNK_LIMIT \in Nat
  /\ JUNK_CHUNK \in Nat \ {0}
BY ProbeAssumption, LenProperties

-----------------------------------------------------------------------------
(* Phases 1 and 2.                                                         *)

\* Phase 1 leaves the port with no connection, or skips it.
LEMMA PortStep == ASSUME IInv, Port PROVE IInv'
<1> USE DEF Port
<1>1. PipeType' /\ Conserved' /\ VerdictSound'
  BY PipeKept
<1>2. PlaceType' /\ Probing'
  BY Sizes DEF IInv, PlaceType, Probing, held, Connected
<1>3. WireType' /\ SentBefore'
  BY WireKept DEF IInv, WireType, wire
<1>4. OneConnection'
  BY DEF IInv, OneConnection, held, Connected, Waiting
<1> QED
  BY <1>1, <1>2, <1>3, <1>4 DEF IInv

\* A port on which junk is to be written starts with empty buffers.
LEMMA JunkConnectStep == ASSUME IInv, JunkConnect PROVE IInv'
<1> USE DEF JunkConnect
<1>1. PipeType' /\ Conserved' /\ VerdictSound'
  <2>1. 0 \in 0..SndBuf /\ 0 \in 0..RcvBuf /\ 0 \in Nat
    BY Sizes
  <2>2. CASE pc' = "junk"
    BY <2>1, <2>2 DEF IInv, PipeType, Conserved, VerdictSound, Frames, pipe
  <2>3. CASE pc' # "junk"
    BY <2>3 DEF IInv, PipeType, Conserved, VerdictSound, Frames, pipe
  <2> QED
    BY <2>2, <2>3
<1>2. PlaceType'
  <2>1. pc' \in {"junk", "frames"} /\ UNCHANGED <<next, handles>>
    BY DEF Frames
  <2>2. todo' \in Seq(Raw \cup Sessions)
    BY FramesList DEF IInv, PlaceType, Frames
  <2>3. sockets' \in Nat
    BY DEF IInv, PlaceType
  <2> QED
    BY <2>1, <2>2, <2>3 DEF IInv, PlaceType, Connected
<1>3. Probing'
  BY DEF IInv, Probing, Frames
<1>4. WireType' /\ SentBefore'
  <2>1. CASE Fresh
    BY <2>1 DEF IInv, WireType, SentBefore, Fresh
  <2>2. CASE UNCHANGED wire
    BY <2>2, WireKept DEF IInv, WireType, wire
  <2> QED
    BY <2>1, <2>2
<1>5. OneConnection'
  BY DEF IInv, OneConnection, Connected, Waiting, Frames
<1> QED
  BY <1>1, <1>2, <1>3, <1>4, <1>5 DEF IInv

\* Each byte that send() takes is in the send buffer and counted.
LEMMA JunkSendStep == ASSUME IInv, JunkSend PROVE IInv'
<1> USE DEF JunkSend, Count
<1>1. PipeType' /\ Conserved' /\ VerdictSound'
  BY Sizes DEF IInv, PipeType, Conserved, VerdictSound
<1>2. PlaceType' /\ Probing' /\ OneConnection'
  BY DEF IInv, PlaceType, Probing, OneConnection, progress, held
<1>3. WireType' /\ SentBefore'
  BY WireKept DEF IInv, WireType, wire
<1> QED
  BY <1>1, <1>2, <1>3 DEF IInv

\* A step of phase 2 that only moves junk on: where it is changes, not how much it is.
LEMMA JunkMoves ==
  ASSUME IInv, pc = "junk", UNCHANGED <<pc, progress, held, total, verdict, remain, report>>,
         sndq' \in 0..SndBuf, rcvq' \in 0..RcvBuf, drained' \in Nat, reading' \in BOOLEAN,
         sndq' + rcvq' + drained' = sndq + rcvq + drained,
         got' = got, inbox' = inbox, sentBack' = sentBack, hungUp' \in BOOLEAN
  PROVE  IInv'
<1>1. PipeType' /\ Conserved' /\ VerdictSound'
  BY DEF IInv, PipeType, Conserved, VerdictSound
<1>2. PlaceType' /\ Probing' /\ OneConnection'
  BY DEF IInv, PlaceType, Probing, OneConnection, progress, held
<1>3. WireType' /\ SentBefore'
  BY DEF IInv, WireType, SentBefore
<1> QED
  BY <1>1, <1>2, <1>3 DEF IInv

\* What the peer and the kernels do with the junk.
LEMMA PeerStep ==
  ASSUME IInv, Transmit \/ ReadJunk \/ StopReading \/ Reset  PROVE IInv'
<1>1. CASE Transmit
  BY <1>1, JunkMoves, Sizes DEF Transmit, IInv, PipeType, WireType, wire
<1>2. CASE ReadJunk
  BY <1>2, JunkMoves, Sizes DEF ReadJunk, IInv, PipeType, WireType, wire
<1>3. CASE StopReading
  BY <1>3, JunkMoves, Sizes DEF StopReading, IInv, PipeType, WireType, wire
<1>4. CASE Reset
  BY <1>4, JunkMoves, Sizes DEF Reset, IInv, PipeType, WireType, pipe
<1> QED
  BY <1>1, <1>2, <1>3, <1>4

\* A verdict closes the connection; the claims are the caller's to show.
LEMMA JudgeStep ==
  ASSUME IInv, pc = "junk", NEW v \in {"unread", "ambiguous", "rejected", "consumed"},
         Judge(v),
         v = "unread" => drained + SndBuf <= StallLimit,
         v \in {"ambiguous", "consumed"} => drained > 0
  PROVE  IInv'
<1> USE DEF Judge, Frames
<1>1. PipeType' /\ Conserved' /\ VerdictSound'
  BY DEF IInv, PipeType, Conserved, VerdictSound, pipe
<1>2. PlaceType' /\ Probing'
  <2>1. sockets = 1
    BY DEF IInv, OneConnection, Connected
  <2> QED
    BY <2>1, FramesList DEF IInv, PlaceType, Probing
<1>3. OneConnection'
  BY DEF IInv, OneConnection, Connected, Waiting
<1>4. WireType' /\ SentBefore'
  BY WireKept DEF IInv, WireType, wire
<1> QED
  BY <1>1, <1>2, <1>3, <1>4 DEF IInv

\* The verdict after a stall: the send buffer is full, what is in neither buffer was read.
LEMMA JunkStallStep == ASSUME IInv, JunkStall PROVE IInv'
<1>1. /\ total = SndBuf + rcvq + drained /\ total \in Nat /\ drained \in Nat
      /\ rcvq \in 0..RcvBuf
  BY DEF IInv, JunkStall, Conserved, PipeType
<1>2. Stalled = "unread" => drained + SndBuf <= StallLimit
  BY <1>1, Sizes DEF Stalled
<1>3. Stalled = "ambiguous" => drained > 0
  BY <1>1, Sizes, BufferAssumption DEF Stalled
<1>4. Stalled \in {"unread", "ambiguous"}
  BY DEF Stalled
<1> QED
  BY <1>2, <1>3, <1>4, JudgeStep DEF JunkStall

\* The verdict after as much junk as there is to be: the buffers cannot hold it all.
LEMMA JunkDoneStep == ASSUME IInv, JunkDone PROVE IInv'
<1>1. drained > 0
  BY Sizes, BufferAssumption DEF IInv, JunkDone, Conserved, PipeType
<1> QED
  BY <1>1, JudgeStep DEF JunkDone

\* A reset while junk is written is a verdict like the others.
LEMMA JunkResetStep == ASSUME IInv, JunkReset PROVE IInv'
BY JudgeStep DEF JunkReset

-----------------------------------------------------------------------------
(* Phases 3 and 4.                                                         *)

\* A sub-probe gets its handle, or is left out.
LEMMA AllocStep == ASSUME IInv, Alloc PROVE IInv'
<1> USE DEF Alloc
<1>1. PipeType' /\ Conserved' /\ VerdictSound'
  BY PipeKept
<1>2. PlaceType' /\ Probing'
  BY Shorter DEF IInv, PlaceType, Probing
<1>3. OneConnection'
  BY DEF IInv, OneConnection, Connected, Waiting
<1>4. WireType' /\ SentBefore'
  BY WireKept DEF IInv, WireType, wire
<1> QED
  BY <1>1, <1>2, <1>3, <1>4 DEF IInv

\* A sub-probe that fails gives back its handle, and its connection if it has one.
LEMMA GiveUpStep ==
  ASSUME IInv, pc \in {"build", "connect", "send"}, GiveUp(IF pc = "send" THEN 1 ELSE 0)
  PROVE  IInv'
<1> USE DEF GiveUp
<1>1. PipeType' /\ Conserved' /\ VerdictSound'
  BY PipeKept
<1>2. sockets' = 0 /\ handles' = 0
  BY DEF IInv, OneConnection, Connected, Waiting
<1>3. PlaceType' /\ Probing'
  BY <1>2, Shorter DEF IInv, PlaceType, Probing
<1>4. OneConnection'
  BY <1>2 DEF OneConnection, Connected, Waiting
<1>5. WireType' /\ SentBefore'
  BY WireKept DEF IInv, WireType, wire
<1> QED
  BY <1>1, <1>3, <1>4, <1>5 DEF IInv

\* A frame is built, or the sub-probe is given up.
LEMMA BuildStep == ASSUME IInv, Build PROVE IInv'
<1>1. CASE pc' = "frames"
  BY <1>1, GiveUpStep DEF Build
<1>2. CASE pc' # "frames"
  <2> USE <1>2 DEF Build, GiveUp
  <2>1. PipeType' /\ Conserved' /\ VerdictSound'
    BY PipeKept
  <2>2. PlaceType' /\ Probing' /\ OneConnection'
    BY DEF IInv, PlaceType, Probing, OneConnection, progress, held, Connected, Waiting
  <2>3. WireType' /\ SentBefore'
    BY WireKept DEF IInv, WireType, wire
  <2> QED
    BY <2>1, <2>2, <2>3 DEF IInv
<1> QED
  BY <1>1, <1>2

\* A sub-probe gets its connection, or is given up.
LEMMA ConnectStep == ASSUME IInv, Connect PROVE IInv'
<1>1. CASE pc' = "frames"
  BY <1>1, GiveUpStep DEF Connect
<1>2. CASE pc' # "frames"
  <2> USE <1>2 DEF Connect, GiveUp
  <2>1. PipeType' /\ Conserved' /\ VerdictSound'
    BY PipeKept
  <2>2. PlaceType' /\ Probing'
    BY DEF IInv, PlaceType, Probing, progress, Connected
  <2>3. OneConnection'
    BY DEF IInv, OneConnection, Connected, Waiting
  <2>4. WireType' /\ SentBefore'
    BY DEF IInv, WireType, SentBefore, Fresh
  <2> QED
    BY <2>1, <2>2, <2>3, <2>4 DEF IInv
<1> QED
  BY <1>1, <1>2

\* A frame is sent and its answer waited for, or the sub-probe is given up.
LEMMA SendFrameStep == ASSUME IInv, ArgType, SendFrame PROVE IInv'
<1>1. CASE pc' = "frames"
  BY <1>1, GiveUpStep DEF SendFrame, NotSent
<1>2. CASE pc' # "frames"
  <2> USE <1>2 DEF SendFrame, NotSent, GiveUp
  <2>1. PipeType' /\ Conserved' /\ VerdictSound'
    BY PipeKept
  <2>2. PlaceType' /\ Probing'
    BY DEF IInv, PlaceType, Probing, progress, held, Connected, Waiting
  <2>3. OneConnection'
    BY DEF IInv, OneConnection, Connected, Waiting, held
  <2>4. WireType' /\ SentBefore'
    BY WireKept, Sizes DEF IInv, WireType, ArgType, wire
  <2> QED
    BY <2>1, <2>2, <2>3, <2>4 DEF IInv
<1> QED
  BY <1>1, <1>2

\* Phase 4 follows when no sub-probe is left.
LEMMA FramesDoneStep == ASSUME IInv, FramesDone PROVE IInv'
<1> USE DEF FramesDone
<1>1. PipeType' /\ Conserved' /\ VerdictSound'
  BY PipeKept
<1>2. PlaceType' /\ Probing' /\ OneConnection'
  BY DEF IInv, PlaceType, Probing, OneConnection, progress, held, Connected, Waiting
<1>3. WireType' /\ SentBefore'
  BY WireKept DEF IInv, WireType, wire
<1> QED
  BY <1>1, <1>2, <1>3 DEF IInv

\* Phase 4 waits on a connection, or goes on with the next port.
LEMMA IdleConnectStep == ASSUME IInv, IdleConnect PROVE IInv'
<1> USE DEF IdleConnect
<1>1. PipeType' /\ Conserved' /\ VerdictSound'
  BY PipeKept
<1>2. PlaceType' /\ Probing'
  BY Sizes DEF IInv, PlaceType, Probing, Connected, Waiting
<1>3. OneConnection'
  BY DEF IInv, OneConnection, Connected, Waiting
<1>4. WireType' /\ SentBefore'
  <2>1. IDLE_HOLD_SEC \in Nat
    BY Sizes
  <2>2. CASE Fresh /\ remain' = IDLE_HOLD_SEC /\ report' = "none"
    BY <2>1, <2>2 DEF IInv, WireType, SentBefore, Fresh
  <2>3. CASE UNCHANGED <<wire, remain, report>>
    BY <2>3, WireKept DEF IInv, WireType, wire
  <2> QED
    BY <2>2, <2>3
<1> QED
  BY <1>1, <1>2, <1>3, <1>4 DEF IInv

\* The end of a wait: the connection and the handle of a sub-probe are given back.
LEMMA EndWaitStep ==
  ASSUME IInv, pc \in Waiting, NEW r \in {"bytes", "silence", "closed", "established", "refused"},
         EndWait(r)
  PROVE  IInv'
<1> USE DEF EndWait, EndSubProbe, EndIdle
<1>1. PipeType' /\ Conserved' /\ VerdictSound'
  BY PipeKept
<1>2. sockets' = 0 /\ handles' = 0
  BY DEF IInv, OneConnection, Connected, Waiting
<1>3. PlaceType' /\ Probing'
  <2>1. CASE pc = "idle"
    BY <1>2, <2>1, Sizes DEF IInv, PlaceType, Probing
  <2>2. CASE pc # "idle"
    BY <1>2, <2>2, Shorter DEF IInv, PlaceType, Probing, Waiting
  <2> QED
    BY <2>1, <2>2
<1>4. OneConnection'
  BY <1>2 DEF OneConnection, Connected, Waiting
<1>5. WireType' /\ SentBefore'
  BY WireKept DEF IInv, WireType, wire
<1> QED
  BY <1>1, <1>3, <1>4, <1>5 DEF IInv

\* A wait goes on: something was sent, was received, or time has passed.
LEMMA WaitGoesOn ==
  ASSUME IInv, pc \in Waiting, UNCHANGED <<pc, progress, held, total, pipe, verdict, report>>,
         got' \in BOOLEAN, inbox' \in BOOLEAN, sentBack' \in BOOLEAN, hungUp' \in BOOLEAN,
         remain' \in Nat, SentBefore'
  PROVE  IInv'
<1>1. PipeType' /\ Conserved' /\ VerdictSound'
  BY PipeKept DEF Waiting
<1>2. PlaceType' /\ Probing' /\ OneConnection'
  BY DEF IInv, PlaceType, Probing, OneConnection, progress, held
<1>3. WireType'
  BY DEF IInv, WireType
<1> QED
  BY <1>1, <1>2, <1>3 DEF IInv

\* What happens while an answer is waited for.
LEMMA WaitStep ==
  ASSUME IInv, Receive \/ PeerSends \/ PeerHangsUp \/ Tick  PROVE IInv'
<1>1. CASE Receive
  BY <1>1, WaitGoesOn DEF Receive, Take, IInv, WireType, SentBefore, Waiting
<1>2. CASE PeerSends
  BY <1>2, WaitGoesOn DEF PeerSends, IInv, WireType, SentBefore
<1>3. CASE PeerHangsUp
  BY <1>3, WaitGoesOn DEF PeerHangsUp, IInv, WireType, SentBefore
<1>4. CASE Tick
  BY <1>4, WaitGoesOn, WireKept, Sizes DEF Tick, IInv, WireType, wire
<1> QED
  BY <1>1, <1>2, <1>3, <1>4

\* Each of the ways in which a wait ends.
LEMMA WaitOver ==
  ASSUME IInv, SeeEnd \/ Deadline \/ SessionAnswer \/ SessionDeadline  PROVE IInv'
<1>1. Heard \in {"bytes", "silence"} /\ (IF got THEN "bytes" ELSE "closed") \in {"bytes", "closed"}
  BY DEF Heard
<1>2. CASE SeeEnd
  BY <1>1, <1>2, EndWaitStep DEF SeeEnd, Closed, Waiting
<1>3. CASE Deadline
  BY <1>1, <1>3, EndWaitStep DEF Deadline, Waiting
<1>4. CASE SessionAnswer
  BY <1>4, EndWaitStep DEF SessionAnswer, Waiting
<1>5. CASE SessionDeadline
  BY <1>5, EndWaitStep DEF SessionDeadline, Waiting
<1> QED
  BY <1>2, <1>3, <1>4, <1>5

-----------------------------------------------------------------------------
(* The invariant.                                                          *)

\* The invariant holds before the first port.
LEMMA InvInit == Init => IInv /\ ArgType
<1> SUFFICES ASSUME Init PROVE IInv /\ ArgType
  OBVIOUS
<1> USE DEF Init
<1>1. PlaceType /\ Probing
  BY Sizes, FramesList DEF PlaceType, Probing
<1>2. 0 \in 0..SndBuf /\ 0 \in 0..RcvBuf /\ 0 \in Nat
  BY Sizes
<1>3. PipeType
  BY <1>2 DEF PipeType
<1>4. WireType
  BY <1>2 DEF WireType
<1>5. OneConnection /\ Conserved /\ VerdictSound /\ SentBefore
  BY DEF OneConnection, Conserved, VerdictSound, SentBefore, Connected, Waiting
<1> QED
  BY <1>1, <1>3, <1>4, <1>5 DEF IInv, ArgType

\* Every step keeps the invariant.
LEMMA InvStep == IInv /\ ArgType /\ [Next]_vars => IInv'
<1> SUFFICES ASSUME IInv, ArgType, [Next]_vars PROVE IInv'
  OBVIOUS
<1>1. CASE Program
  BY <1>1, PortStep, JunkConnectStep, AllocStep, BuildStep, ConnectStep, SendFrameStep,
     FramesDoneStep, IdleConnectStep, WaitStep, WaitOver DEF Program
<1>2. CASE Sending
  BY <1>2, JunkSendStep, JunkStallStep, JunkResetStep, JunkDoneStep DEF Sending
<1>3. CASE Peer
  BY <1>3, PeerStep, WaitStep DEF Peer
<1>4. CASE Tick
  BY <1>4, WaitStep
<1>5. CASE UNCHANGED vars
  BY <1>5 DEF vars, progress, held, pipe, wire, IInv, PlaceType, PipeType, WireType, Probing,
     OneConnection, Conserved, VerdictSound, SentBefore
<1> QED
  BY <1>1, <1>2, <1>3, <1>4, <1>5 DEF Next

\* No step changes the options.
LEMMA ArgStep == ASSUME [Next]_vars PROVE UNCHANGED arg_wait
<1>1. CASE Port \/ JunkConnect
  BY <1>1 DEF Port, JunkConnect
<1>2. CASE Alloc \/ Build \/ Connect \/ SendFrame \/ FramesDone \/ IdleConnect
  BY <1>2 DEF Alloc, Build, Connect, SendFrame, FramesDone, IdleConnect, GiveUp, NotSent, progress
<1>3. CASE Receive \/ SeeEnd \/ Deadline \/ SessionAnswer \/ SessionDeadline
  BY <1>3 DEF Receive, SeeEnd, Closed, Deadline, SessionAnswer, SessionDeadline, EndWait,
     EndSubProbe, EndIdle, progress
<1>4. CASE Sending
  BY <1>4 DEF Sending, JunkSend, JunkStall, JunkReset, JunkDone, Judge, progress
<1>5. CASE Peer
  BY <1>5 DEF Peer, Transmit, ReadJunk, StopReading, Reset, PeerSends, PeerHangsUp, progress
<1>6. CASE Tick \/ UNCHANGED vars
  BY <1>6 DEF Tick, vars, progress
<1> QED
  BY <1>1, <1>2, <1>3, <1>4, <1>5, <1>6 DEF Next, Program

\* The invariant always holds.
THEOREM Invariant == Spec => [](IInv /\ ArgType)
<1>1. IInv /\ ArgType /\ [Next]_vars => IInv' /\ ArgType'
  BY InvStep, ArgStep DEF ArgType
<1> QED
  BY <1>1, InvInit, PTL DEF Spec

-----------------------------------------------------------------------------
(* What follows for every behaviour.                                       *)

\* Every variable keeps its type: no connection or handle is given back that was not
\* there, and phase 3 never looks for a sub-probe after the last.
THEOREM TypeCorrect == Spec => []TypeOK
<1>1. IInv /\ ArgType => TypeOK
  BY DEF IInv, ArgType, PlaceType, PipeType, WireType, TypeOK
<1> QED
  BY <1>1, Invariant, PTL

\* phase_consumption(): whatever the sizes of the buffers, as long as they hold no more
\* than what the verdicts look for, and however slowly the network takes junk over or the
\* application reads it, an application has read some when junk was taken beyond the
\* threshold, and no more than the threshold less the send buffer when nothing is said to
\* have drained it.
THEOREM VerdictIsSound == Spec => []VerdictSound
<1>1. IInv => VerdictSound
  BY DEF IInv
<1> QED
  BY <1>1, Invariant, PTL

\* tuyaprobe holds one connection at a time and gives it back on every path.
THEOREM OneConnectionAtATime == Spec => []OneConnection
<1>1. IInv => OneConnection
  BY DEF IInv
<1> QED
  BY <1>1, Invariant, PTL

\* A step that reports something reports what has happened.
LEMMA ReportStep ==
  ASSUME IInv, [Next]_vars, report' # report
  PROVE  /\ report' = "silence" /\ pc # "session" /\ Span > 0 => ~sentBack /\ ~hungUp
         /\ report' = "closed" => hungUp
         /\ report' \in {"bytes", "established", "refused"} => sentBack
<1> USE DEF IInv
<1>1. CASE SeeEnd
  BY <1>1 DEF SeeEnd, Closed, EndWait, EndSubProbe, EndIdle, SentBefore
<1>2. CASE Deadline
  <2>1. report' = Heard
    BY <1>2 DEF Deadline, EndWait, EndSubProbe, EndIdle
  <2>2. CASE got
    <3>1. sentBack /\ report' = "bytes"
      BY <2>1, <2>2 DEF SentBefore, Heard
    <3> QED
      BY <3>1
  <2>3. CASE ~got
    <3>1. report' = "silence"
      BY <2>1, <2>3 DEF Heard
    <3>2. Span > 0 => ~inbox /\ ~hungUp
      BY <1>2, <2>3 DEF Deadline, InSelect
    <3> QED
      BY <2>3, <3>1, <3>2 DEF SentBefore
  <2> QED
    BY <2>2, <2>3
<1>3. CASE SessionAnswer
  BY <1>3 DEF SessionAnswer, EndWait, EndSubProbe, EndIdle, SentBefore
<1>4. CASE SessionDeadline
  BY <1>4 DEF SessionDeadline, EndWait, EndSubProbe, EndIdle
<1>5. CASE SendFrame \/ IdleConnect
  BY <1>5 DEF SendFrame, NotSent, GiveUp, IdleConnect
<1>6. CASE Port \/ JunkConnect \/ Alloc \/ Build \/ Connect \/ FramesDone \/ Receive
  BY <1>6 DEF Port, JunkConnect, Alloc, Build, Connect, GiveUp, FramesDone, Receive
<1>7. CASE Sending
  BY <1>7 DEF Sending, JunkSend, JunkStall, JunkReset, JunkDone, Judge
<1>8. CASE Peer \/ Tick
  BY <1>8 DEF Peer, Transmit, ReadJunk, StopReading, Reset, PeerSends, PeerHangsUp, Tick
<1>9. CASE UNCHANGED vars
  BY <1>9 DEF vars
<1> QED
  BY <1>1, <1>2, <1>3, <1>4, <1>5, <1>6, <1>7, <1>8, <1>9 DEF Next, Program

\* drain_and_report() and its callers: silence is reported of a silent peer,
\* if there was any time to wait for it.
THEOREM ReportsAreTrue == Spec => ReportTrue
<1>1. IInv /\ [Next]_vars =>
        [report' # report =>
           /\ report' = "silence" /\ pc # "session" /\ Span > 0 => ~sentBack /\ ~hungUp
           /\ report' = "closed" => hungUp
           /\ report' \in {"bytes", "established", "refused"} => sentBack]_vars
  BY ReportStep
<1> QED
  BY <1>1, Invariant, PTL DEF Spec, ReportTrue

-----------------------------------------------------------------------------
(* The probe goes forward only.                                            *)

\* Phase 3 never has more to do than the list, and junk is written up to the limit.
FewLeft ==
  /\ Len(todo) \in 0..6
  /\ pc = "junk" => total < JUNK_LIMIT + JUNK_CHUNK

\* What the probe of a port still has before it: five places for each sub-probe that is
\* left, and the phases around them.
Place ==
  CASE pc = "port" -> 37
    [] pc = "junkConnect" -> 36
    [] pc = "junk" -> 35
    [] pc = "frames" -> 5 * Len(todo) + 4
    [] pc = "build" -> 5 * Len(todo) + 3
    [] pc = "connect" -> 5 * Len(todo) + 2
    [] pc = "send" -> 5 * Len(todo) + 1
    [] pc \in {"drain", "session"} -> 5 * Len(todo)
    [] pc = "idleConnect" -> 3
    [] pc = "idle" -> 2

Stage == 38 * (Len(Ports) + 1 - next) + Place

\* Inside a place: the junk that may still be accepted, or the ticks of the wait.
Inside ==
  IF pc = "junk"
    THEN JUNK_LIMIT + JUNK_CHUNK - total
    ELSE IF pc \in Waiting THEN remain ELSE 0

\* A sub-probe that is done is one less to do.
LEMMA OneLess ==
  ASSUME IInv, todo # <<>>
  PROVE  Len(todo) \in Nat \ {0} /\ Len(Tail(todo)) = Len(todo) - 1
<1>1. todo \in Seq(Raw \cup Sessions)
  BY DEF IInv, PlaceType
<1>2. Len(Tail(todo)) = Len(todo) - 1
  BY <1>1, HeadTailProperties
<1>3. Len(todo) \in Nat /\ Len(todo) # 0
  BY <1>1, LenProperties, EmptySeq
<1> QED
  BY <1>2, <1>3

\* Where the program is.
Places ==
  {"port", "junkConnect", "junk", "frames", "build", "connect", "send", "drain", "session",
   "idleConnect", "idle"}

\* A place is a number.
LEMMA PlaceNumber ==
  ASSUME pc \in Places, Len(todo) \in 0..6  PROVE Place \in 0..37
<1> DEFINE n == Len(todo)
<1>1. n \in 0..6
  OBVIOUS
<1>2. /\ 5 * n + 4 \in 0..37 /\ 5 * n + 3 \in 0..37 /\ 5 * n + 2 \in 0..37
      /\ 5 * n + 1 \in 0..37 /\ 5 * n \in 0..37
  <2> HIDE DEF n
  <2> QED
    BY <1>1
<1>3. 37 \in 0..37 /\ 36 \in 0..37 /\ 35 \in 0..37 /\ 3 \in 0..37 /\ 2 \in 0..37
  OBVIOUS
<1> HIDE DEF n
<1> QED
  BY <1>2, <1>3, Zenon DEF Place, Places, n

\* Both counts are numbers.
LEMMA CountsType ==
  ASSUME IInv, FewLeft  PROVE Stage \in Nat /\ Place \in 0..37 /\ Inside \in Nat
<1>1. Place \in 0..37
  BY PlaceNumber DEF IInv, PlaceType, FewLeft, Places, Connected, Waiting
<1>2. Stage \in Nat
  <2> HIDE DEF Place
  <2> QED
    BY <1>1, Sizes DEF IInv, PlaceType, Stage
<1>3. Inside \in Nat
  <2>1. pc = "junk" => JUNK_LIMIT + JUNK_CHUNK - total \in Nat
    BY Sizes DEF IInv, PipeType, FewLeft
  <2>2. remain \in Nat
    BY Sizes DEF IInv, WireType
  <2> QED
    BY <2>1, <2>2 DEF Inside
<1> QED
  BY <1>1, <1>2, <1>3

\* A step to a later place of the same port, or to the next port.
LEMMA PlaceCost ==
  ASSUME IInv, FewLeft, Place' \in 0..37,
         \/ next' = next /\ Place' < Place
         \/ next' = next + 1
  PROVE  Stage' < Stage
<1>1. Place \in 0..37 /\ next \in Int /\ Len(Ports) \in Int
  BY CountsType, Sizes DEF IInv, PlaceType
<1> DEFINE N == Len(Ports)
           q == Place
<1>2. Stage = 38 * (N + 1 - next) + q /\ Stage' = 38 * (N + 1 - next') + q'
  BY DEF Stage
<1> HIDE DEF N, q
<1> QED
  BY <1>1, <1>2 DEF N, q

\* Phase 3 begins with the whole list or with nothing.
LEMMA AtFrames ==
  ASSUME Frames  PROVE FewLeft' /\ Place' \in 0..34
<1>1. pc' = "frames" /\ todo' \in {phase_frames, <<>>}
  BY DEF Frames
<1>2. Len(phase_frames) = 6 /\ Len(<<>>) = 0
  BY DEF phase_frames
<1>3. Len(todo') \in {0, 6}
  BY <1>1, <1>2
<1>4. Place' = 5 * Len(todo') + 4
  BY <1>1, Zenon DEF Place
<1>5. CASE Len(todo') = 0
  BY <1>1, <1>4, <1>5 DEF FewLeft
<1>6. CASE Len(todo') = 6
  BY <1>1, <1>4, <1>6 DEF FewLeft
<1> QED
  BY <1>3, <1>5, <1>6

\* The next sub-probe, or the end of phase 3.
LEMMA NextFrame ==
  ASSUME IInv, FewLeft, todo # <<>>, todo' = Tail(todo), pc' = "frames"
  PROVE  FewLeft' /\ Place' = 5 * Len(todo) - 1
<1>1. Len(todo') = Len(todo) - 1 /\ Len(todo) \in Nat \ {0}
  BY OneLess
<1>2. FewLeft'
  BY <1>1 DEF FewLeft
<1>3. Place' = 5 * Len(todo') + 4
  BY Zenon DEF Place
<1> QED
  BY <1>1, <1>2, <1>3

\* The same list, with the program elsewhere.
LEMMA SameList ==
  ASSUME FewLeft, UNCHANGED todo, pc' # "junk"  PROVE FewLeft' /\ Len(todo') = Len(todo)
BY DEF FewLeft

\* Every step of the program but a receive takes it forward: a failure anywhere skips
\* what is left of its sub-probe, its phase or its port.
LEMMA ProgramCost ==
  ASSUME IInv, FewLeft, Program
  PROVE  FewLeft' /\ (Stage' < Stage \/ Receive)
<1> DEFINE n == Len(todo)
<1>0. n \in 0..6
  BY DEF FewLeft
<1> HIDE DEF n
<1>1. CASE Port
  <2>1. FewLeft'
    BY <1>1, SameList DEF Port
  <2>2. CASE pc' = "junkConnect" /\ next' = next
    <3>1. Place = 37 /\ Place' = 36
      BY <1>1, <2>2, Zenon DEF Port, Place
    <3> QED
      BY <2>1, <2>2, <3>1, PlaceCost
  <2>3. CASE pc' = pc /\ next' = next + 1
    <3>1. Place' = 37
      BY <1>1, <2>3, Zenon DEF Port, Place
    <3> QED
      BY <2>1, <2>3, <3>1, PlaceCost
  <2> QED
    BY <1>1, <2>2, <2>3 DEF Port
<1>2. CASE JunkConnect
  <2>1. Place = 36 /\ next' = next
    BY <1>2, Zenon DEF JunkConnect, Place
  <2>2. CASE pc' = "junk" /\ UNCHANGED todo /\ total' = 0
    <3>1. FewLeft'
      BY <2>2, Sizes DEF FewLeft
    <3>2. Place' = 35
      BY <2>2, Zenon DEF Place
    <3> QED
      BY <2>1, <3>1, <3>2, PlaceCost
  <2>3. CASE Frames
    BY <2>1, <2>3, AtFrames, PlaceCost
  <2> QED
    BY <1>2, <2>2, <2>3 DEF JunkConnect
<1>3. CASE Alloc
  <2>1. todo # <<>> /\ Place = 5 * n + 4 /\ next' = next
    BY <1>3, Zenon DEF Alloc, Place, n
  <2>2. CASE pc' \in {"build", "connect"} /\ UNCHANGED todo
    <3>1. FewLeft'
      BY <2>2, SameList
    <3>2. Place' = 5 * n + 3 \/ Place' = 5 * n + 2
      BY <2>2, Zenon DEF Place, n
    <3>3. CASE Place' = 5 * n + 3
      BY <1>0, <2>1, <3>1, <3>3, PlaceCost
    <3>4. CASE Place' = 5 * n + 2
      BY <1>0, <2>1, <3>1, <3>4, PlaceCost
    <3> QED
      BY <3>2, <3>3, <3>4
  <2>3. CASE pc' = "frames" /\ todo' = Tail(todo)
    <3>1. FewLeft' /\ Place' = 5 * n - 1
      BY <2>1, <2>3, NextFrame DEF n
    <3>2. n > 0
      BY <2>1, OneLess DEF n
    <3>3. Place' < Place /\ Place' \in 0..37
      BY <1>0, <2>1, <3>1, <3>2
    <3> QED
      BY <2>1, <3>1, <3>3, PlaceCost
  <2> QED
    BY <1>3, <2>2, <2>3 DEF Alloc
<1>4. ASSUME todo # <<>>, todo' = Tail(todo), pc' = "frames", next' = next, Place >= 5 * n,
             Place \in 0..37
      PROVE  FewLeft' /\ Stage' < Stage
  <2>1. FewLeft' /\ Place' = 5 * n - 1
    BY <1>4, NextFrame DEF n
  <2>2. n > 0
    BY <1>4, OneLess DEF n
  <2>3. Place' < Place /\ Place' \in 0..37
    BY <1>0, <1>4, <2>1, <2>2
  <2> QED
    BY <1>4, <2>1, <2>3, PlaceCost
<1>5. ASSUME UNCHANGED <<next, todo>>, pc' # "junk", Place' \in 0..37, Place' < Place
      PROVE  FewLeft' /\ Stage' < Stage
  BY <1>5, SameList, PlaceCost
<1>6. CASE Build
  <2>1. Place = 5 * n + 3 /\ todo # <<>>
    BY <1>6, Zenon DEF Build, Place, n, IInv, Probing
  <2>2. CASE pc' = "connect" /\ UNCHANGED progress
    <3>1. Place' = 5 * n + 2
      BY <2>2, Zenon DEF Place, n, progress
    <3> QED
      BY <1>0, <1>5, <2>1, <2>2, <3>1 DEF progress
  <2>3. CASE GiveUp(0)
    BY <1>0, <1>4, <2>1, <2>3 DEF GiveUp
  <2> QED
    BY <1>6, <2>2, <2>3 DEF Build
<1>7. CASE Connect
  <2>1. Place = 5 * n + 2 /\ todo # <<>>
    BY <1>7, Zenon DEF Connect, Place, n, IInv, Probing
  <2>2. CASE pc' = "send" /\ UNCHANGED progress
    <3>1. Place' = 5 * n + 1
      BY <2>2, Zenon DEF Place, n, progress
    <3> QED
      BY <1>0, <1>5, <2>1, <2>2, <3>1 DEF progress
  <2>3. CASE GiveUp(0)
    BY <1>0, <1>4, <2>1, <2>3 DEF GiveUp
  <2> QED
    BY <1>7, <2>2, <2>3 DEF Connect
<1>8. CASE SendFrame
  <2>1. Place = 5 * n + 1 /\ todo # <<>>
    BY <1>8, Zenon DEF SendFrame, Place, n, IInv, Probing
  <2>2. CASE pc' \in {"drain", "session"} /\ UNCHANGED progress
    <3>1. Place' = 5 * n
      BY <2>2, Zenon DEF Place, n, progress
    <3> QED
      BY <1>0, <1>5, <2>1, <2>2, <3>1 DEF progress
  <2>3. CASE GiveUp(1)
    BY <1>0, <1>4, <2>1, <2>3 DEF GiveUp
  <2> QED
    BY <1>8, <2>2, <2>3 DEF SendFrame, NotSent
<1>9. CASE FramesDone
  <2>1. Place = 5 * n + 4 /\ Place' = 3 /\ UNCHANGED progress
    BY <1>9, Zenon DEF FramesDone, Place, n
  <2> QED
    BY <1>0, <1>5, <1>9, <2>1 DEF FramesDone, progress
<1>10. CASE IdleConnect
  <2>1. Place = 3 /\ UNCHANGED todo
    BY <1>10, Zenon DEF IdleConnect, Place
  <2>2. CASE pc' = "idle" /\ next' = next
    <3>1. Place' = 2
      BY <2>2, Zenon DEF Place
    <3> QED
      BY <1>5, <2>1, <2>2, <3>1
  <2>3. CASE pc' = "port" /\ next' = next + 1
    <3>1. Place' = 37 /\ FewLeft'
      BY <2>1, <2>3, SameList, Zenon DEF Place
    <3> QED
      BY <2>3, <3>1, PlaceCost
  <2> QED
    BY <1>10, <2>2, <2>3 DEF IdleConnect
<1>11. ASSUME NEW r, pc \in Waiting, EndWait(r)  PROVE FewLeft' /\ Stage' < Stage
  <2>1. CASE pc = "idle"
    <3>1. UNCHANGED todo /\ pc' = "port" /\ next' = next + 1
      BY <1>11, <2>1 DEF EndWait, EndSubProbe, EndIdle
    <3>2. Place' = 37 /\ FewLeft'
      BY <3>1, SameList, Zenon DEF Place
    <3> QED
      BY <3>1, <3>2, PlaceCost
  <2>2. CASE pc \in {"drain", "session"}
    <3>1. Place = 5 * n /\ todo # <<>>
      BY <2>2, Zenon DEF Place, n, IInv, Probing
    <3> QED
      BY <1>0, <1>4, <1>11, <2>2, <3>1 DEF EndWait, EndSubProbe, EndIdle
  <2> QED
    BY <1>11, <2>1, <2>2 DEF Waiting
<1>12. CASE SeeEnd \/ Deadline \/ SessionAnswer \/ SessionDeadline
  BY <1>11, <1>12 DEF SeeEnd, Closed, Deadline, SessionAnswer, SessionDeadline, Waiting
<1>13. CASE Receive
  BY <1>13, SameList DEF Receive, progress
<1> QED
  BY <1>1, <1>2, <1>3, <1>6, <1>7, <1>8, <1>9, <1>10, <1>12, <1>13 DEF Program

\* Junk that is accepted is that much less to write; the end of phase 2 is a step
\* forward, and so is each tick of a wait, which nothing sets back.
LEMMA KernelCost ==
  ASSUME IInv, FewLeft, Sending \/ Tick
  PROVE  FewLeft' /\ (Stage' < Stage \/ (Stage' = Stage /\ Inside' < Inside))
<1>0. /\ total \in Nat /\ remain \in Nat /\ JUNK_LIMIT \in Nat /\ JUNK_CHUNK \in Nat
      /\ pc = "junk" => total < JUNK_LIMIT + JUNK_CHUNK
  BY Sizes DEF IInv, PipeType, WireType, FewLeft
<1>1. ASSUME UNCHANGED <<pc, next, todo>>  PROVE Stage' = Stage
  BY <1>1 DEF Stage, Place
<1>2. ASSUME NEW v, pc = "junk", Judge(v)  PROVE FewLeft' /\ Stage' < Stage
  <2>1. FewLeft' /\ Place' \in 0..34 /\ next' = next
    BY <1>2, AtFrames DEF Judge
  <2>2. Place = 35
    BY <1>2, Zenon DEF Place
  <2> QED
    BY <2>1, <2>2, PlaceCost
<1>3. CASE JunkStall \/ JunkReset \/ JunkDone
  BY <1>2, <1>3 DEF JunkStall, JunkReset, JunkDone
<1>6. CASE JunkSend
  <2>1. PICK k \in 1..JUNK_CHUNK : total' = total + k
    BY <1>6 DEF JunkSend, Count
  <2>2. pc = "junk" /\ pc' = "junk" /\ UNCHANGED <<next, todo>> /\ total < JUNK_LIMIT
    BY <1>6 DEF JunkSend, progress
  <2>3. FewLeft'
    BY <1>0, <2>1, <2>2 DEF FewLeft
  <2>4. Inside' < Inside
    BY <1>0, <2>1, <2>2 DEF Inside
  <2> QED
    BY <1>1, <2>2, <2>3, <2>4
<1>8. CASE Tick
  <2>1. pc \in Waiting /\ UNCHANGED <<pc, next, todo, total>> /\ remain' = remain - 1
    BY <1>8 DEF Tick, progress
  <2>2. FewLeft'
    BY <2>1 DEF FewLeft
  <2>3. Inside' < Inside
    BY <1>0, <2>1 DEF Inside, Waiting
  <2> QED
    BY <1>1, <2>1, <2>2, <2>3
<1> QED
  BY <1>3, <1>6, <1>8 DEF Sending

\* What the peer does, and what is received of it, changes nothing of this.
LEMMA PeerCost ==
  ASSUME FewLeft,
         Receive \/ Peer \/ UNCHANGED vars
  PROVE  FewLeft' /\ Stage' = Stage /\ Inside' = Inside
<1>1. UNCHANGED <<pc, next, todo, total, remain>>
  BY DEF Receive, Take, Peer, Transmit, ReadJunk, StopReading, Reset, PeerSends, PeerHangsUp,
     vars, progress
<1> QED
  BY <1>1 DEF FewLeft, Stage, Place, Inside

\* What a step may do to the two counts.
Forward ==
  /\ Program => Stage' < Stage \/ (Receive /\ Stage' = Stage /\ Inside' = Inside)
  /\ Sending \/ Tick => Stage' < Stage \/ (Stage' = Stage /\ Inside' < Inside)
  /\ ~(Program \/ Sending \/ Tick) => Stage' = Stage /\ Inside' = Inside

\* The probe goes forward only, whatever the peer sends, reads and ends: each of its
\* steps is a step to a later place of the list of ports and sub-probes, or one that
\* leaves less junk to write or less time to wait, and a receive, which may come any
\* number of times, gives a wait no time back. With the fairness of Spec that is why it
\* ends.
THEOREM ProbeGoesForward ==
  Spec => [](FewLeft /\ Stage \in Nat /\ Inside \in Nat) /\ [][Forward]_vars
<1>1. Init => FewLeft
  <2>1. Len(<<>>) = 0
    OBVIOUS
  <2> QED
    BY <2>1 DEF Init, FewLeft
<1>2. IInv /\ FewLeft /\ [Next]_vars => FewLeft' /\ [Forward]_vars
  <2> SUFFICES ASSUME IInv, FewLeft, [Next]_vars  PROVE FewLeft' /\ [Forward]_vars
    OBVIOUS
  <2>1. FewLeft'
    BY ProgramCost, KernelCost, PeerCost DEF Next
  <2>2. Program => Stage' < Stage \/ (Receive /\ Stage' = Stage /\ Inside' = Inside)
    BY ProgramCost, PeerCost
  <2>3. Sending \/ Tick => Stage' < Stage \/ (Stage' = Stage /\ Inside' < Inside)
    BY KernelCost
  <2>4. ~(Program \/ Sending \/ Tick) => Stage' = Stage /\ Inside' = Inside
    BY PeerCost DEF Next
  <2> QED
    BY <2>1, <2>2, <2>3, <2>4 DEF Forward
<1>3. IInv /\ FewLeft => Stage \in Nat /\ Inside \in Nat
  BY CountsType
<1> QED
  BY <1>1, <1>2, <1>3, Invariant, PTL DEF Spec

=============================================================================
