------------------------------ MODULE Sousctl ------------------------------
(***************************************************************************)
(* A run of examples/sousctl.c: the phases of a chain (run_ramp), waiting  *)
(* for the water (wait_for_temp), recovering from a fault                  *)
(* (recover_from_fault), the power-off at the end (verified_off), the      *)
(* signals, and the Inkbird cooker at the other end of the library.        *)
(*                                                                         *)
(* The program is one thread that calls the library and sleeps.  An action *)
(* is the code from one sleep, or status read, to the next; signals and    *)
(* the cooker act in between.  A library call is atomic here (SeatuyaClient *)
(* has its inside): a command or its reply may be lost, and a reply tells  *)
(* of the cooker as it is, never of an earlier frame that the connection   *)
(* still held.  Temperatures are tenths of a degree Celsius and times are  *)
(* seconds, as in the code.                                                *)
(***************************************************************************)
EXTENDS Integers, Sequences

CONSTANTS
  Chains,        \* the phase lists the command line may build
  WaterTemps,    \* temperatures the water may have
  Celsius,       \* DP 108: TRUE if the cooker displays Celsius
  Lossy,         \* TRUE: commands and status replies may be lost or partial
  Faults,        \* the faults the cooker may report
  ProbeBackoff,  \* PROBE_BACKOFF, in seconds
  ProbeBackoffCap, \* PROBE_BACKOFF_CAP
  E2Probes       \* probes allowed for an E2 fault (9999 in the code)

Tolerance == 5       \* DPS_TOLERANCE
PollInterval == 60   \* POLL_INTERVAL_SEC
FaultPoll == 5       \* FAULT_POLL_SEC
ProbeWindow == 10    \* PROBE_WINDOW_SEC
MaxNonE2Probes == 2  \* MAX_NON_E2_PROBES
ReimmerseDelta == 30 \* REIMMERSE_DELTA
OffTries == 6

Kinds == {"temp", "pause", "hold", "ramp"}
Phase == [kind : Kinds, start : Int, end : Int, secs : Nat]

ASSUME ChainAssumption ==
  /\ Chains \subseteq Seq(Phase)
  /\ <<>> \notin Chains
  /\ \A c \in Chains : \A i \in DOMAIN c :
       /\ c[i].kind \in {"temp", "hold"} => c[i].start = c[i].end
       /\ c[i].kind # "temp" => c[i].secs > 0

ASSUME WaterAssumption == WaterTemps \subseteq Nat

ASSUME SwitchAssumption == Celsius \in BOOLEAN /\ Lossy \in BOOLEAN

ASSUME ProbeAssumption ==
  /\ ProbeBackoff \in Seq(Nat \ {0}) /\ ProbeBackoff # <<>>
  /\ ProbeBackoffCap \in Nat \ {0}
  /\ E2Probes \in Nat \ {0}

VARIABLES
  chain,        \* the phases
  pc, pi,       \* where run_ramp is, and its phase
  step, held,   \* ramp steps begun; hold_elapsed
  target,       \* the temperature waited for or recovered to
  caller,       \* who called recover_from_fault
  preFault, maxProbes, probes, level, elapsed, window, \* its locals
  offTry,       \* verified_off's attempts
  interrupted,  \* g_interrupted
  power, armed, fault, water, \* the cooker: on, timer set, faults, temperature
  \* for the properties: the last setpoint and power commands sent, and
  \* what verified_off found
  commanded, lastPower, confirmed

position == <<pc, pi, step, held, target>>
locals == <<caller, preFault, maxProbes, probes, level, elapsed, window>>
cooker == <<power, armed, fault, water>>
vars == <<chain, position, locals, offTry, interrupted, cooker, commanded,
          lastPower, confirmed>>

phase == chain[pi]

-----------------------------------------------------------------------------
(* Calls of the library.                                                   *)

\* tuya_turn_on() or tuya_turn_off().  Its result is not looked at, and the
\* cooker may not have got it.
SwitchPower(on) ==
  /\ lastPower' = on
  /\ \E got \in {TRUE, ~Lossy} : power' = IF got THEN on ELSE power

\* tuya_set_value_int() of DP 103.
SetTemp(t) == commanded' = t

\* tuya_status(): what the caller reads of it.  A reply may carry only some data
\* points; a missing temperature reads as -1 and missing fault bits as 0.
Full == [ok |-> TRUE, temp |-> water, fault |-> fault]
Null == [ok |-> FALSE, temp |-> -1, fault |-> {}]
Statuses ==
  IF Lossy THEN {Null} \cup [ok : {TRUE}, temp : {water, -1}, fault : {fault, {}}]
           ELSE {Full}

Apart(a, b) == IF a > b THEN a - b ELSE b - a

Reached(s) == s.temp >= 0 /\ Apart(s.temp, target) <= Tolerance

-----------------------------------------------------------------------------
(* run_ramp().                                                             *)

Steps(ph) == ph.secs \div 60
Remainder(ph) == ph.secs % 60

\* round(n / d), halves away from zero.
Round(n, d) == IF n >= 0 THEN (2 * n + d) \div (2 * d)
                         ELSE -((2 * (-n) + d) \div (2 * d))

Clamp(t, ph) ==
  LET lo == IF ph.start < ph.end THEN ph.start ELSE ph.end
      hi == IF ph.start < ph.end THEN ph.end ELSE ph.start
  IN IF t < lo THEN lo ELSE IF t > hi THEN hi ELSE t

\* Mutants: from the wrong end; a step too short.
StepTargetReversed(ph, i) ==
  Clamp(ph.end + Round((ph.start - ph.end) * i, Steps(ph)), ph)
StepTargetShort(ph, i) ==
  Clamp(ph.start + Round((ph.end - ph.start) * i, Steps(ph) + 1), ph)

\* The setpoint of a ramp's i-th minute.
StepTarget(ph, i) == Clamp(ph.start + Round((ph.end - ph.start) * i, Steps(ph)), ph)

\* Mutant: the chain ends without the implicit power-off.
NextPhaseNoOff ==
  /\ pi' = pi + 1
  /\ pc' = IF pi < Len(chain) THEN "phase" ELSE "done"

\* The next phase begins, or the chain is at its end.
NextPhase ==
  /\ pi' = pi + 1
  /\ pc' = IF pi < Len(chain) THEN "phase" ELSE "off"

\* The end of the phase loop's body.
PhaseEnd == IF interrupted THEN pc' = "off" /\ UNCHANGED pi ELSE NextPhase

\* main() up to run_ramp: the cooker is switched on and its state printed.
PowerOn ==
  /\ pc = "start"
  /\ SwitchPower(TRUE)
  /\ pc' = "phase"
  /\ UNCHANGED <<chain, pi, step, held, target, locals, offTry, interrupted,
                 armed, fault, water, commanded, confirmed>>

BeginTemp ==
  /\ pc = "phase" /\ phase.kind = "temp"
  /\ SetTemp(phase.start)
  /\ target' = phase.start
  /\ pc' = "wait"
  /\ UNCHANGED <<chain, pi, step, held, locals, offTry, interrupted, cooker,
                 lastPower, confirmed>>

BeginPause ==
  /\ pc = "phase" /\ phase.kind = "pause"
  /\ pc' = "pause"
  /\ UNCHANGED <<chain, pi, step, held, target, locals, offTry, interrupted,
                 cooker, commanded, lastPower, confirmed>>

\* The cooker's own timer is set along with the setpoint.
BeginHold ==
  /\ pc = "phase" /\ phase.kind = "hold"
  /\ SetTemp(phase.start)
  /\ \E got \in {TRUE, ~Lossy} : armed' = (got \/ armed)
  /\ target' = phase.start
  /\ held' = 0
  /\ pc' = "wait"
  /\ UNCHANGED <<chain, pi, step, locals, offTry, interrupted, power, fault,
                 water, lastPower, confirmed>>

\* What follows the last step of a ramp, or one that was interrupted.
AfterSteps ==
  IF Remainder(phase) > 0 THEN pc' = "remainder" /\ UNCHANGED target
                          ELSE pc' = "wait" /\ target' = phase.end

BeginRamp ==
  /\ pc = "phase" /\ phase.kind = "ramp"
  /\ SetTemp(phase.start)
  /\ step' = 0
  /\ IF Steps(phase) > 0 THEN pc' = "ramp" /\ UNCHANGED target ELSE AfterSteps
  /\ UNCHANGED <<chain, pi, held, locals, offTry, interrupted, cooker, lastPower,
                 confirmed>>

\* A minute of the ramp has passed.
RampStep ==
  /\ pc = "ramp" /\ ~interrupted
  /\ step' = step + 1
  /\ SetTemp(StepTarget(phase, step + 1))
  /\ IF step + 1 < Steps(phase) THEN UNCHANGED <<pc, target>> ELSE AfterSteps
  /\ UNCHANGED <<chain, pi, held, locals, offTry, interrupted, cooker, lastPower,
                 confirmed>>

\* The signal leaves the loop over the steps, not the phase.
RampInterrupted ==
  /\ pc = "ramp" /\ interrupted
  /\ AfterSteps
  /\ UNCHANGED <<chain, pi, step, held, locals, offTry, interrupted, cooker,
                 commanded, lastPower, confirmed>>

\* The seconds beyond the ramp's last full minute have passed.
RampRemainder ==
  /\ pc = "remainder"
  /\ IF interrupted THEN pc' = "off" /\ UNCHANGED target
                    ELSE pc' = "wait" /\ target' = phase.end
  /\ UNCHANGED <<chain, pi, step, held, locals, offTry, interrupted, cooker,
                 commanded, lastPower, confirmed>>

PauseOver ==
  /\ pc = "pause"
  /\ PhaseEnd
  /\ UNCHANGED <<chain, step, held, target, locals, offTry, interrupted, cooker,
                 commanded, lastPower, confirmed>>

\* One chunk of a hold has passed.
HoldChunk ==
  /\ pc = "hold" /\ held < phase.secs /\ ~interrupted
  /\ held' = IF held + PollInterval > phase.secs THEN phase.secs
                                                 ELSE held + PollInterval
  /\ pc' = "holdRead"
  /\ UNCHANGED <<chain, pi, step, target, locals, offTry, interrupted, cooker,
                 commanded, lastPower, confirmed>>

\* Only the E2 bit of what is read changes what the hold does.
HoldRead ==
  /\ pc = "holdRead"
  /\ \E s \in Statuses :
       IF "E2" \in s.fault
         THEN pc' = "classify" /\ caller' = "hold" /\ target' = phase.start
         ELSE pc' = "hold" /\ UNCHANGED <<caller, target>>
  /\ UNCHANGED <<chain, pi, step, held, preFault, maxProbes, probes, level, elapsed,
                 window, offTry, interrupted, cooker, commanded, lastPower,
                 confirmed>>

HoldOver ==
  /\ pc = "hold"
  /\ held >= phase.secs \/ interrupted
  /\ PhaseEnd
  /\ UNCHANGED <<chain, step, held, target, locals, offTry, interrupted, cooker,
                 commanded, lastPower, confirmed>>

-----------------------------------------------------------------------------
(* wait_for_temp().                                                        *)

\* To the caller: a temp phase goes straight on to the next one.
WaitReturns ==
  CASE phase.kind = "temp" -> NextPhase
    [] phase.kind = "hold" -> pc' = "hold" /\ UNCHANGED pi
    [] phase.kind = "ramp" -> PhaseEnd

\* A poll: no reply, a fault, the temperature waited for, or another one.
WaitPoll ==
  /\ pc = "wait"
  /\ \E s \in Statuses :
       \/ ~s.ok /\ pc' = "waitSilent" /\ UNCHANGED <<pi, caller>>
       \/ s.ok /\ "E2" \in s.fault /\ pc' = "classify" /\ caller' = "wait" /\ UNCHANGED pi
       \/ s.ok /\ "E2" \notin s.fault /\ Reached(s) /\ WaitReturns /\ UNCHANGED caller
       \/ /\ s.ok /\ "E2" \notin s.fault /\ ~Reached(s)
          /\ pc' = "waitSleep"
          /\ UNCHANGED <<pi, caller>>
  /\ UNCHANGED <<chain, step, held, target, preFault, maxProbes, probes, level,
                 elapsed, window, offTry, interrupted, cooker, commanded,
                 lastPower, confirmed>>

\* After the sleep that follows a poll without a reply: the signals are not
\* looked at.
WaitRetry ==
  /\ pc = "waitSilent"
  /\ pc' = "wait"
  /\ UNCHANGED <<chain, pi, step, held, target, locals, offTry, interrupted, cooker,
                 commanded, lastPower, confirmed>>

\* Mutant: the signal is not looked at after the sleep.
WaitWakeUnchecked ==
  /\ pc = "waitSleep"
  /\ pc' = "wait"
  /\ UNCHANGED <<chain, pi, step, held, target, locals, offTry, interrupted, cooker,
                 commanded, lastPower, confirmed>>

\* After the sleep between two polls that read a temperature, or none.
WaitWake ==
  /\ pc = "waitSleep"
  /\ IF interrupted THEN WaitReturns ELSE pc' = "wait" /\ UNCHANGED pi
  /\ UNCHANGED <<chain, step, held, target, locals, offTry, interrupted, cooker,
                 commanded, lastPower, confirmed>>

-----------------------------------------------------------------------------
(* recover_from_fault().                                                   *)

Delay == IF level <= Len(ProbeBackoff) THEN ProbeBackoff[level] ELSE ProbeBackoffCap

\* Mutant: the schedule is not capped.
NextLevelUncapped == level + 1

\* The backoff stays at its last value.
NextLevel == IF level < Len(ProbeBackoff) THEN level + 1 ELSE level

\* The fault is read again to classify it, and the cooker switched off.
Classify ==
  /\ pc = "classify"
  /\ \E s \in Statuses :
       /\ maxProbes' = IF "E2" \in s.fault THEN E2Probes ELSE MaxNonE2Probes
       /\ preFault' = IF s.temp >= 0 THEN s.temp ELSE target
  /\ SwitchPower(FALSE)
  /\ probes' = 0 /\ level' = 1 /\ elapsed' = 0
  /\ pc' = "cool"
  /\ UNCHANGED <<chain, pi, step, held, target, caller, window, offTry,
                 interrupted, armed, fault, water, commanded, confirmed>>

\* Back to the loop that found the fault, recovered or interrupted; the locals
\* are gone.
RecoveryReturns ==
  /\ pc' = caller
  /\ caller' = "wait" /\ preFault' = 0 /\ maxProbes' = 0 /\ probes' = 0 /\ level' = 1
  /\ elapsed' = 0 /\ window' = 0

\* Five seconds of the wait before a probe, cut short when the water is warm
\* enough for the stick to be under water again.
Cool ==
  /\ pc = "cool" /\ ~interrupted
  /\ elapsed' = elapsed + FaultPoll
  /\ \E s \in Statuses :
       pc' = IF \/ elapsed + FaultPoll >= Delay
                \/ s.temp >= 0 /\ preFault - s.temp <= ReimmerseDelta
               THEN "probe" ELSE "cool"
  /\ UNCHANGED <<chain, pi, step, held, target, caller, preFault, maxProbes, probes,
                 level, window, offTry, interrupted, cooker, commanded,
                 lastPower, confirmed>>

Probe ==
  /\ pc = "probe"
  /\ probes' = probes + 1
  /\ SwitchPower(TRUE)
  /\ window' = 0
  /\ pc' = "observe"
  /\ UNCHANGED <<chain, pi, step, held, target, caller, preFault, maxProbes, level,
                 elapsed, offTry, interrupted, armed, fault, water, commanded,
                 confirmed>>

\* Two seconds of the probe's window in which the fault did not show.  Seconds
\* without a reply count like good ones; at the end the setpoint is sent again.
ObserveQuiet ==
  /\ pc = "observe" /\ ~interrupted
  /\ \E s \in Statuses : "E2" \notin s.fault
  /\ IF window + 2 < ProbeWindow
       THEN /\ window' = window + 2
            /\ UNCHANGED <<pc, caller, preFault, maxProbes, probes, level, elapsed,
                           commanded>>
       ELSE RecoveryReturns /\ SetTemp(target)
  /\ UNCHANGED <<chain, pi, step, held, target, offTry, interrupted, cooker,
                 lastPower, confirmed>>

\* The fault is back: off again, and another probe unless they are used up.
ObserveFault ==
  /\ pc = "observe" /\ ~interrupted
  /\ \E s \in Statuses : "E2" \in s.fault
  /\ SwitchPower(FALSE)
  /\ level' = NextLevel
  /\ elapsed' = 0
  /\ pc' = IF probes < maxProbes THEN "cool" ELSE "alarm"
  /\ UNCHANGED <<chain, pi, step, held, target, caller, preFault, maxProbes, probes,
                 window, offTry, interrupted, armed, fault, water, commanded,
                 confirmed>>

\* Mutant: recovery gives up without a signal.
RecoveryGivenUp ==
  /\ pc \in {"cool", "observe"}
  /\ RecoveryReturns
  /\ UNCHANGED <<chain, pi, step, held, target, offTry, interrupted,
                 cooker, commanded, lastPower, confirmed>>

\* A signal ends the recovery, with the cooker as it is.
RecoveryInterrupted ==
  /\ pc \in {"cool", "observe"} /\ interrupted
  /\ RecoveryReturns
  /\ UNCHANGED <<chain, pi, step, held, target, offTry, interrupted,
                 cooker, commanded, lastPower, confirmed>>

-----------------------------------------------------------------------------
(* verified_off() and the end of main().                                   *)

TurnOff ==
  /\ pc = "off"
  /\ SwitchPower(FALSE)
  /\ pc' = "offRead"
  /\ UNCHANGED <<chain, pi, step, held, target, locals, offTry, interrupted,
                 armed, fault, water, commanded, confirmed>>

\* Mutant: the readback takes any answer.
AnyAnswer == TRUE

\* The readback takes any "false" after DP 101 for its value; DP 108 is FALSE
\* when the display is in Fahrenheit.
ReadsOff == ~power \/ ~Celsius

OffConfirmed ==
  /\ pc = "offRead"
  /\ ReadsOff
  /\ confirmed' = TRUE
  /\ pc' = "done"
  /\ UNCHANGED <<chain, pi, step, held, target, locals, offTry, interrupted,
                 cooker, commanded, lastPower>>

\* Not off, or no reply, or one without DP 101.
OffUnconfirmed ==
  /\ pc = "offRead"
  /\ Lossy \/ ~ReadsOff
  /\ offTry' = offTry + 1
  /\ pc' = IF interrupted \/ offTry + 1 = OffTries THEN "done" ELSE "off"
  /\ UNCHANGED <<chain, pi, step, held, target, locals, interrupted, cooker,
                 commanded, lastPower, confirmed>>

-----------------------------------------------------------------------------
(* Signals and the cooker.                                                 *)

Ended == {"done", "alarm", "killed"}

\* The first signal is noted, the second ends the program where it stands.
Signal ==
  /\ pc \notin Ended
  /\ IF interrupted THEN pc' = "killed" /\ UNCHANGED interrupted
                    ELSE interrupted' = TRUE /\ UNCHANGED pc
  /\ UNCHANGED <<chain, pi, step, held, target, locals, offTry, cooker, commanded,
                 lastPower, confirmed>>

Program ==
  \/ PowerOn
  \/ BeginTemp \/ BeginPause \/ BeginHold \/ BeginRamp
  \/ RampStep \/ RampInterrupted \/ RampRemainder \/ PauseOver
  \/ HoldChunk \/ HoldRead \/ HoldOver
  \/ WaitPoll \/ WaitRetry \/ WaitWake
  \/ Classify \/ Cool \/ Probe \/ ObserveQuiet \/ ObserveFault \/ RecoveryInterrupted
  \/ TurnOff \/ OffConfirmed \/ OffUnconfirmed

program == <<chain, position, locals, offTry, interrupted, commanded, lastPower,
             confirmed>>

\* A running cooker heats, cools, or finds itself out of water.
WaterChanges ==
  /\ water' \in WaterTemps \ {water}
  /\ UNCHANGED <<program, power, armed, fault>>

FaultRaised ==
  /\ power
  /\ \E f \in Faults \ fault : fault' = fault \cup {f}
  /\ UNCHANGED <<program, power, armed, water>>

FaultClears ==
  /\ \E f \in fault : fault' = fault \ {f}
  /\ UNCHANGED <<program, power, armed, water>>

\* The cooker's timer runs out.
TimerExpires ==
  /\ armed /\ power
  /\ armed' = FALSE /\ power' = FALSE
  /\ UNCHANGED <<program, fault, water>>

Cooker == WaterChanges \/ FaultRaised \/ FaultClears \/ TimerExpires

Init ==
  /\ chain \in Chains
  /\ pc = "start" /\ pi = 1 /\ step = 0 /\ held = 0 /\ target = 0
  /\ caller = "wait" /\ preFault = 0 /\ maxProbes = 0 /\ probes = 0 /\ level = 1
  /\ elapsed = 0 /\ window = 0
  /\ offTry = 0
  /\ interrupted = FALSE
  /\ power \in BOOLEAN /\ armed = FALSE /\ fault = {} /\ water \in WaterTemps
  /\ commanded = -1 /\ lastPower = FALSE /\ confirmed = FALSE

\* The program has ended and its cooker has nothing left to do.
Next == Program \/ Signal \/ (pc \notin Ended /\ Cooker)

Spec == Init /\ [][Next]_vars

\* The program is always runnable: every call it makes has a timeout.
FairSpec == Spec /\ WF_vars(Program)

-----------------------------------------------------------------------------
(* Properties.                                                             *)

\* Types of all variables, part by part.
PlaceType ==
  /\ chain \in Chains
  /\ pc \in {"start", "phase", "ramp", "remainder", "pause", "hold", "holdRead", "wait",
            "waitSilent", "waitSleep", "classify", "cool", "probe", "observe", "off",
            "offRead"}
           \cup Ended
  /\ pi \in Nat /\ step \in Nat /\ held \in Nat /\ target \in Int
  /\ offTry \in 0..OffTries /\ interrupted \in BOOLEAN

RecoveryType ==
  /\ caller \in {"wait", "hold"}
  /\ preFault \in Int /\ maxProbes \in Nat /\ probes \in Nat
  /\ level \in DOMAIN ProbeBackoff
  /\ elapsed \in Nat /\ window \in Nat

CookerType ==
  /\ power \in BOOLEAN /\ armed \in BOOLEAN /\ fault \subseteq Faults
  /\ water \in WaterTemps

RecordType ==
  /\ commanded \in Int /\ lastPower \in BOOLEAN /\ confirmed \in BOOLEAN

\* The type invariant: every variable keeps its type.
TypeOK == PlaceType /\ RecoveryType /\ CookerType /\ RecordType

\* verified_off: "Returns 0 on confirmed off".  Where it says so, the cooker is
\* off, however many commands and replies were lost on the way.
ConfirmedOff == confirmed => ~power

\* The program never ends by itself, by an ALARM or by the end of its chain,
\* without its last power command having been "off".
EndsSwitchedOff == pc \in {"done", "alarm"} => ~lastPower

\* While no signal has come, the phases only ever run with the cooker switched
\* on: a recovery never resumes one with the cooker still off from its waits.
RunsSwitchedOn ==
  /\ ~interrupted
  /\ pc \in {"phase", "ramp", "remainder", "pause", "hold", "holdRead", "wait",
            "waitSilent", "waitSleep"}
  => lastPower

\* A ramp never moves the setpoint away from its end.
RampApproachesEnd ==
  [][pc = "ramp" => Apart(phase.end, commanded') <= Apart(phase.end, commanded)]_vars

Waits == {"wait", "waitSilent", "waitSleep"}

\* run_ramp sets a ramp's end in its last full minute, so a shorter ramp never does.
NoFullMinute == phase.kind = "ramp" /\ Steps(phase) = 0

\* What the program waits for is what it last told the cooker to reach, whatever came
\* between, minutes of a ramp, recoveries or lost commands: only a ramp without a full
\* minute waits for its end while the cooker was told its start, and no recovery has
\* sent the end since.
WaitsForSetpoint ==
  pc \in Waits /\ ~interrupted =>
    target = commanded \/ (NoFullMinute /\ commanded = phase.start)

\* Usage: "if the water hasn't reached the target by the end of a phase, sousctl waits
\* until it catches up", of every phase.  The water can only catch up with what the
\* cooker was told to reach.
WaitsForCommanded == pc \in Waits /\ ~interrupted => target = commanded

\* Where a wait does not look for a signal: after a poll without a reply, and where
\* the poll has found a fault.
Hindered == pc = "waitSilent" \/ (pc = "classify" /\ caller = "wait")

\* wait_for_temp: "SIGINT to abort".  The first signal ends the run, from whatever sleep,
\* recovery or power-off it finds it in, unless the cooker leaves the polls of a wait
\* without a reply, or answers them with a fault, again and again for ever.
InterruptEndsRun == <>[]~Hindered => (interrupted ~> pc \in Ended)

=============================================================================
