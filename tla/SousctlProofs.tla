--------------------------- MODULE SousctlProofs ---------------------------
(***************************************************************************)
(* Theorems about Sousctl: for every chain of phases, every range of water *)
(* temperatures, every backoff schedule, with any loss of commands and     *)
(* replies and any faults.                                                 *)
(***************************************************************************)
EXTENDS Sousctl, SequenceTheorems, TLAPS

-----------------------------------------------------------------------------
(* The inductive invariant.                                                *)

\* Where a phase is being run, there is one.
InPhase == {"phase", "ramp", "remainder", "pause", "hold", "holdRead", "wait",
            "waitSilent", "waitSleep", "classify", "cool", "probe", "observe"}

PhaseKnown ==
  /\ pc = "start" => pi = 1
  /\ pc \in InPhase => pi \in DOMAIN chain
  /\ pc = "ramp" => step < Steps(phase)
  /\ pc \in InPhase \ {"phase", "pause"} => phase.kind # "pause"

\* verified_off has a try left.
TryLeft == pc \notin Ended => offTry < OffTries

\* The last power command, where it is known.
PowerKnown ==
  /\ pc = "observe" => lastPower
  /\ pc = "offRead" => ~lastPower

\* A confirmation is the last thing that happens.
ConfirmedLast == confirmed => pc = "done"

\* On a Celsius display, what verified_off confirms is true.
OffInCelsius == Celsius => ConfirmedOff

IInv ==
  /\ TypeOK
  /\ PhaseKnown
  /\ TryLeft
  /\ PowerKnown
  /\ ConfirmedLast
  /\ EndsSwitchedOff
  /\ RunsSwitchedOn
  /\ OffInCelsius

-----------------------------------------------------------------------------
(* The operators.                                                          *)

\* The phase run_ramp looks at is one of the command line.
LEMMA PhaseElement ==
  ASSUME TypeOK, pi \in DOMAIN chain
  PROVE  phase \in Phase /\ pi \in 1..Len(chain) /\ Len(chain) \in Nat
<1>1. chain \in Seq(Phase)
  BY ChainAssumption DEF TypeOK, PlaceType
<1> QED
  BY <1>1, ElementOfSeq, LenProperties DEF phase

\* Integer division stays an integer.
LEMMA QuotientType ==
  ASSUME NEW n \in Int, NEW d \in Nat \ {0}  PROVE n \div d \in Int
OBVIOUS

\* round() gives an integer.
LEMMA RoundType ==
  ASSUME NEW n \in Int, NEW d \in Nat \ {0}  PROVE Round(n, d) \in Int
<1>1. 2 * d \in Nat \ {0} /\ 2 * n + d \in Int /\ 2 * (-n) + d \in Int
  OBVIOUS
<1>2. (2 * n + d) \div (2 * d) \in Int /\ (2 * (-n) + d) \div (2 * d) \in Int
  BY <1>1, QuotientType
<1> QED
  BY <1>2 DEF Round

\* A ramp's setpoint never leaves the ramp's range.
LEMMA ClampRange ==
  ASSUME NEW t \in Int, NEW ph \in Phase
  PROVE  /\ Clamp(t, ph) \in Int
         /\ ph.start <= ph.end => ph.start <= Clamp(t, ph) /\ Clamp(t, ph) <= ph.end
         /\ ph.end <= ph.start => ph.end <= Clamp(t, ph) /\ Clamp(t, ph) <= ph.start
BY DEF Clamp, Phase

\* The setpoint of every minute of a ramp is a temperature.
LEMMA StepTargetType ==
  ASSUME NEW ph \in Phase, NEW i \in Nat, Steps(ph) > 0
  PROVE  StepTarget(ph, i) \in Int
<1>1. ph.start \in Int /\ ph.end \in Int /\ ph.secs \in Nat
  BY DEF Phase
<1>2. Steps(ph) \in Nat \ {0}
  BY <1>1 DEF Steps
<1>3. (ph.end - ph.start) * i \in Int
  BY <1>1
<1>4. Round((ph.end - ph.start) * i, Steps(ph)) \in Int
  BY <1>2, <1>3, RoundType
<1>5. ph.start + Round((ph.end - ph.start) * i, Steps(ph)) \in Int
  BY <1>1, <1>4
<1> QED
  BY <1>5, ClampRange DEF StepTarget

\* What is read of a status reply is a temperature or -1.
LEMMA StatusType ==
  ASSUME TypeOK, NEW s \in Statuses
  PROVE  s.temp \in Nat \cup {-1} /\ s.ok \in BOOLEAN
<1>1. water \in Nat
  BY WaterAssumption DEF TypeOK, CookerType
<1>2. CASE s = Full
  BY <1>1, <1>2 DEF Full
<1>3. CASE s = Null
  BY <1>3 DEF Null
<1>4. CASE s \in [ok : {TRUE}, temp : {water, -1}, fault : {fault, {}}]
  BY <1>1, <1>4
<1> QED
  BY <1>2, <1>3, <1>4 DEF Statuses

-----------------------------------------------------------------------------
(* Each step preserves the invariant.                                      *)

\* The invariant holds when the program starts.
THEOREM InvInit == Init => IInv
<1> SUFFICES ASSUME Init PROVE IInv
  OBVIOUS
<1>1. PlaceType
  <2>1. 0 \in 0..OffTries
    BY DEF OffTries
  <2>2. 0 \in Int
    OBVIOUS
  <2> QED
    BY <2>1, <2>2 DEF Init, PlaceType
<1>2. RecoveryType
  <2>1. 1 \in DOMAIN ProbeBackoff
    BY ProbeAssumption, EmptySeq, LenProperties
  <2> QED
    BY <2>1 DEF Init, RecoveryType
<1>3. CookerType /\ RecordType
  <2>1. commanded \in Int
    <3>1. commanded = -1
      BY DEF Init
    <3> QED
      BY <3>1
  <2> QED
    BY <2>1 DEF Init, CookerType, RecordType
<1>4. PhaseKnown /\ TryLeft
  BY DEF Init, PhaseKnown, TryLeft, InPhase, Ended, OffTries
<1>5. PowerKnown /\ ConfirmedLast /\ EndsSwitchedOff /\ RunsSwitchedOn /\ OffInCelsius
  BY DEF Init, PowerKnown, ConfirmedLast, EndsSwitchedOff, RunsSwitchedOn,
         OffInCelsius, ConfirmedOff
<1> QED
  BY <1>1, <1>2, <1>3, <1>4, <1>5 DEF IInv, TypeOK

\* A phase that ends leaves its index on the next one, if there is one.
LEMMA NextPhaseEffect ==
  ASSUME TypeOK, pi \in DOMAIN chain, NextPhase, chain' = chain
  PROVE  /\ pi' \in Nat
         /\ pc' = "off" \/ (pc' = "phase" /\ pi' \in DOMAIN chain)
<1>1. /\ pi \in 1..Len(chain) /\ Len(chain) \in Nat
      /\ DOMAIN chain = 1..Len(chain)
  BY PhaseElement, ChainAssumption, LenProperties DEF TypeOK, PlaceType
<1>2. CASE pi < Len(chain)
  <2>1. pi' \in Nat /\ pi' \in 1..Len(chain) /\ pc' = "phase"
    BY <1>1, <1>2 DEF NextPhase
  <2> QED
    BY <1>1, <2>1
<1>3. CASE ~(pi < Len(chain))
  BY <1>1, <1>3 DEF NextPhase
<1> QED
  BY <1>2, <1>3

\* The end of the loop body: a signal leads to the power-off.
LEMMA PhaseEndEffect ==
  ASSUME TypeOK, pi \in DOMAIN chain, PhaseEnd, chain' = chain
  PROVE  /\ pi' \in Nat
         /\ pc' = "off" \/ (pc' = "phase" /\ pi' \in DOMAIN chain)
<1>1. pi \in Nat
  BY DEF TypeOK, PlaceType
<1>2. CASE interrupted
  BY <1>1, <1>2 DEF PhaseEnd
<1>3. CASE ~interrupted
  BY <1>3, NextPhaseEffect DEF PhaseEnd
<1> QED
  BY <1>2, <1>3

\* wait_for_temp returns into its own hold, or to the end of its phase.
LEMMA WaitReturnsEffect ==
  ASSUME TypeOK, pi \in DOMAIN chain, WaitReturns, chain' = chain,
         phase.kind # "pause"
  PROVE  /\ pi' \in Nat
         /\ pc' \in {"off", "phase", "hold"}
         /\ pc' # "off" => pi' \in DOMAIN chain
         /\ pc' = "hold" => pi' = pi
<1>1. CASE phase.kind = "temp"
  BY <1>1, NextPhaseEffect DEF WaitReturns
<1>2. CASE phase.kind = "hold"
  <2>1. pi \in Nat
    BY DEF TypeOK, PlaceType
  <2> QED
    BY <1>2, <2>1 DEF WaitReturns
<1>3. CASE phase.kind = "ramp"
  BY <1>3, PhaseEndEffect DEF WaitReturns
<1> QED
  BY <1>1, <1>2, <1>3, PhaseElement DEF Phase, Kinds

\* Switching on before the chain, which has a first phase.
LEMMA PowerOnStep ==
  ASSUME IInv, PowerOn  PROVE  IInv'
<1>1. /\ PlaceType /\ RecoveryType /\ CookerType /\ RecordType
      /\ TypeOK /\ PhaseKnown /\ TryLeft /\ PowerKnown /\ ConfirmedLast
      /\ EndsSwitchedOff /\ RunsSwitchedOn /\ OffInCelsius
  BY DEF IInv, TypeOK
<1>a. 1 \in DOMAIN chain
  BY <1>1, ChainAssumption, LenProperties, EmptySeq DEF PlaceType
<1>2. PlaceType'
  BY <1>1 DEF PowerOn, PlaceType, Ended
<1>3. RecoveryType'
  BY <1>1 DEF PowerOn, RecoveryType, locals
<1>4. CookerType'
  BY <1>1 DEF PowerOn, CookerType, SwitchPower
<1>5. RecordType'
  BY <1>1 DEF PowerOn, RecordType, SwitchPower
<1>6. PhaseKnown'
  BY <1>1, <1>a DEF PowerOn, PhaseKnown, InPhase, phase
<1>7. /\ TryLeft' /\ PowerKnown' /\ ConfirmedLast'
      /\ EndsSwitchedOff' /\ RunsSwitchedOn' /\ OffInCelsius'
  BY <1>1 DEF PowerOn, TryLeft, PowerKnown, ConfirmedLast, EndsSwitchedOff,
      RunsSwitchedOn, OffInCelsius, ConfirmedOff, Ended, SwitchPower
<1> QED
  BY <1>2, <1>3, <1>4, <1>5, <1>6, <1>7 DEF IInv, TypeOK

\* A temp phase begins: its target is a temperature of the command line.
LEMMA BeginTempStep ==
  ASSUME IInv, BeginTemp  PROVE  IInv'
<1>1. /\ PlaceType /\ RecoveryType /\ CookerType /\ RecordType
      /\ TypeOK /\ PhaseKnown /\ TryLeft /\ PowerKnown /\ ConfirmedLast
      /\ EndsSwitchedOff /\ RunsSwitchedOn /\ OffInCelsius
  BY DEF IInv, TypeOK
<1>0. phase \in Phase /\ pi \in DOMAIN chain
  BY <1>1, PhaseElement DEF BeginTemp, PhaseKnown, InPhase
<1>2. PlaceType'
  BY <1>1, <1>0 DEF BeginTemp, PlaceType, Phase
<1>3. RecoveryType'
  BY <1>1 DEF BeginTemp, RecoveryType, locals
<1>4. CookerType'
  BY <1>1 DEF BeginTemp, CookerType, cooker
<1>5. RecordType'
  BY <1>1, <1>0 DEF BeginTemp, RecordType, SetTemp, Phase
<1>6. PhaseKnown'
  BY <1>1 DEF BeginTemp, PhaseKnown, InPhase, phase
<1>7. /\ TryLeft' /\ PowerKnown' /\ ConfirmedLast'
      /\ EndsSwitchedOff' /\ RunsSwitchedOn' /\ OffInCelsius'
  BY <1>1 DEF BeginTemp, TryLeft, PowerKnown, ConfirmedLast, EndsSwitchedOff,
      RunsSwitchedOn, OffInCelsius, ConfirmedOff, Ended
<1> QED
  BY <1>2, <1>3, <1>4, <1>5, <1>6, <1>7 DEF IInv, TypeOK

\* A pause begins: the only phase that never waits for the water.
LEMMA BeginPauseStep ==
  ASSUME IInv, BeginPause  PROVE  IInv'
<1>1. /\ PlaceType /\ RecoveryType /\ CookerType /\ RecordType
      /\ TypeOK /\ PhaseKnown /\ TryLeft /\ PowerKnown /\ ConfirmedLast
      /\ EndsSwitchedOff /\ RunsSwitchedOn /\ OffInCelsius
  BY DEF IInv, TypeOK
<1>2. PlaceType'
  BY <1>1 DEF BeginPause, PlaceType
<1>3. RecoveryType'
  BY <1>1 DEF BeginPause, RecoveryType, locals
<1>4. CookerType'
  BY <1>1 DEF BeginPause, CookerType, cooker
<1>5. RecordType'
  BY <1>1 DEF BeginPause, RecordType
<1>6. PhaseKnown'
  BY <1>1 DEF BeginPause, PhaseKnown, InPhase, phase
<1>7. /\ TryLeft' /\ PowerKnown' /\ ConfirmedLast'
      /\ EndsSwitchedOff' /\ RunsSwitchedOn' /\ OffInCelsius'
  BY <1>1 DEF BeginPause, TryLeft, PowerKnown, ConfirmedLast, EndsSwitchedOff,
      RunsSwitchedOn, OffInCelsius, ConfirmedOff, Ended
<1> QED
  BY <1>2, <1>3, <1>4, <1>5, <1>6, <1>7 DEF IInv, TypeOK

\* A hold begins, with the timer set.
LEMMA BeginHoldStep ==
  ASSUME IInv, BeginHold  PROVE  IInv'
<1>1. /\ PlaceType /\ RecoveryType /\ CookerType /\ RecordType
      /\ TypeOK /\ PhaseKnown /\ TryLeft /\ PowerKnown /\ ConfirmedLast
      /\ EndsSwitchedOff /\ RunsSwitchedOn /\ OffInCelsius
  BY DEF IInv, TypeOK
<1>0. phase \in Phase /\ pi \in DOMAIN chain
  BY <1>1, PhaseElement DEF BeginHold, PhaseKnown, InPhase
<1>2. PlaceType'
  BY <1>1, <1>0 DEF BeginHold, PlaceType, Phase
<1>3. RecoveryType'
  BY <1>1 DEF BeginHold, RecoveryType, locals
<1>4. CookerType'
  BY <1>1 DEF BeginHold, CookerType, cooker
<1>5. RecordType'
  BY <1>1, <1>0 DEF BeginHold, RecordType, SetTemp, Phase
<1>6. PhaseKnown'
  BY <1>1 DEF BeginHold, PhaseKnown, InPhase, phase
<1>7. /\ TryLeft' /\ PowerKnown' /\ ConfirmedLast'
      /\ EndsSwitchedOff' /\ RunsSwitchedOn' /\ OffInCelsius'
  BY <1>1 DEF BeginHold, TryLeft, PowerKnown, ConfirmedLast, EndsSwitchedOff,
      RunsSwitchedOn, OffInCelsius, ConfirmedOff, Ended
<1> QED
  BY <1>2, <1>3, <1>4, <1>5, <1>6, <1>7 DEF IInv, TypeOK

\* A ramp begins: with no full minute in it, it waits or sleeps at once.
LEMMA BeginRampStep ==
  ASSUME IInv, BeginRamp  PROVE  IInv'
<1>1. /\ PlaceType /\ RecoveryType /\ CookerType /\ RecordType
      /\ TypeOK /\ PhaseKnown /\ TryLeft /\ PowerKnown /\ ConfirmedLast
      /\ EndsSwitchedOff /\ RunsSwitchedOn /\ OffInCelsius
  BY DEF IInv, TypeOK
<1>0. phase \in Phase /\ pi \in DOMAIN chain
  BY <1>1, PhaseElement DEF BeginRamp, PhaseKnown, InPhase
<1>8. /\ target' \in Int
      /\ pc' \in {"ramp", "remainder", "wait"}
      /\ pc' = "ramp" => step' < Steps(phase)
  BY <1>0, <1>1 DEF BeginRamp, AfterSteps, PlaceType, Phase
<1>2. PlaceType'
  BY <1>1, <1>8 DEF BeginRamp, PlaceType
<1>3. RecoveryType'
  BY <1>1 DEF BeginRamp, RecoveryType, locals
<1>4. CookerType'
  BY <1>1 DEF BeginRamp, CookerType, cooker
<1>5. RecordType'
  BY <1>1, <1>0 DEF BeginRamp, RecordType, SetTemp, Phase
<1>6. PhaseKnown'
  BY <1>1, <1>8 DEF BeginRamp, PhaseKnown, InPhase, phase, Steps
<1>7. /\ TryLeft' /\ PowerKnown' /\ ConfirmedLast'
      /\ EndsSwitchedOff' /\ RunsSwitchedOn' /\ OffInCelsius'
  BY <1>1, <1>8 DEF BeginRamp, TryLeft, PowerKnown, ConfirmedLast,
      EndsSwitchedOff, RunsSwitchedOn, OffInCelsius, ConfirmedOff, Ended
<1> QED
  BY <1>2, <1>3, <1>4, <1>5, <1>6, <1>7 DEF IInv, TypeOK

\* A minute of a ramp: the new setpoint stays within the ramp.
LEMMA RampStepStep ==
  ASSUME IInv, RampStep  PROVE  IInv'
<1>1. /\ PlaceType /\ RecoveryType /\ CookerType /\ RecordType
      /\ TypeOK /\ PhaseKnown /\ TryLeft /\ PowerKnown /\ ConfirmedLast
      /\ EndsSwitchedOff /\ RunsSwitchedOn /\ OffInCelsius
  BY DEF IInv, TypeOK
<1>0. phase \in Phase /\ pi \in DOMAIN chain
  BY <1>1, PhaseElement DEF RampStep, PhaseKnown, InPhase
<1>9. step \in Nat /\ step < Steps(phase) /\ Steps(phase) \in Nat
  BY <1>0, <1>1 DEF RampStep, PhaseKnown, PlaceType, Steps, Phase
<1>8. /\ target' \in Int
      /\ pc' \in {"ramp", "remainder", "wait"}
      /\ pc' = "ramp" => step' < Steps(phase)
  BY <1>0, <1>1, <1>9 DEF RampStep, AfterSteps, PlaceType, Phase
<1>2. PlaceType'
  BY <1>1, <1>8, <1>9 DEF RampStep, PlaceType
<1>3. RecoveryType'
  BY <1>1 DEF RampStep, RecoveryType, locals
<1>4. CookerType'
  BY <1>1 DEF RampStep, CookerType, cooker
<1>5. RecordType'
  BY <1>1, <1>0, <1>9, StepTargetType DEF RampStep, RecordType, SetTemp
<1>6. PhaseKnown'
  BY <1>1, <1>8 DEF RampStep, PhaseKnown, InPhase, phase, Steps
<1>7. /\ TryLeft' /\ PowerKnown' /\ ConfirmedLast'
      /\ EndsSwitchedOff' /\ RunsSwitchedOn' /\ OffInCelsius'
  BY <1>1, <1>8 DEF RampStep, TryLeft, PowerKnown, ConfirmedLast,
      EndsSwitchedOff, RunsSwitchedOn, OffInCelsius, ConfirmedOff, Ended
<1> QED
  BY <1>2, <1>3, <1>4, <1>5, <1>6, <1>7 DEF IInv, TypeOK

\* A signal ends the steps of a ramp, not the phase.
LEMMA RampInterruptedStep ==
  ASSUME IInv, RampInterrupted  PROVE  IInv'
<1>1. /\ PlaceType /\ RecoveryType /\ CookerType /\ RecordType
      /\ TypeOK /\ PhaseKnown /\ TryLeft /\ PowerKnown /\ ConfirmedLast
      /\ EndsSwitchedOff /\ RunsSwitchedOn /\ OffInCelsius
  BY DEF IInv, TypeOK
<1>0. phase \in Phase /\ pi \in DOMAIN chain
  BY <1>1, PhaseElement DEF RampInterrupted, PhaseKnown, InPhase
<1>8. /\ target' \in Int
      /\ pc' \in {"remainder", "wait"}
  BY <1>0, <1>1 DEF RampInterrupted, AfterSteps, PlaceType, Phase
<1>2. PlaceType'
  BY <1>1, <1>8 DEF RampInterrupted, PlaceType
<1>3. RecoveryType'
  BY <1>1 DEF RampInterrupted, RecoveryType, locals
<1>4. CookerType'
  BY <1>1 DEF RampInterrupted, CookerType, cooker
<1>5. RecordType'
  BY <1>1 DEF RampInterrupted, RecordType
<1>6. PhaseKnown'
  BY <1>1, <1>8 DEF RampInterrupted, PhaseKnown, InPhase, phase, Steps
<1>7. /\ TryLeft' /\ PowerKnown' /\ ConfirmedLast'
      /\ EndsSwitchedOff' /\ RunsSwitchedOn' /\ OffInCelsius'
  BY <1>1, <1>8 DEF RampInterrupted, TryLeft, PowerKnown, ConfirmedLast,
      EndsSwitchedOff, RunsSwitchedOn, OffInCelsius, ConfirmedOff, Ended
<1> QED
  BY <1>2, <1>3, <1>4, <1>5, <1>6, <1>7 DEF IInv, TypeOK

\* The last seconds of a ramp: a signal goes to the power-off.
LEMMA RampRemainderStep ==
  ASSUME IInv, RampRemainder  PROVE  IInv'
<1>1. /\ PlaceType /\ RecoveryType /\ CookerType /\ RecordType
      /\ TypeOK /\ PhaseKnown /\ TryLeft /\ PowerKnown /\ ConfirmedLast
      /\ EndsSwitchedOff /\ RunsSwitchedOn /\ OffInCelsius
  BY DEF IInv, TypeOK
<1>0. phase \in Phase /\ pi \in DOMAIN chain
  BY <1>1, PhaseElement DEF RampRemainder, PhaseKnown, InPhase
<1>2. PlaceType'
  BY <1>1, <1>0 DEF RampRemainder, PlaceType, Phase
<1>3. RecoveryType'
  BY <1>1 DEF RampRemainder, RecoveryType, locals
<1>4. CookerType'
  BY <1>1 DEF RampRemainder, CookerType, cooker
<1>5. RecordType'
  BY <1>1 DEF RampRemainder, RecordType
<1>6. PhaseKnown'
  BY <1>1 DEF RampRemainder, PhaseKnown, InPhase, phase
<1>7. /\ TryLeft' /\ PowerKnown' /\ ConfirmedLast'
      /\ EndsSwitchedOff' /\ RunsSwitchedOn' /\ OffInCelsius'
  BY <1>1 DEF RampRemainder, TryLeft, PowerKnown, ConfirmedLast,
      EndsSwitchedOff, RunsSwitchedOn, OffInCelsius, ConfirmedOff, Ended
<1> QED
  BY <1>2, <1>3, <1>4, <1>5, <1>6, <1>7 DEF IInv, TypeOK

\* A pause ends: the next phase, or the power-off.
LEMMA PauseOverStep ==
  ASSUME IInv, PauseOver  PROVE  IInv'
<1>1. /\ PlaceType /\ RecoveryType /\ CookerType /\ RecordType
      /\ TypeOK /\ PhaseKnown /\ TryLeft /\ PowerKnown /\ ConfirmedLast
      /\ EndsSwitchedOff /\ RunsSwitchedOn /\ OffInCelsius
  BY DEF IInv, TypeOK
<1>0. phase \in Phase /\ pi \in DOMAIN chain
  BY <1>1, PhaseElement DEF PauseOver, PhaseKnown, InPhase
<1>8. pi' \in Nat /\ (pc' = "off" \/ (pc' = "phase" /\ pi' \in DOMAIN chain))
  BY <1>0, <1>1, PhaseEndEffect DEF PauseOver
<1>2. PlaceType'
  BY <1>1, <1>8 DEF PauseOver, PlaceType
<1>3. RecoveryType'
  BY <1>1 DEF PauseOver, RecoveryType, locals
<1>4. CookerType'
  BY <1>1 DEF PauseOver, CookerType, cooker
<1>5. RecordType'
  BY <1>1 DEF PauseOver, RecordType
<1>6. PhaseKnown'
  BY <1>1, <1>8 DEF PauseOver, PhaseKnown, InPhase
<1>7. /\ TryLeft' /\ PowerKnown' /\ ConfirmedLast'
      /\ EndsSwitchedOff' /\ RunsSwitchedOn' /\ OffInCelsius'
  BY <1>1, <1>8 DEF PauseOver, TryLeft, PowerKnown, ConfirmedLast,
      EndsSwitchedOff, RunsSwitchedOn, OffInCelsius, ConfirmedOff, Ended
<1> QED
  BY <1>2, <1>3, <1>4, <1>5, <1>6, <1>7 DEF IInv, TypeOK

\* A hold ends: the next phase, or the power-off.
LEMMA HoldOverStep ==
  ASSUME IInv, HoldOver  PROVE  IInv'
<1>1. /\ PlaceType /\ RecoveryType /\ CookerType /\ RecordType
      /\ TypeOK /\ PhaseKnown /\ TryLeft /\ PowerKnown /\ ConfirmedLast
      /\ EndsSwitchedOff /\ RunsSwitchedOn /\ OffInCelsius
  BY DEF IInv, TypeOK
<1>0. phase \in Phase /\ pi \in DOMAIN chain
  BY <1>1, PhaseElement DEF HoldOver, PhaseKnown, InPhase
<1>8. pi' \in Nat /\ (pc' = "off" \/ (pc' = "phase" /\ pi' \in DOMAIN chain))
  BY <1>0, <1>1, PhaseEndEffect DEF HoldOver
<1>2. PlaceType'
  BY <1>1, <1>8 DEF HoldOver, PlaceType
<1>3. RecoveryType'
  BY <1>1 DEF HoldOver, RecoveryType, locals
<1>4. CookerType'
  BY <1>1 DEF HoldOver, CookerType, cooker
<1>5. RecordType'
  BY <1>1 DEF HoldOver, RecordType
<1>6. PhaseKnown'
  BY <1>1, <1>8 DEF HoldOver, PhaseKnown, InPhase
<1>7. /\ TryLeft' /\ PowerKnown' /\ ConfirmedLast'
      /\ EndsSwitchedOff' /\ RunsSwitchedOn' /\ OffInCelsius'
  BY <1>1, <1>8 DEF HoldOver, TryLeft, PowerKnown, ConfirmedLast,
      EndsSwitchedOff, RunsSwitchedOn, OffInCelsius, ConfirmedOff, Ended
<1> QED
  BY <1>2, <1>3, <1>4, <1>5, <1>6, <1>7 DEF IInv, TypeOK

\* A minute of a hold passes.
LEMMA HoldChunkStep ==
  ASSUME IInv, HoldChunk  PROVE  IInv'
<1>1. /\ PlaceType /\ RecoveryType /\ CookerType /\ RecordType
      /\ TypeOK /\ PhaseKnown /\ TryLeft /\ PowerKnown /\ ConfirmedLast
      /\ EndsSwitchedOff /\ RunsSwitchedOn /\ OffInCelsius
  BY DEF IInv, TypeOK
<1>0. phase \in Phase /\ pi \in DOMAIN chain
  BY <1>1, PhaseElement DEF HoldChunk, PhaseKnown, InPhase
<1>8. held' \in Nat
  BY <1>0, <1>1 DEF HoldChunk, PlaceType, Phase, PollInterval
<1>2. PlaceType'
  BY <1>1, <1>8 DEF HoldChunk, PlaceType
<1>3. RecoveryType'
  BY <1>1 DEF HoldChunk, RecoveryType, locals
<1>4. CookerType'
  BY <1>1 DEF HoldChunk, CookerType, cooker
<1>5. RecordType'
  BY <1>1 DEF HoldChunk, RecordType
<1>6. PhaseKnown'
  BY <1>1 DEF HoldChunk, PhaseKnown, InPhase, phase
<1>7. /\ TryLeft' /\ PowerKnown' /\ ConfirmedLast'
      /\ EndsSwitchedOff' /\ RunsSwitchedOn' /\ OffInCelsius'
  BY <1>1 DEF HoldChunk, TryLeft, PowerKnown, ConfirmedLast, EndsSwitchedOff,
      RunsSwitchedOn, OffInCelsius, ConfirmedOff, Ended
<1> QED
  BY <1>2, <1>3, <1>4, <1>5, <1>6, <1>7 DEF IInv, TypeOK

\* A hold reads the faults: the recovery is entered from a phase that can be
\* resumed.
LEMMA HoldReadStep ==
  ASSUME IInv, HoldRead  PROVE  IInv'
<1>1. /\ PlaceType /\ RecoveryType /\ CookerType /\ RecordType
      /\ TypeOK /\ PhaseKnown /\ TryLeft /\ PowerKnown /\ ConfirmedLast
      /\ EndsSwitchedOff /\ RunsSwitchedOn /\ OffInCelsius
  BY DEF IInv, TypeOK
<1>0. phase \in Phase /\ pi \in DOMAIN chain
  BY <1>1, PhaseElement DEF HoldRead, PhaseKnown, InPhase
<1>2. PlaceType'
  BY <1>1, <1>0 DEF HoldRead, PlaceType, Phase
<1>3. RecoveryType'
  BY <1>1 DEF HoldRead, RecoveryType, locals
<1>4. CookerType'
  BY <1>1 DEF HoldRead, CookerType, cooker
<1>5. RecordType'
  BY <1>1 DEF HoldRead, RecordType
<1>6. PhaseKnown'
  BY <1>1 DEF HoldRead, PhaseKnown, InPhase, phase
<1>7. /\ TryLeft' /\ PowerKnown' /\ ConfirmedLast'
      /\ EndsSwitchedOff' /\ RunsSwitchedOn' /\ OffInCelsius'
  BY <1>1 DEF HoldRead, TryLeft, PowerKnown, ConfirmedLast, EndsSwitchedOff,
      RunsSwitchedOn, OffInCelsius, ConfirmedOff, Ended
<1> QED
  BY <1>2, <1>3, <1>4, <1>5, <1>6, <1>7 DEF IInv, TypeOK

\* A poll: whatever it finds, the phase waited in is still there.
LEMMA WaitPollStep ==
  ASSUME IInv, WaitPoll  PROVE  IInv'
<1>1. /\ PlaceType /\ RecoveryType /\ CookerType /\ RecordType
      /\ TypeOK /\ PhaseKnown /\ TryLeft /\ PowerKnown /\ ConfirmedLast
      /\ EndsSwitchedOff /\ RunsSwitchedOn /\ OffInCelsius
  BY DEF IInv, TypeOK
<1>0. phase \in Phase /\ pi \in DOMAIN chain
  BY <1>1, PhaseElement DEF WaitPoll, PhaseKnown, InPhase
<1>8. phase.kind # "pause" /\ chain' = chain
  BY <1>1 DEF WaitPoll, PhaseKnown, InPhase
<1>9. \/ pi' = pi /\ pc' \in {"waitSilent", "classify", "waitSleep"}
      \/ WaitReturns
  BY DEF WaitPoll
<1>10. /\ pi' \in Nat
       /\ pc' \in {"waitSilent", "classify", "waitSleep", "off", "phase", "hold"}
       /\ pc' # "off" => pi' \in DOMAIN chain
       /\ pc' \in InPhase \ {"phase", "pause"} => pi' = pi
  <2>1. CASE pi' = pi /\ pc' \in {"waitSilent", "classify", "waitSleep"}
    BY <1>0, <1>1, <2>1 DEF PlaceType
  <2>2. CASE WaitReturns
    BY <1>0, <1>1, <1>8, <2>2, WaitReturnsEffect DEF InPhase
  <2> QED
    BY <1>9, <2>1, <2>2
<1>11. caller' \in {"wait", "hold"}
  BY <1>1 DEF WaitPoll, RecoveryType
<1>2. PlaceType'
  BY <1>1, <1>10 DEF WaitPoll, PlaceType
<1>3. RecoveryType'
  BY <1>1, <1>11 DEF WaitPoll, RecoveryType, locals
<1>4. CookerType'
  BY <1>1 DEF WaitPoll, CookerType, cooker
<1>5. RecordType'
  BY <1>1 DEF WaitPoll, RecordType
<1>6. PhaseKnown'
  BY <1>1, <1>8, <1>10 DEF WaitPoll, PhaseKnown, InPhase, phase
<1>7. /\ TryLeft' /\ PowerKnown' /\ ConfirmedLast'
      /\ EndsSwitchedOff' /\ RunsSwitchedOn' /\ OffInCelsius'
  BY <1>1, <1>10 DEF WaitPoll, TryLeft, PowerKnown, ConfirmedLast,
      EndsSwitchedOff, RunsSwitchedOn, OffInCelsius, ConfirmedOff, Ended
<1> QED
  BY <1>2, <1>3, <1>4, <1>5, <1>6, <1>7 DEF IInv, TypeOK

\* The sleep after a silent poll.
LEMMA WaitRetryStep ==
  ASSUME IInv, WaitRetry  PROVE  IInv'
<1>1. /\ PlaceType /\ RecoveryType /\ CookerType /\ RecordType
      /\ TypeOK /\ PhaseKnown /\ TryLeft /\ PowerKnown /\ ConfirmedLast
      /\ EndsSwitchedOff /\ RunsSwitchedOn /\ OffInCelsius
  BY DEF IInv, TypeOK
<1>2. PlaceType'
  BY <1>1 DEF WaitRetry, PlaceType
<1>3. RecoveryType'
  BY <1>1 DEF WaitRetry, RecoveryType, locals
<1>4. CookerType'
  BY <1>1 DEF WaitRetry, CookerType, cooker
<1>5. RecordType'
  BY <1>1 DEF WaitRetry, RecordType
<1>6. PhaseKnown'
  BY <1>1 DEF WaitRetry, PhaseKnown, InPhase, phase
<1>7. /\ TryLeft' /\ PowerKnown' /\ ConfirmedLast'
      /\ EndsSwitchedOff' /\ RunsSwitchedOn' /\ OffInCelsius'
  BY <1>1 DEF WaitRetry, TryLeft, PowerKnown, ConfirmedLast, EndsSwitchedOff,
      RunsSwitchedOn, OffInCelsius, ConfirmedOff, Ended
<1> QED
  BY <1>2, <1>3, <1>4, <1>5, <1>6, <1>7 DEF IInv, TypeOK

\* The sleep between two polls, or the signal that ends the wait.
LEMMA WaitWakeStep ==
  ASSUME IInv, WaitWake  PROVE  IInv'
<1>1. /\ PlaceType /\ RecoveryType /\ CookerType /\ RecordType
      /\ TypeOK /\ PhaseKnown /\ TryLeft /\ PowerKnown /\ ConfirmedLast
      /\ EndsSwitchedOff /\ RunsSwitchedOn /\ OffInCelsius
  BY DEF IInv, TypeOK
<1>0. phase \in Phase /\ pi \in DOMAIN chain
  BY <1>1, PhaseElement DEF WaitWake, PhaseKnown, InPhase
<1>8. phase.kind # "pause" /\ chain' = chain
  BY <1>1 DEF WaitWake, PhaseKnown, InPhase
<1>10. /\ pi' \in Nat
       /\ pc' \in {"wait", "off", "phase", "hold"}
       /\ pc' # "off" => pi' \in DOMAIN chain
       /\ pc' \in InPhase \ {"phase", "pause"} => pi' = pi
  <2>1. CASE interrupted
    BY <1>0, <1>1, <1>8, <2>1, WaitReturnsEffect DEF WaitWake, InPhase
  <2>2. CASE ~interrupted
    BY <1>0, <1>1, <2>2 DEF WaitWake, PlaceType
  <2> QED
    BY <2>1, <2>2
<1>2. PlaceType'
  BY <1>1, <1>10 DEF WaitWake, PlaceType
<1>3. RecoveryType'
  BY <1>1 DEF WaitWake, RecoveryType, locals
<1>4. CookerType'
  BY <1>1 DEF WaitWake, CookerType, cooker
<1>5. RecordType'
  BY <1>1 DEF WaitWake, RecordType
<1>6. PhaseKnown'
  BY <1>1, <1>8, <1>10 DEF WaitWake, PhaseKnown, InPhase, phase
<1>7. /\ TryLeft' /\ PowerKnown' /\ ConfirmedLast'
      /\ EndsSwitchedOff' /\ RunsSwitchedOn' /\ OffInCelsius'
  BY <1>1, <1>10 DEF WaitWake, TryLeft, PowerKnown, ConfirmedLast,
      EndsSwitchedOff, RunsSwitchedOn, OffInCelsius, ConfirmedOff, Ended
<1> QED
  BY <1>2, <1>3, <1>4, <1>5, <1>6, <1>7 DEF IInv, TypeOK

\* The fault is classified and the cooker switched off.
LEMMA ClassifyStep ==
  ASSUME IInv, Classify  PROVE  IInv'
<1>1. /\ PlaceType /\ RecoveryType /\ CookerType /\ RecordType
      /\ TypeOK /\ PhaseKnown /\ TryLeft /\ PowerKnown /\ ConfirmedLast
      /\ EndsSwitchedOff /\ RunsSwitchedOn /\ OffInCelsius
  BY DEF IInv, TypeOK
<1>8. preFault' \in Int /\ maxProbes' \in Nat
  BY <1>1, StatusType, ProbeAssumption DEF Classify, PlaceType, MaxNonE2Probes
<1>9. 1 \in DOMAIN ProbeBackoff
  BY ProbeAssumption, EmptySeq, LenProperties
<1>2. PlaceType'
  BY <1>1 DEF Classify, PlaceType
<1>3. RecoveryType'
  BY <1>1, <1>8, <1>9 DEF Classify, RecoveryType, locals
<1>4. CookerType'
  BY <1>1 DEF Classify, CookerType, SwitchPower
<1>5. RecordType'
  BY <1>1 DEF Classify, RecordType, SwitchPower
<1>6. PhaseKnown'
  BY <1>1 DEF Classify, PhaseKnown, InPhase, phase
<1>7. /\ TryLeft' /\ PowerKnown' /\ ConfirmedLast'
      /\ EndsSwitchedOff' /\ RunsSwitchedOn' /\ OffInCelsius'
  BY <1>1 DEF Classify, TryLeft, PowerKnown, ConfirmedLast, EndsSwitchedOff,
      RunsSwitchedOn, OffInCelsius, ConfirmedOff, Ended, SwitchPower
<1> QED
  BY <1>2, <1>3, <1>4, <1>5, <1>6, <1>7 DEF IInv, TypeOK

\* Five seconds before a probe.
LEMMA CoolStep ==
  ASSUME IInv, Cool  PROVE  IInv'
<1>1. /\ PlaceType /\ RecoveryType /\ CookerType /\ RecordType
      /\ TypeOK /\ PhaseKnown /\ TryLeft /\ PowerKnown /\ ConfirmedLast
      /\ EndsSwitchedOff /\ RunsSwitchedOn /\ OffInCelsius
  BY DEF IInv, TypeOK
<1>8. elapsed' \in Nat /\ pc' \in {"probe", "cool"}
  BY <1>1 DEF Cool, RecoveryType, FaultPoll
<1>2. PlaceType'
  BY <1>1, <1>8 DEF Cool, PlaceType
<1>3. RecoveryType'
  BY <1>1, <1>8 DEF Cool, RecoveryType, locals
<1>4. CookerType'
  BY <1>1 DEF Cool, CookerType, cooker
<1>5. RecordType'
  BY <1>1 DEF Cool, RecordType
<1>6. PhaseKnown'
  BY <1>1, <1>8 DEF Cool, PhaseKnown, InPhase, phase
<1>7. /\ TryLeft' /\ PowerKnown' /\ ConfirmedLast'
      /\ EndsSwitchedOff' /\ RunsSwitchedOn' /\ OffInCelsius'
  BY <1>1, <1>8 DEF Cool, TryLeft, PowerKnown, ConfirmedLast, EndsSwitchedOff,
      RunsSwitchedOn, OffInCelsius, ConfirmedOff, Ended
<1> QED
  BY <1>2, <1>3, <1>4, <1>5, <1>6, <1>7 DEF IInv, TypeOK

\* A probe switches the cooker on.
LEMMA ProbeStep ==
  ASSUME IInv, Probe  PROVE  IInv'
<1>1. /\ PlaceType /\ RecoveryType /\ CookerType /\ RecordType
      /\ TypeOK /\ PhaseKnown /\ TryLeft /\ PowerKnown /\ ConfirmedLast
      /\ EndsSwitchedOff /\ RunsSwitchedOn /\ OffInCelsius
  BY DEF IInv, TypeOK
<1>2. PlaceType'
  BY <1>1 DEF Probe, PlaceType
<1>3. RecoveryType'
  BY <1>1 DEF Probe, RecoveryType, locals
<1>4. CookerType'
  BY <1>1 DEF Probe, CookerType, SwitchPower
<1>5. RecordType'
  BY <1>1 DEF Probe, RecordType, SwitchPower
<1>6. PhaseKnown'
  BY <1>1 DEF Probe, PhaseKnown, InPhase, phase
<1>7. /\ TryLeft' /\ PowerKnown' /\ ConfirmedLast'
      /\ EndsSwitchedOff' /\ RunsSwitchedOn' /\ OffInCelsius'
  BY <1>1 DEF Probe, TryLeft, PowerKnown, ConfirmedLast, EndsSwitchedOff,
      RunsSwitchedOn, OffInCelsius, ConfirmedOff, Ended, SwitchPower
<1> QED
  BY <1>2, <1>3, <1>4, <1>5, <1>6, <1>7 DEF IInv, TypeOK

\* A good probe goes back to the phase with the cooker switched on.
LEMMA ObserveQuietStep ==
  ASSUME IInv, ObserveQuiet  PROVE  IInv'
<1>1. /\ PlaceType /\ RecoveryType /\ CookerType /\ RecordType
      /\ TypeOK /\ PhaseKnown /\ TryLeft /\ PowerKnown /\ ConfirmedLast
      /\ EndsSwitchedOff /\ RunsSwitchedOn /\ OffInCelsius
  BY DEF IInv, TypeOK
<1>8. 1 \in DOMAIN ProbeBackoff
  BY ProbeAssumption, EmptySeq, LenProperties
<1>10. pc' \in {"observe", "wait", "hold"}
  BY <1>1 DEF ObserveQuiet, RecoveryType, RecoveryReturns
<1>2. PlaceType'
  BY <1>1, <1>10 DEF ObserveQuiet, PlaceType
<1>3. RecoveryType'
  BY <1>1, <1>8 DEF ObserveQuiet, RecoveryType, RecoveryReturns
<1>4. CookerType'
  BY <1>1 DEF ObserveQuiet, CookerType, cooker
<1>5. RecordType'
  BY <1>1 DEF ObserveQuiet, RecordType, SetTemp, PlaceType
<1>6. PhaseKnown'
  BY <1>1, <1>10 DEF ObserveQuiet, PhaseKnown, InPhase, phase
<1>7. /\ TryLeft' /\ PowerKnown' /\ ConfirmedLast'
      /\ EndsSwitchedOff' /\ RunsSwitchedOn' /\ OffInCelsius'
  BY <1>1, <1>10 DEF ObserveQuiet, TryLeft, PowerKnown, ConfirmedLast,
      EndsSwitchedOff, RunsSwitchedOn, OffInCelsius, ConfirmedOff, Ended
<1> QED
  BY <1>2, <1>3, <1>4, <1>5, <1>6, <1>7 DEF IInv, TypeOK

\* A failed probe switches off before the next one or the ALARM.
LEMMA ObserveFaultStep ==
  ASSUME IInv, ObserveFault  PROVE  IInv'
<1>1. /\ PlaceType /\ RecoveryType /\ CookerType /\ RecordType
      /\ TypeOK /\ PhaseKnown /\ TryLeft /\ PowerKnown /\ ConfirmedLast
      /\ EndsSwitchedOff /\ RunsSwitchedOn /\ OffInCelsius
  BY DEF IInv, TypeOK
<1>8. level' \in DOMAIN ProbeBackoff
  <2>1. DOMAIN ProbeBackoff = 1..Len(ProbeBackoff) /\ Len(ProbeBackoff) \in Nat
    BY ProbeAssumption, LenProperties
  <2> QED
    BY <1>1, <2>1 DEF ObserveFault, RecoveryType, NextLevel
<1>9. pc' \in {"cool", "alarm"}
  BY DEF ObserveFault
<1>2. PlaceType'
  BY <1>1, <1>9 DEF ObserveFault, PlaceType, Ended
<1>3. RecoveryType'
  BY <1>1, <1>8 DEF ObserveFault, RecoveryType, locals
<1>4. CookerType'
  BY <1>1 DEF ObserveFault, CookerType, SwitchPower
<1>5. RecordType'
  BY <1>1 DEF ObserveFault, RecordType, SwitchPower
<1>6. PhaseKnown'
  BY <1>1, <1>9 DEF ObserveFault, PhaseKnown, InPhase, phase
<1>7. /\ TryLeft' /\ PowerKnown' /\ ConfirmedLast'
      /\ EndsSwitchedOff' /\ RunsSwitchedOn' /\ OffInCelsius'
  BY <1>1, <1>9 DEF ObserveFault, TryLeft, PowerKnown, ConfirmedLast,
      EndsSwitchedOff, RunsSwitchedOn, OffInCelsius, ConfirmedOff, Ended,
      SwitchPower
<1> QED
  BY <1>2, <1>3, <1>4, <1>5, <1>6, <1>7 DEF IInv, TypeOK

\* An interrupted recovery goes back to a phase that is there.
LEMMA RecoveryInterruptedStep ==
  ASSUME IInv, RecoveryInterrupted  PROVE  IInv'
<1>1. /\ PlaceType /\ RecoveryType /\ CookerType /\ RecordType
      /\ TypeOK /\ PhaseKnown /\ TryLeft /\ PowerKnown /\ ConfirmedLast
      /\ EndsSwitchedOff /\ RunsSwitchedOn /\ OffInCelsius
  BY DEF IInv, TypeOK
<1>8. 1 \in DOMAIN ProbeBackoff
  BY ProbeAssumption, EmptySeq, LenProperties
<1>10. pc' \in {"wait", "hold"}
  BY <1>1 DEF RecoveryInterrupted, RecoveryType, RecoveryReturns
<1>2. PlaceType'
  BY <1>1, <1>10 DEF RecoveryInterrupted, PlaceType
<1>3. RecoveryType'
  BY <1>1, <1>8 DEF RecoveryInterrupted, RecoveryType, RecoveryReturns
<1>4. CookerType'
  BY <1>1 DEF RecoveryInterrupted, CookerType, cooker
<1>5. RecordType'
  BY <1>1 DEF RecoveryInterrupted, RecordType
<1>6. PhaseKnown'
  BY <1>1, <1>10 DEF RecoveryInterrupted, PhaseKnown, InPhase, phase
<1>7. /\ TryLeft' /\ PowerKnown' /\ ConfirmedLast'
      /\ EndsSwitchedOff' /\ RunsSwitchedOn' /\ OffInCelsius'
  BY <1>1, <1>10 DEF RecoveryInterrupted, TryLeft, PowerKnown, ConfirmedLast,
      EndsSwitchedOff, RunsSwitchedOn, OffInCelsius, ConfirmedOff, Ended
<1> QED
  BY <1>2, <1>3, <1>4, <1>5, <1>6, <1>7 DEF IInv, TypeOK

\* verified_off sends its command.
LEMMA TurnOffStep ==
  ASSUME IInv, TurnOff  PROVE  IInv'
<1>1. /\ PlaceType /\ RecoveryType /\ CookerType /\ RecordType
      /\ TypeOK /\ PhaseKnown /\ TryLeft /\ PowerKnown /\ ConfirmedLast
      /\ EndsSwitchedOff /\ RunsSwitchedOn /\ OffInCelsius
  BY DEF IInv, TypeOK
<1>2. PlaceType'
  BY <1>1 DEF TurnOff, PlaceType
<1>3. RecoveryType'
  BY <1>1 DEF TurnOff, RecoveryType, locals
<1>4. CookerType'
  BY <1>1 DEF TurnOff, CookerType, SwitchPower
<1>5. RecordType'
  BY <1>1 DEF TurnOff, RecordType, SwitchPower
<1>6. PhaseKnown'
  BY <1>1 DEF TurnOff, PhaseKnown, InPhase, phase
<1>7. /\ TryLeft' /\ PowerKnown' /\ ConfirmedLast'
      /\ EndsSwitchedOff' /\ RunsSwitchedOn' /\ OffInCelsius'
  BY <1>1 DEF TurnOff, TryLeft, PowerKnown, ConfirmedLast, EndsSwitchedOff,
      RunsSwitchedOn, OffInCelsius, ConfirmedOff, Ended, SwitchPower
<1> QED
  BY <1>2, <1>3, <1>4, <1>5, <1>6, <1>7 DEF IInv, TypeOK

\* verified_off confirms: rightly so on a Celsius display.
LEMMA OffConfirmedStep ==
  ASSUME IInv, OffConfirmed  PROVE  IInv'
<1>1. /\ PlaceType /\ RecoveryType /\ CookerType /\ RecordType
      /\ TypeOK /\ PhaseKnown /\ TryLeft /\ PowerKnown /\ ConfirmedLast
      /\ EndsSwitchedOff /\ RunsSwitchedOn /\ OffInCelsius
  BY DEF IInv, TypeOK
<1>2. PlaceType'
  BY <1>1 DEF OffConfirmed, PlaceType, Ended
<1>3. RecoveryType'
  BY <1>1 DEF OffConfirmed, RecoveryType, locals
<1>4. CookerType'
  BY <1>1 DEF OffConfirmed, CookerType, cooker
<1>5. RecordType'
  BY <1>1 DEF OffConfirmed, RecordType
<1>6. PhaseKnown'
  BY <1>1 DEF OffConfirmed, PhaseKnown, InPhase, phase
<1>7. /\ TryLeft' /\ PowerKnown' /\ ConfirmedLast'
      /\ EndsSwitchedOff' /\ RunsSwitchedOn' /\ OffInCelsius'
  BY <1>1 DEF OffConfirmed, TryLeft, PowerKnown, ConfirmedLast,
      EndsSwitchedOff, RunsSwitchedOn, OffInCelsius, ConfirmedOff, Ended,
      ReadsOff, cooker
<1> QED
  BY <1>2, <1>3, <1>4, <1>5, <1>6, <1>7 DEF IInv, TypeOK

\* verified_off tries again, or gives up with "off" for its last command.
LEMMA OffUnconfirmedStep ==
  ASSUME IInv, OffUnconfirmed  PROVE  IInv'
<1>1. /\ PlaceType /\ RecoveryType /\ CookerType /\ RecordType
      /\ TypeOK /\ PhaseKnown /\ TryLeft /\ PowerKnown /\ ConfirmedLast
      /\ EndsSwitchedOff /\ RunsSwitchedOn /\ OffInCelsius
  BY DEF IInv, TypeOK
<1>8. /\ offTry' \in 0..OffTries
      /\ pc' = "off" => offTry' < OffTries
      /\ pc' \in {"off", "done"}
  BY <1>1 DEF OffUnconfirmed, PlaceType, TryLeft, Ended, OffTries
<1>2. PlaceType'
  BY <1>1, <1>8 DEF OffUnconfirmed, PlaceType, Ended
<1>3. RecoveryType'
  BY <1>1 DEF OffUnconfirmed, RecoveryType, locals
<1>4. CookerType'
  BY <1>1 DEF OffUnconfirmed, CookerType, cooker
<1>5. RecordType'
  BY <1>1 DEF OffUnconfirmed, RecordType
<1>6. PhaseKnown'
  BY <1>1, <1>8 DEF OffUnconfirmed, PhaseKnown, InPhase, phase
<1>7. /\ TryLeft' /\ PowerKnown' /\ ConfirmedLast'
      /\ EndsSwitchedOff' /\ RunsSwitchedOn' /\ OffInCelsius'
  BY <1>1, <1>8 DEF OffUnconfirmed, TryLeft, PowerKnown, ConfirmedLast,
      EndsSwitchedOff, RunsSwitchedOn, OffInCelsius, ConfirmedOff, Ended,
      cooker
<1> QED
  BY <1>2, <1>3, <1>4, <1>5, <1>6, <1>7 DEF IInv, TypeOK

\* A signal, at any place.
LEMMA SignalStep ==
  ASSUME IInv, Signal  PROVE  IInv'
<1>1. /\ PlaceType /\ RecoveryType /\ CookerType /\ RecordType
      /\ TypeOK /\ PhaseKnown /\ TryLeft /\ PowerKnown /\ ConfirmedLast
      /\ EndsSwitchedOff /\ RunsSwitchedOn /\ OffInCelsius
  BY DEF IInv, TypeOK
<1>2. PlaceType'
  BY <1>1 DEF Signal, PlaceType, Ended
<1>3. RecoveryType'
  BY <1>1 DEF Signal, RecoveryType, locals
<1>4. CookerType'
  BY <1>1 DEF Signal, CookerType, cooker
<1>5. RecordType'
  BY <1>1 DEF Signal, RecordType
<1>6. PhaseKnown'
  BY <1>1 DEF Signal, PhaseKnown, InPhase, phase, Steps, Ended
<1>7. /\ TryLeft' /\ PowerKnown' /\ ConfirmedLast'
      /\ EndsSwitchedOff' /\ RunsSwitchedOn' /\ OffInCelsius'
  BY <1>1 DEF Signal, TryLeft, PowerKnown, ConfirmedLast, EndsSwitchedOff,
      RunsSwitchedOn, OffInCelsius, ConfirmedOff, Ended, cooker
<1> QED
  BY <1>2, <1>3, <1>4, <1>5, <1>6, <1>7 DEF IInv, TypeOK

\* The cooker and the water do not move the program; after it has ended nothing
\* that was confirmed changes.
LEMMA CookerStep ==
  ASSUME IInv, pc \notin Ended, Cooker  PROVE  IInv'
<1>1. /\ PlaceType /\ RecoveryType /\ CookerType /\ RecordType
      /\ TypeOK /\ PhaseKnown /\ TryLeft /\ PowerKnown /\ ConfirmedLast
      /\ EndsSwitchedOff /\ RunsSwitchedOn /\ OffInCelsius
  BY DEF IInv, TypeOK
<1>2. UNCHANGED program
  BY DEF Cooker, WaterChanges, FaultRaised, FaultClears, TimerExpires
<1>3. PlaceType' /\ RecoveryType' /\ RecordType'
  BY <1>1, <1>2 DEF program, position, locals, PlaceType,
     RecoveryType, RecordType
<1>4. CookerType'
  <2>1. CASE WaterChanges
    BY <1>1, <2>1 DEF WaterChanges, CookerType
  <2>2. CASE FaultRaised
    BY <1>1, <2>2 DEF FaultRaised, CookerType
  <2>3. CASE FaultClears
    BY <1>1, <2>3 DEF FaultClears, CookerType
  <2>4. CASE TimerExpires
    BY <1>1, <2>4 DEF TimerExpires, CookerType
  <2> QED
    BY <2>1, <2>2, <2>3, <2>4 DEF Cooker
<1>5. PhaseKnown'
  BY <1>1, <1>2 DEF program, position, PhaseKnown, phase, Steps
<1>6. TryLeft' /\ PowerKnown' /\ ConfirmedLast' /\ EndsSwitchedOff' /\ RunsSwitchedOn'
  BY <1>1, <1>2 DEF program, position, TryLeft, PowerKnown, ConfirmedLast,
     EndsSwitchedOff, RunsSwitchedOn
<1>7. OffInCelsius'
  BY <1>1, <1>2 DEF program, ConfirmedLast, OffInCelsius, ConfirmedOff, Ended
<1> QED
  BY <1>3, <1>4, <1>5, <1>6, <1>7 DEF IInv, TypeOK

\* A step that changes nothing.
LEMMA StutterStep ==
  ASSUME IInv, UNCHANGED vars  PROVE  IInv'
<1>1. PlaceType' /\ RecoveryType' /\ CookerType' /\ RecordType'
  BY DEF IInv, TypeOK, vars, position, locals, cooker, PlaceType,
     RecoveryType, CookerType, RecordType
<1>2. PhaseKnown'
  BY DEF IInv, vars, position, PhaseKnown, phase, Steps
<1>3. /\ TryLeft' /\ PowerKnown' /\ ConfirmedLast'
      /\ EndsSwitchedOff' /\ RunsSwitchedOn' /\ OffInCelsius'
  BY DEF IInv, vars, position, cooker, TryLeft, PowerKnown, ConfirmedLast,
     EndsSwitchedOff, RunsSwitchedOn, OffInCelsius, ConfirmedOff
<1> QED
  BY <1>1, <1>2, <1>3 DEF IInv, TypeOK

\* The invariant is inductive.
THEOREM InvStep == IInv /\ [Next]_vars => IInv'
<1> SUFFICES ASSUME IInv, [Next]_vars  PROVE  IInv'
  OBVIOUS
<1>1. CASE Program
  <2>1. CASE PowerOn
    BY <2>1, PowerOnStep
  <2>2. CASE BeginTemp
    BY <2>2, BeginTempStep
  <2>3. CASE BeginPause
    BY <2>3, BeginPauseStep
  <2>4. CASE BeginHold
    BY <2>4, BeginHoldStep
  <2>5. CASE BeginRamp
    BY <2>5, BeginRampStep
  <2>6. CASE RampStep
    BY <2>6, RampStepStep
  <2>7. CASE RampInterrupted
    BY <2>7, RampInterruptedStep
  <2>8. CASE RampRemainder
    BY <2>8, RampRemainderStep
  <2>9. CASE PauseOver
    BY <2>9, PauseOverStep
  <2>10. CASE HoldChunk
    BY <2>10, HoldChunkStep
  <2>11. CASE HoldRead
    BY <2>11, HoldReadStep
  <2>12. CASE HoldOver
    BY <2>12, HoldOverStep
  <2>13. CASE WaitPoll
    BY <2>13, WaitPollStep
  <2>14. CASE WaitRetry
    BY <2>14, WaitRetryStep
  <2>15. CASE WaitWake
    BY <2>15, WaitWakeStep
  <2>16. CASE Classify
    BY <2>16, ClassifyStep
  <2>17. CASE Cool
    BY <2>17, CoolStep
  <2>18. CASE Probe
    BY <2>18, ProbeStep
  <2>19. CASE ObserveQuiet
    BY <2>19, ObserveQuietStep
  <2>20. CASE ObserveFault
    BY <2>20, ObserveFaultStep
  <2>21. CASE RecoveryInterrupted
    BY <2>21, RecoveryInterruptedStep
  <2>22. CASE TurnOff
    BY <2>22, TurnOffStep
  <2>23. CASE OffConfirmed
    BY <2>23, OffConfirmedStep
  <2>24. CASE OffUnconfirmed
    BY <2>24, OffUnconfirmedStep
  <2> QED
    BY <1>1, <2>1, <2>2, <2>3, <2>4, <2>5, <2>6, <2>7, <2>8, <2>9, <2>10, <2>11,
       <2>12, <2>13, <2>14, <2>15, <2>16, <2>17, <2>18, <2>19, <2>20, <2>21,
       <2>22, <2>23, <2>24 DEF Program
<1>2. CASE Signal
  BY <1>2, SignalStep
<1>3. CASE pc \notin Ended /\ Cooker
  BY <1>3, CookerStep
<1>4. CASE UNCHANGED vars
  BY <1>4, StutterStep
<1> QED
  BY <1>1, <1>2, <1>3, <1>4 DEF Next

\* The invariant always holds.
THEOREM Invariant == Spec => []IInv
<1> QED
  BY InvInit, InvStep, PTL DEF Spec

-----------------------------------------------------------------------------
(* What follows for every behaviour.                                       *)

\* Every variable keeps its type: the program never reads a phase that is not
\* there, a backoff beyond its schedule, or a target below zero.
THEOREM TypeCorrect == Spec => []TypeOK
<1>1. IInv => TypeOK
  BY DEF IInv
<1> QED
  BY <1>1, Invariant, PTL

\* verified_off() and the ALARM: a program that ends by itself has "off" for its
\* last power command, whatever was lost or interrupted.
THEOREM SwitchedOffAtEnd == Spec => []EndsSwitchedOff
<1>1. IInv => EndsSwitchedOff
  BY DEF IInv
<1> QED
  BY <1>1, Invariant, PTL

\* recover_from_fault(): without a signal, no phase is resumed with the cooker
\* still switched off.
THEOREM SwitchedOnWhileRunning == Spec => []RunsSwitchedOn
<1>1. IInv => RunsSwitchedOn
  BY DEF IInv
<1> QED
  BY <1>1, Invariant, PTL

\* verified_off(): on a Celsius display, a confirmed power-off is one, however
\* many commands and replies were lost.
THEOREM ConfirmedOffInCelsius ==
  ASSUME Celsius PROVE Spec => []ConfirmedOff
<1>1. IInv => ConfirmedOff
  BY DEF IInv, OffInCelsius
<1> QED
  BY <1>1, Invariant, PTL

-----------------------------------------------------------------------------
(* The setpoints of a ramp.                                                *)

\* Integer division grows with what is divided.
LEMMA QuotientGrows ==
  ASSUME NEW a \in Int, NEW b \in Int, NEW d \in Nat \ {0}, a <= b
  PROVE  a \div d <= b \div d
<1>1. /\ a \div d \in Int /\ b \div d \in Int
      /\ d * (a \div d) <= a /\ b < d * (b \div d) + d
  OBVIOUS
<1>2. \A q, r \in Int : q < r => d * q + d <= d * r
  OBVIOUS
<1>3. d * (b \div d) \in Int /\ d * (a \div d) \in Int
  BY <1>1
<1> QED
  BY <1>1, <1>2, <1>3

\* Integer division undoes a multiplication, whatever remainder was added.
LEMMA QuotientOf ==
  ASSUME NEW q \in Int, NEW d \in Nat \ {0}, NEW r \in 0..(d - 1)
  PROVE  (d * q + r) \div d = q
OBVIOUS

\* round() grows with what is rounded.
LEMMA RoundGrows ==
  ASSUME NEW a \in Int, NEW b \in Int, NEW d \in Nat \ {0}, a <= b
  PROVE  Round(a, d) <= Round(b, d)
<1> DEFINE up(n) == (2 * n + d) \div (2 * d)
<1>1. 2 * d \in Nat \ {0} /\ \A n \in Int : 2 * n + d \in Int
  OBVIOUS
<1>2. \A m, n \in Int : m <= n => up(m) <= up(n)
  <2> SUFFICES ASSUME NEW m \in Int, NEW n \in Int, m <= n PROVE up(m) <= up(n)
    OBVIOUS
  <2>1. 2 * m + d <= 2 * n + d
    OBVIOUS
  <2> QED
    BY <1>1, <2>1, QuotientGrows
<1>3. \A n \in Int : up(n) \in Int
  BY <1>1, QuotientType
<1>4. \A n \in Nat : up(n) >= 0
  <2>1. 2 * d * 0 = 0 /\ 0 \in Int /\ d \in 0..(2 * d - 1)
    OBVIOUS
  <2>2. (2 * d * 0 + d) \div (2 * d) = 0
    BY <1>1, <2>1, QuotientOf
  <2>3. 2 * 0 + d = 2 * d * 0 + d
    OBVIOUS
  <2>4. up(0) = 0
    BY <2>2, <2>3
  <2> QED
    BY <1>2, <2>4
<1>5. \A n \in Int : Round(n, d) = IF n >= 0 THEN up(n) ELSE -up(-n)
  BY DEF Round
<1> HIDE DEF up
<1>6. CASE a >= 0
  BY <1>2, <1>5, <1>6
<1>7. CASE a < 0 /\ b >= 0
  <2>1. -a \in Nat /\ b \in Nat
    BY <1>7
  <2> QED
    BY <1>3, <1>4, <1>5, <1>7, <2>1
<1>8. CASE a < 0 /\ b < 0
  <2>1. -b <= -a /\ -a \in Int /\ -b \in Int
    OBVIOUS
  <2>2. up(-b) <= up(-a) /\ up(-a) \in Int /\ up(-b) \in Int
    BY <1>2, <1>3, <2>1
  <2> QED
    BY <1>5, <1>8, <2>2
<1> QED
  BY <1>6, <1>7, <1>8

\* round() of a multiple is exact.
LEMMA RoundExact ==
  ASSUME NEW n \in Int, NEW d \in Nat \ {0}  PROVE Round(n * d, d) = n
<1>1. 2 * d \in Nat \ {0} /\ d \in 0..(2 * d - 1) /\ n * d \in Int /\ -n \in Int
  OBVIOUS
<1>2. \A m \in Int : (2 * (m * d) + d) \div (2 * d) = m
  <2> SUFFICES ASSUME NEW m \in Int PROVE (2 * (m * d) + d) \div (2 * d) = m
    OBVIOUS
  <2>1. 2 * (m * d) + d = (2 * d) * m + d
    OBVIOUS
  <2>2. ((2 * d) * m + d) \div (2 * d) = m
    BY <1>1, QuotientOf
  <2> QED
    BY <2>1, <2>2
<1>3. -(n * d) = (-n) * d
  OBVIOUS
<1>4. (2 * (n * d) + d) \div (2 * d) = n /\ (2 * (-(n * d)) + d) \div (2 * d) = -n
  BY <1>1, <1>2, <1>3
<1> QED
  BY <1>4 DEF Round

\* The way of a ramp after i of its minutes.
Way(ph, i) == Round((ph.end - ph.start) * i, Steps(ph))

\* It is between nothing and the whole way, and grows from minute to minute.
LEMMA WayGrows ==
  ASSUME NEW ph \in Phase, NEW i \in Nat, i < Steps(ph)
  PROVE  /\ Way(ph, 0) = 0 /\ Way(ph, Steps(ph)) = ph.end - ph.start
         /\ Way(ph, i) \in Int /\ Way(ph, i + 1) \in Int
         /\ ph.start <= ph.end =>
              0 <= Way(ph, i) /\ Way(ph, i) <= Way(ph, i + 1)
              /\ Way(ph, i + 1) <= ph.end - ph.start
         /\ ph.end <= ph.start =>
              0 >= Way(ph, i) /\ Way(ph, i) >= Way(ph, i + 1)
              /\ Way(ph, i + 1) >= ph.end - ph.start
<1> DEFINE all == ph.end - ph.start
           n == Steps(ph)
<1>1. all \in Int /\ n \in Nat \ {0} /\ i + 1 <= n
  BY DEF Phase, Steps
<1>2. \A k \in Nat : Way(ph, k) = Round(all * k, n)
  BY DEF Way
<1>3. (ph.start <= ph.end => all >= 0) /\ (ph.end <= ph.start => all <= 0)
  BY DEF Phase
<1> HIDE DEF all, n
<1>4. \A k \in Nat : all * k \in Int
  BY <1>1
<1>5. Way(ph, n) = all
  BY <1>1, <1>2, RoundExact
<1>6. Way(ph, 0) = 0
  <2>1. all * 0 = 0 * n /\ 0 \in Int
    BY <1>1
  <2> QED
    BY <1>1, <1>2, <2>1, RoundExact
<1>7. Way(ph, i) \in Int /\ Way(ph, i + 1) \in Int
  BY <1>1, <1>2, <1>4, RoundType
<1>8. ASSUME all >= 0
      PROVE  0 <= Way(ph, i) /\ Way(ph, i) <= Way(ph, i + 1) /\ Way(ph, i + 1) <= all
  <2>1. all * 0 <= all * i /\ all * i <= all * (i + 1) /\ all * (i + 1) <= all * n
    BY <1>1, <1>8
  <2>2. Round(all * 0, n) <= Round(all * i, n)
    BY <1>1, <1>4, <2>1, RoundGrows
  <2>3. Round(all * i, n) <= Round(all * (i + 1), n)
    BY <1>1, <1>4, <2>1, RoundGrows
  <2>4. Round(all * (i + 1), n) <= Round(all * n, n)
    BY <1>1, <1>4, <2>1, RoundGrows
  <2> QED
    BY <1>1, <1>2, <1>5, <1>6, <2>2, <2>3, <2>4
<1>9. ASSUME all <= 0
      PROVE  0 >= Way(ph, i) /\ Way(ph, i) >= Way(ph, i + 1) /\ Way(ph, i + 1) >= all
  <2>1. all * 0 >= all * i /\ all * i >= all * (i + 1) /\ all * (i + 1) >= all * n
    BY <1>1, <1>9
  <2>2. Round(all * i, n) <= Round(all * 0, n)
    BY <1>1, <1>4, <2>1, RoundGrows
  <2>3. Round(all * (i + 1), n) <= Round(all * i, n)
    BY <1>1, <1>4, <2>1, RoundGrows
  <2>4. Round(all * n, n) <= Round(all * (i + 1), n)
    BY <1>1, <1>4, <2>1, RoundGrows
  <2>5. /\ Way(ph, i) = Round(all * i, n) /\ Way(ph, i + 1) = Round(all * (i + 1), n)
        /\ Round(all * 0, n) = 0 /\ Round(all * n, n) = all
    BY <1>1, <1>2, <1>5, <1>6
  <2> QED
    BY <1>1, <1>7, <2>2, <2>3, <2>4, <2>5
<1> QED
  BY <1>3, <1>5, <1>6, <1>7, <1>8, <1>9 DEF all, n

\* A ramp starts at its start, is at its end after its minutes, and comes no further
\* from it with any of them.
LEMMA RampSetpoints ==
  ASSUME NEW ph \in Phase, NEW i \in Nat, i < Steps(ph)
  PROVE  /\ StepTarget(ph, 0) = ph.start /\ StepTarget(ph, Steps(ph)) = ph.end
         /\ Apart(ph.end, StepTarget(ph, i + 1)) <= Apart(ph.end, StepTarget(ph, i))
<1>1. ph.start \in Int /\ ph.end \in Int
  BY DEF Phase
<1>2. \A k : StepTarget(ph, k) = Clamp(ph.start + Way(ph, k), ph)
  BY DEF StepTarget, Way
<1>3. \A t \in Int : (ph.start <= t /\ t <= ph.end) \/ (ph.end <= t /\ t <= ph.start)
                       => Clamp(t, ph) = t
  BY <1>1 DEF Clamp
<1>4. /\ Way(ph, 0) = 0 /\ Way(ph, Steps(ph)) = ph.end - ph.start
      /\ Way(ph, i) \in Int /\ Way(ph, i + 1) \in Int
      /\ ph.start <= ph.end =>
           0 <= Way(ph, i) /\ Way(ph, i) <= Way(ph, i + 1)
           /\ Way(ph, i + 1) <= ph.end - ph.start
      /\ ph.end <= ph.start =>
           0 >= Way(ph, i) /\ Way(ph, i) >= Way(ph, i + 1)
           /\ Way(ph, i + 1) >= ph.end - ph.start
  BY WayGrows
<1>5. StepTarget(ph, 0) = ph.start
  <2>1. ph.start + 0 = ph.start
    BY <1>1
  <2> QED
    BY <1>1, <1>2, <1>3, <1>4, <2>1
<1>6. StepTarget(ph, Steps(ph)) = ph.end
  <2>1. ph.start + (ph.end - ph.start) = ph.end
    BY <1>1
  <2> QED
    BY <1>1, <1>2, <1>3, <1>4, <2>1
<1>7. /\ StepTarget(ph, i) = ph.start + Way(ph, i)
      /\ StepTarget(ph, i + 1) = ph.start + Way(ph, i + 1)
  BY <1>1, <1>2, <1>3, <1>4
<1>8. Apart(ph.end, ph.start + Way(ph, i + 1)) <= Apart(ph.end, ph.start + Way(ph, i))
  BY <1>1, <1>4 DEF Apart
<1> QED
  BY <1>5, <1>6, <1>7, <1>8

-----------------------------------------------------------------------------
(* What the cooker was told to reach.                                      *)

\* The cooker was told the end of the phase, or the start of a ramp without a full minute.
EndKnown == commanded = phase.end \/ (NoFullMinute /\ commanded = phase.start)

\* The last setpoint is that of the minute of the ramp, and its end after them.
SetpointKnown ==
  /\ pc = "ramp" => commanded = StepTarget(phase, step)
  /\ ~interrupted =>
       /\ pc = "remainder" => EndKnown
       /\ WaitsForSetpoint

\* Steps to where no setpoint is waited for.
LEMMA Elsewhere ==
  ASSUME pc' \notin {"ramp", "remainder"} \cup Waits  PROVE SetpointKnown'
BY DEF SetpointKnown, WaitsForSetpoint, Waits

\* Steps to a wait for the setpoint just commanded.
LEMMA WaitsForIt ==
  ASSUME pc' = "wait", target' = commanded'  PROVE SetpointKnown'
BY DEF SetpointKnown, WaitsForSetpoint, Waits

\* A step of a ramp that ends its minutes, at the end of the ramp unless interrupted.
LEMMA AfterStepsKnown ==
  ASSUME AfterSteps, UNCHANGED <<chain, pi>>,
         ~interrupted' => \/ commanded' = phase.end
                          \/ NoFullMinute /\ commanded' = phase.start
  PROVE  SetpointKnown'
<1>1. phase' = phase /\ NoFullMinute' = NoFullMinute
  BY DEF phase, NoFullMinute, Steps
<1> QED
  BY <1>1 DEF AfterSteps, SetpointKnown, WaitsForSetpoint, EndKnown, Waits

\* A ramp begins at its start.
LEMMA BeginRampSets == ASSUME IInv, BeginRamp PROVE SetpointKnown'
<1>1. phase \in Phase /\ phase.kind = "ramp" /\ pi \in DOMAIN chain /\ chain \in Chains
  BY PhaseElement DEF IInv, TypeOK, PlaceType, PhaseKnown, InPhase, BeginRamp
<1>2. Steps(phase) \in Nat
  BY <1>1 DEF Steps, Phase
<1>3. CASE Steps(phase) > 0
  <2>1. StepTarget(phase, 0) = phase.start
    BY <1>1, <1>2, <1>3, RampSetpoints
  <2>2. /\ pc' = "ramp" /\ commanded' = phase.start /\ step' = 0
        /\ UNCHANGED <<chain, pi>>
    BY <1>3 DEF BeginRamp, SetTemp
  <2> QED
    BY <2>1, <2>2 DEF SetpointKnown, WaitsForSetpoint, Waits, phase
<1>4. CASE ~(Steps(phase) > 0)
  <2>1. NoFullMinute /\ commanded' = phase.start
    BY <1>1, <1>2, <1>4 DEF NoFullMinute, BeginRamp, SetTemp
  <2> QED
    BY <1>4, <2>1, AfterStepsKnown DEF BeginRamp
<1> QED
  BY <1>3, <1>4

\* Its last minute takes it to its end.
LEMMA RampStepSets == ASSUME IInv, RampStep PROVE SetpointKnown'
<1>1. phase \in Phase /\ step \in Nat /\ step < Steps(phase)
  BY PhaseElement DEF IInv, TypeOK, PlaceType, PhaseKnown, InPhase, RampStep
<1>2. Steps(phase) \in Nat
  BY <1>1 DEF Steps, Phase
<1>3. CASE step + 1 < Steps(phase)
  BY <1>3 DEF RampStep, SetTemp, SetpointKnown, WaitsForSetpoint, Waits, phase
<1>4. CASE ~(step + 1 < Steps(phase))
  <2>1. step + 1 = Steps(phase)
    BY <1>1, <1>2, <1>4
  <2>2. commanded' = phase.end
    BY <1>1, <2>1, RampSetpoints DEF RampStep, SetTemp
  <2> QED
    BY <1>4, <2>2, AfterStepsKnown DEF RampStep
<1> QED
  BY <1>3, <1>4

\* A poll of the water, or the end of a wait.
LEMMA WaitSets ==
  ASSUME IInv, SetpointKnown, WaitPoll \/ WaitRetry \/ WaitWake  PROVE SetpointKnown'
<1>1. /\ pc \in Waits /\ UNCHANGED <<chain, target, commanded, interrupted>>
      /\ TypeOK /\ pi \in DOMAIN chain /\ phase.kind # "pause"
  BY DEF WaitPoll, WaitRetry, WaitWake, Waits, IInv, PhaseKnown, InPhase
<1>2. CASE WaitReturns
  <2>1. pc' \in {"off", "phase", "hold"}
    BY <1>1, <1>2, WaitReturnsEffect
  <2> QED
    BY <2>1, Elsewhere DEF Waits
<1>3. CASE pi' = pi /\ pc' \in Waits \cup {"classify"}
  BY <1>1, <1>3 DEF SetpointKnown, WaitsForSetpoint, NoFullMinute, Steps, phase, Waits
<1> QED
  BY <1>2, <1>3 DEF WaitPoll, WaitRetry, WaitWake, Waits

\* A recovery sends the setpoint again that its caller waits for.
LEMMA RecoverySets ==
  ASSUME IInv, ObserveQuiet \/ RecoveryInterrupted  PROVE SetpointKnown'
<1>1. caller \in {"wait", "hold"}
  BY DEF IInv, TypeOK, RecoveryType
<1>2. CASE RecoveryInterrupted
  BY <1>1, <1>2 DEF RecoveryInterrupted, RecoveryReturns, SetpointKnown
<1>3. CASE ObserveQuiet /\ pc' = "observe"
  BY <1>3, Elsewhere DEF Waits
<1>4. CASE ObserveQuiet /\ pc' = caller /\ commanded' = target
  <2>1. target' = commanded'
    BY <1>4 DEF ObserveQuiet
  <2>2. CASE caller = "wait"
    BY <1>4, <2>1, <2>2, WaitsForIt
  <2>3. CASE caller = "hold"
    BY <1>4, <2>3, Elsewhere DEF Waits
  <2> QED
    BY <1>1, <2>2, <2>3
<1>5. ObserveQuiet => pc' = "observe" \/ (pc' = caller /\ commanded' = target)
  BY DEF ObserveQuiet, RecoveryReturns, SetTemp
<1> QED
  BY <1>2, <1>3, <1>4, <1>5

\* What is left of the seconds of a ramp keeps its end.
LEMMA RemainderSets == ASSUME SetpointKnown, RampRemainder PROVE SetpointKnown'
<1>1. CASE interrupted
  BY <1>1, Elsewhere DEF RampRemainder, Waits
<1>2. CASE ~interrupted
  BY <1>2 DEF RampRemainder, SetpointKnown, WaitsForSetpoint, EndKnown, NoFullMinute,
     Steps, phase, Waits
<1> QED
  BY <1>1, <1>2

\* Steps of the program that are not about a setpoint.
LEMMA OtherSets ==
  ASSUME IInv, \/ PowerOn \/ BeginPause \/ PauseOver \/ HoldChunk \/ HoldRead \/ HoldOver
               \/ Classify \/ Cool \/ Probe \/ ObserveFault
               \/ TurnOff \/ OffConfirmed \/ OffUnconfirmed
  PROVE  SetpointKnown'
<1>1. CASE PauseOver \/ HoldOver
  <2>1. TypeOK /\ pi \in DOMAIN chain /\ PhaseEnd /\ chain' = chain
    BY <1>1 DEF IInv, PhaseKnown, InPhase, PauseOver, HoldOver
  <2>2. pc' = "off" \/ pc' = "phase"
    BY <2>1, PhaseEndEffect
  <2> QED
    BY <2>2, Elsewhere DEF Waits
<1>2. CASE \/ PowerOn \/ BeginPause \/ HoldChunk \/ HoldRead
           \/ Classify \/ Cool \/ Probe \/ ObserveFault
           \/ TurnOff \/ OffConfirmed \/ OffUnconfirmed
  <2>1. pc' \in {"phase", "pause", "holdRead", "classify", "hold", "cool", "probe",
                 "observe", "alarm", "offRead", "done", "off"}
    BY <1>2 DEF PowerOn, BeginPause, HoldChunk, HoldRead, Classify, Cool, Probe,
       ObserveFault, TurnOff, OffConfirmed, OffUnconfirmed
  <2> QED
    BY <2>1, Elsewhere DEF Waits
<1> QED
  BY <1>1, <1>2

\* A signal, and the cooker, change no setpoint.
LEMMA OutsideSets ==
  ASSUME SetpointKnown, Signal \/ Cooker \/ UNCHANGED vars  PROVE SetpointKnown'
<1>1. /\ UNCHANGED <<chain, pi, step, target, commanded>>
      /\ pc' = "killed" \/ (pc' = pc /\ (interrupted' = interrupted \/ interrupted'))
  BY DEF Signal, Cooker, WaterChanges, FaultRaised, FaultClears, TimerExpires, program,
     position, vars
<1> QED
  BY <1>1 DEF SetpointKnown, WaitsForSetpoint, EndKnown, NoFullMinute, Steps,
     Waits, phase

\* Every step keeps what is known of the setpoint.
LEMMA SetpointStep == IInv /\ SetpointKnown /\ [Next]_vars => SetpointKnown'
<1> SUFFICES ASSUME IInv, SetpointKnown, [Next]_vars PROVE SetpointKnown'
  OBVIOUS
<1>1. CASE BeginTemp \/ BeginHold
  BY <1>1, WaitsForIt DEF BeginTemp, BeginHold, SetTemp
<1>2. CASE RampInterrupted
  BY <1>2, AfterStepsKnown DEF RampInterrupted
<1> QED
  BY <1>1, <1>2, BeginRampSets, RampStepSets, RemainderSets, WaitSets, RecoverySets,
     OtherSets, OutsideSets DEF Next, Program

\* Nothing is waited for at the start.
LEMMA SetpointInit == Init => SetpointKnown
BY DEF Init, SetpointKnown, WaitsForSetpoint, Waits

\* wait_for_temp(): for every chain, the program only waits for what it last told the
\* cooker to reach, whatever faults come between, but for the end of a ramp without a full
\* minute, when it told the cooker that ramp's start.
THEOREM WaitsForWhatIsSet == Spec => []WaitsForSetpoint
<1>1. Init => IInv /\ SetpointKnown
  BY InvInit, SetpointInit
<1>2. IInv /\ SetpointKnown /\ [Next]_vars => IInv' /\ SetpointKnown'
  BY InvStep, SetpointStep
<1>3. IInv /\ SetpointKnown => WaitsForSetpoint
  BY DEF SetpointKnown, WaitsForSetpoint
<1> QED
  BY <1>1, <1>2, <1>3, PTL DEF Spec

\* The ramp step of run_ramp() never goes back.
LEMMA RampNearer ==
  ASSUME IInv, SetpointKnown, Next, pc = "ramp"
  PROVE  Apart(phase.end, commanded') <= Apart(phase.end, commanded)
<1>1. phase \in Phase /\ step \in Nat /\ step < Steps(phase) /\ commanded \in Int
  BY PhaseElement DEF IInv, TypeOK, PlaceType, RecordType, PhaseKnown, InPhase
<1>2. CASE RampStep
  <2>1. commanded' = StepTarget(phase, step + 1) /\ commanded = StepTarget(phase, step)
    BY <1>2 DEF RampStep, SetTemp, SetpointKnown
  <2> QED
    BY <1>1, <2>1, RampSetpoints
<1>3. CASE commanded' = commanded
  <2>1. phase.end \in Int
    BY <1>1 DEF Phase
  <2> QED
    BY <1>1, <1>3, <2>1 DEF Apart
<1>4. CASE Program
  <2>1. RampStep \/ RampInterrupted
    BY <1>4 DEF Program, PowerOn, BeginTemp, BeginPause, BeginHold, BeginRamp,
       RampRemainder, PauseOver, HoldChunk, HoldRead, HoldOver, WaitPoll, WaitRetry,
       WaitWake, Classify, Cool, Probe, ObserveQuiet, ObserveFault,
       RecoveryInterrupted, TurnOff, OffConfirmed, OffUnconfirmed
  <2> QED
    BY <1>2, <1>3, <2>1 DEF RampInterrupted
<1>5. CASE Signal \/ Cooker
  BY <1>3, <1>5 DEF Signal, Cooker, WaterChanges, FaultRaised, FaultClears,
     TimerExpires, program
<1> QED
  BY <1>4, <1>5 DEF Next

\* run_ramp(): for every ramp, upwards and downwards, of any length and with the rounding
\* of its setpoints, no step takes the setpoint away from the end of the ramp.
THEOREM RampsApproachTheirEnds == Spec => RampApproachesEnd
<1>1. Init => IInv /\ SetpointKnown
  BY InvInit, SetpointInit
<1>2. IInv /\ SetpointKnown /\ [Next]_vars => IInv' /\ SetpointKnown'
  BY InvStep, SetpointStep
<1>3. IInv /\ SetpointKnown /\ [Next]_vars =>
        [pc = "ramp" => Apart(phase.end, commanded') <= Apart(phase.end, commanded)]_vars
  BY RampNearer
<1> QED
  BY <1>1, <1>2, <1>3, PTL DEF Spec, RampApproachesEnd

-----------------------------------------------------------------------------
(* Phases are carried out to their ends.                                   *)

Recovering == {"classify", "cool", "probe", "observe"}

\* The phase holds a temperature, or waits for one; a recovery belongs to its caller.
Holding == pc \in {"hold", "holdRead"} \/ (pc \in Recovering /\ caller = "hold")
Waiting == pc \in Waits \/ (pc \in Recovering /\ caller = "wait")

\* What is done of the phase, as long as no signal has come.
UnderWay ==
  /\ pc = "pause" => phase.kind = "pause"
  /\ pc = "ramp" => phase.kind = "ramp"
  /\ pc = "remainder" => phase.kind = "ramp" /\ step = Steps(phase)
  /\ Holding => /\ phase.kind = "hold" /\ held <= phase.secs /\ commanded = phase.end
                /\ pc \in Recovering => target = phase.end
  /\ Waiting => /\ phase.kind # "pause" /\ target = phase.end
                /\ phase.kind = "ramp" => step = Steps(phase)
                /\ phase.kind = "hold" => held = 0

PhaseUnderWay == ~interrupted => UnderWay

\* A phase that is left without a signal has been carried out: a hold has lasted its
\* time, a ramp has made all its steps, the water is where a ramp or a temp takes it, and
\* the cooker was last told to be on and at the temperature at which the phase ends, or at
\* the start of a ramp without a full minute.
PhaseCompleted ==
  /\ lastPower
  /\ phase.kind # "pause" => EndKnown
  /\ phase.kind = "hold" => held = phase.secs
  /\ phase.kind = "ramp" => step = Steps(phase)
  /\ phase.kind \in {"temp", "ramp"} => Apart(water, phase.end) <= Tolerance

PhasesCompleted == [][pi' # pi /\ ~interrupted => PhaseCompleted]_vars

\* A hold and a temp end where they start.
LEMMA LevelPhases ==
  ASSUME TypeOK, pi \in DOMAIN chain, phase.kind \in {"temp", "hold"}
  PROVE  phase.start = phase.end
BY ChainAssumption DEF TypeOK, PlaceType, phase

\* Steps to where nothing of a phase is done or waited for.
LEMMA NothingUnderWay ==
  ASSUME pc' \notin {"pause", "ramp", "remainder", "hold", "holdRead"} \cup Waits \cup Recovering
  PROVE  PhaseUnderWay'
BY DEF PhaseUnderWay, UnderWay, Holding, Waiting

\* A phase begins.
LEMMA BeginsUnderWay ==
  ASSUME IInv, BeginTemp \/ BeginPause \/ BeginHold \/ BeginRamp  PROVE PhaseUnderWay'
<1>1. TypeOK /\ pi \in DOMAIN chain /\ phase \in Phase /\ phase' = phase
  BY PhaseElement DEF IInv, PhaseKnown, InPhase, phase, BeginTemp, BeginPause, BeginHold,
     BeginRamp
<1>2. CASE BeginTemp
  <2>1. phase.kind = "temp" /\ pc' = "wait" /\ target' = phase.end
    BY <1>1, <1>2, LevelPhases DEF BeginTemp
  <2> QED
    BY <1>1, <2>1 DEF PhaseUnderWay, UnderWay, Holding, Waiting, Waits, Recovering
<1>3. CASE BeginPause
  BY <1>1, <1>3 DEF BeginPause, PhaseUnderWay, UnderWay, Holding, Waiting, Waits, Recovering
<1>4. CASE BeginHold
  <2>1. phase.kind = "hold" /\ pc' = "wait" /\ target' = phase.end /\ held' = 0
    BY <1>1, <1>4, LevelPhases DEF BeginHold
  <2> QED
    BY <1>1, <2>1 DEF PhaseUnderWay, UnderWay, Holding, Waiting, Waits, Recovering
<1>5. CASE BeginRamp
  <2>1. phase.kind = "ramp" /\ step' = 0 /\ Steps(phase) \in Nat
    BY <1>1, <1>5 DEF BeginRamp, Steps, Phase
  <2>2. \/ pc' = "ramp"
        \/ pc' = "remainder" /\ Steps(phase) = 0
        \/ pc' = "wait" /\ target' = phase.end /\ Steps(phase) = 0
    BY <1>5, <2>1 DEF BeginRamp, AfterSteps
  <2>3. Steps(phase)' = Steps(phase)
    BY <1>1 DEF Steps
  <2> QED
    BY <1>1, <2>1, <2>2, <2>3
       DEF PhaseUnderWay, UnderWay, Holding, Waiting, Waits, Recovering
<1> QED
  BY <1>2, <1>3, <1>4, <1>5

\* A ramp goes on.
LEMMA RampUnderWay ==
  ASSUME IInv, PhaseUnderWay, RampStep \/ RampInterrupted \/ RampRemainder
  PROVE  PhaseUnderWay'
<1>1. TypeOK /\ pi \in DOMAIN chain /\ phase \in Phase /\ phase' = phase
      /\ interrupted' = interrupted
  BY PhaseElement DEF IInv, PhaseKnown, InPhase, phase, RampStep, RampInterrupted,
     RampRemainder
<1>2. CASE interrupted
  BY <1>1, <1>2 DEF PhaseUnderWay
<1>3. CASE ~interrupted
  <2>1. Steps(phase) \in Nat /\ step \in Nat /\ Steps(phase)' = Steps(phase)
    BY <1>1 DEF Steps, Phase, TypeOK, PlaceType
  <2>2. phase.kind = "ramp"
    BY <1>3 DEF PhaseUnderWay, UnderWay, RampStep, RampInterrupted, RampRemainder
  <2>3. \/ pc' = "ramp"
        \/ pc' = "remainder" /\ step' = Steps(phase)
        \/ pc' = "wait" /\ target' = phase.end /\ step' = Steps(phase)
    <3>1. CASE RampStep
      <4>1. step < Steps(phase) /\ step' = step + 1
        BY <3>1 DEF RampStep, IInv, PhaseKnown
      <4>2. ~(step + 1 < Steps(phase)) => step' = Steps(phase)
        BY <2>1, <4>1
      <4> QED
        BY <3>1, <4>2 DEF RampStep, AfterSteps
    <3>2. CASE RampRemainder
      BY <1>3, <3>2 DEF RampRemainder, PhaseUnderWay, UnderWay
    <3> QED
      BY <1>3, <3>1, <3>2 DEF RampInterrupted
  <2> QED
    BY <1>1, <2>1, <2>2, <2>3
       DEF PhaseUnderWay, UnderWay, Holding, Waiting, Waits, Recovering
<1> QED
  BY <1>2, <1>3

\* A hold goes on, or is found at fault.
LEMMA HoldUnderWay ==
  ASSUME IInv, PhaseUnderWay, HoldChunk \/ HoldRead  PROVE PhaseUnderWay'
<1>1. TypeOK /\ pi \in DOMAIN chain /\ phase \in Phase /\ phase' = phase
      /\ interrupted' = interrupted /\ commanded' = commanded
  BY PhaseElement DEF IInv, PhaseKnown, InPhase, phase, HoldChunk, HoldRead
<1>2. CASE interrupted
  BY <1>1, <1>2 DEF PhaseUnderWay
<1>3. CASE ~interrupted
  <2>1. phase.kind = "hold" /\ held <= phase.secs /\ commanded = phase.end
    BY <1>3 DEF PhaseUnderWay, UnderWay, Holding, HoldChunk, HoldRead
  <2>2. phase.secs \in Nat /\ held \in Nat
    BY <1>1 DEF Phase, TypeOK, PlaceType
  <2>3. CASE HoldChunk
    <3>1. held' <= phase.secs /\ pc' = "holdRead"
      BY <2>2, <2>3 DEF HoldChunk, PollInterval
    <3> QED
      BY <1>1, <2>1, <3>1 DEF PhaseUnderWay, UnderWay, Holding, Waiting, Waits, Recovering
  <2>4. CASE HoldRead
    <3>1. held' = held /\ ( \/ pc' = "classify" /\ caller' = "hold" /\ target' = phase.start
                            \/ pc' = "hold")
      BY <2>4 DEF HoldRead
    <3>2. phase.start = phase.end
      BY <1>1, <2>1, LevelPhases
    <3> QED
      BY <1>1, <2>1, <3>1, <3>2
         DEF PhaseUnderWay, UnderWay, Holding, Waiting, Waits, Recovering
  <2> QED
    BY <2>3, <2>4
<1> QED
  BY <1>2, <1>3

\* The water is waited for, or the wait is over.
LEMMA WaitUnderWay ==
  ASSUME IInv, SetpointKnown, PhaseUnderWay, WaitPoll \/ WaitRetry \/ WaitWake
  PROVE  PhaseUnderWay'
<1>1. /\ TypeOK /\ pi \in DOMAIN chain /\ phase \in Phase /\ phase.kind # "pause"
      /\ interrupted' = interrupted
      /\ UNCHANGED <<chain, step, held, target, commanded>>
  BY PhaseElement DEF IInv, PhaseKnown, InPhase, WaitPoll, WaitRetry, WaitWake
<1>2. CASE interrupted
  BY <1>1, <1>2 DEF PhaseUnderWay
<1>3. CASE ~interrupted
  <2>1. /\ pc \in Waits /\ target = phase.end /\ EndKnown
        /\ phase.kind = "ramp" => step = Steps(phase)
        /\ phase.kind = "hold" => held = 0
    BY <1>3 DEF PhaseUnderWay, UnderWay, Waiting, Waits, SetpointKnown, WaitsForSetpoint,
       EndKnown, WaitPoll, WaitRetry, WaitWake
  <2>2. CASE UNCHANGED pi /\ (pc' \in Waits \/ (pc' = "classify" /\ caller' = "wait"))
    <3>1. phase' = phase /\ Steps(phase)' = Steps(phase)
      BY <1>1, <2>2 DEF phase, Steps
    <3> QED
      BY <1>1, <2>1, <2>2, <3>1
         DEF PhaseUnderWay, UnderWay, Holding, Waiting, Waits, Recovering
  <2>3. CASE WaitReturns
    <3>1. CASE phase.kind = "hold"
      <4>1. pc' = "hold" /\ pi' = pi
        BY <2>3, <3>1 DEF WaitReturns
      <4>2. phase' = phase /\ 0 <= phase.secs /\ commanded = phase.end
        BY <1>1, <2>1, <3>1, <4>1 DEF phase, Phase, EndKnown, NoFullMinute
      <4> QED
        BY <1>1, <2>1, <3>1, <4>1, <4>2
           DEF PhaseUnderWay, UnderWay, Holding, Waiting, Waits, Recovering
    <3>2. CASE phase.kind # "hold"
      <4>1. NextPhase \/ PhaseEnd
        BY <1>1, <2>3, <3>2 DEF WaitReturns, Phase, Kinds
      <4>2. pc' \in {"phase", "off"}
        BY <4>1 DEF NextPhase, PhaseEnd
      <4> QED
        BY <4>2, NothingUnderWay DEF Waits, Recovering
    <3> QED
      BY <3>1, <3>2
  <2>4. WaitReturns \/ (UNCHANGED pi /\ (pc' \in Waits \/ (pc' = "classify" /\ caller' = "wait")))
    BY <1>3 DEF WaitPoll, WaitRetry, WaitWake, Waits
  <2> QED
    BY <2>2, <2>3, <2>4
<1> QED
  BY <1>2, <1>3

\* A recovery keeps what its caller needs, and sends the setpoint again at its end.
LEMMA RecoveryUnderWay ==
  ASSUME IInv, PhaseUnderWay,
         Classify \/ Cool \/ Probe \/ ObserveQuiet \/ ObserveFault \/ RecoveryInterrupted
  PROVE  PhaseUnderWay'
<1>1. /\ pc \in Recovering /\ interrupted' = interrupted /\ phase' = phase
      /\ UNCHANGED <<step, held, target>> /\ caller \in {"wait", "hold"}
      /\ Steps(phase)' = Steps(phase)
  BY DEF Classify, Cool, Probe, ObserveQuiet, ObserveFault, RecoveryInterrupted, Recovering,
     phase, Steps, IInv, TypeOK, RecoveryType
<1>2. CASE interrupted
  BY <1>1, <1>2 DEF PhaseUnderWay
<1>3. CASE ~interrupted
  <2>1. /\ caller = "hold" => /\ phase.kind = "hold" /\ held <= phase.secs
                              /\ commanded = phase.end /\ target = phase.end
        /\ caller = "wait" => /\ phase.kind # "pause" /\ target = phase.end
                              /\ phase.kind = "ramp" => step = Steps(phase)
                              /\ phase.kind = "hold" => held = 0
    BY <1>1, <1>3 DEF PhaseUnderWay, UnderWay, Holding, Waiting
  <2>2. CASE caller' = caller /\ commanded' = commanded /\ pc' \in Recovering
    BY <1>1, <2>1, <2>2 DEF PhaseUnderWay, UnderWay, Holding, Waiting, Waits, Recovering
  <2>3. CASE pc' = caller /\ commanded' = target
    BY <1>1, <2>1, <2>3 DEF PhaseUnderWay, UnderWay, Holding, Waiting, Waits, Recovering
  <2>4. CASE pc' = "alarm"
    BY <2>4, NothingUnderWay DEF Waits, Recovering
  <2>5. \/ caller' = caller /\ commanded' = commanded /\ pc' \in Recovering
        \/ pc' = caller /\ commanded' = target
        \/ pc' = "alarm"
    BY <1>3 DEF Classify, Cool, Probe, ObserveQuiet, ObserveFault, RecoveryInterrupted,
       RecoveryReturns, SetTemp, Recovering
  <2> QED
    BY <2>2, <2>3, <2>4, <2>5
<1> QED
  BY <1>2, <1>3

\* Every step keeps it.
LEMMA UnderWayStep ==
  IInv /\ SetpointKnown /\ PhaseUnderWay /\ [Next]_vars => PhaseUnderWay'
<1> SUFFICES ASSUME IInv, SetpointKnown, PhaseUnderWay, [Next]_vars
             PROVE  PhaseUnderWay'
  OBVIOUS
<1>1. CASE PauseOver \/ HoldOver
  <2>1. PhaseEnd
    BY <1>1 DEF PauseOver, HoldOver
  <2>2. pc' \in {"phase", "off"}
    BY <2>1 DEF PhaseEnd, NextPhase
  <2> QED
    BY <2>2, NothingUnderWay DEF Waits, Recovering
<1>2. CASE PowerOn \/ TurnOff \/ OffConfirmed \/ OffUnconfirmed
  <2>1. pc' \in {"phase", "offRead", "done", "off"}
    BY <1>2 DEF PowerOn, TurnOff, OffConfirmed, OffUnconfirmed
  <2> QED
    BY <2>1, NothingUnderWay DEF Waits, Recovering
<1>3. CASE Signal \/ Cooker \/ UNCHANGED vars
  <2>1. /\ UNCHANGED <<chain, pi, step, held, target, commanded, caller>>
        /\ pc' = "killed" \/ (pc' = pc /\ (interrupted' = interrupted \/ interrupted'))
    BY <1>3 DEF Signal, Cooker, WaterChanges, FaultRaised, FaultClears, TimerExpires, program,
       position, locals, vars
  <2>2. phase' = phase /\ Steps(phase)' = Steps(phase)
    BY <2>1 DEF phase, Steps
  <2>3. CASE pc' = "killed"
    BY <2>3, NothingUnderWay DEF Waits, Recovering
  <2>4. CASE pc' = pc /\ (interrupted' = interrupted \/ interrupted')
    BY <2>1, <2>2, <2>4 DEF PhaseUnderWay, UnderWay, Holding, Waiting
  <2> QED
    BY <2>1, <2>3, <2>4
<1> QED
  BY <1>1, <1>2, <1>3, BeginsUnderWay, RampUnderWay, HoldUnderWay, WaitUnderWay,
     RecoveryUnderWay DEF Next, Program

\* A phase is left by the end of its pause, its hold or its wait.
LEMMA LeftCompleted ==
  ASSUME IInv, SetpointKnown, PhaseUnderWay, Next, pi' # pi, ~interrupted
  PROVE  PhaseCompleted
<1>1. PauseOver \/ HoldOver \/ WaitPoll \/ WaitWake
  BY DEF Next, Program, PowerOn, BeginTemp, BeginPause, BeginHold, BeginRamp, RampStep,
     RampInterrupted, RampRemainder, HoldChunk, HoldRead, WaitRetry, Classify, Cool, Probe,
     ObserveQuiet, ObserveFault, RecoveryInterrupted, TurnOff, OffConfirmed, OffUnconfirmed,
     Signal, Cooker, WaterChanges, FaultRaised, FaultClears, TimerExpires, program, position
<1>2. TypeOK /\ pi \in DOMAIN chain /\ phase \in Phase /\ lastPower
  BY <1>1, PhaseElement DEF IInv, PhaseKnown, InPhase, RunsSwitchedOn, PauseOver, HoldOver,
     WaitPoll, WaitWake
<1>3. CASE PauseOver
  BY <1>2, <1>3 DEF PauseOver, PhaseUnderWay, UnderWay, PhaseCompleted
<1>4. CASE HoldOver
  <2>1. phase.kind = "hold" /\ held <= phase.secs /\ EndKnown /\ held >= phase.secs
    BY <1>4 DEF HoldOver, PhaseUnderWay, UnderWay, Holding, EndKnown
  <2>2. held \in Nat /\ phase.secs \in Nat
    BY <1>2 DEF TypeOK, PlaceType, Phase
  <2> QED
    BY <1>2, <2>1, <2>2 DEF PhaseCompleted
<1>5. CASE WaitPoll \/ WaitWake
  <2>1. /\ target = phase.end /\ EndKnown /\ phase.kind # "pause"
        /\ phase.kind = "ramp" => step = Steps(phase)
    BY <1>5 DEF PhaseUnderWay, UnderWay, Waiting, Waits, SetpointKnown, WaitsForSetpoint,
       EndKnown, WaitPoll, WaitWake
  <2>2. WaitPoll
    BY <1>5 DEF WaitWake
  <2>3. PICK s \in Statuses : s.ok /\ Reached(s) /\ WaitReturns
    BY <2>2 DEF WaitPoll
  <2>4. phase.kind # "hold"
    BY <2>3 DEF WaitReturns
  <2>5. Apart(water, phase.end) <= Tolerance
    <3>1. s.temp = water \/ s.temp = -1
      <4>1. Full.temp = water /\ Null.temp = -1
        BY DEF Full, Null
      <4>2. s = Full \/ s = Null \/ s.temp \in {water, -1}
        BY DEF Statuses
      <4> QED
        BY <4>1, <4>2
    <3>2. s.temp # -1
      <4>1. s.temp >= 0
        BY <2>3 DEF Reached
      <4>2. ~(-1 >= 0)
        OBVIOUS
      <4> QED
        BY <4>1, <4>2, Zenon
    <3> QED
      BY <2>1, <2>3, <3>1, <3>2 DEF Reached
  <2> QED
    BY <1>2, <2>1, <2>4, <2>5 DEF PhaseCompleted
<1> QED
  BY <1>1, <1>3, <1>4, <1>5

\* run_ramp(): for every chain, and whatever faults, losses and waits come between, only a
\* signal keeps a phase from being carried out.
THEOREM PhasesAreCompleted == Spec => PhasesCompleted
<1>1. Init => IInv /\ SetpointKnown /\ PhaseUnderWay
  BY InvInit, SetpointInit DEF Init, PhaseUnderWay, UnderWay, Holding, Waiting, Waits, Recovering
<1>2. IInv /\ SetpointKnown /\ PhaseUnderWay /\ [Next]_vars
        => IInv' /\ SetpointKnown' /\ PhaseUnderWay'
  BY InvStep, SetpointStep, UnderWayStep
<1>3. IInv /\ SetpointKnown /\ PhaseUnderWay /\ [Next]_vars =>
        [pi' # pi /\ ~interrupted => PhaseCompleted]_vars
  BY LeftCompleted
<1> QED
  BY <1>1, <1>2, <1>3, PTL DEF Spec, PhasesCompleted

-----------------------------------------------------------------------------
(* A run that was interrupted comes to its end.                            *)

\* Where the program is after a signal, by the way that is left of the phase and of the
\* power-off; a recovery goes back to where it was called from.
WayFrom(place, from) ==
  CASE place = "start" -> 18
    [] place = "phase" -> 17
    [] place = "ramp" -> 14
    [] place = "remainder" -> 13
    [] place = "waitSilent" -> 13
    [] place = "wait" -> 12
    [] place = "waitSleep" -> 11
    [] place = "holdRead" -> 10
    [] place = "classify" -> IF from = "wait" THEN 16 ELSE 9
    [] place = "cool" -> IF from = "wait" THEN 15 ELSE 8
    [] place = "probe" -> IF from = "wait" THEN 15 ELSE 8
    [] place = "observe" -> IF from = "wait" THEN 14 ELSE 7
    [] place = "pause" -> 3
    [] place = "hold" -> 3
    [] place = "off" -> 2
    [] place = "offRead" -> 1
    [] place = "done" -> 0
    [] place = "alarm" -> 0
    [] place = "killed" -> 0

WayLeft == WayFrom(pc, caller)

OnTheWayOut == {"off", "offRead"} \cup Ended

\* Each phase that may still begin is more than all the way through one.
StepsToEnd ==
  IF pc \in OnTheWayOut THEN WayLeft ELSE 20 * (Len(chain) + 1 - pi) + WayLeft

\* The poll that gets no reply, or the fault of a cooker out of water: after either the
\* program is back at its wait, signal or not.
Unheard == /\ pc = "wait" /\ pc' \in {"waitSilent", "classify"}
           /\ Lossy \/ "E2" \in fault

\* The places there are.
Places == {"start", "phase", "ramp", "remainder", "pause", "hold", "holdRead", "wait",
           "waitSilent", "waitSleep", "classify", "cool", "probe", "observe"} \cup OnTheWayOut

\* On the way out there is less left than anywhere in a phase.
LEMMA WayRange ==
  ASSUME NEW place \in Places, NEW from
  PROVE  IF place \in OnTheWayOut THEN WayFrom(place, from) \in 0..2
                                  ELSE WayFrom(place, from) \in 3..18
<1>1. /\ 18 \in 3..18 /\ 17 \in 3..18 /\ 16 \in 3..18 /\ 15 \in 3..18 /\ 14 \in 3..18
      /\ 13 \in 3..18 /\ 12 \in 3..18 /\ 11 \in 3..18 /\ 10 \in 3..18 /\ 9 \in 3..18
      /\ 8 \in 3..18 /\ 7 \in 3..18 /\ 3 \in 3..18
      /\ 2 \in 0..2 /\ 1 \in 0..2 /\ 0 \in 0..2
  OBVIOUS
<1>2. CASE place \in OnTheWayOut
  <2>1. WayFrom(place, from) \in 0..2
    BY <1>1, <1>2, Zenon DEF WayFrom, OnTheWayOut, Ended
  <2> QED
    BY <1>2, <2>1
<1>3. CASE place \notin OnTheWayOut
  <2>1. WayFrom(place, from) \in 3..18
    BY <1>1, <1>3, Zenon DEF WayFrom, Places
  <2> QED
    BY <1>3, <2>1
<1> QED
  BY <1>2, <1>3

\* Before a step and after it.
LEMMA WayLeftType ==
  /\ IInv  => IF pc \in OnTheWayOut THEN WayLeft \in 0..2 ELSE WayLeft \in 3..18
  /\ IInv' => IF pc' \in OnTheWayOut THEN WayLeft' \in 0..2 ELSE WayLeft' \in 3..18
<1>1. (IInv => pc \in Places) /\ (IInv' => pc' \in Places)
  BY DEF IInv, TypeOK, PlaceType, Places, OnTheWayOut
<1> QED
  BY <1>1, WayRange DEF WayLeft

\* The phases that are left are a number.
LEMMA PhasesLeft ==
  ASSUME IInv, pc \notin OnTheWayOut  PROVE Len(chain) + 1 - pi \in Nat
<1>1. pc \in InPhase \cup {"start"}
  BY DEF OnTheWayOut, InPhase, IInv, TypeOK, PlaceType
<1>2. chain \in Seq(Phase)
  BY ChainAssumption DEF IInv, TypeOK, PlaceType
<1>3. Len(chain) \in Nat /\ DOMAIN chain = 1..Len(chain)
  BY <1>2, LenProperties
<1> QED
  BY <1>1, <1>3 DEF IInv, PhaseKnown

\* And so is the way to the end of the run.
LEMMA StepsToEndType == ASSUME IInv PROVE StepsToEnd \in Nat
<1>1. WayLeft \in Nat
  BY WayLeftType
<1>2. CASE pc \in OnTheWayOut
  BY <1>1, <1>2 DEF StepsToEnd
<1>3. CASE pc \notin OnTheWayOut
  <2>1. Len(chain) + 1 - pi \in Nat
    BY <1>3, PhasesLeft
  <2> DEFINE n == Len(chain) + 1 - pi
  <2> HIDE DEF n
  <2>2. n \in Nat /\ StepsToEnd = 20 * n + WayLeft
    BY <1>3, <2>1 DEF StepsToEnd, n
  <2> QED
    BY <1>1, <2>2
<1> QED
  BY <1>2, <1>3

\* A step inside a phase, or onto the way out, gets nearer.
LEMMA StaysInPhase ==
  ASSUME IInv, IInv', UNCHANGED <<chain, pi>>, pc \notin OnTheWayOut, WayLeft' < WayLeft
  PROVE  StepsToEnd' < StepsToEnd
<1> DEFINE n == Len(chain) + 1 - pi
<1>1. n \in Nat /\ n' = n
  BY PhasesLeft
<1>2. StepsToEnd = 20 * n + WayLeft
  BY DEF StepsToEnd
<1>3. StepsToEnd' = WayLeft' \/ StepsToEnd' = 20 * n + WayLeft'
  BY DEF StepsToEnd
<1>4. WayLeft \in 3..18 /\ (WayLeft' \in 0..2 \/ WayLeft' \in 3..18)
  BY WayLeftType
<1> HIDE DEF n
<1>5. CASE StepsToEnd' = WayLeft'
  BY <1>1, <1>2, <1>4, <1>5
<1>6. CASE StepsToEnd' = 20 * n + WayLeft'
  BY <1>1, <1>2, <1>4, <1>6
<1> QED
  BY <1>3, <1>5, <1>6

\* So does the end of the phase: the next one is one less, and the power-off is nearer
\* than any.
LEMMA LeavesPhase ==
  ASSUME IInv, IInv', chain' = chain, pc \notin OnTheWayOut, NextPhase \/ pc' = "off"
  PROVE  StepsToEnd' < StepsToEnd
<1> DEFINE n == Len(chain) + 1 - pi
<1>1. n \in Nat
  BY PhasesLeft
<1>2. StepsToEnd = 20 * n + WayLeft /\ WayLeft \in 3..18
  BY WayLeftType DEF StepsToEnd
<1>3. CASE pc' = "off"
  <2>1. StepsToEnd' = 2
    BY <1>3, Zenon DEF StepsToEnd, WayLeft, WayFrom, OnTheWayOut
  <2> HIDE DEF n
  <2> QED
    BY <1>1, <1>2, <2>1
<1>4. CASE NextPhase /\ pc' = "phase"
  <2>1. pi' = pi + 1 /\ pi \in Nat /\ Len(chain) \in Int
    <3>1. chain \in Seq(Phase)
      BY ChainAssumption DEF IInv, TypeOK, PlaceType
    <3> QED
      BY <1>4, <3>1, LenProperties DEF NextPhase, IInv, TypeOK, PlaceType
  <2>2. n' = n - 1
    BY <2>1
  <2>3. pc' \notin OnTheWayOut
    BY <1>4 DEF OnTheWayOut, Ended
  <2>4. WayLeft' = 17
    BY <1>4, Zenon DEF WayLeft, WayFrom
  <2>5. StepsToEnd' = 20 * n' + WayLeft'
    BY <2>3 DEF StepsToEnd
  <2> HIDE DEF n
  <2> QED
    BY <1>1, <1>2, <2>2, <2>4, <2>5
<1> QED
  BY <1>3, <1>4 DEF NextPhase

\* A wait that returns leaves its phase, or begins the seconds of its hold.
LEMMA WaitReturnsCost ==
  ASSUME IInv, IInv', interrupted, pc \in {"wait", "waitSleep"}, WaitReturns, chain' = chain
  PROVE  StepsToEnd' < StepsToEnd
<1>1. pc \notin OnTheWayOut /\ pi \in DOMAIN chain /\ phase.kind # "pause"
  BY DEF OnTheWayOut, Ended, IInv, PhaseKnown, InPhase
<1>2. phase.kind \in {"temp", "hold", "ramp"}
  BY <1>1, PhaseElement DEF IInv, Phase, Kinds
<1>3. CASE phase.kind = "hold"
  <2>1. pc' = "hold" /\ pi' = pi
    BY <1>3 DEF WaitReturns
  <2>2. (WayLeft = 12 \/ WayLeft = 11) /\ WayLeft' = 3
    BY <2>1, Zenon DEF WayLeft, WayFrom
  <2>3. WayLeft' < WayLeft
    BY <2>2
  <2> QED
    BY <1>1, <2>1, <2>3, StaysInPhase
<1>4. CASE phase.kind # "hold"
  <2>1. NextPhase \/ pc' = "off"
    BY <1>2, <1>4 DEF WaitReturns, PhaseEnd
  <2> QED
    BY <1>1, <2>1, LeavesPhase
<1> QED
  BY <1>3, <1>4

\* A poll and what follows it.
LEMMA WaitCost ==
  ASSUME IInv, IInv', interrupted, WaitPoll \/ WaitRetry \/ WaitWake
  PROVE  StepsToEnd' < StepsToEnd \/ Unheard
<1>1. pc \in Waits /\ pc \notin OnTheWayOut /\ chain' = chain
  BY DEF WaitPoll, WaitRetry, WaitWake, Waits, OnTheWayOut, Ended
<1>2. CASE WaitRetry
  <2>1. pc = "waitSilent" /\ pc' = "wait" /\ pi' = pi
    BY <1>2 DEF WaitRetry
  <2>2. WayLeft = 13 /\ WayLeft' = 12
    BY <2>1, Zenon DEF WayLeft, WayFrom
  <2>3. WayLeft' < WayLeft
    BY <2>2
  <2> QED
    BY <1>1, <2>1, <2>3, StaysInPhase
<1>3. CASE WaitWake
  <2>1. pc = "waitSleep" /\ WaitReturns
    BY <1>3 DEF WaitWake
  <2> QED
    BY <1>1, <2>1, WaitReturnsCost
<1>4. CASE WaitPoll
  <2>1. PICK s \in Statuses :
          \/ ~s.ok /\ pc' = "waitSilent" /\ UNCHANGED <<pi, caller>>
          \/ s.ok /\ "E2" \in s.fault /\ pc' = "classify" /\ caller' = "wait" /\ UNCHANGED pi
          \/ s.ok /\ "E2" \notin s.fault /\ Reached(s) /\ WaitReturns /\ UNCHANGED caller
          \/ /\ s.ok /\ "E2" \notin s.fault /\ ~Reached(s)
             /\ pc' = "waitSleep"
             /\ UNCHANGED <<pi, caller>>
    BY <1>4 DEF WaitPoll
  <2>2. pc = "wait"
    BY <1>4 DEF WaitPoll
  <2>3. ~Lossy => s.ok /\ s.fault = fault
    BY DEF Statuses, Full
  <2>4. CASE pc' \in {"waitSilent", "classify"} /\ (~s.ok \/ "E2" \in s.fault)
    BY <2>2, <2>3, <2>4 DEF Unheard
  <2>5. CASE WaitReturns
    BY <1>1, <2>2, <2>5, WaitReturnsCost
  <2>6. CASE pc' = "waitSleep" /\ pi' = pi
    <3>1. WayLeft = 12 /\ WayLeft' = 11
      BY <2>2, <2>6, Zenon DEF WayLeft, WayFrom
    <3>2. WayLeft' < WayLeft
      BY <3>1
    <3> QED
      BY <1>1, <2>6, <3>2, StaysInPhase
  <2> QED
    BY <2>1, <2>4, <2>5, <2>6
<1> QED
  BY <1>2, <1>3, <1>4

\* The beginning of the run and of a phase, and the recovery, which goes back to its
\* caller: all of them inside a phase.
LEMMA InsideCost ==
  ASSUME IInv, IInv', interrupted,
         \/ PowerOn \/ BeginTemp \/ BeginPause \/ BeginHold \/ BeginRamp \/ RampInterrupted
         \/ HoldRead \/ Classify \/ Probe \/ RecoveryInterrupted
  PROVE  StepsToEnd' < StepsToEnd
<1>1. pc \notin OnTheWayOut /\ UNCHANGED <<chain, pi>>
  BY DEF PowerOn, BeginTemp, BeginPause, BeginHold, BeginRamp, RampInterrupted, HoldRead,
     Classify, Probe, RecoveryInterrupted, OnTheWayOut, Ended
<1>2. CASE PowerOn
  <2>1. WayLeft = 18 /\ WayLeft' = 17
    BY <1>2, Zenon DEF PowerOn, WayLeft, WayFrom
  <2> QED
    BY <1>1, <2>1, StaysInPhase
<1>3. CASE BeginTemp \/ BeginPause \/ BeginHold \/ BeginRamp
  <2>1. pc = "phase" /\ pc' \in {"pause", "wait", "ramp", "remainder"}
    BY <1>3 DEF BeginTemp, BeginPause, BeginHold, BeginRamp, AfterSteps
  <2>2. WayLeft = 17 /\ (WayLeft' = 14 \/ WayLeft' = 13 \/ WayLeft' = 12 \/ WayLeft' = 3)
    BY <2>1, Zenon DEF WayLeft, WayFrom
  <2>3. WayLeft' < WayLeft
    BY <2>2
  <2> QED
    BY <1>1, <2>3, StaysInPhase
<1>4. CASE RampInterrupted
  <2>1. pc = "ramp" /\ pc' \in {"wait", "remainder"}
    BY <1>4 DEF RampInterrupted, AfterSteps
  <2>2. WayLeft = 14 /\ (WayLeft' = 13 \/ WayLeft' = 12)
    BY <2>1, Zenon DEF WayLeft, WayFrom
  <2>3. WayLeft' < WayLeft
    BY <2>2
  <2> QED
    BY <1>1, <2>3, StaysInPhase
<1>5. CASE HoldRead
  <2>1. pc = "holdRead" /\ (pc' = "hold" \/ (pc' = "classify" /\ caller' = "hold"))
    BY <1>5 DEF HoldRead
  <2>2. "hold" # "wait"
    OBVIOUS
  <2>3. WayLeft = 10 /\ (WayLeft' = 9 \/ WayLeft' = 3)
    BY <2>1, <2>2, Zenon DEF WayLeft, WayFrom
  <2>4. WayLeft' < WayLeft
    BY <2>3
  <2> QED
    BY <1>1, <2>4, StaysInPhase
<1>6. CASE Classify \/ Probe
  <2>1. /\ caller' = caller
        /\ \/ pc = "classify" /\ pc' = "cool"
           \/ pc = "probe" /\ pc' = "observe"
    BY <1>6 DEF Classify, Probe
  <2>2. CASE caller = "wait"
    <3>1. (WayLeft = 16 /\ WayLeft' = 15) \/ (WayLeft = 15 /\ WayLeft' = 14)
      BY <2>1, <2>2, Zenon DEF WayLeft, WayFrom
    <3>2. WayLeft' < WayLeft
      BY <3>1
    <3> QED
      BY <1>1, <3>2, StaysInPhase
  <2>3. CASE caller # "wait"
    <3>1. (WayLeft = 9 /\ WayLeft' = 8) \/ (WayLeft = 8 /\ WayLeft' = 7)
      BY <2>1, <2>3, Zenon DEF WayLeft, WayFrom
    <3>2. WayLeft' < WayLeft
      BY <3>1
    <3> QED
      BY <1>1, <3>2, StaysInPhase
  <2> QED
    BY <2>2, <2>3
<1>7. CASE RecoveryInterrupted
  <2>1. pc \in {"cool", "observe"} /\ pc' = caller /\ caller \in {"wait", "hold"}
    BY <1>7 DEF RecoveryInterrupted, RecoveryReturns, IInv, TypeOK, RecoveryType
  <2>2. CASE caller = "wait"
    <3>1. (WayLeft = 15 \/ WayLeft = 14) /\ WayLeft' = 12
      BY <2>1, <2>2, Zenon DEF WayLeft, WayFrom
    <3>2. WayLeft' < WayLeft
      BY <3>1
    <3> QED
      BY <1>1, <3>2, StaysInPhase
  <2>3. CASE caller = "hold"
    <3>1. "hold" # "wait"
      OBVIOUS
    <3>2. (WayLeft = 8 \/ WayLeft = 7) /\ WayLeft' = 3
      BY <2>1, <2>3, <3>1, Zenon DEF WayLeft, WayFrom
    <3>3. WayLeft' < WayLeft
      BY <3>2
    <3> QED
      BY <1>1, <3>3, StaysInPhase
  <2> QED
    BY <2>1, <2>2, <2>3
<1> QED
  BY <1>2, <1>3, <1>4, <1>5, <1>6, <1>7

\* The end of a phase leads to the power-off, which is tried once more at most.
LEMMA WayOutCost ==
  ASSUME IInv, IInv', interrupted,
         \/ RampRemainder \/ PauseOver \/ HoldOver
         \/ TurnOff \/ OffConfirmed \/ OffUnconfirmed
  PROVE  StepsToEnd' < StepsToEnd
<1>1. CASE RampRemainder \/ PauseOver \/ HoldOver
  <2>1. pc \notin OnTheWayOut /\ chain' = chain /\ pc' = "off"
    BY <1>1 DEF RampRemainder, PauseOver, HoldOver, PhaseEnd, OnTheWayOut, Ended
  <2> QED
    BY <2>1, LeavesPhase
<1>2. CASE TurnOff \/ OffConfirmed \/ OffUnconfirmed
  <2>1. \/ pc = "off" /\ pc' = "offRead"
        \/ pc = "offRead" /\ pc' = "done"
    BY <1>2 DEF TurnOff, OffConfirmed, OffUnconfirmed
  <2>2. (WayLeft = 2 /\ WayLeft' = 1) \/ (WayLeft = 1 /\ WayLeft' = 0)
    BY <2>1, Zenon DEF WayLeft, WayFrom
  <2>3. StepsToEnd = WayLeft /\ StepsToEnd' = WayLeft'
    BY <2>1 DEF StepsToEnd, OnTheWayOut, Ended
  <2> QED
    BY <2>2, <2>3
<1> QED
  BY <1>1, <1>2

\* Every step of the program.
LEMMA InterruptedCost ==
  ASSUME IInv, interrupted, Program  PROVE StepsToEnd' < StepsToEnd \/ Unheard
<1>1. IInv'
  BY InvStep DEF Next
<1>2. ~(RampStep \/ HoldChunk \/ Cool \/ ObserveQuiet \/ ObserveFault)
  BY DEF RampStep, HoldChunk, Cool, ObserveQuiet, ObserveFault
<1> QED
  BY <1>1, <1>2, WaitCost, InsideCost, WayOutCost DEF Program

\* The cooker takes nothing away and adds nothing, and a second signal ends the run.
LEMMA OutsideCost ==
  ASSUME IInv, interrupted, Signal \/ Cooker \/ UNCHANGED vars  PROVE StepsToEnd' <= StepsToEnd
<1>1. StepsToEnd \in Nat
  BY StepsToEndType
<1>2. CASE Signal
  <2>1. pc' = "killed"
    BY <1>2 DEF Signal
  <2>2. StepsToEnd' = 0
    BY <2>1, Zenon DEF StepsToEnd, WayLeft, WayFrom, OnTheWayOut, Ended
  <2> QED
    BY <1>1, <2>2
<1>3. CASE Cooker \/ UNCHANGED vars
  <2>1. UNCHANGED <<chain, pi, pc, caller>>
    BY <1>3 DEF Cooker, WaterChanges, FaultRaised, FaultClears, TimerExpires, program,
       position, locals, vars
  <2>2. StepsToEnd' = StepsToEnd
    BY <2>1 DEF StepsToEnd, WayLeft
  <2> QED
    BY <1>1, <2>2
<1> QED
  BY <1>2, <1>3

\* on_signal(): once the first signal has come, each step of the program brings it nearer
\* to its end, whatever phase it is in, recovering or not, except one: a poll of
\* wait_for_temp() to which the cooker does not answer or says that it is out of water.
\* Nothing is missing for InterruptEndsRun but that the program runs, and that such polls
\* are not all there is for ever.
THEOREM InterruptedRunEnds ==
  Spec => /\ [](StepsToEnd \in Nat)
          /\ [][interrupted => IF Program THEN StepsToEnd' < StepsToEnd \/ Unheard
                                          ELSE StepsToEnd' <= StepsToEnd]_vars
<1>1. IInv => StepsToEnd \in Nat
  BY StepsToEndType
<1>2. IInv /\ [Next]_vars =>
        [interrupted => IF Program THEN StepsToEnd' < StepsToEnd \/ Unheard
                                   ELSE StepsToEnd' <= StepsToEnd]_vars
  BY InterruptedCost, OutsideCost DEF Next
<1> QED
  BY <1>1, <1>2, Invariant, PTL DEF Spec

=============================================================================
