---------------------------- MODULE MCSousctl ----------------------------
(* Sousctl for TLC: values of its constants.                               *)
EXTENDS Sousctl

Ramp(a, b, s) == [kind |-> "ramp", start |-> a, end |-> b, secs |-> s]
Hold(a, s) == [kind |-> "hold", start |-> a, end |-> a, secs |-> s]
Temp(a) == [kind |-> "temp", start |-> a, end |-> a, secs |-> 0]
Pause(s) == [kind |-> "pause", start |-> 0, end |-> 0, secs |-> s]

\* Up and down, with and without a remainder, and of less than a minute; every kind
\* following another.
MCChains == {
  <<Ramp(200, 207, 150), Hold(207, 90)>>,
  <<Ramp(250, 200, 180), Pause(60), Temp(250)>>,
  <<Hold(200, 120), Temp(250), Ramp(250, 200, 60)>>,
  <<Ramp(200, 250, 30), Pause(60)>>}

MCChainsHold == {<<Hold(200, 120)>>}
MCChainsShortRamp == {<<Ramp(200, 250, 30), Hold(250, 120)>>}

MCWater == {100, 203, 250}
MCBackoff == <<5, 10>>

=============================================================================
