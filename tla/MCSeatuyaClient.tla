-------------------------- MODULE MCSeatuyaClient --------------------------
(* SeatuyaClient for TLC: values of its constants.                         *)
EXTENDS SeatuyaClient

MCVersions == {"3.3", "3.5"}
MCRetryLimits == {-1}
MCRetryLimitsSmall == {0, 1}

=============================================================================
