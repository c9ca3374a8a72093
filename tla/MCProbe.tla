-------------------------------- MODULE MCProbe --------------------------------
(* Two ports for Probe.                                                      *)
EXTENDS Probe

MCPorts == <<6668, 6669>>

=============================================================================
