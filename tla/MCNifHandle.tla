---------------------------- MODULE MCNifHandle ----------------------------
(* A call that returns a string and one that does not, for NifHandle.       *)
EXTENDS NifHandle

MCCalls == {"connect", "status"}

=============================================================================
