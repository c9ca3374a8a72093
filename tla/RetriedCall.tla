---------------------------- MODULE RetriedCall ----------------------------
(***************************************************************************)
(* What a high-level call of libseatuya promises, with everything about    *)
(* connections, sessions and frames left out: a call transmits its command *)
(* at most `budget' times, the device performs a command at most once per  *)
(* transmission (possibly after the call has returned), and a call that    *)
(* was begun returns.  It is an at-least-once call whose failure says      *)
(* nothing: a call that returns NULL may have been performed, any number   *)
(* of times up to its transmissions.                                       *)
(***************************************************************************)
EXTENDS Naturals

VARIABLES
  calling,   \* a call is in progress
  budget,    \* transmissions a call may make
  sent,      \* transmissions of the last call begun
  done       \* times the device performed it

vars == <<calling, budget, sent, done>>

Init == calling = FALSE /\ budget \in Nat \ {0} /\ sent = 0 /\ done = 0

Begin ==
  /\ ~calling
  /\ calling' = TRUE
  /\ sent' = 0 /\ done' = 0
  /\ UNCHANGED budget

Transmit ==
  /\ calling /\ sent < budget
  /\ sent' = sent + 1
  /\ UNCHANGED <<calling, budget, done>>

Perform ==
  /\ done < sent
  /\ done' = done + 1
  /\ UNCHANGED <<calling, budget, sent>>

Return ==
  /\ calling
  /\ calling' = FALSE
  /\ UNCHANGED <<budget, sent, done>>

SetBudget ==
  /\ ~calling
  /\ budget' \in Nat \ {0}
  /\ UNCHANGED <<calling, sent, done>>

Next == Begin \/ Transmit \/ Perform \/ Return \/ SetBudget

Spec == Init /\ [][Next]_vars

=============================================================================
