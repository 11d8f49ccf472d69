-------------------------- MODULE MCWitnessService --------------------------
(* Two objects, two versions and two signing keys; the sequence may run out. *)
EXTENDS WitnessService
=============================================================================
