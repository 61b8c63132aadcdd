---------------------------- MODULE MCSignalling ----------------------------
(* Signalling for TLC. *)
EXTENDS Signalling
=============================================================================
