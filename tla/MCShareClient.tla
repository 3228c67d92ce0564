---------------------------- MODULE MCShareClient ----------------------------
(* Instances of ShareClient for TLC. *)
EXTENDS ShareClient

=============================================================================
