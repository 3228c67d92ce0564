----------------------------- MODULE MCController -----------------------------
(* Two callers: the one whose call poisons the controller, and the one whom  *)
(* that leaves waiting; close() and the failing event come from elsewhere.   *)
EXTENDS Controller

=============================================================================
