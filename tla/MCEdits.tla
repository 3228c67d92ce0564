------------------------------- MODULE MCEdits -------------------------------
(* Instances of Edits: three callers and two celltypes.  The first edits a  *)
(* part of the cell, the second may ask for anything, the third does what   *)
(* changes the cell under the others.                                       *)
EXTENDS Edits

CONSTANTS Editor, Any, Other

Plain(kinds) == [kind : kinds, type : {"A"}]
Typing(kinds) == [kind : kinds, type : {"A", "B"}]
MCRequests ==
  [c \in {Editor, Any, Other} |->
     IF c = Editor THEN Plain({"part", "drop"})
     ELSE IF c = Any
     THEN Plain({"part", "member", "whole", "set", "plug", "clear"})
          \cup Typing({"retype", "blank", "literal"})
     ELSE Plain({"plugin", "unplug", "clear"}) \cup {[kind |-> "retype", type |-> "B"]}]
=============================================================================
