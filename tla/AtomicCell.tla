------------------------------ MODULE AtomicCell ------------------------------
(***************************************************************************)
(* What the threads that change a cell may rely on: a request takes effect *)
(* at one point between its call and its answer, on the content the cell   *)
(* has at that point, and a request that is refused has no effect.         *)
(* The content is the set of the marks that the requests left in it.       *)
(***************************************************************************)
CONSTANTS
  Callers,  \* the threads; the mark a caller leaves is its own name
  Foreign,  \* the mark of what a connection brings
  Loaded    \* the mark of what was there at first

VARIABLES
  content,  \* the marks in the cell
  request,  \* what each caller asked for, "none" before it asked
  answer    \* what each caller was told: "none", "ok" or "error"

vars == <<content, request, answer>>

Kinds == {"part", "member", "drop", "whole", "blank", "plug", "plugin", "unplug", "keep"}

Init == /\ content \in SUBSET {Loaded}
        /\ request = [c \in Callers |-> "none"]
        /\ answer = [c \in Callers |-> "none"]

\* The content after a request of c that found the content `old`.
Effect(kind, c, old) ==
  CASE kind = "part"   -> old \cup {c}
    [] kind = "member" -> (old \ {Foreign}) \cup {c}
    [] kind = "drop"   -> old \ {Foreign}
    [] kind = "whole"  -> {c}
    [] kind = "blank"  -> {}
    [] kind = "plug"   -> {Foreign}
    [] kind = "plugin" -> old \cup {Foreign}
    [] OTHER           -> old

Ask(c, kind) == /\ request[c] = "none"
                /\ request' = [request EXCEPT ![c] = kind]
                /\ UNCHANGED <<content, answer>>

Answer(c, a) == /\ answer[c] = "none"
                /\ answer' = [answer EXCEPT ![c] = a]
                /\ UNCHANGED request

Apply(c) == /\ request[c] \notin {"none", "unplug"} /\ Answer(c, "ok")
            /\ content' = Effect(request[c], c, content)

\* The connection goes with its source; what a write had copied of it stays.
Unplug(c) == /\ request[c] = "unplug" /\ Answer(c, "ok")
             /\ content' \in {content, content \ {Foreign}}

Refuse(c) == Answer(c, "error") /\ UNCHANGED content

Next == \E c \in Callers : \/ \E kind \in Kinds : Ask(c, kind)
                          \/ Apply(c) \/ Unplug(c) \/ Refuse(c)

Spec == Init /\ [][Next]_vars

=============================================================================
