---------------------------- MODULE RequestService ----------------------------
(***************************************************************************)
(* What the threads that use a Context may rely on: a request is applied   *)
(* at most once, between the call and its answer; the answer tells whether *)
(* it was applied; and once the service is down nothing is applied.        *)
(***************************************************************************)
CONSTANT Clients

VARIABLES
  up,       \* the service still applies requests
  asked,    \* the clients that made their request
  applied,  \* the clients whose request has been applied
  answer    \* what each client was told: "none", "ok", "error" or "refused"

vars == <<up, asked, applied, answer>>

Init == up = TRUE /\ asked = {} /\ applied = {} /\ answer = [c \in Clients |-> "none"]

Ask(c) == /\ c \notin asked /\ asked' = asked \cup {c}
          /\ UNCHANGED <<up, applied, answer>>

\* A request is applied and its client told, in one step or in two.
Apply(c) == /\ up /\ c \in asked \ applied /\ answer[c] = "none"
            /\ applied' = applied \cup {c}
            /\ answer' \in {[answer EXCEPT ![c] = a] : a \in {"none", "ok", "error"}}
            /\ up' \in {TRUE, answer'[c] # "error"}
            /\ UNCHANGED asked

\* An error leaves open whether the request was applied; a refusal does not.
Answer(c, a) == /\ c \in asked /\ answer[c] = "none"
                /\ a \in {"error"} \cup {x \in {"ok"} : c \in applied}
                                   \cup {x \in {"refused"} : c \notin applied}
                /\ answer' = [answer EXCEPT ![c] = a]
                /\ UNCHANGED <<up, asked, applied>>

\* A client that finds the service down is refused at once.
Refuse(c) == /\ c \notin asked /\ asked' = asked \cup {c}
             /\ answer' = [answer EXCEPT ![c] = "refused"]
             /\ UNCHANGED <<up, applied>>

GoDown == up /\ up' = FALSE /\ UNCHANGED <<asked, applied, answer>>

Next == \/ GoDown
        \/ \E c \in Clients : \/ Ask(c) \/ Apply(c) \/ Refuse(c)
                              \/ \E a \in {"ok", "error", "refused"} : Answer(c, a)

Spec == Init /\ [][Next]_vars

=============================================================================
