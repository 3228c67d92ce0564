------------------------------- MODULE MCRuns -------------------------------
(* Two transformers: "tail" has an input connected to "src". *)
EXTENDS Runs

MCUp == [n \in Nodes |-> IF n = "tail" THEN {"src"} ELSE {}]

MCGraphs == {[n \in Nodes |-> 1], [n \in Nodes |-> Unset]}

\* src gives the same result for 1 and 3; tail's result depends on all it has.
MCResult(n, k) == IF n = "src" THEN k.own % 2 ELSE 10 * k.own + (k.ups["src"] % 10)

=============================================================================
