-------------------------------- MODULE MCShares --------------------------------
EXTENDS Shares

Starts == [c \in Contexts |-> [r \in Routes |-> IF c = "A" THEN "a" ELSE "b"]]
OneDraft == <<"x">>
NoDrafts == <<>>
Bodies == [p \in Requests |-> p]
BodiesOfB == [p \in Requests |-> "b"]   \* what the cells of B have
=============================================================================
