------------------------- MODULE MCIdempotentStart -------------------------
EXTENDS IdempotentStart, TLC

OneKey    == [s \in Starter |-> "k"]
SameInput == [s \in Starter |-> "a"]

=============================================================================
