-------------------------- MODULE MCInstanceStart --------------------------
(* InstanceStart on small instances: every start asks for the same, as retries
   and double clicks do, or one of them for something else. *)
EXTENDS InstanceStart, TLC

OneKey    == [s \in Starter |-> "k"]
SameInput == [s \in Starter |-> "a"]

=============================================================================
