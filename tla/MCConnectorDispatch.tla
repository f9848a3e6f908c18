------------------------ MODULE MCConnectorDispatch ------------------------
(* ConnectorDispatch on small instances: the entries are of one task, whose
   event was delivered more than once. *)
EXTENDS ConnectorDispatch, TLC

CONSTANTS t1

SameTask == [e \in Entry |-> t1]

=============================================================================
