------------------------ MODULE MCInstanceLifecycle ------------------------
(***************************************************************************)
(* Instances of InstanceLifecycle for TLC: one gateway with two task       *)
(* branches, and an outer gateway with two inner ones of one task each.    *)
(***************************************************************************)
EXTENDS InstanceLifecycle, TLC

CONSTANTS o, i1, i2, a, b

FlatHome   == a :> o @@ b :> o
NestedHome == a :> i1 @@ b :> i2
=============================================================================
