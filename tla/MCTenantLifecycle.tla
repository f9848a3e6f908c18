------------------------- MODULE MCTenantLifecycle -------------------------
(* TenantLifecycle on small instances: the tenant moves to the enterprise plan,
   is suspended or offboarded, and comes back. *)
EXTENDS TenantLifecycle, TLC

OwnKey    == [s \in Starter |-> s]
Replicas  == Permutations(Purger)
SameInput == [s \in Starter |-> "a"]

State(status, plan, at) ==
    [kind |-> "state", status |-> status, changed |-> TRUE, plan |-> plan, at |-> at]

Offboarded == State("offboarded", "same", 1)
Returned   == State("active", "enterprise", 2)

Two(a, b) == [e \in Event |-> IF e = "first" THEN a ELSE b]
Moves ==
    { Two(Offboarded, Returned),
      Two([Offboarded EXCEPT !.kind = "memberships"], Returned),
      Two(State("suspended", "other", 1), Returned),
      Two(Returned, State("offboarded", "other", 3)) }

=============================================================================
