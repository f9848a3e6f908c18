---------------------------- MODULE MCDelegation ----------------------------
(* Delegation on small instances: two tasks in two instances, the first one of
   the delegator and a co-assignee, claimed by the delegator or by nobody yet,
   four deliveries. *)
EXTENDS Delegation

InstanceOf == [t \in Task |-> IF t = "t1" THEN "i1" ELSE "i2"]

Event(id, kind) ==
    [id |-> id, kind |-> kind, user |-> Delegate, status |-> None, delegate |-> FALSE, at |-> 0,
     reassigned |-> FALSE, scope |-> Task, ok |-> Task]
Availability(id, status, at) == [Event(id, "availability") EXCEPT !.status = status, !.at = at]

Started   == Event("s", "started")
Ended     == Event("e", "ended")
Ooo       == Availability("o", "ooo", 1)
Available == Availability("a", "available", 2)
Void      == Availability("v", None, 2)
Deleted   == Event("x", "deleted")
Revoked   == Event("y", "revoked")

Owned(user) == [user |-> user, tag |-> FALSE, active |-> TRUE]
Own == [t \in Task |-> IF t = "t1" THEN <<Owned(Delegator), Owned("other")>> ELSE <<Owned(Delegator)>>]
One == [Own EXCEPT !["t2"] = <<Owned("other")>>]

Four(a, b, c, d) ==
    [x \in Delivery |-> CASE x = "d1" -> a [] x = "d2" -> b [] x = "d3" -> c [] OTHER -> d]
Scenario(events, held, request) ==
    [about |-> events, rows |-> held, call |-> request,
     lead |-> [t \in Task |-> IF t = "t1" THEN {1} ELSE {}]]
Unclaimed(s) == [s EXCEPT !.lead = [t \in Task |-> {}]]

Cases ==
    { Scenario(Four(Ooo, Started, Ended, Available), One, "none"),
      Scenario(Four([Ooo EXCEPT !.delegate = TRUE], Started, [Ended EXCEPT !.ok = {"t1"}],
                    [Ooo EXCEPT !.id = "o2", !.at = 3]), Own, "none"),
      Scenario(Four(Started, Started, Ended, Available), One, "none"),
      Scenario(Four(Started, [Ended EXCEPT !.reassigned = TRUE], Ooo,
                    [Available EXCEPT !.status = "busy"]), One, "pause"),
      Scenario(Four(Started, Ended, Deleted, Ooo), One, "none"),
      Scenario(Four([Started EXCEPT !.scope = {"t1"}], Revoked, Ooo, Available), Own, "none"),
      Scenario(Four(Started, Started, Ended, Ended), One, "cancel"),
      Unclaimed(Scenario(Four(Started, Ended, Void, Void), One, "reassign")) }

\* The delegate is a co-assignee of the delegator's task.
Shared == { Scenario(Four(Started, Ended, Ooo, Available),
                     [One EXCEPT !["t1"] = <<Owned(Delegator), Owned(Delegate)>>], "none") }

=============================================================================
