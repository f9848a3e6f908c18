------------------------------ MODULE MCPlanRun ------------------------------
(* PlanRun on small plans, each made for one group of hard cases. *)
EXTENDS PlanRun, PlanRoutes

Stage(k) == [k |-> k, bnds |-> <<>>]
Hosting(bnds) == [k |-> "task", bnds |-> bnds]
Path(kind, inter, target, steps) == [kind |-> kind, inter |-> inter, target |-> target, steps |-> steps]
Error(code, target, steps) == [code |-> code, target |-> target, steps |-> steps]
SubWorkflow(name, body, bnds, errs) ==
    [k |-> "call", name |-> name, body |-> body, bnds |-> bnds, errs |-> errs]
Branch(cond) == [cond |-> cond, steps |-> <<>>, ends |-> FALSE, target |-> None, at |-> 0, revert |-> None]
Gateway(branches) == [k |-> "excl", branches |-> branches, cycle |-> 0]
Plan(routes, returns, steps, depts) ==
    [routes |-> routes, returns |-> returns, steps |-> steps, depts |-> depts]

\* A reminder beside a task sends what a later receive waits for.
Reminder == Plan(2, {"yes"}, <<Run("a"), Run("c")>>,
    [a |-> <<Hosting(<<Path("timer", FALSE, None, <<Run("b")>>)>>), Stage("receive")>>,
     b |-> <<Stage("task"), Stage("send")>>,
     c |-> <<Stage("task")>>])

\* A gateway sends work back to its sender, once to a stage and once to a
\* department, and refuses what it cannot read.
Rework == Plan(1, {"yes", "no", "unreadable"}, <<Run("a"), Gateway(<<[Branch({"no"}) EXCEPT !.revert = "a", !.at = 2],
                                     [Branch({"yes"}) EXCEPT !.steps = <<Run("b")>>]>>),
                 Gateway(<<[Branch({"no"}) EXCEPT !.revert = "a"],
                           Branch({})>>)>>,
    [a |-> <<Stage("send"), Stage("task")>>, b |-> <<Stage("send"), Stage("task")>>])

\* What was sent back returns no result; then a gateway that ends the path on
\* both sides.
Resend == Plan(1, {"yes", "no"},
    <<Run("a"), Gateway(<<[Branch({"no"}) EXCEPT !.revert = "b"],
                          [Branch({"yes"}) EXCEPT !.target = "b", !.at = 1]>>),
      Run("c"), Gateway(<<[Branch({"no"}) EXCEPT !.ends = TRUE],
                          [Branch({}) EXCEPT !.steps = <<Run("b")>>, !.ends = TRUE]>>), Run("a")>>,
    [a |-> <<Stage("task")>>, b |-> <<Stage("send")>>, c |-> <<Stage("receive")>>])

\* A call that waits for an answer, with a message and an outside boundary
\* and an error path.
Guarded == Plan(2, {"yes", "broken"}, <<SubWorkflow("s", <<Run("a")>>,
                    <<Path("message", TRUE, None, <<>>), Path("external", FALSE, None, <<Run("b")>>)>>,
                    <<Error("broken", "c", <<>>)>>), Run("c")>>,
    [a |-> <<Stage("task"), Stage("receive")>>, b |-> <<Stage("send")>>, c |-> <<Stage("external")>>])

\* A call with a timer inside a call with an error path, and a receive the
\* timer interrupts.
Nested == Plan(2, {"yes", "broken"}, <<SubWorkflow("o", <<SubWorkflow("i", <<Run("a")>>, <<Path("timer", TRUE, "b", <<>>)>>, <<>>)>>,
                    <<>>, <<Error(None, None, <<Run("c")>>)>>), Run("c")>>,
    [a |-> <<Hosting(<<Path("external", TRUE, "b", <<>>)>>), Stage("receive")>>, b |-> <<Stage("task")>>, c |-> <<Stage("send")>>])

\* A path beside a task has a call that fails while a path of its body goes on.
Aside == Plan(0, {"yes", "broken"}, <<Run("a")>>,
    [a |-> <<Hosting(<<Path("timer", FALSE, None, <<SubWorkflow("s", <<Run("b")>>, <<>>, <<>>)>>)>>)>>,
     b |-> <<Hosting(<<Path("timer", FALSE, None, <<Run("c")>>)>>)>>,
     c |-> <<Stage("task")>>])

Cases == {Reminder, Rework, Resend, Guarded, Nested, Aside}

=============================================================================
