----------------------------- MODULE PlanRoutes -----------------------------
(***************************************************************************)
(* What the interpreter reads off a plan: where a forced route re-enters   *)
(* it, and the lists of steps it has.                                      *)
(***************************************************************************)
EXTENDS Integers, Sequences, SequencesExt

(***************************************************************************)
(* Where a forced route re-enters the plan.                                *)
(***************************************************************************)
Run(d) == [k |-> "seq", depts |-> <<d>>]

RECURSIVE FindRedirectTarget(_, _)

\* The rest of a step from a department on: one, or none.
RedirectWithinStep(step, d) ==
    LET branch(b) ==
            LET inside == FindRedirectTarget(b.steps, d) IN
            IF inside = {} /\ b.steps = <<>> /\ d \in {b.target, b.revert} THEN {<<Run(d)>>} ELSE inside
        at   == {j \in DOMAIN step.depts : step.depts[j] = d}
        hits == {j \in DOMAIN step.branches : branch(step.branches[j]) # {}}
    IN CASE step.k = "seq"  -> IF at = {} THEN {}
                               ELSE {<<[step EXCEPT !.depts = SubSeq(@, Min(at), Len(@))]>>}
         [] step.k = "excl" -> IF hits = {} THEN {} ELSE branch(step.branches[Min(hits)])
         [] step.k = "call" -> FindRedirectTarget(step.body, d)

FindRedirectTarget(steps, d) ==
    LET hits == {j \in DOMAIN steps : RedirectWithinStep(steps[j], d) # {}} IN
    IF hits = {} THEN {}
    ELSE {c \o SubSeq(steps, Min(hits) + 1, Len(steps)) : c \in RedirectWithinStep(steps[Min(hits)], d)}

RECURSIVE CallPaths(_)

\* The paths of the boundaries of every sub-workflow below some steps.
CallPaths(steps) ==
    UNION {LET step == steps[j] IN
           CASE step.k = "seq"  -> {}
             [] step.k = "excl" -> UNION {CallPaths(b.steps) : b \in ToSet(step.branches)}
             [] step.k = "call" ->
                  LET own == {p.steps : p \in ToSet(step.errs) \cup ToSet(step.bnds)} IN
                  own \cup CallPaths(step.body) \cup UNION {CallPaths(p) : p \in own}
           : j \in DOMAIN steps}

BoundaryPaths(p) ==
    LET stages == UNION {ToSet(p.depts[d]) : d \in DOMAIN p.depts}
        own    == {b.steps : b \in UNION {ToSet(s.bnds) : s \in stages}}
    IN CallPaths(p.steps) \cup own \cup UNION {CallPaths(x) : x \in own}

\* Main route first, then the boundary paths, else the department alone.
RedirectSteps(p, d) ==
    LET onMain == FindRedirectTarget(p.steps, d)
        onPath == UNION {FindRedirectTarget(x, d) : x \in BoundaryPaths(p)}
    IN IF onMain # {} THEN onMain ELSE IF onPath # {} THEN onPath ELSE {<<Run(d)>>}

\* Every list of steps of a plan: its own, those of its boundaries, and those inside.
RECURSIVE Below(_)

Below(steps) ==
    {steps} \cup
    UNION {LET step == steps[j] IN
           CASE step.k = "seq"  -> {}
             [] step.k = "excl" -> UNION {Below(b.steps) : b \in ToSet(step.branches)}
             [] step.k = "call" ->
                  Below(step.body) \cup UNION {Below(p.steps) : p \in ToSet(step.errs) \cup ToSet(step.bnds)}
           : j \in DOMAIN steps}

StepLists(p) == Below(p.steps) \cup UNION {Below(x) : x \in BoundaryPaths(p)}

=============================================================================
