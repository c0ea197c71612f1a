------------------------------ MODULE Progress ------------------------------
(***************************************************************************)
(* How far a learner is on a pathway: the functions of progress.ts, on the *)
(* ids of the steps, their orders, and the learner's statuses, of which    *)
(* "ABSENT" stands for a step without a row.                               *)
(***************************************************************************)
EXTENDS Integers, FiniteSets

Null == "NULL"

MaxSteps == 100

ComputeStepStatuses(steps, userSteps) ==
    [s \in steps |-> IF userSteps[s] = "ABSENT" THEN "NOT_STARTED" ELSE userSteps[s]]

\* The order of the step, if it is one of them.
FindStepOrder(steps, order, step) == {order[s] : s \in steps \cap {step}}

\* The whole numbers nearest to the percentage: of two as near, the floating
\* point quotient may be rounded to either.
Percentages(completed, total) ==
    IF total = 0 THEN {0}
    ELSE {p \in 0..100 : 2 * (100 * completed - total * p) \in (-total)..total}

\* Mutant: the steps before the starting point are forgotten.
Candidates_FromStart(incomplete, order, start) ==
    {s \in incomplete : \A o \in start : order[s] >= o}

\* The incomplete steps from the starting point on or, if there are none, all.
Candidates(incomplete, order, start) ==
    LET fromStart == {s \in incomplete : \E o \in start : order[s] >= o} IN
    IF fromStart # {} THEN fromStart ELSE incomplete

\* Of an empty set, Null.
Earliest(steps, order) ==
    IF steps = {} THEN Null
    ELSE CHOOSE s \in steps : \A other \in steps : order[s] <= order[other]

ComputeProgress(steps, order, userSteps, start) ==
    LET statuses == ComputeStepStatuses(steps, userSteps)
        incomplete == {s \in steps : statuses[s] # "COMPLETED"}
        completed == Cardinality(steps) - Cardinality(incomplete) IN
    [completed   |-> completed,
     total       |-> Cardinality(steps),
     percentages |-> Percentages(completed, Cardinality(steps)),
     nextStepId  |-> Earliest(Candidates(incomplete, order, start), order)]

=============================================================================
