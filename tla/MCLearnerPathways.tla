-------------------------- MODULE MCLearnerPathways --------------------------
(* One learner with two concurrent requests on two careers. *)
EXTENDS LearnerPathways, TLC

CONSTANTS ann, c1, c2, s1, s2, s3, q1, q2

\* The first career starts with one step and may get a second one.
MCCareerOf == [s \in Steps |-> IF s = s3 THEN c2 ELSE c1]

Row(active, start) == [saved |-> TRUE, isActive |-> active, startStep |-> start]

\* The step it may get comes before it.
MCOrderOf == [s \in Steps |-> IF s = s2 THEN 1 ELSE 2]

\* A new learner, one with an active pathway, and one who has chosen its starting point
\* and saved a second pathway.
MCFirstPathways ==
    {ann :> rows : rows \in {(c1 :> NoRow) @@ (c2 :> NoRow),
                             (c1 :> Row(TRUE, Null)) @@ (c2 :> NoRow),
                             (c1 :> Row(TRUE, s1)) @@ (c2 :> Row(FALSE, Null))}}

=============================================================================
