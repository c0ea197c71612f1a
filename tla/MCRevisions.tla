----------------------------- MODULE MCRevisions -----------------------------
(* An instance of Revisions small enough for TLC. *)
EXTENDS RevisionsLedger, RevisionsClaims

CONSTANTS c1, c2, r1, r2, ada, ben, cy, blank, one, two, s1, s2

\* Two staff members who may do anything but override, and an ADMIN.
MCActors ==
    {[id |-> ada, role |-> "PUBLISHER"], [id |-> ben, role |-> "PUBLISHER"],
     [id |-> cy, role |-> "ADMIN"]}

\* An author and a reviewer who may override.
MCTwoActors == {[id |-> ada, role |-> "PUBLISHER"], [id |-> cy, role |-> "ADMIN"]}

\* One caller's revisions are also opened by hand.
MCOpeners == {[id |-> ada, role |-> "PUBLISHER"]}

\* "two" keeps the step of "one" and adds a second, so that going back from
\* "two" to "one" removes a step.
MCStepsOf ==
    [content \in Contents |->
        CASE content = blank -> {} [] content = one -> {s1} [] content = two -> {s1, s2}]

\* Where the steps do not matter: both complete contents have the same one.
MCOneStep == [content \in Contents |-> IF content = blank THEN {} ELSE {s1}]

=============================================================================
