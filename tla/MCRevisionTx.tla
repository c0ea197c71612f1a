---------------------------- MODULE MCRevisionTx ----------------------------
(* Two concurrent requests on one career, published or not yet created. *)
EXTENDS RevisionTx, TLC

CONSTANTS c1, r1, r2, q1, q2, ada, cy, blank, one, two, s1, s2

MCActors == {[id |-> ada, role |-> "PUBLISHER"], [id |-> cy, role |-> "ADMIN"]}

MCOpeners == {[id |-> ada, role |-> "PUBLISHER"]}

MCStepsOf ==
    [content \in Contents |->
        CASE content = blank -> {} [] content = one -> {s1} [] content = two -> {s1, s2}]

\* A revision ada based on the first version.  It removes step s2.
Row(status) ==
    [status |-> status, career |-> c1, baseVersion |-> 1, snapshot |-> one, creator |-> ada]

\* The approval cy gave it.
ApprovalBy(r, someone) ==
    [revision |-> r, reviewer |-> someone, decision |-> "APPROVED", asAdmin |-> TRUE,
     live |-> SeedContent, snapshot |-> one]

CareerOf(status, content) ==
    [status |-> status, version |-> 1, content |-> content,
     everPublished |-> status = "PUBLISHED", publishedBy |-> Null, reviewedBy |-> Null]

\* A published career with an approved revision and one at any earlier stage.
Published ==
    {[career   |-> [c \in Careers |-> CareerOf("PUBLISHED", SeedContent)],
      revision |-> (r1 :> Row(first)) @@ (r2 :> Row("APPROVED")),
      review   |-> {ApprovalBy(r2, cy)}
                       \cup (IF first = "APPROVED" THEN {ApprovalBy(r1, cy)} ELSE {})]
        : first \in {"DRAFT", "IN_REVIEW", "APPROVED"}}

\* No career and no revision yet.
Empty ==
    [career   |-> [c \in Careers |-> CareerOf("ABSENT", Blank)],
     revision |-> [r \in RevisionIds |->
                      [status |-> "ABSENT", career |-> Null, baseVersion |-> 1,
                       snapshot |-> Blank, creator |-> Null]],
     review   |-> {}]

MCFirstTables == Published \cup {Empty}

=============================================================================
