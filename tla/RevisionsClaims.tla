--------------------------- MODULE RevisionsClaims ---------------------------
(***************************************************************************)
(* What the API documentation says of the editorial workflow and the       *)
(* service does not do.                                                    *)
(***************************************************************************)
EXTENDS Revisions

\* "the live career moved since the revision was based. Rebase and re-approve.":
\* an approved revision that publishRevision refuses as stale can be rebased.
StaleApprovalCanBeRebased ==
    \A r \in RevisionIds :
        revision[r].status = "APPROVED" /\ IsRevisionStale(r) =>
            \E actor \in Actors : ENABLED RebaseRevision(actor, r)

=============================================================================
