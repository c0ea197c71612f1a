--------------------------- MODULE RevisionsLedger ---------------------------
(***************************************************************************)
(* The editorial workflow keeps the promises of PublicationLedger: an      *)
(* approval is the approving review of an APPROVED revision, and it is     *)
(* spent once the revision is PUBLISHED.                                   *)
(***************************************************************************)
EXTENDS Revisions

LiveView ==
    [c \in Careers |-> [state   |-> career[c].status,
                        version |-> career[c].version,
                        content |-> career[c].content]]

\* The approval a review gave, read from the review and the revision's row.
ApprovalOf(v) ==
    [id       |-> v.revision,
     career   |-> revision[v.revision].career,
     base     |-> revision[v.revision].baseVersion,
     before   |-> v.live,
     after    |-> revision[v.revision].snapshot,
     author   |-> revision[v.revision].creator,
     approver |-> v.reviewer,
     override |-> v.asAdmin]

GrantedView ==
    {ApprovalOf(v) : v \in {w \in review : revision[w.revision].status = "APPROVED"}}

SpentView == {r \in RevisionIds : revision[r].status = "PUBLISHED"}

Ledger == INSTANCE PublicationLedger WITH
              Ids <- RevisionIds,
              live <- LiveView, granted <- GrantedView, spent <- SpentView

\* Every step of the workflow is a step of the ledger or leaves it unchanged.
KeepsLedger == Ledger!LedgerSpec

=============================================================================
