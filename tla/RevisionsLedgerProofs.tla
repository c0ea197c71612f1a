------------------------ MODULE RevisionsLedgerProofs ------------------------
(***************************************************************************)
(* The editorial workflow implements PublicationLedger, for every set of   *)
(* careers, revisions, staff, contents and steps.                          *)
(***************************************************************************)
EXTENDS RevisionsLedger, RevisionsProofs

-----------------------------------------------------------------------------
(***************************************************************************)
(* What the views show of a step.                                          *)
(***************************************************************************)
\* The reviews the approvals not spent yet are read from.
Approving == {w \in review : revision[w.revision].status = "APPROVED"}

\* Only decided revisions have a review, and each has one.
LEMMA ReviewsAreDecisions ==
    ASSUME Editorial
    PROVE  /\ \A v \in review : /\ v \in ReviewRow
                                /\ v.revision \in RevisionIds
                                /\ revision[v.revision].status \in Decisions \cup {"PUBLISHED"}
           /\ \A v, w \in review : v.revision = w.revision => v = w
           /\ \A v \in Approving : v.decision = "APPROVED"
BY DEF Editorial, TypeOK, RowTypes, ReviewRow, DecisionIsFinal, Decisions, Approving

\* What is granted changes with the approving reviews, as long as their revisions do not.
LEMMA GrantedFollows ==
    ASSUME \A v \in Approving' : v \in Approving => revision'[v.revision] = revision[v.revision]
    PROVE  GrantedView' = {ApprovalOf(v) : v \in Approving \cap Approving'}
                              \cup {ApprovalOf(v)' : v \in Approving' \ Approving}
<1>1. \A v \in Approving \cap Approving' : ApprovalOf(v)' = ApprovalOf(v)
    BY DEF ApprovalOf
<1>2. GrantedView' = {ApprovalOf(v)' : v \in Approving'}
    BY DEF GrantedView, Approving
<1> QED
    BY <1>1, <1>2

\* A step that touches neither the live content, nor decided revisions, nor reviews is none
\* of the ledger's.
LEMMA LedgerStutters ==
    ASSUME Editorial, LiveView' = LiveView, review' = review,
           \A r \in RevisionIds :
               \/ revision'[r] = revision[r]
               \/ /\ revision[r].status \notin Decisions \cup {"PUBLISHED"}
                  /\ revision'[r].status \notin Decisions \cup {"PUBLISHED"}
    PROVE  UNCHANGED <<LiveView, GrantedView, SpentView>>
<1>1. \A v \in review : revision'[v.revision] = revision[v.revision]
    BY ReviewsAreDecisions
<1>2. Approving' = Approving
    BY <1>1 DEF Approving
<1>3. GrantedView' = GrantedView
  <2>1. GrantedView' = {ApprovalOf(v) : v \in Approving}
      BY <1>1, <1>2, GrantedFollows DEF Approving
  <2> QED
      BY <2>1 DEF GrantedView, Approving
<1>4. SpentView' = SpentView
    BY DEF SpentView
<1> QED
    BY <1>3, <1>4

-----------------------------------------------------------------------------
(***************************************************************************)
(* Each step is one of the ledger.                                         *)
(***************************************************************************)
\* CreateCareer adds, DeleteCareer drops and RetireCareer retires an entry.
LEMMA CareerStepsOfLedger ==
    ASSUME HistoryInv, TypeOK', CareerNext
    PROVE  \E c \in Careers : Ledger!Add(c) \/ Ledger!Drop(c) \/ Ledger!Retire(c)
<1> PICK actor \in Actors, c \in Careers : \/ \E r \in RevisionIds : CreateCareer(actor, c, r)
                                           \/ DeleteCareer(actor, c)
                                           \/ RetireCareer(actor, c)
    BY DEF CareerNext
<1>0. /\ career \in [Careers -> CareerRow] /\ revision \in [RevisionIds -> RevisionRow]
      /\ LiveView[c].state = career[c].status
    BY DEF HistoryInv, Editorial, TypeOK, RowTypes, LiveView
<1>1. ASSUME NEW status, career' = [career EXCEPT ![c].status = status]
      PROVE  LiveView' = [LiveView EXCEPT ![c].state = status]
    BY <1>0, <1>1 DEF LiveView, CareerRow
<1>2. CASE \E r \in RevisionIds : CreateCareer(actor, c, r)
  <2> PICK r \in RevisionIds : CreateCareer(actor, c, r)
      BY <1>2
  <2>1. \A v \in review : revision'[v.revision] = revision[v.revision]
      BY <1>0, ReviewsAreDecisions DEF CreateCareer, HistoryInv, Decisions
  <2>2. Approving' = Approving
      BY <2>1 DEF Approving, CreateCareer
  <2>3. GrantedView' = GrantedView
      BY <2>1, <2>2, GrantedFollows DEF Approving, GrantedView
  <2>4. SpentView' = SpentView
      BY <1>0 DEF SpentView, CreateCareer
  <2>5. Ledger!Add(c)
      BY <1>0, <1>1, <2>3, <2>4 DEF Ledger!Add, CreateCareer
  <2> QED
      BY <2>5
<1>3. CASE DeleteCareer(actor, c)
  <2>1. Approving' = {v \in Approving : revision[v.revision].career # c}
      BY <1>0, <1>3, ReviewsAreDecisions DEF Approving, DeleteCareer, HistoryInv
  <2>2. \A v \in Approving' : revision'[v.revision] = revision[v.revision]
      BY <1>3, <2>1, ReviewsAreDecisions DEF Approving, DeleteCareer, HistoryInv
  <2>3. GrantedView' = {a \in GrantedView : a.career # c}
    <3>1. GrantedView' = {ApprovalOf(v) : v \in Approving'}
        BY <2>1, <2>2, GrantedFollows
    <3> QED
        BY <2>1, <3>1 DEF GrantedView, Approving, ApprovalOf
  <2>4. \A r \in RevisionIds : revision[r].status = "PUBLISHED" => revision[r].career # c
      BY <1>3 DEF HistoryInv, Recorded, DeleteCareer, IsDeletable
  <2>5. SpentView' = SpentView
      BY <1>0, <1>3, <2>4 DEF SpentView, DeleteCareer, RevisionRow
  <2>6. Ledger!Drop(c)
      BY <1>0, <1>1, <1>3, <2>3, <2>5 DEF Ledger!Drop, DeleteCareer, IsDeletable
  <2> QED
      BY <2>6
<1>4. CASE RetireCareer(actor, c)
  <2>1. GrantedView' = GrantedView /\ SpentView' = SpentView
      BY <1>4 DEF GrantedView, SpentView, ApprovalOf, RetireCareer
  <2>2. Ledger!Retire(c)
      BY <1>0, <1>1, <1>4, <2>1 DEF Ledger!Retire, RetireCareer
  <2> QED
      BY <2>2
<1> QED
    BY <1>2, <1>3, <1>4

\* A review that approves grants, one that rejects is none of the ledger's.
LEMMA ReviewStepOfLedger ==
    ASSUME HistoryInv, TypeOK', NEW actor \in Actors, NEW r \in RevisionIds,
           NEW decision \in Decisions, ReviewRevision(actor, r, decision)
    PROVE  Ledger!LedgerNext \/ UNCHANGED <<LiveView, GrantedView, SpentView>>
<1> DEFINE c == revision[r].career
           author == revision[r].creator
           new == [revision |-> r, reviewer |-> actor.id, decision |-> decision,
                   asAdmin |-> actor.role = "ADMIN", live |-> career[c].content,
                   snapshot |-> revision[r].snapshot]
<1>1. /\ revision[r].status = "IN_REVIEW" /\ InDatabase(r)
      /\ review' = review \cup {new}
      /\ revision' = [revision EXCEPT ![r].status = decision]
      /\ career' = career
    BY DEF ReviewRevision, IsInReview, InDatabase
<1>2. /\ c \in Careers /\ Exists(c) /\ author \in Staff /\ actor.id \in Staff
      /\ revision[r].snapshot \in Contents
      /\ revision \in [RevisionIds -> RevisionRow]
    BY <1>1, RevisionRowFields, ActorFields DEF HistoryInv, Recorded, Editorial, TypeOK, RowTypes
<1>3. /\ \A q \in RevisionIds : q # r => revision'[q] = revision[q]
      /\ revision'[r] = [revision[r] EXCEPT !.status = decision]
      /\ revision'[r].status = decision
    BY <1>1, <1>2 DEF RevisionRow
<1>4. \A v \in review : v.revision # r /\ v.revision \in RevisionIds
    BY <1>1, ReviewsAreDecisions DEF HistoryInv, Decisions
<1>5. LiveView' = LiveView /\ SpentView' = SpentView
    BY <1>1, <1>3 DEF LiveView, SpentView, Decisions
<1>6. Approving' = Approving \cup {v \in {new} : decision = "APPROVED"}
    BY <1>1, <1>3, <1>4 DEF Approving
<1>7. \A v \in Approving : revision'[v.revision] = revision[v.revision]
    BY <1>3, <1>4 DEF Approving
<1>8. CASE decision = "REJECTED"
  <2>1. Approving' = Approving
      BY <1>6, <1>8
  <2>2. GrantedView' = GrantedView
      BY <1>7, <2>1, GrantedFollows DEF GrantedView, Approving
  <2> QED
      BY <1>5, <2>2
<1>9. CASE decision = "APPROVED"
  <2> PICK v : v = new
      OBVIOUS
  <2>1. v \notin Approving /\ Approving' = Approving \cup {v}
      BY <1>4, <1>6, <1>9 DEF Approving
  <2>2. GrantedView' = GrantedView \cup {ApprovalOf(v)'}
    <3>1. GrantedView' = {ApprovalOf(w) : w \in Approving \cap Approving'}
                              \cup {ApprovalOf(w)' : w \in Approving' \ Approving}
        BY <1>7, GrantedFollows
    <3>2. Approving \cap Approving' = Approving /\ Approving' \ Approving = {v}
        BY <2>1
    <3>3. GrantedView = {ApprovalOf(w) : w \in Approving}
        BY DEF GrantedView, Approving
    <3> QED
        BY <3>1, <3>2, <3>3 DEF ApprovalOf
  <2>3. ApprovalOf(v)' = [id |-> r, career |-> c, base |-> career[c].version,
                          before |-> career[c].content, after |-> revision[r].snapshot,
                          author |-> author, approver |-> actor.id,
                          override |-> actor.role = "ADMIN"]
    <3>1. revision[r].baseVersion = career[c].version
        BY <1>9 DEF ReviewRevision, IsRevisionStale
    <3>2. revision'[r].career = c /\ revision'[r].baseVersion = career[c].version
          /\ revision'[r].snapshot = revision[r].snapshot /\ revision'[r].creator = author
        BY <1>2, <1>3, <3>1 DEF RevisionRow
    <3> QED
        BY <3>2 DEF ApprovalOf
  <2>4. r \notin SpentView /\ \A a \in GrantedView : a.id # r
      BY <1>1, <1>4 DEF SpentView, GrantedView, ApprovalOf
  <2>5. /\ LiveView[c].state \notin {"ABSENT", "DELETED"}
        /\ LiveView[c].version = career[c].version /\ LiveView[c].content = career[c].content
      BY <1>2 DEF LiveView, Exists
  <2>6. actor.id # author \/ actor.role = "ADMIN"
      BY DEF ReviewRevision, IsSelfReviewBlocked
  <2>7. Ledger!Grant(r, c, revision[r].snapshot, author, actor.id, actor.role = "ADMIN")
      BY <1>5, <2>2, <2>3, <2>4, <2>5, <2>6 DEF Ledger!Grant
  <2> QED
      BY <1>2, <2>7 DEF Ledger!LedgerNext
<1> QED
    BY <1>8, <1>9 DEF Decisions

\* A publication spends the approval of its revision.
LEMMA PublishStepOfLedger ==
    ASSUME HistoryInv, TypeOK', NEW actor \in Actors, NEW r \in RevisionIds, PublishRevision(actor, r)
    PROVE  Ledger!LedgerNext
<1> DEFINE c == revision[r].career
<1>1. PICK v \in ApprovingReviews(r) :
          career' = [career EXCEPT ![c] =
                       [status        |-> "PUBLISHED",
                        version       |-> career[c].version + 1,
                        content       |-> revision[r].snapshot,
                        everPublished |-> TRUE,
                        publishedBy   |-> actor.id,
                        reviewedBy    |-> v.reviewer]]
    BY DEF PublishRevision
<1>2. /\ revision[r].status = "APPROVED" /\ revision[r].baseVersion = career[c].version
      /\ revision' = [revision EXCEPT ![r].status = "PUBLISHED"]
      /\ review' = review
    BY DEF PublishRevision, IsRevisionStale
<1>3. /\ c \in Careers /\ career \in [Careers -> CareerRow]
      /\ revision \in [RevisionIds -> RevisionRow]
    BY <1>2, RevisionRowFields DEF HistoryInv, Editorial, TypeOK, RowTypes, InDatabase
<1>4. v \in Approving /\ v.revision = r /\ v.live = career[c].content
    BY <1>2 DEF ApprovingReviews, Approving, HistoryInv, Editorial, ApprovalCoversPublication,
           IsRevisionStale
<1>5. /\ \A q \in RevisionIds : q # r => revision'[q] = revision[q]
      /\ revision'[r].status = "PUBLISHED"
    BY <1>2, <1>3 DEF RevisionRow
<1>6. Approving' = Approving \ {v}
    BY <1>2, <1>4, <1>5, ReviewsAreDecisions DEF Approving, HistoryInv
<1>7. \A w \in Approving' : revision'[w.revision] = revision[w.revision]
    BY <1>4, <1>5, <1>6, ReviewsAreDecisions DEF Approving, HistoryInv
<1>8. GrantedView' = GrantedView \ {ApprovalOf(v)}
  <2>1. GrantedView' = {ApprovalOf(w) : w \in Approving \ {v}}
      BY <1>6, <1>7, GrantedFollows
  <2>2. \A w \in Approving : ApprovalOf(w) = ApprovalOf(v) => w = v
    <3>1. \A w \in Approving : ApprovalOf(w).id = w.revision
        BY DEF ApprovalOf
    <3> QED
        BY <1>4, <3>1, ReviewsAreDecisions DEF Approving, HistoryInv
  <2> QED
      BY <1>4, <2>1, <2>2 DEF GrantedView, Approving
<1>9. SpentView' = SpentView \cup {r}
    BY <1>5 DEF SpentView
<1>10. LiveView' = [LiveView EXCEPT ![c] = [state |-> "PUBLISHED", version |-> career[c].version + 1,
                                            content |-> revision[r].snapshot]]
    BY <1>1, <1>3 DEF LiveView
<1>11. LiveView[c].version = career[c].version /\ LiveView[c].content = career[c].content
    BY <1>3 DEF LiveView
<1>12. /\ ApprovalOf(v).id = r /\ ApprovalOf(v).career = c
       /\ ApprovalOf(v).base = career[c].version /\ ApprovalOf(v).before = career[c].content
       /\ ApprovalOf(v).after = revision[r].snapshot
    BY <1>2, <1>4 DEF ApprovalOf
<1>13. Ledger!Publish(ApprovalOf(v))
    BY <1>8, <1>9, <1>10, <1>11, <1>12 DEF Ledger!Publish
<1>14. ApprovalOf(v) \in GrantedView
    BY <1>4 DEF GrantedView, Approving
<1> QED
    BY <1>13, <1>14 DEF Ledger!LedgerNext

\* Every other operation on revisions handles undecided ones.
LEMMA DraftStepsOfLedger ==
    ASSUME HistoryInv, NEW actor \in Actors, NEW r \in RevisionIds,
           \/ \E c \in Careers, content \in Contents : OpenRevision(actor, c, r, content)
           \/ \E content \in Contents : SaveDraftRevision(actor, r, content)
           \/ SubmitRevision(actor, r) \/ RebaseRevision(actor, r)
           \/ RecallRevision(actor, r) \/ DeleteDraftRevision(actor, r)
    PROVE  UNCHANGED <<LiveView, GrantedView, SpentView>>
<1> revision \in [RevisionIds -> RevisionRow]
    BY DEF HistoryInv, Editorial, TypeOK, RowTypes
<1>1. /\ revision[r].status \notin Decisions \cup {"PUBLISHED"}
      /\ revision'[r].status \notin Decisions \cup {"PUBLISHED"}
      /\ \A q \in RevisionIds \ {r} : revision'[q] = revision[q]
    BY DEF OpenRevision, SaveDraftRevision, SubmitRevision, RebaseRevision, RecallRevision,
           DeleteDraftRevision, IsDraft, IsInReview, RevisionRow, Decisions
<1>2. review' = review
    BY <1>1, ReviewsAreDecisions DEF OpenRevision, SaveDraftRevision, SubmitRevision,
           RebaseRevision, RecallRevision, DeleteDraftRevision, HistoryInv
<1>3. LiveView' = LiveView
    BY DEF OpenRevision, SaveDraftRevision, SubmitRevision, RebaseRevision, RecallRevision,
           DeleteDraftRevision, LiveView
<1> QED
    BY <1>1, <1>2, <1>3, LedgerStutters DEF HistoryInv

\* Every step of the workflow is a step of the ledger or leaves it unchanged.
LEMMA StepOfLedger ==
    ASSUME HistoryInv, [Next]_vars
    PROVE  [Ledger!LedgerNext]_<<LiveView, GrantedView, SpentView>>
<1>1. TypeOK'
    BY NextTypeOK DEF HistoryInv, Editorial
<1>2. CASE CareerNext
    BY <1>1, <1>2, CareerStepsOfLedger DEF Ledger!LedgerNext
<1>3. CASE RevisionNext
  <2> PICK actor \in Actors, r \in RevisionIds :
        \/ \E c \in Careers, content \in Contents : OpenRevision(actor, c, r, content)
        \/ \E content \in Contents : SaveDraftRevision(actor, r, content)
        \/ SubmitRevision(actor, r)
        \/ RebaseRevision(actor, r)
        \/ RecallRevision(actor, r)
        \/ \E decision \in Decisions : ReviewRevision(actor, r, decision)
        \/ PublishRevision(actor, r)
        \/ DeleteDraftRevision(actor, r)
      BY <1>3 DEF RevisionNext
  <2> QED
      BY <1>1, ReviewStepOfLedger, PublishStepOfLedger, DraftStepsOfLedger
<1>4. CASE LearnerNext \/ UNCHANGED vars
  <2>1. career' = career /\ revision' = revision /\ review' = review
      BY <1>4 DEF LearnerNext, SetActivePathway, SetStepStatus, vars
  <2> QED
      BY <2>1, LedgerStutters DEF HistoryInv, LiveView
<1> QED
    BY <1>2, <1>3, <1>4 DEF Next

\* The live catalogue changes only by spending approvals, each given by somebody else or an
\* overriding ADMIN, for the content it replaces, and at most once: the workflow implements
\* the ledger.
THEOREM WorkflowKeepsLedger == Spec => KeepsLedger
<1>1. Init => Ledger!LedgerInit
    BY DEF Init, Ledger!LedgerInit, LiveView, GrantedView, SpentView
<1>2. HistoryInv /\ [Next]_vars => [Ledger!LedgerNext]_<<LiveView, GrantedView, SpentView>>
    BY StepOfLedger
<1> QED
    BY <1>1, <1>2, HistoryInvHolds, PTL DEF Spec, KeepsLedger, Ledger!LedgerSpec, Ledger!ledger

=============================================================================
