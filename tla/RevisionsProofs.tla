--------------------------- MODULE RevisionsProofs ---------------------------
(***************************************************************************)
(* Proofs about the editorial workflow, for every set of careers,          *)
(* revisions, staff, contents and steps.                                   *)
(***************************************************************************)
EXTENDS Revisions, TLAPS

(***************************************************************************)
(* Type correctness.                                                       *)
(***************************************************************************)

\* What the typing of the rows gives about one revision in the database.
LEMMA RevisionRowFields ==
    ASSUME TypeOK, NEW r \in RevisionIds
    PROVE  /\ revision[r] \in RevisionRow
           /\ revision[r].status \in RevisionStatuses
           /\ revision[r].baseVersion \in Nat
           /\ revision[r].snapshot \in Contents
           /\ revision[r].creator \in Staff \cup {Null}
           /\ InDatabase(r) => /\ revision[r].career \in Careers
                               /\ Exists(revision[r].career)
BY DEF TypeOK, RowTypes, ForeignKeys, RevisionRow

\* ... and about one career.
LEMMA CareerRowFields ==
    ASSUME TypeOK, NEW c \in Careers
    PROVE  /\ career[c] \in CareerRow
           /\ career[c].status \in CareerStatuses
           /\ career[c].version \in Nat \ {0}
           /\ career[c].content \in Contents
           /\ completed[c] \in SUBSET Steps
BY DEF TypeOK, RowTypes, CareerRow

\* Each caller is a staff member.
LEMMA ActorFields ==
    ASSUME NEW actor \in Actors
    PROVE  actor.id \in Staff /\ actor.role \in Roles
BY ActorsAssumption

\* The tables the seed script loads are well typed.
LEMMA InitTypeOK == Init => TypeOK
BY ContentsAssumption, SeedAssumption
   DEF Init, TypeOK, RowTypes, ForeignKeys, InDatabase, CareerRow, RevisionRow,
       CareerStatuses, RevisionStatuses

\* Every action of careers keeps the types.
LEMMA CareerNextTypeOK == TypeOK /\ CareerNext => TypeOK'
<1> SUFFICES ASSUME TypeOK, NEW actor \in Actors, NEW c \in Careers,
                    \/ \E r \in RevisionIds : CreateCareer(actor, c, r)
                    \/ DeleteCareer(actor, c)
                    \/ RetireCareer(actor, c)
             PROVE  TypeOK'
    BY DEF CareerNext
<1> USE DEF TypeOK, RowTypes
<1>1. CASE \E r \in RevisionIds : CreateCareer(actor, c, r)
  <2> PICK r \in RevisionIds : CreateCareer(actor, c, r)
      BY <1>1
  <2>1. actor.id \in Staff
      BY ActorFields
  <2>2. career' \in [Careers -> CareerRow]
      BY DEF CreateCareer, CareerRow, CareerStatuses
  <2>3. revision' \in [RevisionIds -> RevisionRow]
      BY <2>1, ContentsAssumption DEF CreateCareer, RevisionRow, RevisionStatuses
  <2>4. ForeignKeys'
      BY DEF CreateCareer, ForeignKeys, InDatabase, Exists, CareerRow, ReviewRow,
             RevisionRow
  <2> QED
      BY <2>2, <2>3, <2>4 DEF CreateCareer
<1>2. CASE DeleteCareer(actor, c)
  <2>1. career' \in [Careers -> CareerRow]
      BY <1>2 DEF DeleteCareer, CareerRow, CareerStatuses
  <2>2. revision' \in [RevisionIds -> RevisionRow]
      BY <1>2 DEF DeleteCareer, RevisionRow, RevisionStatuses
  <2>3. ForeignKeys'
      BY <1>2 DEF DeleteCareer, ForeignKeys, InDatabase, Exists, CareerRow, ReviewRow,
                  RevisionRow
  <2> QED
      BY <1>2, <2>1, <2>2, <2>3 DEF DeleteCareer
<1>3. CASE RetireCareer(actor, c)
  <2>1. career' \in [Careers -> CareerRow]
      BY <1>3 DEF RetireCareer, CareerRow, CareerStatuses
  <2>2. ForeignKeys'
      BY <1>3 DEF RetireCareer, ForeignKeys, InDatabase, Exists, CareerRow, ReviewRow,
                  RevisionRow
  <2> QED
      BY <1>3, <2>1, <2>2 DEF RetireCareer
<1> QED
    BY <1>1, <1>2, <1>3

\* Every action of revisions keeps the types.
LEMMA RevisionNextTypeOK == TypeOK /\ RevisionNext => TypeOK'
<1> SUFFICES ASSUME TypeOK, NEW actor \in Actors, NEW r \in RevisionIds,
                    \/ \E c \in Careers, content \in Contents :
                           OpenRevision(actor, c, r, content)
                    \/ \E content \in Contents : SaveDraftRevision(actor, r, content)
                    \/ SubmitRevision(actor, r)
                    \/ RebaseRevision(actor, r)
                    \/ RecallRevision(actor, r)
                    \/ \E decision \in Decisions : ReviewRevision(actor, r, decision)
                    \/ PublishRevision(actor, r)
                    \/ DeleteDraftRevision(actor, r)
             PROVE  TypeOK'
    BY DEF RevisionNext
<1> USE DEF TypeOK, RowTypes
<1>1. ASSUME NEW c \in Careers, NEW content \in Contents,
             OpenRevision(actor, c, r, content)
      PROVE  TypeOK'
  <2>1. revision' \in [RevisionIds -> RevisionRow]
      BY <1>1, ActorFields, CareerRowFields DEF OpenRevision, RevisionRow, RevisionStatuses
  <2>2. ForeignKeys'
      BY <1>1 DEF OpenRevision, ForeignKeys, InDatabase, Exists, CareerRow, ReviewRow,
                  RevisionRow
  <2> QED
      BY <1>1, <2>1, <2>2 DEF OpenRevision
<1>2. ASSUME NEW content \in Contents, SaveDraftRevision(actor, r, content)
      PROVE  TypeOK'
  <2>1. revision' \in [RevisionIds -> RevisionRow]
      BY <1>2 DEF SaveDraftRevision, RevisionRow
  <2>2. ForeignKeys'
      BY <1>2 DEF SaveDraftRevision, ForeignKeys, InDatabase, Exists, CareerRow, ReviewRow,
                  RevisionRow
  <2> QED
      BY <1>2, <2>1, <2>2 DEF SaveDraftRevision
<1>3. CASE SubmitRevision(actor, r)
  <2>1. revision' \in [RevisionIds -> RevisionRow]
      BY <1>3, RevisionRowFields DEF SubmitRevision, RevisionRow, RevisionStatuses, IsDraft
  <2>2. ForeignKeys'
      BY <1>3, RevisionRowFields DEF SubmitRevision, ForeignKeys, InDatabase, Exists, CareerRow, ReviewRow,
                  RevisionRow, IsDraft
  <2> QED
      BY <1>3, <2>1, <2>2 DEF SubmitRevision
<1>4. CASE RebaseRevision(actor, r)
  <2>1. revision[r].career \in Careers
      BY <1>4, RevisionRowFields DEF RebaseRevision, IsDraft, InDatabase
  <2>2. career[revision[r].career].version \in Nat
      BY <2>1, CareerRowFields
  <2>3. revision' \in [RevisionIds -> RevisionRow]
      BY <1>4, <2>2 DEF RebaseRevision, RevisionRow
  <2>4. ForeignKeys'
      BY <1>4 DEF RebaseRevision, ForeignKeys, InDatabase, Exists, CareerRow, ReviewRow,
                  RevisionRow
  <2> QED
      BY <1>4, <2>3, <2>4 DEF RebaseRevision
<1>5. CASE RecallRevision(actor, r)
  <2>1. revision' \in [RevisionIds -> RevisionRow]
      BY <1>5, RevisionRowFields DEF RecallRevision, RevisionRow, RevisionStatuses, IsInReview
  <2>2. ForeignKeys'
      BY <1>5, RevisionRowFields DEF RecallRevision, ForeignKeys, InDatabase, Exists, CareerRow, ReviewRow,
                  RevisionRow, IsInReview
  <2> QED
      BY <1>5, <2>1, <2>2 DEF RecallRevision
<1>6. ASSUME NEW decision \in Decisions, ReviewRevision(actor, r, decision)
      PROVE  TypeOK'
  <2>1. revision[r].career \in Careers /\ InDatabase(r)
      BY <1>6, RevisionRowFields DEF ReviewRevision, IsInReview, InDatabase
  <2>2. revision' \in [RevisionIds -> RevisionRow]
      BY <1>6 DEF ReviewRevision, RevisionRow, RevisionStatuses, Decisions
  <2>3. [revision |-> r, reviewer |-> actor.id, decision |-> decision,
         asAdmin |-> actor.role = "ADMIN",
         live |-> career[revision[r].career].content,
         snapshot |-> revision[r].snapshot] \in ReviewRow
      BY <2>1, ActorFields, CareerRowFields, RevisionRowFields DEF ReviewRow
  <2>4. review' \subseteq ReviewRow
      BY <1>6, <2>3 DEF ReviewRevision
  <2>5. ForeignKeys'
      BY <1>6, <2>1, <2>3 DEF ReviewRevision, ForeignKeys, InDatabase, Exists, CareerRow,
                              ReviewRow, RevisionRow, Decisions
  <2> QED
      BY <1>6, <2>2, <2>4, <2>5 DEF ReviewRevision
<1>7. CASE PublishRevision(actor, r)
  <2> DEFINE c == revision[r].career
  <2>1. c \in Careers
      BY <1>7, RevisionRowFields DEF PublishRevision, InDatabase
  <2>2. PICK approval \in ApprovingReviews(r) :
            career' = [career EXCEPT ![c] =
                         [status        |-> "PUBLISHED",
                          version       |-> career[c].version + 1,
                          content       |-> revision[r].snapshot,
                          everPublished |-> TRUE,
                          publishedBy   |-> actor.id,
                          reviewedBy    |-> approval.reviewer]]
      BY <1>7 DEF PublishRevision
  <2>3. approval.reviewer \in Staff /\ actor.id \in Staff
      BY <2>2, ActorFields DEF ApprovingReviews, ReviewRow
  <2>4. career' \in [Careers -> CareerRow]
      BY <2>1, <2>2, <2>3, RevisionRowFields, CareerRowFields DEF CareerRow, CareerStatuses
  <2>5. revision' \in [RevisionIds -> RevisionRow]
      BY <1>7 DEF PublishRevision, RevisionRow, RevisionStatuses
  <2>6. completed' = [completed EXCEPT ![c] = completed[c] \ RemovedSteps(r)]
      BY <1>7 DEF PublishRevision
  <2>7. \A d \in Careers : completed'[d] \subseteq StepsOf[career'[d].content]
    <3>1. completed[c] \ RemovedSteps(r) \subseteq StepsOf[revision[r].snapshot]
        BY <2>1 DEF ForeignKeys, RemovedSteps
    <3> QED
        BY <2>1, <2>2, <2>6, <3>1 DEF ForeignKeys
  <2>8. ForeignKeys'
      BY <1>7, <2>1, <2>2, <2>7 DEF PublishRevision, ForeignKeys, InDatabase, Exists,
                                    CareerRow, ReviewRow, RevisionRow
  <2> QED
      BY <1>7, <2>1, <2>4, <2>5, <2>6, <2>8, CareerRowFields DEF PublishRevision
<1>8. CASE DeleteDraftRevision(actor, r)
  <2>1. revision' \in [RevisionIds -> RevisionRow]
      BY <1>8, RevisionRowFields DEF DeleteDraftRevision, RevisionRow, RevisionStatuses, IsDraft
  <2>2. ForeignKeys'
      BY <1>8, RevisionRowFields DEF DeleteDraftRevision, ForeignKeys, InDatabase, Exists, CareerRow, ReviewRow,
                  RevisionRow, IsDraft
  <2> QED
      BY <1>8, <2>1, <2>2 DEF DeleteDraftRevision
<1> QED
    BY <1>1, <1>2, <1>3, <1>4, <1>5, <1>6, <1>7, <1>8

\* Learners keep the types.
LEMMA LearnerNextTypeOK == TypeOK /\ LearnerNext => TypeOK'
<1> SUFFICES ASSUME TypeOK, NEW c \in Careers,
                    \/ SetActivePathway(c)
                    \/ \E s \in Steps : SetStepStatus(c, s)
             PROVE  TypeOK'
    BY DEF LearnerNext
<1>1. CASE SetActivePathway(c)
    BY <1>1 DEF SetActivePathway, TypeOK, RowTypes, ForeignKeys, InDatabase, Exists
<1>2. ASSUME NEW s \in Steps, SetStepStatus(c, s)
      PROVE  TypeOK'
    BY <1>2 DEF SetStepStatus, TypeOK, RowTypes, ForeignKeys, InDatabase, Exists
<1> QED
    BY <1>1, <1>2

\* So does every step of the system, a stuttering one too.
LEMMA NextTypeOK == TypeOK /\ [Next]_vars => TypeOK'
<1>1. TypeOK /\ UNCHANGED vars => TypeOK'
    BY DEF vars, TypeOK, RowTypes, ForeignKeys, InDatabase, Exists
<1> QED
    BY <1>1, CareerNextTypeOK, RevisionNextTypeOK, LearnerNextTypeOK DEF Next

\* Rows keep their types and foreign keys never dangle, whatever the staff,
\* the learners and the contents.
THEOREM TypeCorrect == Spec => []TypeOK
BY InitTypeOK, NextTypeOK, PTL DEF Spec

-----------------------------------------------------------------------------
(***************************************************************************)
(* The editorial invariant.  None of its parts is inductive alone: that an *)
(* approval still covers what would be published needs the bound on bases, *)
(* for only then does a publication make every other approval stale, and   *)
(* that a decision is final needs each review to have left its status on   *)
(* its revision.                                                           *)
(***************************************************************************)
Editorial ==
    /\ TypeOK
    /\ DecisionIsFinal
    /\ FourEyes
    /\ EachVersionOnce
    /\ ApprovalCoversPublication

\* The editorial invariant holds of the seeded tables, which have no review.
LEMMA InitEditorial == Init => Editorial
<1> SUFFICES ASSUME Init PROVE Editorial
    OBVIOUS
<1>1. TypeOK
    BY InitTypeOK
<1> QED
    BY <1>1 DEF Init, Editorial, DecisionIsFinal, FourEyes, EachVersionOnce,
                ApprovalCoversPublication, InDatabase

\* A step that touches no review, no content and no version, and that changes
\* of revisions at most drafts and new rows, keeps the editorial invariant.
LEMMA QuietStepEditorial ==
    ASSUME Editorial, TypeOK',
           review' = review,
           \A c \in Careers : /\ career'[c].content = career[c].content
                              /\ career'[c].version = career[c].version,
           \A r \in RevisionIds :
               \/ revision'[r] = revision[r]
               \/ /\ revision[r].status \in {"ABSENT", "DRAFT", "IN_REVIEW"}
                  /\ revision'[r].status \in {"DRAFT", "IN_REVIEW"}
                  /\ revision'[r].baseVersion <= career[revision'[r].career].version
    PROVE  Editorial'
<1>1. \A v \in review : /\ v.revision \in RevisionIds
                        /\ revision[v.revision].status \in {"APPROVED", "REJECTED", "PUBLISHED"}
                        /\ revision'[v.revision] = revision[v.revision]
    BY DEF Editorial, TypeOK, RowTypes, ReviewRow, DecisionIsFinal, Decisions
<1>2. \A r \in RevisionIds :
         /\ revision[r].status \in {"APPROVED", "REJECTED", "PUBLISHED", "DELETED"} =>
                revision'[r] = revision[r]
         /\ revision'[r].status \in {"APPROVED", "REJECTED", "PUBLISHED", "DELETED"} =>
                revision'[r] = revision[r]
    OBVIOUS
<1>3. \A r \in RevisionIds : ApprovingReviews(r)' = ApprovingReviews(r)
    BY DEF ApprovingReviews
<1>4. DecisionIsFinal'
    BY <1>1, <1>2, <1>3 DEF Editorial, DecisionIsFinal
<1>5. FourEyes'
    BY <1>1 DEF Editorial, FourEyes
<1>6. \A r \in RevisionIds : InDatabase(r)' => revision'[r].career \in Careers
    BY DEF TypeOK, ForeignKeys
<1>7. EachVersionOnce'
  <2>1. \A r \in RevisionIds :
           InDatabase(r)' => revision'[r].baseVersion <= career'[revision'[r].career].version
      BY <1>6 DEF Editorial, EachVersionOnce, InDatabase
  <2>2. \A r \in RevisionIds :
           revision'[r].status = "PUBLISHED" =>
               revision'[r].baseVersion < career'[revision'[r].career].version
      BY <1>2, <1>6 DEF Editorial, EachVersionOnce, InDatabase
  <2>3. \A q, r \in RevisionIds :
           /\ revision'[q].status = "PUBLISHED" /\ revision'[r].status = "PUBLISHED"
           /\ revision'[q].career = revision'[r].career
           /\ revision'[q].baseVersion = revision'[r].baseVersion
           => q = r
      BY <1>2 DEF Editorial, EachVersionOnce
  <2> QED
      BY <2>1, <2>2, <2>3 DEF EachVersionOnce
<1>8. ApprovalCoversPublication'
    BY <1>2, <1>3, <1>6 DEF Editorial, ApprovalCoversPublication, IsRevisionStale, InDatabase
<1> QED
    BY <1>4, <1>5, <1>7, <1>8 DEF Editorial

\* Deleting rows: what is left of the tables is as it was.
LEMMA DeletionEditorial ==
    ASSUME Editorial, TypeOK',
           NEW gone \in SUBSET RevisionIds,
           review' = {v \in review : v.revision \notin gone},
           \A c \in Careers : /\ career'[c].content = career[c].content
                              /\ career'[c].version = career[c].version,
           \A r \in RevisionIds : r \notin gone => revision'[r] = revision[r],
           \A r \in gone : revision'[r].status = "DELETED"
    PROVE  Editorial'
<1>1. \A r \in RevisionIds :
         revision'[r].status # "DELETED" =>
             r \notin gone /\ revision'[r] = revision[r]
    OBVIOUS
<1>2. \A r \in RevisionIds : r \notin gone => ApprovingReviews(r)' = ApprovingReviews(r)
    BY DEF ApprovingReviews
<1>3. review' \subseteq review /\ \A v \in review' : revision'[v.revision] = revision[v.revision]
    BY DEF Editorial, TypeOK, RowTypes, ReviewRow
<1>4. DecisionIsFinal'
  <2>1. \A v, w \in review' : v.revision = w.revision => v = w
      BY <1>3 DEF Editorial, DecisionIsFinal
  <2>2. \A v \in review' :
           \/ revision'[v.revision].status = v.decision
           \/ v.decision = "APPROVED" /\ revision'[v.revision].status = "PUBLISHED"
      BY <1>3 DEF Editorial, DecisionIsFinal
  <2>3. \A r \in RevisionIds :
           revision'[r].status \in {"APPROVED", "PUBLISHED"} => ApprovingReviews(r)' # {}
      BY <1>1, <1>2 DEF Editorial, DecisionIsFinal
  <2> QED
      BY <2>1, <2>2, <2>3 DEF DecisionIsFinal
<1>5. FourEyes'
    BY <1>3 DEF Editorial, FourEyes
<1>6. \A r \in RevisionIds : InDatabase(r)' => InDatabase(r) /\ revision'[r].career \in Careers
    BY <1>1 DEF TypeOK, ForeignKeys, InDatabase
<1>7. EachVersionOnce'
  <2>1. \A r \in RevisionIds :
           InDatabase(r)' => revision'[r].baseVersion <= career'[revision'[r].career].version
      BY <1>1, <1>6 DEF Editorial, EachVersionOnce, InDatabase
  <2>2. \A r \in RevisionIds :
           revision'[r].status = "PUBLISHED" =>
               revision'[r].baseVersion < career'[revision'[r].career].version
      BY <1>1, <1>6 DEF Editorial, EachVersionOnce, InDatabase
  <2>3. \A q, r \in RevisionIds :
           /\ revision'[q].status = "PUBLISHED" /\ revision'[r].status = "PUBLISHED"
           /\ revision'[q].career = revision'[r].career
           /\ revision'[q].baseVersion = revision'[r].baseVersion
           => q = r
      BY <1>1 DEF Editorial, EachVersionOnce
  <2> QED
      BY <2>1, <2>2, <2>3 DEF EachVersionOnce
<1>8. ApprovalCoversPublication'
    BY <1>1, <1>2, <1>6 DEF Editorial, ApprovalCoversPublication, IsRevisionStale, InDatabase
<1> QED
    BY <1>4, <1>5, <1>7, <1>8 DEF Editorial

\* Creating, deleting and retiring careers keep the editorial invariant.
LEMMA CareerNextEditorial == Editorial /\ CareerNext => Editorial'
<1> SUFFICES ASSUME Editorial, NEW actor \in Actors, NEW c \in Careers,
                    \/ \E r \in RevisionIds : CreateCareer(actor, c, r)
                    \/ DeleteCareer(actor, c)
                    \/ RetireCareer(actor, c)
             PROVE  Editorial'
    BY DEF CareerNext
<1>0. TypeOK /\ TypeOK'
    BY CareerNextTypeOK DEF Editorial, CareerNext
<1> USE DEF TypeOK, RowTypes
<1>1. ASSUME NEW r \in RevisionIds, CreateCareer(actor, c, r)
      PROVE  Editorial'
  <2>1. career[c].version \in Nat \ {0}
      BY <1>0, CareerRowFields
  <2> QED
      BY <1>0, <1>1, <2>1, QuietStepEditorial DEF CreateCareer, CareerRow
<1>2. CASE DeleteCareer(actor, c)
  <2> DEFINE gone == {r \in RevisionIds : revision[r].career = c}
  <2>1. review' = {v \in review : v.revision \notin gone}
      BY <1>0, <1>2 DEF DeleteCareer, ReviewRow
  <2>2. \A d \in Careers : /\ career'[d].content = career[d].content
                          /\ career'[d].version = career[d].version
      BY <1>0, <1>2 DEF DeleteCareer, CareerRow
  <2>3. \A r \in RevisionIds : r \notin gone => revision'[r] = revision[r]
      BY <1>2 DEF DeleteCareer
  <2>4. \A r \in gone : revision'[r].status = "DELETED"
      BY <1>0, <1>2 DEF DeleteCareer, RevisionRow
  <2> HIDE DEF gone
  <2>5. gone \in SUBSET RevisionIds
      BY DEF gone
  <2> QED
      BY <1>0, <2>1, <2>2, <2>3, <2>4, <2>5, DeletionEditorial
<1>3. CASE RetireCareer(actor, c)
    BY <1>0, <1>3, QuietStepEditorial DEF RetireCareer, CareerRow
<1> QED
    BY <1>1, <1>2, <1>3

\* A decision keeps the editorial invariant: the revision it is taken on is in
\* review and so has no review yet.
LEMMA ReviewEditorial ==
    ASSUME Editorial, TypeOK', NEW actor \in Actors, NEW r \in RevisionIds,
           NEW decision \in Decisions, ReviewRevision(actor, r, decision)
    PROVE  Editorial'
<1> DEFINE v == [revision |-> r, reviewer |-> actor.id,
                 decision |-> decision, asAdmin |-> actor.role = "ADMIN",
                 live     |-> career[revision[r].career].content,
                 snapshot |-> revision[r].snapshot]
<1>1. review' = review \cup {v} /\ career' = career
    BY DEF ReviewRevision
<1>2. revision' = [revision EXCEPT ![r].status = decision] /\ revision[r].status = "IN_REVIEW"
    BY DEF ReviewRevision, IsInReview
<1>3. \A w \in review : w.revision \in RevisionIds /\ w.revision # r
    BY <1>2 DEF Editorial, TypeOK, RowTypes, ReviewRow, DecisionIsFinal, Decisions
<1>4. /\ \A q \in RevisionIds : q # r => revision'[q] = revision[q]
      /\ revision'[r].status = decision
      /\ revision'[r].career = revision[r].career
      /\ revision'[r].baseVersion = revision[r].baseVersion
      /\ revision'[r].snapshot = revision[r].snapshot
      /\ revision'[r].creator = revision[r].creator
    BY <1>2 DEF Editorial, TypeOK, RowTypes, RevisionRow
<1>5. decision = "APPROVED" => ~IsRevisionStale(r)
    BY DEF ReviewRevision
<1>6. v.reviewer # revision[r].creator \/ v.asAdmin
    BY DEF ReviewRevision, IsSelfReviewBlocked
<1>7. /\ v.revision = r /\ v.decision = decision
      /\ v.snapshot = revision[r].snapshot
      /\ v.live = career[revision[r].career].content
    OBVIOUS
<1> HIDE DEF v
<1>8. /\ \A q \in RevisionIds : q # r => ApprovingReviews(q)' = ApprovingReviews(q)
      /\ ApprovingReviews(r)' = IF decision = "APPROVED" THEN {v} ELSE {}
    BY <1>1, <1>3, <1>7 DEF ApprovingReviews
<1>9. DecisionIsFinal'
  <2>1. \A w, x \in review' : w.revision = x.revision => w = x
      BY <1>1, <1>3, <1>7 DEF Editorial, DecisionIsFinal
  <2>2. \A w \in review' :
           \/ revision'[w.revision].status = w.decision
           \/ w.decision = "APPROVED" /\ revision'[w.revision].status = "PUBLISHED"
      BY <1>1, <1>3, <1>4, <1>7 DEF Editorial, DecisionIsFinal
  <2>3. \A q \in RevisionIds :
           revision'[q].status \in {"APPROVED", "PUBLISHED"} => ApprovingReviews(q)' # {}
      BY <1>4, <1>8 DEF Editorial, DecisionIsFinal, Decisions
  <2> QED
      BY <2>1, <2>2, <2>3 DEF DecisionIsFinal
<1>10. FourEyes'
    BY <1>1, <1>3, <1>4, <1>6, <1>7 DEF Editorial, FourEyes
<1>11. EachVersionOnce'
    BY <1>1, <1>2, <1>4 DEF Editorial, EachVersionOnce, InDatabase, Decisions
<1>12. ApprovalCoversPublication'
    BY <1>1, <1>4, <1>7, <1>8 DEF Editorial, ApprovalCoversPublication, IsRevisionStale
<1> QED
    BY <1>9, <1>10, <1>11, <1>12 DEF Editorial

\* What publishRevision does to the rows, from the checks it made.
LEMMA PublishEffect ==
    ASSUME Editorial, NEW actor \in Actors, NEW r \in RevisionIds,
           PublishRevision(actor, r)
    PROVE  \E v \in ApprovingReviews(r) :
               LET c == revision[r].career IN
               /\ c \in Careers
               /\ revision[r].status = "APPROVED"
               /\ revision[r].baseVersion = career[c].version
               /\ \A d \in Careers : d # c => career'[d] = career[d]
               /\ career'[c].version = career[c].version + 1
               /\ career'[c].content = revision[r].snapshot
               /\ career'[c].reviewedBy = v.reviewer
               /\ revision' = [revision EXCEPT ![r].status = "PUBLISHED"]
               /\ review' = review
<1> DEFINE c == revision[r].career
<1>1. c \in Careers
    BY RevisionRowFields DEF PublishRevision, InDatabase, Editorial
<1>2. PICK approval \in ApprovingReviews(r) :
          career' = [career EXCEPT ![c] =
                       [status        |-> "PUBLISHED",
                        version       |-> career[c].version + 1,
                        content       |-> revision[r].snapshot,
                        everPublished |-> TRUE,
                        publishedBy   |-> actor.id,
                        reviewedBy    |-> approval.reviewer]]
    BY DEF PublishRevision
<1> QED
    BY <1>1, <1>2 DEF PublishRevision, IsRevisionStale, Editorial, TypeOK, RowTypes

\* A publication keeps the editorial invariant: it raises the version above the
\* bases of all revisions, and leaves the other approved ones of its career stale.
LEMMA PublishEditorial ==
    ASSUME Editorial, TypeOK', NEW actor \in Actors, NEW r \in RevisionIds,
           PublishRevision(actor, r)
    PROVE  Editorial'
<1> DEFINE c == revision[r].career
<1>1. /\ c \in Careers
      /\ revision[r].status = "APPROVED"
      /\ revision[r].baseVersion = career[c].version
      /\ \A d \in Careers : d # c => career'[d] = career[d]
      /\ career'[c].version = career[c].version + 1
      /\ revision' = [revision EXCEPT ![r].status = "PUBLISHED"]
      /\ review' = review
    BY PublishEffect
<1>2. /\ \A q \in RevisionIds : q # r => revision'[q] = revision[q]
      /\ revision'[r].status = "PUBLISHED"
      /\ revision'[r].career = c
      /\ revision'[r].baseVersion = revision[r].baseVersion
      /\ revision'[r].creator = revision[r].creator
    BY <1>1 DEF Editorial, TypeOK, RowTypes, RevisionRow
<1>3. \A q \in RevisionIds : ApprovingReviews(q)' = ApprovingReviews(q)
    BY <1>1 DEF ApprovingReviews
<1>4. \A v \in review : v.revision \in RevisionIds
    BY DEF Editorial, TypeOK, RowTypes, ReviewRow
<1>5. DecisionIsFinal'
  <2>1. \A v \in review' :
           \/ revision'[v.revision].status = v.decision
           \/ v.decision = "APPROVED" /\ revision'[v.revision].status = "PUBLISHED"
    <3> SUFFICES ASSUME NEW v \in review
                 PROVE  \/ revision'[v.revision].status = v.decision
                        \/ v.decision = "APPROVED" /\ revision'[v.revision].status = "PUBLISHED"
        BY <1>1
    <3>1. CASE v.revision = r
        BY <1>1, <1>2, <3>1 DEF Editorial, DecisionIsFinal
    <3>2. CASE v.revision # r
        BY <1>2, <1>4, <3>2 DEF Editorial, DecisionIsFinal
    <3> QED
        BY <3>1, <3>2
  <2>2. \A q \in RevisionIds :
           revision'[q].status \in {"APPROVED", "PUBLISHED"} => ApprovingReviews(q)' # {}
      BY <1>1, <1>2, <1>3 DEF Editorial, DecisionIsFinal
  <2> QED
      BY <1>1, <2>1, <2>2 DEF Editorial, DecisionIsFinal
<1>6. FourEyes'
    BY <1>1, <1>2, <1>4 DEF Editorial, FourEyes
<1>7. /\ \A d \in Careers : career[d].version \in Nat
      /\ \A q \in RevisionIds : revision[q].baseVersion \in Nat
    BY CareerRowFields, RevisionRowFields DEF Editorial
<1>8. \A q \in RevisionIds : InDatabase(q) => revision[q].career \in Careers
    BY RevisionRowFields DEF Editorial
<1>9. EachVersionOnce'
  <2>1. \A q \in RevisionIds :
           InDatabase(q)' => revision'[q].baseVersion <= career'[revision'[q].career].version
      BY <1>1, <1>2, <1>7, <1>8 DEF Editorial, EachVersionOnce, InDatabase
  <2>2. \A q \in RevisionIds :
           revision'[q].status = "PUBLISHED" =>
               revision'[q].baseVersion < career'[revision'[q].career].version
      BY <1>1, <1>2, <1>7, <1>8 DEF Editorial, EachVersionOnce, InDatabase
  <2>3. \A q \in RevisionIds \ {r} :
           revision[q].status = "PUBLISHED" /\ revision[q].career = c =>
               revision[q].baseVersion # revision[r].baseVersion
      BY <1>1, <1>7 DEF Editorial, EachVersionOnce
  <2>4. \A q, p \in RevisionIds :
           /\ revision'[q].status = "PUBLISHED" /\ revision'[p].status = "PUBLISHED"
           /\ revision'[q].career = revision'[p].career
           /\ revision'[q].baseVersion = revision'[p].baseVersion
           => q = p
      BY <1>1, <1>2, <2>3 DEF Editorial, EachVersionOnce
  <2> QED
      BY <2>1, <2>2, <2>4 DEF EachVersionOnce
<1>10. ApprovalCoversPublication'
  <2> SUFFICES ASSUME NEW q \in RevisionIds, revision'[q].status = "APPROVED",
                      NEW v \in ApprovingReviews(q)
               PROVE  /\ v.snapshot = revision'[q].snapshot
                      /\ \/ IsRevisionStale(q)'
                         \/ v.live = career'[revision'[q].career].content
      BY <1>3 DEF ApprovalCoversPublication
  <2>1. q # r /\ revision'[q] = revision[q] /\ revision[q].status = "APPROVED"
      BY <1>2
  <2>2. revision[q].career \in Careers /\ InDatabase(q)
      BY <1>8, <2>1 DEF InDatabase
  <2>3. CASE revision[q].career = c
    <3>1. revision[q].baseVersion <= career[c].version
        BY <2>2, <2>3 DEF Editorial, EachVersionOnce
    <3>2. IsRevisionStale(q)'
        BY <1>1, <1>7, <2>1, <2>3, <3>1 DEF IsRevisionStale
    <3> QED
        BY <2>1, <3>2 DEF Editorial, ApprovalCoversPublication
  <2>4. CASE revision[q].career # c
      BY <1>1, <2>1, <2>2, <2>4 DEF Editorial, ApprovalCoversPublication, IsRevisionStale
  <2> QED
      BY <2>3, <2>4
<1> QED
    BY <1>5, <1>6, <1>9, <1>10 DEF Editorial

\* Every operation on revisions keeps the editorial invariant.
LEMMA RevisionNextEditorial == Editorial /\ RevisionNext => Editorial'
<1> SUFFICES ASSUME Editorial, NEW actor \in Actors, NEW r \in RevisionIds,
                    \/ \E c \in Careers, content \in Contents :
                           OpenRevision(actor, c, r, content)
                    \/ \E content \in Contents : SaveDraftRevision(actor, r, content)
                    \/ SubmitRevision(actor, r)
                    \/ RebaseRevision(actor, r)
                    \/ RecallRevision(actor, r)
                    \/ \E decision \in Decisions : ReviewRevision(actor, r, decision)
                    \/ PublishRevision(actor, r)
                    \/ DeleteDraftRevision(actor, r)
             PROVE  Editorial'
    BY DEF RevisionNext
<1>0. TypeOK /\ TypeOK'
    BY RevisionNextTypeOK DEF Editorial, RevisionNext
<1>9. InDatabase(r) =>
         /\ revision[r].career \in Careers
         /\ revision[r].baseVersion <= career[revision[r].career].version
    BY RevisionRowFields DEF Editorial, EachVersionOnce
<1>1. ASSUME NEW c \in Careers, NEW content \in Contents,
             OpenRevision(actor, c, r, content)
      PROVE  Editorial'
    BY <1>0, <1>1, <1>9, RevisionRowFields, CareerRowFields, QuietStepEditorial
       DEF OpenRevision, TypeOK, RowTypes, RevisionRow
<1>2. ASSUME NEW content \in Contents, SaveDraftRevision(actor, r, content)
      PROVE  Editorial'
    BY <1>0, <1>2, <1>9, RevisionRowFields, CareerRowFields, QuietStepEditorial
       DEF SaveDraftRevision, TypeOK, RowTypes, RevisionRow, IsDraft, InDatabase
<1>3. ASSUME SubmitRevision(actor, r)
      PROVE  Editorial'
    BY <1>0, <1>3, <1>9, RevisionRowFields, CareerRowFields, QuietStepEditorial
       DEF SubmitRevision, TypeOK, RowTypes, RevisionRow, IsDraft, InDatabase
<1>4. ASSUME RebaseRevision(actor, r)
      PROVE  Editorial'
    BY <1>0, <1>4, <1>9, RevisionRowFields, CareerRowFields, QuietStepEditorial
       DEF RebaseRevision, TypeOK, RowTypes, RevisionRow, IsDraft, InDatabase
<1>5. ASSUME RecallRevision(actor, r)
      PROVE  Editorial'
    BY <1>0, <1>5, <1>9, RevisionRowFields, CareerRowFields, QuietStepEditorial
       DEF RecallRevision, TypeOK, RowTypes, RevisionRow, IsInReview, InDatabase
<1>6. ASSUME NEW decision \in Decisions, ReviewRevision(actor, r, decision)
      PROVE  Editorial'
    BY <1>0, <1>6, ReviewEditorial
<1>7. CASE PublishRevision(actor, r)
    BY <1>0, <1>7, PublishEditorial
<1>8. CASE DeleteDraftRevision(actor, r)
  <2>1. {r} \in SUBSET RevisionIds
      OBVIOUS
  <2>2. /\ review' = {v \in review : v.revision \notin {r}}
        /\ career' = career
        /\ \A q \in RevisionIds : q \notin {r} => revision'[q] = revision[q]
        /\ \A q \in {r} : revision'[q].status = "DELETED"
      BY <1>0, <1>8 DEF DeleteDraftRevision, TypeOK, RowTypes, RevisionRow
  <2> QED
      BY <1>0, <2>1, <2>2, DeletionEditorial
<1> QED
    BY <1>1, <1>2, <1>3, <1>4, <1>5, <1>6, <1>7, <1>8

\* Every step keeps the editorial invariant; learners touch none of its tables.
LEMMA NextEditorial == Editorial /\ [Next]_vars => Editorial'
<1> SUFFICES ASSUME Editorial, [Next]_vars
             PROVE  Editorial'
    OBVIOUS
<1>1. TypeOK /\ TypeOK'
    BY NextTypeOK DEF Editorial
<1>2. CASE LearnerNext
  <2>1. career' = career /\ revision' = revision /\ review' = review
      BY <1>2 DEF LearnerNext, SetActivePathway, SetStepStatus
  <2> QED
      BY <1>1, <2>1, QuietStepEditorial
<1>3. CASE UNCHANGED vars
    BY <1>1, <1>3, QuietStepEditorial DEF vars
<1> QED
    BY <1>2, <1>3, CareerNextEditorial, RevisionNextEditorial DEF Next

\* The editorial invariant holds throughout.
THEOREM EditorialHolds == Spec => []Editorial
BY InitEditorial, NextEditorial, PTL DEF Spec

\* A decision is final: no revision is reviewed twice, and none leaves the
\* status its review gave it except for PUBLISHED.
THEOREM DecisionsAreFinal == Spec => []DecisionIsFinal
<1>1. Editorial => DecisionIsFinal
    BY DEF Editorial
<1> QED
    BY <1>1, EditorialHolds, PTL

\* Whoever reviewed a revision did not create it, or acted as an ADMIN.
THEOREM ReviewersAreOthers == Spec => []FourEyes
<1>1. Editorial => FourEyes
    BY DEF Editorial
<1> QED
    BY <1>1, EditorialHolds, PTL

\* What may be published is what was approved, on what it was approved against.
THEOREM ApprovalsCoverPublications == Spec => []ApprovalCoversPublication
<1>1. Editorial => ApprovalCoversPublication
    BY DEF Editorial
<1> QED
    BY <1>1, EditorialHolds, PTL

\* No version of a career is published twice: no publication is lost.
THEOREM VersionsArePublishedOnce == Spec => []EachVersionOnce
<1>1. Editorial => EachVersionOnce
    BY DEF Editorial
<1> QED
    BY <1>1, EditorialHolds, PTL

-----------------------------------------------------------------------------
(***************************************************************************)
(* Steps.                                                                  *)
(***************************************************************************)

\* Only publishing changes what is live.
LEMMA OnlyPublishingChangesLive ==
    ASSUME Editorial, [Next]_vars, NEW c \in Careers,
           \A actor \in Actors, r \in RevisionIds : ~PublishRevision(actor, r)
    PROVE  /\ career'[c].content = career[c].content
           /\ career'[c].version = career[c].version
<1> USE DEF Editorial, TypeOK, RowTypes
<1>1. CASE CareerNext
    BY <1>1 DEF CareerNext, CreateCareer, DeleteCareer, RetireCareer, CareerRow
<1>2. CASE RevisionNext
    BY <1>2 DEF RevisionNext, OpenRevision, SaveDraftRevision, SubmitRevision, RebaseRevision,
                RecallRevision, ReviewRevision, DeleteDraftRevision
<1>3. CASE LearnerNext
    BY <1>3 DEF LearnerNext, SetActivePathway, SetStepStatus
<1>4. CASE UNCHANGED vars
    BY <1>4 DEF vars
<1> QED
    BY <1>1, <1>2, <1>3, <1>4 DEF Next

\* A step that changes content or version publishes a reviewed revision.
LEMMA PublicationStepIsReviewed == Editorial /\ [Next]_vars => PublicationIsReviewed
<1> SUFFICES ASSUME Editorial, [Next]_vars, NEW c \in Careers,
                    \/ career'[c].content # career[c].content
                    \/ career'[c].version # career[c].version
             PROVE  \E r \in RevisionIds, v \in review :
                       /\ revision[r].career = c /\ v.revision = r
                       /\ revision[r].status = "APPROVED"
                       /\ revision'[r].status = "PUBLISHED"
                       /\ revision[r].baseVersion = career[c].version
                       /\ career'[c].version = career[c].version + 1
                       /\ career'[c].content = v.snapshot
                       /\ career[c].content = v.live
                       /\ career'[c].reviewedBy = v.reviewer
                       /\ v.decision = "APPROVED"
                       /\ v.reviewer # revision[r].creator \/ v.asAdmin
    BY DEF PublicationIsReviewed
<1>1. PICK actor \in Actors, r \in RevisionIds : PublishRevision(actor, r)
    BY OnlyPublishingChangesLive
<1>2. PICK v \in ApprovingReviews(r) :
               LET d == revision[r].career IN
               /\ d \in Careers
               /\ revision[r].status = "APPROVED"
               /\ revision[r].baseVersion = career[d].version
               /\ \A e \in Careers : e # d => career'[e] = career[e]
               /\ career'[d].version = career[d].version + 1
               /\ career'[d].content = revision[r].snapshot
               /\ career'[d].reviewedBy = v.reviewer
               /\ revision' = [revision EXCEPT ![r].status = "PUBLISHED"]
               /\ review' = review
    BY <1>1, PublishEffect
<1>3. revision[r].career = c
    BY <1>2
<1>4. v \in review /\ v.revision = r /\ v.decision = "APPROVED"
    BY DEF ApprovingReviews
<1>5. v.snapshot = revision[r].snapshot /\ v.live = career[c].content
    BY <1>2, <1>3 DEF Editorial, ApprovalCoversPublication, IsRevisionStale
<1>6. v.reviewer # revision[r].creator \/ v.asAdmin
    BY <1>4 DEF Editorial, FourEyes
<1>7. revision'[r].status = "PUBLISHED"
    BY <1>2 DEF Editorial, TypeOK, RowTypes, RevisionRow
<1> QED
    BY <1>2, <1>3, <1>4, <1>5, <1>6, <1>7

\* Content goes live only with four eyes.
THEOREM PublicationsAreReviewed == Spec => ReviewedPublication
BY EditorialHolds, PublicationStepIsReviewed, PTL DEF Spec, ReviewedPublication

-----------------------------------------------------------------------------
(***************************************************************************)
(* History.                                                                *)
(***************************************************************************)
\* Revisions in the database have an author, and a published one has released its career;
\* released careers are published or retired, and learners saved only those.
Recorded ==
    /\ \A r \in RevisionIds :
          /\ InDatabase(r) => revision[r].creator \in Staff
          /\ revision[r].status = "PUBLISHED" => career[revision[r].career].everPublished
    /\ \A c \in Careers :
          /\ career[c].everPublished <=> career[c].status \in {"PUBLISHED", "RETIRED"}
          /\ c \in saved => career[c].everPublished

HistoryInv == Editorial /\ Recorded

\* A release is never taken back.
LEMMA ReleasesLast ==
    ASSUME Editorial, [Next]_vars, NEW c \in Careers, career[c].everPublished
    PROVE  career'[c].everPublished
<1> career \in [Careers -> CareerRow]
    BY DEF Editorial, TypeOK, RowTypes
<1>1. CASE CareerNext
    BY <1>1 DEF CareerNext, CreateCareer, DeleteCareer, RetireCareer, CareerRow
<1>2. ASSUME NEW actor \in Actors, NEW r \in RevisionIds, PublishRevision(actor, r)
      PROVE  career'[c].everPublished
    BY <1>2 DEF PublishRevision
<1>3. CASE career' = career
    BY <1>3
<1> QED
    BY <1>1, <1>2, <1>3 DEF Next, RevisionNext, OpenRevision, SaveDraftRevision, SubmitRevision,
           RebaseRevision, RecallRevision, ReviewRevision, DeleteDraftRevision, LearnerNext,
           SetActivePathway, SetStepStatus, vars

\* A revision keeps its author and its career; it is published by a release.
LEMMA RevisionsKept ==
    ASSUME Editorial, [Next]_vars, NEW r \in RevisionIds, InDatabase(r)'
    PROVE  \/ /\ InDatabase(r)
              /\ revision'[r].creator = revision[r].creator
              /\ revision'[r].career = revision[r].career
              /\ \/ revision'[r].status = "PUBLISHED" => revision[r].status = "PUBLISHED"
                 \/ career'[revision[r].career].everPublished
           \/ revision'[r].creator \in Staff /\ revision'[r].status = "DRAFT"
<1> /\ revision \in [RevisionIds -> RevisionRow] /\ career \in [Careers -> CareerRow]
    /\ InDatabase(r) => revision[r].career \in Careers
    /\ \A actor \in Actors : actor.id \in Staff
    BY RevisionRowFields, ActorFields DEF Editorial, TypeOK, RowTypes
<1> USE DEF InDatabase
<1>1. CASE CareerNext
    BY <1>1 DEF CareerNext, CreateCareer, DeleteCareer, RetireCareer, RevisionRow
<1>2. ASSUME NEW actor \in Actors, NEW q \in RevisionIds, NEW c \in Careers, NEW content \in Contents,
             OpenRevision(actor, c, q, content)
      PROVE  \/ revision'[r] = revision[r]
             \/ revision'[r].creator \in Staff /\ revision'[r].status = "DRAFT"
    BY <1>2 DEF OpenRevision
<1>3. ASSUME NEW actor \in Actors, NEW q \in RevisionIds,
             \/ \E content \in Contents : SaveDraftRevision(actor, q, content)
             \/ SubmitRevision(actor, q) \/ RebaseRevision(actor, q)
             \/ RecallRevision(actor, q) \/ DeleteDraftRevision(actor, q)
             \/ \E decision \in Decisions : ReviewRevision(actor, q, decision)
      PROVE  /\ InDatabase(r)
             /\ revision'[r].creator = revision[r].creator
             /\ revision'[r].career = revision[r].career
             /\ revision'[r].status = "PUBLISHED" => revision[r].status = "PUBLISHED"
    BY <1>3 DEF SaveDraftRevision, SubmitRevision, RebaseRevision, RecallRevision,
           DeleteDraftRevision, ReviewRevision, IsDraft, IsInReview, RevisionRow, Decisions
<1>4. ASSUME NEW actor \in Actors, NEW q \in RevisionIds, PublishRevision(actor, q)
      PROVE  /\ InDatabase(r)
             /\ revision'[r].creator = revision[r].creator
             /\ revision'[r].career = revision[r].career
             /\ \/ revision'[r].status = "PUBLISHED" => revision[r].status = "PUBLISHED"
                \/ career'[revision[r].career].everPublished
    BY <1>4 DEF PublishRevision, RevisionRow
<1>5. CASE revision' = revision
    BY <1>5
<1> QED
    BY <1>1, <1>2, <1>3, <1>4, <1>5 DEF Next, RevisionNext, LearnerNext, SetActivePathway,
           SetStepStatus, vars

\* A career is released by a publication only, and saved when it is released.
LEMMA ReleasedOrNot ==
    ASSUME HistoryInv, [Next]_vars, NEW c \in Careers
    PROVE  /\ career'[c].everPublished <=> career'[c].status \in {"PUBLISHED", "RETIRED"}
           /\ c \in saved' => career'[c].everPublished
<1> /\ career \in [Careers -> CareerRow]
    /\ career[c].everPublished <=> career[c].status \in {"PUBLISHED", "RETIRED"}
    /\ c \in saved => career[c].everPublished
    BY DEF HistoryInv, Editorial, Recorded, TypeOK, RowTypes
<1>1. CASE CareerNext
    BY <1>1 DEF CareerNext, CreateCareer, DeleteCareer, RetireCareer, IsDeletable, CareerRow
<1>2. ASSUME NEW actor \in Actors, NEW r \in RevisionIds, PublishRevision(actor, r)
      PROVE  /\ career'[c].everPublished <=> career'[c].status \in {"PUBLISHED", "RETIRED"}
             /\ c \in saved' => career'[c].everPublished
    BY <1>2 DEF PublishRevision
<1>3. CASE career' = career /\ saved' = saved
    BY <1>3
<1>4. CASE LearnerNext
    BY <1>4 DEF LearnerNext, SetActivePathway, SetStepStatus
<1> QED
    BY <1>1, <1>2, <1>3, <1>4 DEF Next, RevisionNext, OpenRevision, SaveDraftRevision, SubmitRevision,
           RebaseRevision, RecallRevision, ReviewRevision, DeleteDraftRevision, vars

\* The history is recorded throughout.
THEOREM HistoryInvHolds == Spec => []HistoryInv
<1>1. Init => Recorded
  <2> SUFFICES ASSUME Init PROVE Recorded
      OBVIOUS
  <2>1. \A r \in RevisionIds : revision[r].status = "ABSENT"
      BY DEF Init
  <2>2. ASSUME NEW c \in Careers
        PROVE  career[c].everPublished <=> career[c].status \in {"PUBLISHED", "RETIRED"}
    <3>1. career[c].status = IF c \in Seeded THEN "PUBLISHED" ELSE "ABSENT"
        BY DEF Init
    <3>2. career[c].everPublished = (c \in Seeded)
        BY DEF Init
    <3> QED
        BY <3>1, <3>2
  <2> QED
      BY <2>1, <2>2 DEF Init, Recorded, InDatabase
<1>2. ASSUME HistoryInv, [Next]_vars PROVE Recorded'
  <2> SUFFICES ASSUME NEW r \in RevisionIds, InDatabase(r)'
               PROVE  /\ revision'[r].creator \in Staff
                      /\ revision'[r].status = "PUBLISHED" =>
                            career'[revision'[r].career].everPublished
      BY <1>2, ReleasedOrNot DEF Recorded, InDatabase
  <2>1. InDatabase(r) => revision[r].career \in Careers
      BY <1>2, RevisionRowFields DEF HistoryInv, Editorial
  <2> QED
      BY <1>2, <2>1, RevisionsKept, ReleasesLast DEF HistoryInv, Recorded
<1>3. HistoryInv /\ [Next]_vars => HistoryInv'
    BY <1>2, NextEditorial DEF HistoryInv
<1> QED
    BY <1>1, <1>3, InitEditorial, PTL DEF Spec, HistoryInv

HistoryStep ==
    /\ \A c \in Careers :
          (c \in saved \/ career[c].everPublished) =>
             career'[c].status # "DELETED" /\ career'[c].everPublished
    /\ \A r \in RevisionIds :
          revision[r].status = "PUBLISHED" => revision'[r] = revision[r]

\* A step deletes neither a released career nor the record of a publication.
LEMMA StepKeepsHistory == HistoryInv /\ [Next]_vars => HistoryStep
<1> SUFFICES ASSUME HistoryInv, [Next]_vars PROVE HistoryStep
    OBVIOUS
<1>1. ASSUME NEW c \in Careers, c \in saved \/ career[c].everPublished
      PROVE  career'[c].status # "DELETED" /\ career'[c].everPublished
  <2>1. career[c].everPublished
      BY <1>1 DEF HistoryInv, Recorded
  <2> QED
      BY <2>1, ReleasesLast, ReleasedOrNot DEF HistoryInv
<1>2. ASSUME NEW r \in RevisionIds, revision[r].status = "PUBLISHED"
      PROVE  revision'[r] = revision[r]
  <2> /\ revision \in [RevisionIds -> RevisionRow]
      /\ revision[r].career \in Careers /\ career[revision[r].career].everPublished
      BY <1>2, RevisionRowFields DEF HistoryInv, Recorded, Editorial, TypeOK, RowTypes, InDatabase
  <2>1. CASE CareerNext
      BY <1>2, <2>1 DEF CareerNext, CreateCareer, DeleteCareer, RetireCareer, IsDeletable
  <2>2. CASE RevisionNext
      BY <1>2, <2>2 DEF RevisionNext, OpenRevision, SaveDraftRevision, SubmitRevision, RebaseRevision,
             RecallRevision, ReviewRevision, PublishRevision, DeleteDraftRevision, IsDraft, IsInReview
  <2>3. CASE LearnerNext
      BY <2>3 DEF LearnerNext, SetActivePathway, SetStepStatus
  <2>4. CASE UNCHANGED vars
      BY <2>4 DEF vars
  <2> QED
      BY <2>1, <2>2, <2>3, <2>4 DEF Next
<1> QED
    BY <1>1, <1>2 DEF HistoryStep

\* Released and saved careers are never deleted, nor is the record of published revisions.
THEOREM HistoryIsKept == Spec => HistoryKept
<1>1. HistoryInv /\ [Next]_vars => [HistoryStep]_vars
    BY StepKeepsHistory
<1>2. [HistoryStep]_vars =>
        [/\ \A c \in Careers :
               (c \in saved \/ career[c].everPublished) =>
                  career'[c].status # "DELETED" /\ career'[c].everPublished
         /\ \A r \in RevisionIds :
               revision[r].status = "PUBLISHED" => revision'[r] = revision[r]]_vars
    BY DEF HistoryStep
<1> QED
    BY <1>1, <1>2, HistoryInvHolds, PTL DEF Spec, HistoryKept

\* A revision that is neither new nor a draft moves only to where a decision, a recall, a
\* publication or the deletion of its career takes it.
LEMMA StepFreezes ==
    TypeOK /\ [Next]_vars =>
        \A r \in RevisionIds :
            revision[r].status \notin {"ABSENT", "DRAFT"} => RevisionIsFrozen(r)
<1> SUFFICES ASSUME TypeOK, [Next]_vars, NEW r \in RevisionIds,
                    revision[r].status \notin {"ABSENT", "DRAFT"}
             PROVE  RevisionIsFrozen(r)
    OBVIOUS
<1> revision \in [RevisionIds -> RevisionRow] /\ career \in [Careers -> CareerRow]
    BY DEF TypeOK, RowTypes
<1>1. CASE CareerNext
    BY <1>1 DEF CareerNext, CreateCareer, DeleteCareer, RetireCareer, RevisionIsFrozen,
           RevisionRow, CareerRow
<1>2. CASE RevisionNext
    BY <1>2 DEF RevisionNext, OpenRevision, SaveDraftRevision, SubmitRevision, RebaseRevision,
           RecallRevision, ReviewRevision, PublishRevision, DeleteDraftRevision, IsDraft, IsInReview,
           RevisionIsFrozen, RevisionRow, Decisions
<1>3. CASE LearnerNext
    BY <1>3 DEF LearnerNext, SetActivePathway, SetStepStatus, RevisionIsFrozen
<1>4. CASE UNCHANGED vars
    BY <1>4 DEF vars, RevisionIsFrozen
<1> QED
    BY <1>1, <1>2, <1>3, <1>4 DEF Next

\* A revision is frozen from submission on.
THEOREM RevisionsAreFrozen == Spec => FrozenUnderReview
<1>1. TypeOK /\ [Next]_vars =>
        [\A r \in RevisionIds :
            revision[r].status \notin {"ABSENT", "DRAFT"} => RevisionIsFrozen(r)]_vars
    BY StepFreezes
<1> QED
    BY <1>1, TypeCorrect, PTL DEF Spec, FrozenUnderReview

\* A step changes a retired career only when an ADMIN publishes a revision of it.
LEMMA RetiredStep ==
    ASSUME TypeOK, [Next]_vars, NEW c \in Careers, career[c].status = "RETIRED",
           career'[c] # career[c]
    PROVE  \E actor \in Actors : actor.role = "ADMIN" /\ actor.id = career'[c].publishedBy
<1> career \in [Careers -> CareerRow]
    BY DEF TypeOK, RowTypes
<1>1. \E actor \in Actors, r \in RevisionIds : PublishRevision(actor, r)
  <2>1. CASE CareerNext
      BY <2>1 DEF CareerNext, CreateCareer, DeleteCareer, RetireCareer, IsDeletable
  <2>2. CASE career' = career
      BY <2>2
  <2> QED
      BY <2>1, <2>2 DEF Next, RevisionNext, OpenRevision, SaveDraftRevision, SubmitRevision,
             RebaseRevision, RecallRevision, ReviewRevision, DeleteDraftRevision, LearnerNext,
             SetActivePathway, SetStepStatus, vars
<1>2. PICK actor \in Actors, r \in RevisionIds : PublishRevision(actor, r)
    BY <1>1
<1>3. revision[r].career = c /\ career'[c].publishedBy = actor.id
    BY <1>2 DEF PublishRevision
<1>4. actor.role = "ADMIN"
    BY <1>2, <1>3 DEF PublishRevision, RetiredRule
<1> QED
    BY <1>3, <1>4

\* A retired career comes back, or changes at all, by an ADMIN's publication only.
THEOREM RetiredCareersRest == Spec => RetiredChangesByAdmin
<1>1. TypeOK /\ [Next]_vars =>
        [\A c \in Careers :
            career[c].status = "RETIRED" /\ career'[c] # career[c] =>
               \E actor \in Actors :
                   actor.role = "ADMIN" /\ actor.id = career'[c].publishedBy]_vars
    BY RetiredStep
<1> QED
    BY <1>1, TypeCorrect, PTL DEF Spec, RetiredChangesByAdmin

=============================================================================
