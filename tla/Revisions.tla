----------------------------- MODULE Revisions -----------------------------
(***************************************************************************)
(* The editorial workflow of the catalogue: careers, the content revisions *)
(* that stage changes to them, the reviews of those revisions, and the     *)
(* learners whose saved careers and completed steps a publication may      *)
(* disturb.  Every operation of ContentRevisionsService and every writing  *)
(* operation of CareersService is one action here: each runs in a single   *)
(* database transaction that locks the career row and then the revision    *)
(* row.  RevisionTx models those transactions statement by statement and   *)
(* shows that they implement these actions.                                *)
(*                                                                         *)
(* An operation the service refuses changes nothing, so a refusal is the   *)
(* absence of a step: the guard of an action is the conjunction of the     *)
(* checks the service makes before it writes.                              *)
(***************************************************************************)
EXTENDS Naturals, FiniteSets

CONSTANTS
    Careers,      \* career ids
    RevisionIds,  \* revision ids, never reused (UUIDs)
    Staff,        \* user ids of staff accounts
    Actors,       \* callers: a user id and the role in the access token
    Contents,     \* career contents, live or in a snapshot that is consistent
    Steps,        \* pathway steps
    StepsOf,      \* the steps of each content
    Complete,     \* contents with every required field, a skill and a step
    Blank,        \* the content of a career that was just created
    Seeded,       \* careers the seed script has loaded as PUBLISHED
    SeedContent,  \* their content
    Openers       \* callers that open a revision on an existing career

Roles == {"USER", "EDITOR", "REVIEWER", "PUBLISHER", "ADMIN"}

Rank == [role \in Roles |->
            CASE role = "USER" -> 0 [] role = "EDITOR" -> 1
              [] role = "REVIEWER" -> 2 [] role = "PUBLISHER" -> 3
              [] role = "ADMIN" -> 4]

ASSUME ActorsAssumption ==
    /\ Actors \subseteq [id : Staff, role : Roles]
    /\ Openers \subseteq Actors

ASSUME ContentsAssumption ==
    /\ StepsOf \in [Contents -> SUBSET Steps]
    /\ Complete \subseteq Contents
    /\ \A content \in Complete : StepsOf[content] # {}
    /\ Blank \in Contents \ Complete
    /\ StepsOf[Blank] = {}

ASSUME SeedAssumption ==
    /\ Seeded \subseteq Careers
    /\ SeedContent \in Complete

\* The callers the roles guard lets through to a route marked MinRole(role).
AtLeast(role) == {actor \in Actors : Rank[actor.role] >= Rank[role]}

Null == "NULL"

ASSUME NullAssumption == Null \notin Staff \cup Careers

VARIABLES
    career,     \* rows of the Career table
    revision,   \* rows of the ContentRevision table
    review,     \* rows of the Review table
    saved,      \* the careers some learner has a UserPathway row for
    completed   \* per career, the steps some learner has COMPLETED

vars == <<career, revision, review, saved, completed>>

(***************************************************************************)
(* Rows.  "ABSENT" is a row not yet inserted, "DELETED" one that is gone.  *)
(***************************************************************************)
CareerStatuses == {"ABSENT", "DRAFT", "PUBLISHED", "RETIRED", "DELETED"}

RevisionStatuses ==
    {"ABSENT", "DRAFT", "IN_REVIEW", "APPROVED", "REJECTED", "PUBLISHED",
     "DELETED"}

Decisions == {"APPROVED", "REJECTED"}

\* everPublished says that publishedAt is not null.
CareerRow ==
    [status : CareerStatuses, version : Nat \ {0}, content : Contents,
     everPublished : BOOLEAN,
     publishedBy : Staff \cup {Null}, reviewedBy : Staff \cup {Null}]

RevisionRow ==
    [status : RevisionStatuses, career : Careers \cup {Null}, baseVersion : Nat,
     snapshot : Contents, creator : Staff \cup {Null}]

\* asAdmin, live and snapshot record what the decision was about: the role it
\* was taken in, the live content then and the snapshot then.  The table has no
\* such columns and no action reads them.
ReviewRow ==
    [revision : RevisionIds, reviewer : Staff, decision : Decisions,
     asAdmin : BOOLEAN, live : Contents, snapshot : Contents]

Open == {"DRAFT", "IN_REVIEW"}

Exists(c) == career[c].status \notin {"ABSENT", "DELETED"}

\* Mutant: a closed revision is taken for a draft.
IsDraft_OnlyReviewRefused(r) ==
    revision[r].status \in {"DRAFT", "APPROVED", "REJECTED"}

\* Mutant: a revision in review is taken for a draft.
IsDraft_AnyOpen(r) == revision[r].status \in Open

IsDraft(r) == revision[r].status = "DRAFT"

\* Mutant: an approved revision is taken for one in review.
IsInReview_OrApproved(r) == revision[r].status \in {"IN_REVIEW", "APPROVED"}

IsInReview(r) == revision[r].status = "IN_REVIEW"

\* Mutant: the version comparison is lost.
IsRevisionStale_Never(r) == FALSE

IsRevisionStale(r) ==
    revision[r].baseVersion # career[revision[r].career].version

\* Mutant: nobody is blocked.
IsSelfReviewBlocked_Never(actor, r) == FALSE

IsSelfReviewBlocked(actor, r) ==
    revision[r].creator = actor.id /\ actor.role # "ADMIN"

IsCreatorOrAdmin(actor, r) ==
    revision[r].creator = actor.id \/ actor.role = "ADMIN"

ApprovingReviews(r) ==
    {v \in review : v.revision = r /\ v.decision = "APPROVED"}

\* Only an ADMIN may submit or publish a revision of a retired career.
\* Mutant: anybody may.
RetiredRule_Anybody(actor, c) == TRUE

RetiredRule(actor, c) == career[c].status = "RETIRED" => actor.role = "ADMIN"

\* A career deleteCareer may delete.
\* Mutant: only the learners who saved it are looked at.
IsDeletable_NotSaved(c) == Exists(c) /\ c \notin saved

IsDeletable(c) ==
    /\ career[c].status = "DRAFT"
    /\ ~career[c].everPublished
    /\ c \notin saved

\* Mutant: the rows that refer to a deleted step stay behind.
RemovedSteps_None(r) == {}

\* The steps the plan of revision r deletes from the live pathway.
RemovedSteps(r) ==
    StepsOf[career[revision[r].career].content] \ StepsOf[revision[r].snapshot]

\* buildPlan finds no blocker: nothing required is missing, and no step that
\* would be deleted has been completed by a learner.
NoBlockers(r) ==
    /\ revision[r].snapshot \in Complete
    /\ RemovedSteps(r) \cap completed[revision[r].career] = {}

-----------------------------------------------------------------------------
(***************************************************************************)
(* Initially the database holds what the seed script loads.                *)
(***************************************************************************)
Init ==
    /\ career = [c \in Careers |->
                    [status        |-> IF c \in Seeded THEN "PUBLISHED" ELSE "ABSENT",
                     version       |-> 1,
                     content       |-> IF c \in Seeded THEN SeedContent ELSE Blank,
                     everPublished |-> c \in Seeded,
                     publishedBy   |-> Null,
                     reviewedBy    |-> Null]]
    /\ revision = [r \in RevisionIds |->
                      [status |-> "ABSENT", career |-> Null, baseVersion |-> 1,
                       snapshot |-> Blank, creator |-> Null]]
    /\ review = {}
    /\ saved = {}
    /\ completed = [c \in Careers |-> {}]

-----------------------------------------------------------------------------
(***************************************************************************)
(* Careers.                                                                *)
(***************************************************************************)

\* A career row and its first revision, inserted by one nested create.
CreateCareer(actor, c, r) ==
    /\ actor \in AtLeast("EDITOR")
    /\ career[c].status = "ABSENT"
    /\ revision[r].status = "ABSENT"
    /\ career' = [career EXCEPT ![c].status = "DRAFT"]
    /\ revision' = [revision EXCEPT ![r] =
                       [status |-> "DRAFT", career |-> c, baseVersion |-> 1,
                        snapshot |-> Blank, creator |-> actor.id]]
    /\ UNCHANGED <<review, saved, completed>>

\* The conditional delete; revisions and their reviews go with the career.
DeleteCareer(actor, c) ==
    /\ actor \in AtLeast("ADMIN")
    /\ IsDeletable(c)
    /\ career' = [career EXCEPT ![c].status = "DELETED"]
    /\ revision' = [r \in RevisionIds |->
                       IF revision[r].career = c
                       THEN [revision[r] EXCEPT !.status = "DELETED"]
                       ELSE revision[r]]
    /\ review' = {v \in review : revision[v.revision].career # c}
    /\ UNCHANGED <<saved, completed>>

RetireCareer(actor, c) ==
    /\ actor \in AtLeast("PUBLISHER")
    /\ career[c].status = "PUBLISHED"
    /\ career' = [career EXCEPT ![c].status = "RETIRED"]
    /\ UNCHANGED <<revision, review, saved, completed>>

-----------------------------------------------------------------------------
(***************************************************************************)
(* Revisions.                                                              *)
(***************************************************************************)

\* A revision on an existing career.  No service inserts one: rows of this kind
\* come from outside the application.  The partial unique index on open
\* revisions still applies.
OpenRevision(actor, c, r, content) ==
    /\ actor \in Openers
    /\ Exists(c)
    /\ revision[r].status = "ABSENT"
    /\ \A q \in RevisionIds :
           revision[q].career = c => revision[q].status \notin Open
    /\ revision' = [revision EXCEPT ![r] =
                       [status |-> "DRAFT", career |-> c,
                        baseVersion |-> career[c].version,
                        snapshot |-> content, creator |-> actor.id]]
    /\ UNCHANGED <<career, review, saved, completed>>

SaveDraftRevision(actor, r, content) ==
    /\ actor \in AtLeast("EDITOR")
    /\ IsDraft(r)
    /\ career[revision[r].career].status # "RETIRED"
    /\ revision' = [revision EXCEPT ![r].snapshot = content]
    /\ UNCHANGED <<career, review, saved, completed>>

SubmitRevision(actor, r) ==
    /\ actor \in AtLeast("EDITOR")
    /\ IsDraft(r)
    /\ RetiredRule(actor, revision[r].career)
    /\ NoBlockers(r)
    /\ revision' = [revision EXCEPT ![r].status = "IN_REVIEW"]
    /\ UNCHANGED <<career, review, saved, completed>>

\* An ADMIN who is not the creator is refused too.  A fresh revision is left
\* as it is, which is no step.
RebaseRevision(actor, r) ==
    /\ actor \in AtLeast("EDITOR")
    /\ IsDraft(r)
    /\ career[revision[r].career].status # "RETIRED"
    /\ revision[r].creator = actor.id
    /\ IsRevisionStale(r)
    /\ revision' = [revision EXCEPT
                       ![r].baseVersion = career[revision[r].career].version]
    /\ UNCHANGED <<career, review, saved, completed>>

RecallRevision(actor, r) ==
    /\ actor \in AtLeast("EDITOR")
    /\ IsInReview(r)
    /\ IsCreatorOrAdmin(actor, r)
    /\ revision' = [revision EXCEPT ![r].status = "DRAFT"]
    /\ UNCHANGED <<career, review, saved, completed>>

ReviewRevision(actor, r, decision) ==
    /\ actor \in AtLeast("REVIEWER")
    /\ IsInReview(r)
    /\ ~IsSelfReviewBlocked(actor, r)
    /\ decision = "APPROVED" => ~IsRevisionStale(r)
    /\ review' = review \cup
                    {[revision |-> r, reviewer |-> actor.id,
                      decision |-> decision, asAdmin |-> actor.role = "ADMIN",
                      live     |-> career[revision[r].career].content,
                      snapshot |-> revision[r].snapshot]}
    /\ revision' = [revision EXCEPT ![r].status = decision]
    /\ UNCHANGED <<career, saved, completed>>

\* applyPlan makes the snapshot live; the rows of learners' progress on a
\* deleted step are deleted with the step.
PublishRevision(actor, r) ==
    LET c == revision[r].career IN
    /\ actor \in AtLeast("PUBLISHER")
    /\ revision[r].status = "APPROVED"
    /\ RetiredRule(actor, c)
    /\ ~IsRevisionStale(r)
    /\ NoBlockers(r)
    /\ \E approval \in ApprovingReviews(r) :
           career' = [career EXCEPT ![c] =
                         [status        |-> "PUBLISHED",
                          version       |-> career[c].version + 1,
                          content       |-> revision[r].snapshot,
                          everPublished |-> TRUE,
                          publishedBy   |-> actor.id,
                          reviewedBy    |-> approval.reviewer]]
    /\ revision' = [revision EXCEPT ![r].status = "PUBLISHED"]
    /\ completed' = [completed EXCEPT ![c] = completed[c] \ RemovedSteps(r)]
    /\ UNCHANGED <<review, saved>>

\* No lock on the career and no check of the creator: one conditional delete.
DeleteDraftRevision(actor, r) ==
    /\ actor \in AtLeast("EDITOR")
    /\ IsDraft(r)
    /\ revision' = [revision EXCEPT ![r].status = "DELETED"]
    /\ review' = {v \in review : v.revision # r}
    /\ UNCHANGED <<career, saved, completed>>

-----------------------------------------------------------------------------
(***************************************************************************)
(* Learners.                                                               *)
(***************************************************************************)
SetActivePathway(c) ==
    /\ career[c].status = "PUBLISHED"
    /\ StepsOf[career[c].content] # {}
    /\ saved' = saved \cup {c}
    /\ UNCHANGED <<career, revision, review, completed>>

\* A learner who has saved the career marks a step of it COMPLETED, or the
\* last one who had completed it marks it otherwise.
SetStepStatus(c, s) ==
    /\ c \in saved
    /\ career[c].status \in {"PUBLISHED", "RETIRED"}
    /\ s \in StepsOf[career[c].content]
    /\ \E done \in {completed[c] \cup {s}, completed[c] \ {s}} :
           completed' = [completed EXCEPT ![c] = done]
    /\ UNCHANGED <<career, revision, review, saved>>

-----------------------------------------------------------------------------
CareerNext ==
    \E actor \in Actors, c \in Careers :
        \/ \E r \in RevisionIds : CreateCareer(actor, c, r)
        \/ DeleteCareer(actor, c)
        \/ RetireCareer(actor, c)

RevisionNext ==
    \E actor \in Actors, r \in RevisionIds :
        \/ \E c \in Careers, content \in Contents : OpenRevision(actor, c, r, content)
        \/ \E content \in Contents : SaveDraftRevision(actor, r, content)
        \/ SubmitRevision(actor, r)
        \/ RebaseRevision(actor, r)
        \/ RecallRevision(actor, r)
        \/ \E decision \in Decisions : ReviewRevision(actor, r, decision)
        \/ PublishRevision(actor, r)
        \/ DeleteDraftRevision(actor, r)

LearnerNext ==
    \E c \in Careers :
        \/ SetActivePathway(c)
        \/ \E s \in Steps : SetStepStatus(c, s)

Next == CareerNext \/ RevisionNext \/ LearnerNext

Spec == Init /\ [][Next]_vars

-----------------------------------------------------------------------------
(***************************************************************************)
(* Invariants.                                                             *)
(***************************************************************************)

RowTypes ==
    /\ career \in [Careers -> CareerRow]
    /\ revision \in [RevisionIds -> RevisionRow]
    /\ review \subseteq ReviewRow
    /\ saved \subseteq Careers
    /\ completed \in [Careers -> SUBSET Steps]

InDatabase(r) == revision[r].status \notin {"ABSENT", "DELETED"}

ForeignKeys ==
    /\ \A r \in RevisionIds :
           InDatabase(r) => revision[r].career \in Careers /\ Exists(revision[r].career)
    /\ \A v \in review : InDatabase(v.revision)
    /\ \A c \in Careers : completed[c] \subseteq StepsOf[career[c].content]

\* The rows have their types and every foreign key names a row that exists:
\* a revision its career, a review its revision, a progress row a live step.
TypeOK == RowTypes /\ ForeignKeys

\* A decision is taken once: a revision has at most one review, and as long as
\* it has one its status is that decision or, after an approval, PUBLISHED.
\* So the "latest" approving review that publishRevision records as the
\* career's reviewer is the only one, and no recall, save or second review can
\* follow a decision.
DecisionIsFinal ==
    /\ \A v, w \in review : v.revision = w.revision => v = w
    /\ \A v \in review :
           \/ revision[v.revision].status = v.decision
           \/ v.decision = "APPROVED" /\ revision[v.revision].status = "PUBLISHED"
    /\ \A r \in RevisionIds :
           revision[r].status \in {"APPROVED", "PUBLISHED"} => ApprovingReviews(r) # {}

\* What publishRevision would apply is what a reviewer approved: the snapshot
\* of an approved revision is the one reviewed, and while the revision is not
\* stale the live career still has the content the reviewer compared it with,
\* whatever was saved, recalled, rebased or published in between.
ApprovalCoversPublication ==
    \A r \in RevisionIds :
        revision[r].status = "APPROVED" =>
            \A v \in ApprovingReviews(r) :
                /\ v.snapshot = revision[r].snapshot
                /\ IsRevisionStale(r) \/ v.live = career[revision[r].career].content

\* Separation of duties survives in the record: whoever reviewed a revision did
\* not create it, or acted as an ADMIN.
FourEyes ==
    \A v \in review : v.reviewer # revision[v.revision].creator \/ v.asAdmin

\* No lost update: every version of a career after the first was published by
\* one revision that was based on the version before it, so two published
\* revisions of a career never share a base.
EachVersionOnce ==
    /\ \A r \in RevisionIds :
           InDatabase(r) =>
               revision[r].baseVersion <= career[revision[r].career].version
    /\ \A r \in RevisionIds :
           revision[r].status = "PUBLISHED" =>
               revision[r].baseVersion < career[revision[r].career].version
    /\ \A q, r \in RevisionIds :
           /\ revision[q].status = "PUBLISHED" /\ revision[r].status = "PUBLISHED"
           /\ revision[q].career = revision[r].career
           /\ revision[q].baseVersion = revision[r].baseVersion
           => q = r

-----------------------------------------------------------------------------
(***************************************************************************)
(* Action properties.                                                      *)
(***************************************************************************)

PublicationIsReviewed ==
    \A c \in Careers :
        (career'[c].content # career[c].content \/ career'[c].version # career[c].version)
        => \E r \in RevisionIds, v \in review :
              /\ revision[r].career = c /\ v.revision = r
              /\ revision[r].status = "APPROVED"
              /\ revision'[r].status = "PUBLISHED"
              /\ revision[r].baseVersion = career[c].version
              /\ career'[c].version = career[c].version + 1
              /\ career'[c].content = v.snapshot
              /\ career[c].content = v.live
              /\ career'[c].reviewedBy = v.reviewer
              /\ v.decision = "APPROVED"
              /\ v.reviewer # revision[r].creator \/ v.asAdmin

\* Content goes live only with four eyes: when the content or the version of a
\* career changes, the new content is the snapshot of a revision that was
\* approved and is now published, based on the version it replaces, and
\* somebody who did not create it, or an ADMIN, approved that snapshot against
\* that live content.
ReviewedPublication == [][PublicationIsReviewed]_vars

RevisionIsFrozen(r) ==
    /\ revision'[r].snapshot = revision[r].snapshot
    /\ revision'[r].baseVersion = revision[r].baseVersion
    /\ \/ revision'[r].status = revision[r].status
       \/ /\ revision'[r].status = "DELETED"
          /\ career'[revision[r].career].status = "DELETED"
       \/ /\ revision[r].status = "IN_REVIEW"
          /\ revision'[r].status \in {"DRAFT", "APPROVED", "REJECTED"}
       \/ /\ revision[r].status = "APPROVED"
          /\ revision'[r].status = "PUBLISHED"

\* A revision is frozen from submission on: while it is in review or decided
\* neither its snapshot nor its base moves, and only a decision, a recall, a
\* publication or the deletion of its career ends that.
FrozenUnderReview ==
    [][\A r \in RevisionIds :
          revision[r].status \notin {"ABSENT", "DRAFT"} => RevisionIsFrozen(r)]_vars

\* A retired career comes back, or changes at all, only when an ADMIN
\* publishes a revision of it.
RetiredChangesByAdmin ==
    [][\A c \in Careers :
          career[c].status = "RETIRED" /\ career'[c] # career[c] =>
             \E actor \in Actors :
                 actor.role = "ADMIN" /\ actor.id = career'[c].publishedBy]_vars

\* A career that was released, or that a learner saved, is never deleted, and
\* neither is the record of its published revisions.
HistoryKept ==
    [][/\ \A c \in Careers :
             (c \in saved \/ career[c].everPublished) =>
                career'[c].status # "DELETED" /\ career'[c].everPublished
       /\ \A r \in RevisionIds :
             revision[r].status = "PUBLISHED" => revision'[r] = revision[r]]_vars

=============================================================================
