----------------------------- MODULE RevisionTx -----------------------------
(***************************************************************************)
(* The editorial operations as the transactions they are.  A request of    *)
(* ContentRevisionsService runs, at READ COMMITTED, the statements         *)
(*                                                                         *)
(*     peek at the revision for its career, without a lock                 *)
(*     SELECT the career FOR UPDATE                                        *)
(*     SELECT the revision FOR UPDATE                                      *)
(*     (submit, publish) read the live career and the progress on it       *)
(*     write and COMMIT, or return a failure                               *)
(*                                                                         *)
(* and between any two of them other requests and learners take steps.     *)
(* The checks use what the transaction has read; the writes go to the rows *)
(* as they are at COMMIT.  Nobody sees a write before COMMIT, so all the   *)
(* writes of a transaction are one step.                                   *)
(***************************************************************************)
EXTENDS Revisions

CONSTANTS
    Requests,    \* calls of the revision and career routes, each made once
    Learning,    \* the steps learners complete meanwhile
    FirstTables  \* what the requests find in Career, ContentRevision and Review

ASSUME TxAssumption ==
    /\ Learning \subseteq Steps
    /\ Null \notin Requests
    /\ Careers \cap RevisionIds = {}
    /\ \A first \in FirstTables :
           LET stored(r) == first.revision[r].status \notin {"ABSENT", "DELETED"} IN
           /\ first.career \in [Careers -> CareerRow]
           /\ first.revision \in [RevisionIds -> RevisionRow]
           /\ first.review \subseteq ReviewRow
           /\ \A r \in RevisionIds : stored(r) =>
                 /\ first.revision[r].career \in Careers
                 /\ first.career[first.revision[r].career].status \notin {"ABSENT", "DELETED"}
           /\ \A v \in first.review : stored(v.revision)

VARIABLES
    pc,      \* the last statement of each request
    call,    \* its operation, caller, rows and argument
    read,    \* the columns it has read
    holder   \* per career and revision, the request that holds its row lock

txVars == <<career, revision, review, saved, completed, pc, call, read, holder>>

local == <<call, read>>

Stages == {"idle", "peeked", "careerLocked", "revisionLocked", "planned", "done"}

\* The minimum role of each route.
MinRole ==
    [save |-> "EDITOR", submit |-> "EDITOR", rebase |-> "EDITOR",
     recall |-> "EDITOR", review |-> "REVIEWER", publish |-> "PUBLISHER",
     retire |-> "PUBLISHER"]

Ops == DOMAIN MinRole

\* What an operation is given besides its caller and its row.
ArgumentsOf(op) ==
    CASE op = "save" -> Contents [] op = "review" -> Decisions [] OTHER -> {Null}

NoCall == [op |-> Null, actor |-> Null, career |-> Null, revision |-> Null, arg |-> Null]

NothingRead ==
    [careerStatus |-> Null, version |-> 0, status |-> Null, base |-> 0,
     removed |-> {}, progress |-> {}]

TxInit ==
    /\ \E first \in FirstTables :
           career = first.career /\ revision = first.revision /\ review = first.review
    /\ saved = {}
    /\ completed = [c \in Careers |-> {}]
    /\ pc = [q \in Requests |-> "idle"]
    /\ call = [q \in Requests |-> NoCall]
    /\ read = [q \in Requests |-> NothingRead]
    /\ holder = [row \in Careers \cup RevisionIds |-> Null]

-----------------------------------------------------------------------------
Free(row) == holder[row] = Null

Goto(q, stage) == pc' = [pc EXCEPT ![q] = stage]

\* Mutant: the transaction is left open.
Release_KeepLocks(q) ==
    /\ Goto(q, "done")
    /\ read' = [read EXCEPT ![q] = NothingRead]
    /\ call' = [call EXCEPT ![q] = NoCall]
    /\ UNCHANGED holder

\* A failure or the end of a COMMIT: the locks of q are released.
Release(q) ==
    /\ holder' = [row \in DOMAIN holder |-> IF holder[row] = q THEN Null ELSE holder[row]]
    /\ Goto(q, "done")
    /\ read' = [read EXCEPT ![q] = NothingRead]
    /\ call' = [call EXCEPT ![q] = NoCall]

Refuse(q) == Release(q) /\ UNCHANGED vars

\* The call arrives, passes the roles guard and peeks at its revision.
Peek(q) ==
    /\ pc[q] = "idle"
    /\ \E op \in Ops \ {"retire"}, actor \in Actors, r \in RevisionIds :
           /\ actor \in AtLeast(MinRole[op])
           /\ InDatabase(r)
           /\ \E arg \in ArgumentsOf(op) :
                  call' = [call EXCEPT ![q] =
                              [op |-> op, actor |-> actor, career |-> revision[r].career,
                               revision |-> r, arg |-> arg]]
    /\ Goto(q, "peeked")
    /\ UNCHANGED <<vars, read, holder>>

\* retireCareer has no revision to peek at.
CallRetire(q) ==
    /\ pc[q] = "idle"
    /\ \E actor \in AtLeast(MinRole["retire"]), c \in Careers :
           call' = [call EXCEPT ![q] = [op |-> "retire", actor |-> actor, career |-> c,
                                        revision |-> Null, arg |-> Null]]
    /\ Goto(q, "peeked")
    /\ UNCHANGED <<vars, read, holder>>

\* Mutant: the career is read without FOR UPDATE.
LockCareer_NoWait(q) ==
    LET c == call[q].career IN
    /\ pc[q] = "peeked"
    /\ Exists(c)
    /\ read' = [read EXCEPT ![q].careerStatus = career[c].status,
                            ![q].version      = career[c].version]
    /\ Goto(q, "careerLocked")
    /\ UNCHANGED <<vars, call, holder>>

LockCareer(q) ==
    LET c == call[q].career IN
    /\ pc[q] = "peeked"
    /\ Free(c)
    /\ Exists(c)
    /\ holder' = [holder EXCEPT ![c] = q]
    /\ read' = [read EXCEPT ![q].careerStatus = career[c].status,
                            ![q].version      = career[c].version]
    /\ Goto(q, "careerLocked")
    /\ UNCHANGED <<vars, call>>

\* The career is gone.  recallRevision does not look at what its SELECT found.
CareerGone(q) ==
    /\ pc[q] = "peeked"
    /\ ~Exists(call[q].career)
    /\ IF call[q].op = "recall"
       THEN Goto(q, "careerLocked") /\ UNCHANGED <<vars, local, holder>>
       ELSE Refuse(q)

\* save and rebase refuse a retired career before they read the revision.
RefuseRetired(q) ==
    /\ pc[q] = "careerLocked"
    /\ call[q].op \in {"save", "rebase"}
    /\ read[q].careerStatus = "RETIRED"
    /\ Refuse(q)

LockRevision(q) ==
    LET r == call[q].revision IN
    /\ pc[q] = "careerLocked"
    /\ call[q].op # "retire"
    /\ call[q].op \in {"save", "rebase"} => read[q].careerStatus # "RETIRED"
    /\ Free(r)
    /\ IF InDatabase(r)
       THEN /\ holder' = [holder EXCEPT ![r] = q]
            /\ read' = [read EXCEPT ![q].status = revision[r].status,
                                    ![q].base   = revision[r].baseVersion]
            /\ Goto(q, "revisionLocked")
            /\ UNCHANGED <<vars, call>>
       ELSE Refuse(q)

\* submit and publish load the live career and count the COMPLETED progress.
ReadPlan(q) ==
    LET r == call[q].revision IN
    /\ pc[q] = "revisionLocked"
    /\ call[q].op \in {"submit", "publish"}
    /\ read' = [read EXCEPT ![q].removed  = RemovedSteps(r),
                            ![q].progress = completed[call[q].career]]
    /\ Goto(q, "planned")
    /\ UNCHANGED <<vars, call, holder>>

-----------------------------------------------------------------------------
(***************************************************************************)
(* The checks of each operation, on what was read, and its writes.         *)
(***************************************************************************)
ReadStale(q) == read[q].base # read[q].version

ReadBlockers(q) ==
    \/ revision[call[q].revision].snapshot \notin Complete
    \/ read[q].removed \cap read[q].progress # {}

MayAct(q) ==
    LET actor == call[q].actor
        creator == revision[call[q].revision].creator
        status == read[q].status
        onRetired == read[q].careerStatus = "RETIRED" => actor.role = "ADMIN"
    IN CASE call[q].op = "save" -> status = "DRAFT"
         [] call[q].op = "submit" -> status = "DRAFT" /\ onRetired /\ ~ReadBlockers(q)
         [] call[q].op = "rebase" ->
                creator = actor.id /\ status = "DRAFT" /\ ReadStale(q)
         [] call[q].op = "recall" ->
                (creator = actor.id \/ actor.role = "ADMIN") /\ status = "IN_REVIEW"
         [] call[q].op = "review" ->
                /\ status = "IN_REVIEW"
                /\ creator # actor.id \/ actor.role = "ADMIN"
                /\ call[q].arg = "APPROVED" => ~ReadStale(q)
         [] call[q].op = "publish" ->
                /\ status = "APPROVED" /\ onRetired /\ ~ReadStale(q) /\ ~ReadBlockers(q)
                /\ ApprovingReviews(call[q].revision) # {}
         [] call[q].op = "retire" -> read[q].careerStatus = "PUBLISHED"

Ready(q) ==
    pc[q] = CASE call[q].op = "retire" -> "careerLocked"
              [] call[q].op \in {"submit", "publish"} -> "planned"
              [] OTHER -> "revisionLocked"

Fail(q) ==
    /\ Ready(q)
    /\ ~MayAct(q)
    /\ Refuse(q)

\* save, submit, rebase and recall update columns of the revision.
CommitRevision(q) ==
    LET r == call[q].revision IN
    /\ Ready(q)
    /\ MayAct(q)
    /\ \/ /\ call[q].op = "save"
          /\ revision' = [revision EXCEPT ![r].snapshot = call[q].arg]
       \/ /\ call[q].op = "submit"
          /\ revision' = [revision EXCEPT ![r].status = "IN_REVIEW"]
       \/ /\ call[q].op = "rebase"
          /\ revision' = [revision EXCEPT ![r].baseVersion = read[q].version]
       \/ /\ call[q].op = "recall"
          /\ revision' = [revision EXCEPT ![r].status = "DRAFT"]
    /\ Release(q)
    /\ UNCHANGED <<career, review, saved, completed>>

CommitReview(q) ==
    LET r == call[q].revision IN
    /\ Ready(q)
    /\ call[q].op = "review"
    /\ MayAct(q)
    /\ review' = review \cup
                    {[revision |-> r, reviewer |-> call[q].actor.id,
                      decision |-> call[q].arg,
                      asAdmin  |-> call[q].actor.role = "ADMIN",
                      live     |-> career[call[q].career].content,
                      snapshot |-> revision[r].snapshot]}
    /\ revision' = [revision EXCEPT ![r].status = call[q].arg]
    /\ Release(q)
    /\ UNCHANGED <<career, saved, completed>>

\* Deleting a step deletes the progress learners have on it by then.
CommitPublish(q) ==
    LET r == call[q].revision
        c == call[q].career
    IN
    /\ Ready(q)
    /\ call[q].op = "publish"
    /\ MayAct(q)
    /\ \E approval \in ApprovingReviews(r) :
           career' = [career EXCEPT ![c] =
                         [status        |-> "PUBLISHED",
                          version       |-> read[q].version + 1,
                          content       |-> revision[r].snapshot,
                          everPublished |-> TRUE,
                          publishedBy   |-> call[q].actor.id,
                          reviewedBy    |-> approval.reviewer]]
    /\ revision' = [revision EXCEPT ![r].status = "PUBLISHED"]
    /\ completed' = [completed EXCEPT ![c] = completed[c] \ read[q].removed]
    /\ Release(q)
    /\ UNCHANGED <<review, saved>>

CommitRetire(q) ==
    LET c == call[q].career IN
    /\ Ready(q)
    /\ call[q].op = "retire"
    /\ MayAct(q)
    /\ career' = [career EXCEPT ![c].status = "RETIRED"]
    /\ Release(q)
    /\ UNCHANGED <<revision, review, saved, completed>>

\* An interactive transaction that exceeds its time limit, or loses its
\* connection, is rolled back wherever it stands.
Abort(q) == pc[q] \in {"peeked", "careerLocked", "revisionLocked", "planned"} /\ Refuse(q)

-----------------------------------------------------------------------------
(***************************************************************************)
(* Single statements, which wait for the row locks they conflict with: the *)
(* conditional deletes, and the insert of a revision, whose foreign key    *)
(* takes a share lock on the career.                                       *)
(***************************************************************************)
\* Mutant: the operations lock no career and no revision.
RowsFree_Always(c) == TRUE

RowsFree(c) ==
    Free(c) /\ \A r \in RevisionIds : revision[r].career = c => Free(r)

Statement ==
    /\ \E actor \in Actors :
          \/ \E c \in Careers :
                \/ RowsFree(c) /\ DeleteCareer(actor, c)
                \/ \E r \in RevisionIds :
                      \/ CreateCareer(actor, c, r)
                      \/ Free(c) /\ \E content \in Contents : OpenRevision(actor, c, r, content)
          \/ \E r \in RevisionIds : Free(r) /\ DeleteDraftRevision(actor, r)
    /\ UNCHANGED <<pc, local, holder>>

Learner ==
    /\ \E c \in Careers :
          \/ Free(c) /\ SetActivePathway(c)
          \/ \E s \in Learning : SetStepStatus(c, s)
    /\ UNCHANGED <<pc, local, holder>>

\* What the database does for a request once the call has arrived.
Advance(q) ==
    \/ LockCareer(q) \/ CareerGone(q) \/ RefuseRetired(q) \/ LockRevision(q)
    \/ ReadPlan(q) \/ Fail(q)
    \/ CommitRevision(q) \/ CommitReview(q) \/ CommitPublish(q) \/ CommitRetire(q)

TxNext ==
    \/ \E q \in Requests : Peek(q) \/ CallRetire(q) \/ Abort(q) \/ Advance(q)
    \/ Statement
    \/ Learner

\* The database executes what it was sent and hands a released lock on.
TxSpec == TxInit /\ [][TxNext]_txVars /\ \A q \in Requests : WF_txVars(Advance(q))

-----------------------------------------------------------------------------
\* Requests hold locks only while their transaction runs, and the lock on a
\* revision only with the one on its career: the order of locking that keeps
\* two requests from waiting for each other.
TxTypeOK ==
    /\ pc \in [Requests -> Stages]
    /\ \A q \in Requests :
          /\ call[q] # NoCall => call[q].op \in Ops /\ call[q].actor \in Actors
          /\ read[q].removed \subseteq Steps /\ read[q].progress \subseteq Steps
    /\ holder \in [Careers \cup RevisionIds -> Requests \cup {Null}]
    /\ \A q \in Requests :
          /\ pc[q] \in {"idle", "peeked", "done"} => \A row \in DOMAIN holder : holder[row] # q
          /\ \A r \in RevisionIds : holder[r] = q => holder[revision[r].career] = q

\* The locks do their work: what a transaction has read of its career and its
\* revision is what the rows hold for as long as it runs, so every check is made
\* on current values.
ReadsStayCurrent ==
    \A q \in Requests :
        /\ pc[q] \in {"careerLocked", "revisionLocked", "planned"} /\ Exists(call[q].career) =>
              /\ read[q].careerStatus = career[call[q].career].status
              /\ read[q].version = career[call[q].career].version
        /\ pc[q] \in {"revisionLocked", "planned"} =>
              /\ read[q].status = revision[call[q].revision].status
              /\ read[q].base = revision[call[q].revision].baseVersion
        /\ pc[q] = "planned" => read[q].removed = RemovedSteps(call[q].revision)

\* A learner has completed a step q removes since q counted the progress on it.
Overtaken(q) ==
    /\ call[q].op \in {"submit", "publish"}
    /\ read[q].removed \cap (completed[call[q].career] \ read[q].progress) # {}

\* The interleaved transactions have no effect that the atomic operations of
\* Revisions, run one after the other, could not have, unless a learner overtakes
\* a submission or a publication.
Serializes == [][Next \/ \E q \in Requests : Overtaken(q) /\ (CommitRevision(q) \/ CommitPublish(q))]_vars

\* "Postgres allows [...] deleting a step learners completed. The product doesn't": a
\* publication never takes a completed step from a learner.
ProgressSurvivesPublish ==
    [][\A c \in Careers :
          career'[c].version # career[c].version => completed'[c] = completed[c]]_vars

\* No two requests wait for each other: a call that has arrived is answered.
EveryCallAnswered == \A q \in Requests : pc[q] = "peeked" ~> pc[q] = "done"

=============================================================================
