--------------------------- MODULE LearnerPathways ---------------------------
(***************************************************************************)
(* What learners do with pathways: setActivePathway and setStartingPoint   *)
(* of PathwaysService and setStepStatus of PathwayStepsService, statement  *)
(* by statement.  Requests of a learner (a second tab, a double click)     *)
(* interleave with each other and with the staff, who retire careers and   *)
(* publish pathways that gain and lose steps.  Only the switch of the      *)
(* active pathway runs in a transaction, which locks the learner's row;    *)
(* the views a learner is answered with are put together from what several *)
(* statements read.                                                        *)
(***************************************************************************)
EXTENDS Progress

CONSTANTS
    Learners,
    Careers,       \* careers that have been published
    Steps,         \* ids of pathway steps, never reused
    CareerOf,      \* the career of each step
    OrderOf,       \* and its order in the pathway
    FirstSteps,    \* the steps the pathways start with
    FirstPathways, \* what earlier requests have left in UserPathway
    Requests       \* calls of the routes under /me, each made once

NoRow == [saved |-> FALSE, isActive |-> FALSE, startStep |-> Null]

PathwayRow == [saved : BOOLEAN, isActive : BOOLEAN, startStep : Steps \cup {Null}]

\* A saved pathway, which perhaps starts at one of the first steps.
SavedRow(c) ==
    {row \in PathwayRow :
        row.saved /\ (row.startStep # Null => row.startStep \in FirstSteps /\ CareerOf[row.startStep] = c)}

ASSUME PathwaysAssumption ==
    /\ IsFiniteSet(Steps)
    /\ CareerOf \in [Steps -> Careers]
    /\ OrderOf \in [Steps -> Nat]
    /\ \A s, t \in Steps : CareerOf[s] = CareerOf[t] /\ OrderOf[s] = OrderOf[t] => s = t
    /\ FirstSteps \subseteq Steps
    /\ \A c \in Careers : LET first == {s \in FirstSteps : CareerOf[s] = c} IN
          first # {} /\ Cardinality(first) <= MaxSteps
    /\ FirstPathways \subseteq [Learners -> [Careers -> PathwayRow]]
    /\ \A first \in FirstPathways, l \in Learners :
          /\ \A c \in Careers : first[l][c] \in {NoRow} \cup SavedRow(c)
          /\ \A c, d \in Careers : first[l][c].isActive /\ first[l][d].isActive => c = d
    /\ Null \notin Learners \cup Careers \cup Steps \cup Requests

VARIABLES
    careerStatus,  \* per career, "PUBLISHED" or "RETIRED"
    stepState,     \* per step, "NEW", "LIVE" or "GONE"
    userPathway,   \* per learner and career, the UserPathway row
    userStep,      \* per learner and step, the status in the UserPathwayStep row
    captured,      \* per learner and step, completions less clearings captured
    pc,            \* the last statement of each request
    call,          \* what it asks for, and has found out
    deactivated,   \* the careers its switch deactivates
    holder         \* per learner, the request that holds the row lock

tables == <<careerStatus, stepState, userPathway, userStep, captured>>
vars == <<tables, pc, call, deactivated, holder>>

\* "ABSENT" stands for a row that does not exist.
StepStatuses == {"ABSENT", "NOT_STARTED", "COMPLETED"}

StepCompletionStatuses == {"NOT_STARTED", "COMPLETED"}

NoCall == [op |-> Null, learner |-> Null, career |-> Null, step |-> Null, status |-> Null,
           start |-> Null, steps |-> {}, statuses |-> [s \in Steps |-> "ABSENT"]]

Live(s) == stepState[s] = "LIVE"

Saved(l, c) == userPathway[l][c].saved

Init ==
    /\ careerStatus = [c \in Careers |-> "PUBLISHED"]
    /\ stepState = [s \in Steps |-> IF s \in FirstSteps THEN "LIVE" ELSE "NEW"]
    /\ userPathway \in FirstPathways
    /\ userStep = [l \in Learners |-> [s \in Steps |-> "ABSENT"]]
    /\ captured = [l \in Learners |-> [s \in Steps |-> 0]]
    /\ pc = [q \in Requests |-> "idle"]
    /\ call = [q \in Requests |-> NoCall]
    /\ deactivated = [q \in Requests |-> {}]
    /\ holder = [l \in Learners |-> Null]

-----------------------------------------------------------------------------
At(q, stage) == pc[q] = stage

Goto(q, stage) == pc' = [pc EXCEPT ![q] = stage]

\* The request is answered, with a result or an error.
Answer(q) ==
    /\ Goto(q, "done")
    /\ call' = [call EXCEPT ![q] = NoCall]
    /\ deactivated' = [deactivated EXCEPT ![q] = {}]

\* Mutant: the transaction of q is left open.
Release_Never(q) == UNCHANGED holder

\* The transaction of q ends, and with it the lock on the learner's row.
Release(q) == holder' = [holder EXCEPT ![call[q].learner] = Null]

\* What q asks for.
Learner(q) == call[q].learner
Career(q) == call[q].career
Step(q) == call[q].step

Arrive(q, request, stage) ==
    /\ At(q, "idle")
    /\ call' = [call EXCEPT ![q] = request]
    /\ Goto(q, stage)
    /\ UNCHANGED <<tables, deactivated, holder>>

-----------------------------------------------------------------------------
(***************************************************************************)
(* setActivePathway.                                                       *)
(***************************************************************************)
CallSetActive(q) ==
    \E l \in Learners, c \in Careers :
        Arrive(q, [NoCall EXCEPT !.op = "setActive", !.learner = l, !.career = c], "activate")

\* The career is looked up before the transaction starts.
FindCareer(q) ==
    /\ At(q, "activate")
    /\ IF careerStatus[Career(q)] = "PUBLISHED"
       THEN Goto(q, "careerFound") /\ UNCHANGED <<call, deactivated>>
       ELSE Answer(q)
    /\ UNCHANGED <<tables, holder>>

\* Mutant: the learner's row is not locked.
LockUser_NoWait(q) ==
    /\ At(q, "careerFound")
    /\ Goto(q, "userLocked")
    /\ UNCHANGED <<tables, call, deactivated, holder>>

LockUser(q) ==
    /\ At(q, "careerFound")
    /\ holder[Learner(q)] = Null
    /\ holder' = [holder EXCEPT ![Learner(q)] = q]
    /\ Goto(q, "userLocked")
    /\ UNCHANGED <<tables, call, deactivated>>

\* Mutant: the other pathways are deactivated outside of the transaction.
DeactivateOthers_Commits(q) ==
    LET l == Learner(q) IN
    /\ At(q, "userLocked")
    /\ userPathway' = [userPathway EXCEPT ![l] =
                          [c \in Careers |-> IF c = Career(q) THEN userPathway[l][c]
                                             ELSE [userPathway[l][c] EXCEPT !.isActive = FALSE]]]
    /\ Goto(q, "othersDeactivated")
    /\ UNCHANGED <<careerStatus, stepState, userStep, captured, call, deactivated, holder>>

\* Nobody sees the writes of the transaction before it commits.
DeactivateOthers(q) ==
    /\ At(q, "userLocked")
    /\ deactivated' = [deactivated EXCEPT ![q] =
                          {c \in Careers \ {Career(q)} : userPathway[Learner(q)][c].isActive}]
    /\ Goto(q, "othersDeactivated")
    /\ UNCHANGED <<tables, call, holder>>

\* The upsert, which leaves the starting point of a row it updates, and COMMIT; the
\* answer is a view of the active pathway.
ActivateAndCommit(q) ==
    LET l == Learner(q) IN
    /\ At(q, "othersDeactivated")
    /\ userPathway' = [userPathway EXCEPT ![l] =
                          [c \in Careers |->
                              IF c = Career(q)
                              THEN [userPathway[l][c] EXCEPT !.saved = TRUE, !.isActive = TRUE]
                              ELSE IF c \in deactivated[q]
                              THEN [userPathway[l][c] EXCEPT !.isActive = FALSE]
                              ELSE userPathway[l][c]]]
    /\ Release(q)
    /\ Goto(q, "view")
    /\ deactivated' = [deactivated EXCEPT ![q] = {}]
    /\ UNCHANGED <<careerStatus, stepState, userStep, captured, call>>

\* The transaction exceeds its time limit or loses its connection.
AbortSwitch(q) ==
    /\ pc[q] \in {"userLocked", "othersDeactivated"}
    /\ Release(q)
    /\ Answer(q)
    /\ UNCHANGED tables

-----------------------------------------------------------------------------
(***************************************************************************)
(* setStartingPoint.                                                       *)
(***************************************************************************)
CallSetStart(q) ==
    \E l \in Learners, c \in Careers, s \in Steps \cup {Null} :
        Arrive(q, [NoCall EXCEPT !.op = "setStart", !.learner = l, !.career = c, !.step = s],
               "setStart")

FindSavedPathway(q) ==
    /\ At(q, "setStart")
    /\ IF Saved(Learner(q), Career(q))
       THEN Goto(q, "pathwayFound") /\ UNCHANGED <<call, deactivated>>
       ELSE Answer(q)
    /\ UNCHANGED <<tables, holder>>

InPathway(s, c) == Live(s) /\ CareerOf[s] = c

FindStartStep(q) ==
    /\ At(q, "pathwayFound")
    /\ IF Step(q) = Null \/ InPathway(Step(q), Career(q))
       THEN Goto(q, "startFound") /\ UNCHANGED <<call, deactivated>>
       ELSE Answer(q)
    /\ UNCHANGED <<tables, holder>>

\* The foreign key refuses a step that has been deleted meanwhile; if it does not, the
\* answer shows the progress from there.
SetStart(q) ==
    /\ At(q, "startFound")
    /\ IF Step(q) = Null \/ Live(Step(q))
       THEN /\ userPathway' = [userPathway EXCEPT ![Learner(q)][Career(q)].startStep = Step(q)]
            /\ call' = [call EXCEPT ![q].start = Step(q)]
            /\ Goto(q, "viewedFound")
            /\ UNCHANGED deactivated
       ELSE UNCHANGED userPathway /\ Answer(q)
    /\ UNCHANGED <<careerStatus, stepState, userStep, captured, holder>>

-----------------------------------------------------------------------------
(***************************************************************************)
(* setStepStatus.                                                          *)
(***************************************************************************)
CallSetStatus(q) ==
    \E l \in Learners, s \in Steps, status \in StepCompletionStatuses :
        Arrive(q, [NoCall EXCEPT !.op = "setStatus", !.learner = l, !.career = CareerOf[s],
                                 !.step = s, !.status = status], "setStatus")

\* A step of a published career, or of a retired one the learner has saved.
Accessible(l, s) ==
    Live(s) /\ (careerStatus[CareerOf[s]] = "PUBLISHED" \/ Saved(l, CareerOf[s]))

FindStep(q) ==
    /\ At(q, "setStatus")
    /\ IF Accessible(Learner(q), Step(q))
       THEN Goto(q, "stepFound") /\ UNCHANGED <<call, deactivated>>
       ELSE Answer(q)
    /\ UNCHANGED <<tables, holder>>

CheckSaved(q) ==
    /\ At(q, "stepFound")
    /\ IF Saved(Learner(q), Career(q))
       THEN /\ call' = [call EXCEPT ![q].start = userPathway[Learner(q)][Career(q)].startStep]
            /\ Goto(q, "pathwaySaved")
            /\ UNCHANGED deactivated
       ELSE Answer(q)
    /\ UNCHANGED <<tables, holder>>

\* Mutant: the update does not look at the status it overwrites.
RowsToUpdate_Same(q) == userStep[Learner(q)][Step(q)] # "ABSENT"

\* The rows updateMany matches.
RowsToUpdate(q) == userStep[Learner(q)][Step(q)] \notin {"ABSENT", call[q].status}

\* A row changed, and setStepStatus captures step_completion_changed.
Change(q) ==
    /\ userStep' = [userStep EXCEPT ![Learner(q)][Step(q)] = call[q].status]
    /\ captured' = [captured EXCEPT ![Learner(q)][Step(q)] =
                       captured[Learner(q)][Step(q)]
                           + (IF call[q].status = "COMPLETED" THEN 1 ELSE -1)]

\* Once the status is as it should be, the answer shows the progress.
UpdateStatus(q) ==
    /\ At(q, "pathwaySaved")
    /\ \/ RowsToUpdate(q) /\ Change(q) /\ Goto(q, "viewedFound")
       \/ /\ ~RowsToUpdate(q)
          /\ Goto(q, IF call[q].status = "NOT_STARTED" THEN "viewedFound" ELSE "statusNotUpdated")
          /\ UNCHANGED <<userStep, captured>>
    /\ UNCHANGED <<careerStatus, stepState, userPathway, call, deactivated, holder>>

\* createMany skips a duplicate; the foreign key refuses a deleted step.
CreateStatus(q) ==
    /\ At(q, "statusNotUpdated")
    /\ IF Live(Step(q))
       THEN /\ IF userStep[Learner(q)][Step(q)] = "ABSENT" THEN Change(q)
               ELSE UNCHANGED <<userStep, captured>>
            /\ Goto(q, "viewedFound")
            /\ UNCHANGED <<call, deactivated>>
       ELSE UNCHANGED <<userStep, captured>> /\ Answer(q)
    /\ UNCHANGED <<careerStatus, stepState, userPathway, holder>>

-----------------------------------------------------------------------------
(***************************************************************************)
(* getActivePathway, also at the end of setActivePathway; getSavedPathways *)
(* for each of the saved pathways; the progress at the end of              *)
(* setStartingPoint and setStepStatus, whose two queries run in either     *)
(* order.                                                                  *)
(***************************************************************************)
CallView(q) == \E l \in Learners : Arrive(q, [NoCall EXCEPT !.op = "view", !.learner = l], "view")

\* The pathways q may be shown.
Viewable(q) ==
    {c \in Careers : /\ Saved(Learner(q), c)
                     /\ call[q].op = "setActive" => userPathway[Learner(q)][c].isActive}

\* The row and its starting point.
FindViewed(q) ==
    /\ At(q, "view")
    /\ \/ \E c \in Viewable(q) :
             /\ call' = [call EXCEPT ![q].career = c,
                                    ![q].start = userPathway[Learner(q)][c].startStep]
             /\ Goto(q, "viewedFound")
             /\ UNCHANGED deactivated
       \/ Viewable(q) = {} /\ Answer(q)
    /\ UNCHANGED <<tables, holder>>

LiveSteps(c) == {s \in Steps : InPathway(s, c)}

ReadSteps(q) ==
    /\ At(q, "viewedFound")
    /\ call' = [call EXCEPT ![q].steps = LiveSteps(Career(q))]
    /\ Goto(q, "stepsRead")
    /\ UNCHANGED <<tables, deactivated, holder>>

ReadStatuses(q) ==
    /\ At(q, "viewedFound")
    /\ call[q].op \in {"setStart", "setStatus"}
    /\ call' = [call EXCEPT ![q].statuses = userStep[Learner(q)]]
    /\ Goto(q, "statusesRead")
    /\ UNCHANGED <<tables, deactivated, holder>>

\* A view reads last what it has not read yet.
ShownSteps(q) == IF At(q, "stepsRead") THEN call[q].steps ELSE LiveSteps(Career(q))
ShownStatuses(q) == IF At(q, "stepsRead") THEN userStep[Learner(q)] ELSE call[q].statuses

ShownStart(q) == FindStepOrder(ShownSteps(q), OrderOf, call[q].start)

Shown(q) == ComputeProgress(ShownSteps(q), OrderOf, ShownStatuses(q), ShownStart(q))

AnswerView(q) ==
    /\ pc[q] \in {"stepsRead", "statusesRead"}
    /\ Answer(q)
    /\ UNCHANGED <<tables, holder>>

-----------------------------------------------------------------------------
(***************************************************************************)
(* The staff: retireCareer, and the parts of publishRevision learners see. *)
(***************************************************************************)
RetireCareer(c) ==
    /\ careerStatus[c] = "PUBLISHED"
    /\ careerStatus' = [careerStatus EXCEPT ![c] = "RETIRED"]
    /\ UNCHANGED <<stepState, userPathway, userStep, captured, pc, call, deactivated, holder>>

\* A publication adds a step, of so many a draft may have; it brings a retired career back.
AddStep(s) ==
    /\ stepState[s] = "NEW"
    /\ Cardinality(LiveSteps(CareerOf[s])) < MaxSteps
    /\ careerStatus' = [careerStatus EXCEPT ![CareerOf[s]] = "PUBLISHED"]
    /\ stepState' = [stepState EXCEPT ![s] = "LIVE"]
    /\ UNCHANGED <<userPathway, userStep, captured, pc, call, deactivated, holder>>

\* Mutant: the starting points that name the step stay.
StartWithout_Kept(row, s) == row

\* ON DELETE SET NULL.
StartWithout(row, s) == IF row.startStep = s THEN [row EXCEPT !.startStep = Null] ELSE row

\* A publication removes a step, not the last one of its pathway, that nobody
\* had completed when it looked; the rows that refer to the step go with it.
RemoveStep(s) ==
    /\ Live(s)
    /\ \E other \in Steps \ {s} : InPathway(other, CareerOf[s])
    /\ careerStatus' = [careerStatus EXCEPT ![CareerOf[s]] = "PUBLISHED"]
    /\ stepState' = [stepState EXCEPT ![s] = "GONE"]
    /\ userPathway' = [l \in Learners |-> [c \in Careers |-> StartWithout(userPathway[l][c], s)]]
    /\ userStep' = [l \in Learners |-> [userStep[l] EXCEPT ![s] = "ABSENT"]]
    /\ captured' = [l \in Learners |-> [captured[l] EXCEPT ![s] = 0]]
    /\ UNCHANGED <<pc, call, deactivated, holder>>

-----------------------------------------------------------------------------
Call(q) == CallSetActive(q) \/ CallSetStart(q) \/ CallSetStatus(q) \/ CallView(q)

\* What the service does for a request once it has arrived.
Serve(q) ==
    \/ FindCareer(q) \/ LockUser(q) \/ DeactivateOthers(q) \/ ActivateAndCommit(q)
    \/ FindSavedPathway(q) \/ FindStartStep(q) \/ SetStart(q)
    \/ FindStep(q) \/ CheckSaved(q) \/ UpdateStatus(q) \/ CreateStatus(q)
    \/ FindViewed(q) \/ ReadSteps(q) \/ ReadStatuses(q) \/ AnswerView(q)

Staff ==
    \/ \E c \in Careers : RetireCareer(c)
    \/ \E s \in Steps : AddStep(s) \/ RemoveStep(s)

Next == (\E q \in Requests : Call(q) \/ Serve(q) \/ AbortSwitch(q)) \/ Staff

\* The service finishes what it was asked.
Spec == Init /\ [][Next]_vars /\ \A q \in Requests : WF_vars(Serve(q))

-----------------------------------------------------------------------------
(***************************************************************************)
(* Properties.                                                             *)
(***************************************************************************)

\* The rows have their types; a starting point is a live step of that career's
\* own pathway, a step status belongs to a live step of a saved career.
TypeOK ==
    /\ userPathway \in [Learners -> [Careers -> PathwayRow]]
    /\ userStep \in [Learners -> [Steps -> StepStatuses]]
    /\ \A l \in Learners, c \in Careers :
          LET row == userPathway[l][c] IN
          /\ ~row.saved => row = NoRow
          /\ row.startStep # Null => InPathway(row.startStep, c)
    /\ \A l \in Learners, s \in Steps :
          userStep[l][s] # "ABSENT" => Live(s) /\ Saved(l, CareerOf[s])

ActiveCareers(l) == {c \in Careers : userPathway[l][c].isActive}

\* However switches race, a learner has at most one active pathway.
AtMostOneActive == \A l \in Learners : \A c, d \in ActiveCareers(l) : c = d

\* A switch is atomic: a learner who has an active pathway is never without
\* one, not even when a switch is cut off half way.
NeverLeftWithout ==
    [][\A l \in Learners : ActiveCareers(l) # {} => ActiveCareers(l)' # {}]_vars

\* Only a real change is captured, and every one is: over the life of a step the
\* captured completions exceed the clearings by one while the step is completed
\* and equal them while it is not, however identical requests race.
CapturesRealChanges ==
    \A l \in Learners, s \in Steps :
        captured[l][s] = IF userStep[l][s] = "COMPLETED" THEN 1 ELSE 0

\* A view never strands the learner, whatever happens between its statements: unless the
\* pathway is complete, which is when 100 % are shown, it names a next step, from the
\* starting point on if any is left there, which the learner may complete, even in a
\* retired career, if it has not been removed meanwhile.
NextStepLeadsOn ==
    \A q \in Requests : pc[q] \in {"stepsRead", "statusesRead"} =>
        LET shown == Shown(q)
            next == shown.nextStepId
            left == {s \in ShownSteps(q) : ShownStatuses(q)[s] # "COMPLETED"} IN
        /\ (next = Null) = (left = {})
        /\ shown.percentages \subseteq (IF left = {} THEN {100} ELSE 0..99)
        /\ next # Null =>
              /\ next \in left
              /\ Live(next) => Accessible(Learner(q), next)
              /\ \A o \in ShownStart(q) :
                    OrderOf[next] < o => \A s \in left : OrderOf[s] < o

\* Every call is answered.
EveryCallAnswered == \A q \in Requests : ~At(q, "idle") ~> At(q, "done")

=============================================================================
