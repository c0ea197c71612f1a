------------------------ MODULE LearnerPathwaysProofs ------------------------
(***************************************************************************)
(* Proofs about the pathways of learners, for every set of learners,       *)
(* careers, steps and concurrent requests.                                 *)
(***************************************************************************)
EXTENDS LearnerPathways, TLAPS, FiniteSetTheorems, WellFoundedInduction

-----------------------------------------------------------------------------
(***************************************************************************)
(* Progress.                                                               *)
(***************************************************************************)
\* The percentage a learner is shown is 100 only when every step is completed, and 0
\* only when none is: with no more steps than a draft may have, rounding never
\* reaches either end.
THEOREM PercentageReachesNoEnd ==
    ASSUME NEW total \in 1..MaxSteps, NEW completed \in 0..total,
           NEW p \in Percentages(completed, total)
    PROVE  /\ p = 100 <=> completed = total
           /\ p = 0 <=> completed = 0
<1>1. /\ p \in 0..100
      /\ total \in Nat /\ completed \in Nat
      /\ 2 * (100 * completed - total * p) <= total
      /\ -total <= 2 * (100 * completed - total * p)
    BY DEF Percentages, MaxSteps
<1>2. p = 100 => completed = total
    BY <1>1 DEF MaxSteps
<1>3. ASSUME completed = total PROVE p = 100
  <2>1. CASE p <= 99
    <3>1. total * p <= total * 99
        BY <1>1, <2>1
    <3> QED
        BY <1>1, <1>3, <3>1
  <2> QED
      BY <1>1, <2>1
<1>4. p = 0 => completed = 0
    BY <1>1 DEF MaxSteps
<1>5. ASSUME completed = 0 PROVE p = 0
  <2>1. CASE p >= 1
    <3>1. total * p >= total
        BY <1>1, <2>1
    <3> QED
        BY <1>1, <1>5, <3>1
  <2> QED
      BY <1>1, <2>1
<1> QED
    BY <1>2, <1>3, <1>4, <1>5

\* Of finitely many steps with orders, the earliest is one, and none is before it: no
\* step is before one that as few as possible are before.
LEMMA EarliestIsMinimal ==
    ASSUME NEW some, NEW order, some # {}, IsFiniteSet(some),
           \A s \in some : order[s] \in Nat
    PROVE  /\ Earliest(some, order) \in some
           /\ \A s \in some : order[Earliest(some, order)] <= order[s]
<1> DEFINE Before(s) == {t \in some : order[t] < order[s]}
           befores == {Before(s) : s \in some}
<1>1. befores \subseteq FiniteSubsetsOf(some) /\ befores # {}
  <2>1. FiniteSubsetsOf(some) = SUBSET some
      BY FS_FiniteSubsetsOfFinite
  <2>2. befores \subseteq SUBSET some
      OBVIOUS
  <2>3. befores # {}
      OBVIOUS
  <2> QED
      BY <2>1, <2>2, <2>3
<1>2. \E least \in befores : \A b \in befores : <<b, least>> \notin StrictSubsetOrdering(some)
    BY <1>1, FS_StrictSubsetOrderingWellFounded, WFMin
<1>3. PICK s \in some : \A t \in some : <<Before(t), Before(s)>> \notin StrictSubsetOrdering(some)
    BY <1>2
<1>4. \A t \in Before(s) : Before(t) \subseteq Before(s) /\ t \notin Before(t)
    OBVIOUS
<1>5. \A t \in some : Before(t) \in SUBSET some
    OBVIOUS
<1>6. Before(s) = {}
    BY <1>3, <1>4, <1>5 DEF StrictSubsetOrdering
<1>7. \A t \in some : order[s] <= order[t]
    BY <1>6
<1> QED
    BY <1>7 DEF Earliest

-----------------------------------------------------------------------------
(***************************************************************************)
(* The inductive invariant.  A pathway once saved stays, so what a request *)
(* has found out about its own pathway still holds when it writes; and the *)
(* lock on the learner's row keeps every other switch of that learner from *)
(* making the set a switch deactivates out of date.                        *)
(***************************************************************************)
Stages ==
    {"idle", "done", "activate", "careerFound", "userLocked", "othersDeactivated", "setStart",
     "pathwayFound", "startFound", "setStatus", "stepFound", "pathwaySaved",
     "statusNotUpdated", "view", "viewedFound", "stepsRead", "statusesRead"}

InTransaction == {"userLocked", "othersDeactivated"}

CallRow ==
    [op : {Null, "setActive", "setStart", "setStatus", "view"}, learner : Learners \cup {Null},
     career : Careers \cup {Null}, step : Steps \cup {Null},
     status : StepCompletionStatuses \cup {Null}, start : Steps \cup {Null},
     steps : SUBSET Steps, statuses : [Steps -> StepStatuses]]

ControlTypes ==
    /\ careerStatus \in [Careers -> {"PUBLISHED", "RETIRED"}]
    /\ stepState \in [Steps -> {"NEW", "LIVE", "GONE"}]
    /\ captured \in [Learners -> [Steps -> Int]]
    /\ pc \in [Requests -> Stages]
    /\ call \in [Requests -> CallRow]
    /\ deactivated \in [Requests -> SUBSET Careers]
    /\ holder \in [Learners -> Requests \cup {Null}]

\* What a request at each stage asks for, and has found.
Found(q) ==
    /\ ~At(q, "idle") /\ ~At(q, "done") => Learner(q) \in Learners
    /\ pc[q] \in {"activate", "careerFound", "userLocked", "othersDeactivated", "setStart",
                  "pathwayFound", "startFound", "setStatus", "stepFound", "pathwaySaved",
                  "statusNotUpdated", "viewedFound", "stepsRead", "statusesRead"} => Career(q) \in Careers
    /\ pc[q] \in {"pathwayFound", "startFound", "pathwaySaved", "statusNotUpdated",
                  "viewedFound", "stepsRead", "statusesRead"} => Saved(Learner(q), Career(q))
    /\ At(q, "startFound") /\ Step(q) # Null => CareerOf[Step(q)] = Career(q)
    /\ pc[q] \in {"setStatus", "stepFound", "pathwaySaved", "statusNotUpdated"} =>
          /\ Step(q) \in Steps
          /\ Career(q) = CareerOf[Step(q)]
          /\ call[q].status \in StepCompletionStatuses
    /\ At(q, "statusNotUpdated") => call[q].status = "COMPLETED"
    /\ At(q, "stepsRead") => \A s \in call[q].steps : CareerOf[s] = Career(q)

\* A request holds the lock of its learner exactly while its transaction is open.
LockHeld ==
    \A q \in Requests, l \in Learners :
        holder[l] = q <=> pc[q] \in InTransaction /\ Learner(q) = l

\* What a switch is about to deactivate is what is active besides.
DeactivatesAll ==
    \A q \in Requests :
        At(q, "othersDeactivated") => deactivated[q] = ActiveCareers(Learner(q)) \ {Career(q)}

PathwaysInv ==
    /\ TypeOK
    /\ ControlTypes
    /\ \A q \in Requests : Found(q)
    /\ LockHeld
    /\ DeactivatesAll
    /\ AtMostOneActive
    /\ CapturesRealChanges

\* It holds of the rows earlier requests have left.
LEMMA InitPathwaysInv == Init => PathwaysInv
<1> SUFFICES ASSUME Init PROVE PathwaysInv
    OBVIOUS
<1> USE DEF Init
<1>1. TypeOK
  <2>1. /\ userPathway \in [Learners -> [Careers -> PathwayRow]]
        /\ \A l \in Learners, c \in Careers : userPathway[l][c] \in {NoRow} \cup SavedRow(c)
      BY PathwaysAssumption
  <2>2. userStep \in [Learners -> [Steps -> StepStatuses]]
      BY DEF StepStatuses
  <2>3. \A l \in Learners, c \in Careers :
            LET row == userPathway[l][c] IN
            /\ ~row.saved => row = NoRow
            /\ row.startStep # Null => InPathway(row.startStep, c)
    <3> SUFFICES ASSUME NEW l \in Learners, NEW c \in Careers
                 PROVE  LET row == userPathway[l][c] IN
                        /\ ~row.saved => row = NoRow
                        /\ row.startStep # Null => InPathway(row.startStep, c)
        OBVIOUS
    <3>1. CASE userPathway[l][c] = NoRow
        BY <3>1 DEF NoRow
    <3>2. CASE userPathway[l][c] \in SavedRow(c)
        BY <3>2, PathwaysAssumption DEF SavedRow, InPathway, Live
    <3> QED
        BY <2>1, <3>1, <3>2
  <2> QED
      BY <2>1, <2>2, <2>3 DEF TypeOK
<1>2. ControlTypes
    BY DEF ControlTypes, Stages, CallRow, NoCall, StepStatuses
<1>3. \A q \in Requests : Found(q)
    BY DEF Found, At
<1>4. LockHeld
    BY PathwaysAssumption DEF LockHeld, InTransaction
<1>5. DeactivatesAll
    BY DEF DeactivatesAll, At
<1>6. AtMostOneActive
    BY PathwaysAssumption DEF AtMostOneActive, ActiveCareers
<1>7. CapturesRealChanges
    BY DEF CapturesRealChanges
<1> QED
    BY <1>1, <1>2, <1>3, <1>4, <1>5, <1>6, <1>7 DEF PathwaysInv

-----------------------------------------------------------------------------
(***************************************************************************)
(* Steps outside of transactions.                                          *)
(***************************************************************************)
RequestTypes ==
    /\ pc \in [Requests -> Stages]
    /\ call \in [Requests -> CallRow]
    /\ deactivated \in [Requests -> SUBSET Careers]

TableTypes ==
    /\ careerStatus \in [Careers -> {"PUBLISHED", "RETIRED"}]
    /\ stepState \in [Steps -> {"NEW", "LIVE", "GONE"}]
    /\ captured \in [Learners -> [Steps -> Int]]

\* No other request takes part in the step.
OnlyOf(moving) ==
    \A r \in Requests \ moving :
        pc'[r] = pc[r] /\ call'[r] = call[r] /\ deactivated'[r] = deactivated[r]

\* A step of requests outside of transactions that leaves the saved and the active
\* pathways alone keeps all of the invariant but the types and counts of the rows.
LEMMA StepOutsideTransactions ==
    ASSUME PathwaysInv, NEW moving \in SUBSET Requests, OnlyOf(moving), holder' = holder,
           RequestTypes', TableTypes',
           \A q \in moving : /\ pc[q] \notin InTransaction /\ pc'[q] \notin InTransaction
                             /\ Found(q)',
           \A l \in Learners, c \in Careers :
              /\ Saved(l, c) => Saved(l, c)'
              /\ userPathway'[l][c].isActive = userPathway[l][c].isActive
    PROVE  ControlTypes' /\ (\A q \in Requests : Found(q)') /\ LockHeld' /\ DeactivatesAll'
           /\ AtMostOneActive'
<1>1. ControlTypes'
    BY DEF PathwaysInv, ControlTypes, RequestTypes, TableTypes
<1>2. ASSUME NEW q \in Requests PROVE Found(q)'
  <2>1. CASE q \in moving
      BY <2>1
  <2>2. CASE q \notin moving
    <3>1. Found(q) /\ pc'[q] = pc[q] /\ call'[q] = call[q]
        BY <2>2 DEF PathwaysInv, OnlyOf
    <3> QED
        BY <3>1 DEF Found, At, Learner, Career, Step
  <2> QED
      BY <2>1, <2>2
<1>3. LockHeld'
  <2> SUFFICES ASSUME NEW q \in Requests, NEW l \in Learners
               PROVE  holder'[l] = q <=> pc'[q] \in InTransaction /\ Learner(q)' = l
      BY DEF LockHeld
  <2>1. CASE q \in moving
      BY <2>1 DEF PathwaysInv, LockHeld
  <2>2. CASE q \notin moving
      BY <2>2 DEF PathwaysInv, LockHeld, OnlyOf, Learner
  <2> QED
      BY <2>1, <2>2
<1>4. \A l \in Learners : ActiveCareers(l)' = ActiveCareers(l)
    BY DEF ActiveCareers
<1>5. DeactivatesAll'
  <2> SUFFICES ASSUME NEW q \in Requests, pc'[q] = "othersDeactivated"
               PROVE  deactivated'[q] = ActiveCareers(Learner(q))' \ {Career(q)'}
      BY DEF DeactivatesAll, At
  <2>1. q \notin moving
      BY DEF InTransaction
  <2>2. pc[q] = "othersDeactivated" /\ call'[q] = call[q] /\ deactivated'[q] = deactivated[q]
      BY <2>1 DEF OnlyOf
  <2>3. Learner(q) \in Learners
      BY <2>2 DEF PathwaysInv, Found, At
  <2> QED
      BY <1>4, <2>2, <2>3 DEF PathwaysInv, DeactivatesAll, At, Learner, Career, ActiveCareers
<1>6. AtMostOneActive'
    BY <1>4 DEF PathwaysInv, AtMostOneActive
<1> QED
    BY <1>1, <1>2, <1>3, <1>5, <1>6

\* A step that changes no table keeps what is said of the rows.
LEMMA RowsKept ==
    ASSUME TypeOK, CapturesRealChanges, UNCHANGED tables
    PROVE  TypeOK' /\ CapturesRealChanges'
BY DEF TypeOK, CapturesRealChanges, tables, InPathway, Live, Saved

\* A request that moves on, outside of transactions, without writing.
LEMMA QuietStep ==
    ASSUME PathwaysInv, NEW q \in Requests, UNCHANGED <<tables, holder>>,
           NEW stage \in Stages \ InTransaction, NEW request \in CallRow,
           NEW others \in SUBSET Careers,
           pc[q] \notin InTransaction,
           pc' = [pc EXCEPT ![q] = stage],
           call' = [call EXCEPT ![q] = request],
           deactivated' = [deactivated EXCEPT ![q] = others],
           Found(q)'
    PROVE  PathwaysInv'
<1>1. RequestTypes'
    BY DEF PathwaysInv, ControlTypes, RequestTypes
<1>2. TableTypes'
    BY DEF PathwaysInv, ControlTypes, TableTypes, tables
<1>3. OnlyOf({q})
    BY DEF PathwaysInv, ControlTypes, OnlyOf
<1>4. pc'[q] \notin InTransaction
    BY DEF PathwaysInv, ControlTypes
<1>5. \A l \in Learners, c \in Careers :
         /\ Saved(l, c) => Saved(l, c)'
         /\ userPathway'[l][c].isActive = userPathway[l][c].isActive
    BY DEF Saved, tables
<1>6. ControlTypes' /\ (\A r \in Requests : Found(r)') /\ LockHeld' /\ DeactivatesAll'
      /\ AtMostOneActive'
    BY <1>1, <1>2, <1>3, <1>4, <1>5, StepOutsideTransactions
<1> QED
    BY <1>6, RowsKept DEF PathwaysInv

\* The answer to a request, and its way to the next statement, as QuietStep has them.
LEMMA AnswerMoves ==
    ASSUME ControlTypes, NEW q \in Requests, Answer(q)
    PROVE  /\ pc' = [pc EXCEPT ![q] = "done"]
           /\ call' = [call EXCEPT ![q] = NoCall]
           /\ deactivated' = [deactivated EXCEPT ![q] = {}]
           /\ "done" \in Stages \ InTransaction
           /\ NoCall \in CallRow
           /\ Found(q)'
<1>1. /\ pc' = [pc EXCEPT ![q] = "done"]
      /\ call' = [call EXCEPT ![q] = NoCall]
      /\ deactivated' = [deactivated EXCEPT ![q] = {}]
    BY DEF Answer, Goto
<1>2. pc'[q] = "done"
    BY <1>1 DEF ControlTypes
<1>3. Found(q)'
    BY <1>2 DEF Found, At
<1>4. NoCall \in CallRow
    BY DEF NoCall, CallRow, StepStatuses
<1> QED
    BY <1>1, <1>3, <1>4 DEF Stages, InTransaction

\* A request that is answered outside of transactions without writing.
LEMMA QuietAnswer ==
    ASSUME PathwaysInv, NEW q \in Requests, UNCHANGED <<tables, holder>>,
           pc[q] \notin InTransaction, Answer(q)
    PROVE  PathwaysInv'
<1>1. ControlTypes
    BY DEF PathwaysInv
<1>2. /\ pc' = [pc EXCEPT ![q] = "done"]
      /\ call' = [call EXCEPT ![q] = NoCall]
      /\ deactivated' = [deactivated EXCEPT ![q] = {}]
      /\ "done" \in Stages \ InTransaction
      /\ NoCall \in CallRow
      /\ Found(q)'
    BY <1>1, AnswerMoves
<1>3. {} \in SUBSET Careers
    OBVIOUS
<1> QED
    BY <1>2, <1>3, QuietStep

\* A request that goes on to the next statement without writing, with what it asks for.
LEMMA QuietGoto ==
    ASSUME PathwaysInv, NEW q \in Requests, UNCHANGED <<tables, holder>>,
           pc[q] \notin InTransaction,
           NEW stage \in Stages \ InTransaction, Goto(q, stage),
           NEW request \in CallRow, call' = [call EXCEPT ![q] = request],
           UNCHANGED deactivated, Found(q)'
    PROVE  PathwaysInv'
<1>1. deactivated' = [deactivated EXCEPT ![q] = deactivated[q]]
    BY DEF PathwaysInv, ControlTypes
<1>2. deactivated[q] \in SUBSET Careers
    BY DEF PathwaysInv, ControlTypes
<1> QED
    BY <1>1, <1>2, QuietStep DEF Goto

\* A request that goes on and asks for what it did: what it has found out is to be shown.
LEMMA QuietAdvance ==
    ASSUME PathwaysInv, NEW q \in Requests, UNCHANGED <<tables, holder>>,
           pc[q] \notin InTransaction,
           NEW stage \in Stages \ InTransaction, Goto(q, stage), UNCHANGED <<call, deactivated>>,
           pc'[q] = stage => Found(q)'
    PROVE  PathwaysInv'
<1>1. call[q] \in CallRow /\ call' = [call EXCEPT ![q] = call[q]]
    BY DEF PathwaysInv, ControlTypes
<1>2. pc'[q] = stage
    BY DEF PathwaysInv, ControlTypes, Goto
<1> QED
    BY <1>1, <1>2, QuietGoto

\* Requests arrive.
LEMMA CallInv == ASSUME PathwaysInv, NEW q \in Requests, Call(q) PROVE PathwaysInv'
<1>1. ASSUME NEW request \in CallRow, request.learner \in Learners,
             NEW stage \in {"activate", "setStart", "setStatus", "view"},
             Arrive(q, request, stage),
             stage # "view" => request.career \in Careers,
             stage = "setStatus" => /\ request.step \in Steps
                                    /\ request.career = CareerOf[request.step]
                                    /\ request.status \in StepCompletionStatuses
      PROVE  PathwaysInv'
  <2>1. /\ UNCHANGED <<tables, holder>> /\ UNCHANGED deactivated
        /\ pc[q] \notin InTransaction
        /\ Goto(q, stage) /\ call' = [call EXCEPT ![q] = request]
        /\ stage \in Stages \ InTransaction
      BY <1>1 DEF Arrive, At, InTransaction, Stages
  <2>2. pc'[q] = stage /\ call'[q] = request
      BY <2>1 DEF PathwaysInv, ControlTypes, Goto
  <2>3. Found(q)'
      BY <1>1, <2>2 DEF Found, At, Learner, Career, Step
  <2> QED
      BY <2>1, <2>3, QuietGoto
<1>2. CASE CallSetActive(q)
  <2>1. PICK l \in Learners, c \in Careers :
            Arrive(q, [NoCall EXCEPT !.op = "setActive", !.learner = l, !.career = c], "activate")
      BY <1>2 DEF CallSetActive
  <2>2. [NoCall EXCEPT !.op = "setActive", !.learner = l, !.career = c] \in CallRow
      BY DEF NoCall, CallRow, StepStatuses
  <2> QED
      BY <1>1, <2>1, <2>2 DEF NoCall
<1>3. CASE CallSetStart(q)
  <2>1. PICK l \in Learners, c \in Careers, s \in Steps \cup {Null} :
            Arrive(q, [NoCall EXCEPT !.op = "setStart", !.learner = l, !.career = c, !.step = s],
                   "setStart")
      BY <1>3 DEF CallSetStart
  <2>2. [NoCall EXCEPT !.op = "setStart", !.learner = l, !.career = c, !.step = s] \in CallRow
      BY DEF NoCall, CallRow, StepStatuses
  <2> QED
      BY <1>1, <2>1, <2>2 DEF NoCall
<1>4. CASE CallSetStatus(q)
  <2>1. PICK l \in Learners, s \in Steps, status \in StepCompletionStatuses :
            Arrive(q, [NoCall EXCEPT !.op = "setStatus", !.learner = l, !.career = CareerOf[s],
                                     !.step = s, !.status = status], "setStatus")
      BY <1>4 DEF CallSetStatus
  <2>2. CareerOf[s] \in Careers
      BY PathwaysAssumption
  <2>3. [NoCall EXCEPT !.op = "setStatus", !.learner = l, !.career = CareerOf[s],
                       !.step = s, !.status = status] \in CallRow
      BY <2>2 DEF NoCall, CallRow, StepStatuses
  <2> QED
      BY <1>1, <2>1, <2>2, <2>3 DEF NoCall
<1>5. CASE CallView(q)
  <2>1. PICK l \in Learners : Arrive(q, [NoCall EXCEPT !.op = "view", !.learner = l], "view")
      BY <1>5 DEF CallView
  <2>2. [NoCall EXCEPT !.op = "view", !.learner = l] \in CallRow
      BY DEF NoCall, CallRow, StepStatuses
  <2> QED
      BY <1>1, <2>1, <2>2 DEF NoCall
<1> QED
    BY <1>2, <1>3, <1>4, <1>5 DEF Call

\* The look-ups of setActivePathway, setStartingPoint and setStepStatus, and the views.
LEMMA LookUpInv ==
    ASSUME PathwaysInv, NEW q \in Requests,
           \/ FindCareer(q) \/ FindSavedPathway(q) \/ FindStartStep(q)
           \/ FindStep(q) \/ CheckSaved(q)
           \/ FindViewed(q) \/ ReadSteps(q) \/ ReadStatuses(q) \/ AnswerView(q)
    PROVE  PathwaysInv'
<1>1. Found(q) /\ pc[q] \in Stages /\ call[q] \in CallRow
    BY DEF PathwaysInv, ControlTypes
<1>2. CASE FindCareer(q)
  <2>1. UNCHANGED <<tables, holder>> /\ pc[q] = "activate" /\ pc[q] \notin InTransaction
      BY <1>2 DEF FindCareer, At, InTransaction
  <2>2. CASE Answer(q)
      BY <2>1, <2>2, QuietAnswer
  <2>3. CASE Goto(q, "careerFound") /\ UNCHANGED <<call, deactivated>>
    <3>1. pc'[q] = "careerFound" => Found(q)'
        BY <1>1, <2>1, <2>3 DEF Found, At, Learner, Career, Step
    <3> QED
        BY <2>1, <2>3, <3>1, QuietAdvance DEF Stages, InTransaction
  <2> QED
      BY <1>2, <2>2, <2>3 DEF FindCareer
<1>3. CASE FindSavedPathway(q)
  <2>1. UNCHANGED <<tables, holder>> /\ pc[q] = "setStart" /\ pc[q] \notin InTransaction
      BY <1>3 DEF FindSavedPathway, At, InTransaction
  <2>2. CASE Answer(q)
      BY <2>1, <2>2, QuietAnswer
  <2>3. CASE /\ Goto(q, "pathwayFound") /\ UNCHANGED <<call, deactivated>>
             /\ Saved(Learner(q), Career(q))
    <3>1. pc'[q] = "pathwayFound" => Found(q)'
        BY <1>1, <2>1, <2>3 DEF Found, At, Learner, Career, Step, Saved, tables
    <3> QED
        BY <2>1, <2>3, <3>1, QuietAdvance DEF Stages, InTransaction
  <2> QED
      BY <1>3, <2>2, <2>3 DEF FindSavedPathway
<1>4. CASE FindStartStep(q)
  <2>1. UNCHANGED <<tables, holder>> /\ pc[q] = "pathwayFound" /\ pc[q] \notin InTransaction
      BY <1>4 DEF FindStartStep, At, InTransaction
  <2>2. CASE Answer(q)
      BY <2>1, <2>2, QuietAnswer
  <2>3. CASE /\ Goto(q, "startFound") /\ UNCHANGED <<call, deactivated>>
             /\ Step(q) = Null \/ InPathway(Step(q), Career(q))
    <3>1. pc'[q] = "startFound" => Found(q)'
        BY <1>1, <2>1, <2>3 DEF Found, At, Learner, Career, Step, Saved, tables, InPathway
    <3> QED
        BY <2>1, <2>3, <3>1, QuietAdvance DEF Stages, InTransaction
  <2> QED
      BY <1>4, <2>2, <2>3 DEF FindStartStep
<1>5. CASE FindStep(q)
  <2>1. UNCHANGED <<tables, holder>> /\ pc[q] = "setStatus" /\ pc[q] \notin InTransaction
      BY <1>5 DEF FindStep, At, InTransaction
  <2>2. CASE Answer(q)
      BY <2>1, <2>2, QuietAnswer
  <2>3. CASE Goto(q, "stepFound") /\ UNCHANGED <<call, deactivated>>
    <3>1. pc'[q] = "stepFound" => Found(q)'
        BY <1>1, <2>1, <2>3 DEF Found, At, Learner, Career, Step
    <3> QED
        BY <2>1, <2>3, <3>1, QuietAdvance DEF Stages, InTransaction
  <2> QED
      BY <1>5, <2>2, <2>3 DEF FindStep
<1>6. CASE CheckSaved(q)
  <2>1. UNCHANGED <<tables, holder>> /\ pc[q] = "stepFound" /\ pc[q] \notin InTransaction
      BY <1>6 DEF CheckSaved, At, InTransaction
  <2>2. CASE Answer(q)
      BY <2>1, <2>2, QuietAnswer
  <2>3. CASE /\ call' = [call EXCEPT ![q].start = userPathway[Learner(q)][Career(q)].startStep]
             /\ Goto(q, "pathwaySaved") /\ UNCHANGED deactivated
             /\ Saved(Learner(q), Career(q))
    <3> DEFINE request == [call[q] EXCEPT !.start = userPathway[Learner(q)][Career(q)].startStep]
    <3>1. Learner(q) \in Learners /\ Career(q) \in Careers
        BY <1>1, <2>1 DEF Found, At
    <3>2. userPathway[Learner(q)][Career(q)].startStep \in Steps \cup {Null}
        BY <3>1 DEF PathwaysInv, TypeOK, PathwayRow
    <3>3. request \in CallRow
        BY <1>1, <3>2 DEF CallRow
    <3>4. call' = [call EXCEPT ![q] = request]
        BY <2>3 DEF PathwaysInv, ControlTypes
    <3>5. pc'[q] = "pathwaySaved" /\ call'[q] = request
        BY <2>3, <3>4 DEF PathwaysInv, ControlTypes, Goto
    <3>6. /\ call'[q].learner = Learner(q) /\ call'[q].career = Career(q)
          /\ call'[q].step = Step(q) /\ call'[q].status = call[q].status
        BY <1>1, <3>5 DEF CallRow, Learner, Career, Step
    <3>7. Found(q)'
        BY <1>1, <2>1, <2>3, <3>1, <3>5, <3>6
           DEF Found, At, Learner, Career, Step, Saved, tables
    <3> HIDE DEF request
    <3> QED
        BY <2>1, <2>3, <3>3, <3>4, <3>7, QuietGoto DEF Stages, InTransaction
  <2> QED
      BY <1>6, <2>2, <2>3 DEF CheckSaved
<1>7. CASE FindViewed(q)
  <2>1. UNCHANGED <<tables, holder>> /\ pc[q] = "view" /\ pc[q] \notin InTransaction
      BY <1>7 DEF FindViewed, At, InTransaction
  <2>2. CASE Answer(q)
      BY <2>1, <2>2, QuietAnswer
  <2>3. ASSUME NEW c \in Viewable(q),
               call' = [call EXCEPT ![q].career = c,
                                    ![q].start = userPathway[Learner(q)][c].startStep],
               Goto(q, "viewedFound"), UNCHANGED deactivated
        PROVE  PathwaysInv'
    <3> DEFINE request == [call[q] EXCEPT !.career = c,
                                          !.start = userPathway[Learner(q)][c].startStep]
    <3>1. Learner(q) \in Learners /\ c \in Careers /\ Saved(Learner(q), c)
        BY <1>1, <2>1 DEF Found, At, Viewable
    <3>2. userPathway[Learner(q)][c].startStep \in Steps \cup {Null}
        BY <3>1 DEF PathwaysInv, TypeOK, PathwayRow
    <3>3. request \in CallRow
        BY <1>1, <3>1, <3>2 DEF CallRow
    <3>4. call' = [call EXCEPT ![q] = request]
        BY <2>3 DEF PathwaysInv, ControlTypes
    <3>5. pc'[q] = "viewedFound" /\ call'[q] = request
        BY <2>3, <3>4 DEF PathwaysInv, ControlTypes, Goto
    <3>6. call'[q].career = c /\ call'[q].learner = Learner(q)
        BY <1>1, <3>5 DEF CallRow, Learner
    <3>7. Found(q)'
        BY <2>1, <2>3, <3>1, <3>5, <3>6 DEF Found, At, Learner, Career, Step, Saved, tables
    <3> HIDE DEF request
    <3> QED
        BY <2>1, <2>3, <3>3, <3>4, <3>7, QuietGoto DEF Stages, InTransaction
  <2> QED
      BY <1>7, <2>2, <2>3 DEF FindViewed
<1>8. CASE ReadSteps(q)
  <2> DEFINE request == [call[q] EXCEPT !.steps = LiveSteps(Career(q))]
  <2>1. UNCHANGED <<tables, holder>> /\ pc[q] = "viewedFound" /\ pc[q] \notin InTransaction
      BY <1>8 DEF ReadSteps, At, InTransaction
  <2>2. request \in CallRow
      BY <1>1 DEF CallRow, LiveSteps
  <2>3. /\ call' = [call EXCEPT ![q] = request]
        /\ Goto(q, "stepsRead") /\ UNCHANGED deactivated
      BY <1>8 DEF ReadSteps, PathwaysInv, ControlTypes
  <2>4. pc'[q] = "stepsRead" /\ call'[q] = request
      BY <2>3 DEF PathwaysInv, ControlTypes, Goto
  <2>5. /\ call'[q].career = Career(q) /\ call'[q].learner = Learner(q)
        /\ call'[q].steps = LiveSteps(Career(q))
      BY <1>1, <2>4 DEF CallRow, Learner, Career
  <2>6. Found(q)'
      BY <1>1, <2>1, <2>4, <2>5 DEF Found, At, Learner, Career, Step, Saved, tables, LiveSteps,
                                        InPathway
  <2> HIDE DEF request
  <2> QED
      BY <2>1, <2>2, <2>3, <2>6, QuietGoto DEF Stages, InTransaction
<1>9. CASE ReadStatuses(q)
  <2> DEFINE request == [call[q] EXCEPT !.statuses = userStep[Learner(q)]]
  <2>1. UNCHANGED <<tables, holder>> /\ pc[q] = "viewedFound" /\ pc[q] \notin InTransaction
      BY <1>9 DEF ReadStatuses, At, InTransaction
  <2>2. request \in CallRow
    <3>1. userStep[Learner(q)] \in [Steps -> StepStatuses]
        BY <1>1, <2>1 DEF PathwaysInv, TypeOK, Found, At
    <3> QED
        BY <1>1, <3>1 DEF CallRow
  <2>3. /\ call' = [call EXCEPT ![q] = request]
        /\ Goto(q, "statusesRead") /\ UNCHANGED deactivated
      BY <1>9 DEF ReadStatuses, PathwaysInv, ControlTypes
  <2>4. pc'[q] = "statusesRead" /\ call'[q] = request
      BY <2>3 DEF PathwaysInv, ControlTypes, Goto
  <2>5. call'[q].career = Career(q) /\ call'[q].learner = Learner(q)
      BY <1>1, <2>4 DEF CallRow, Learner, Career
  <2>6. Found(q)'
      BY <1>1, <2>1, <2>4, <2>5 DEF Found, At, Learner, Career, Step, Saved, tables
  <2> HIDE DEF request
  <2> QED
      BY <2>1, <2>2, <2>3, <2>6, QuietGoto DEF Stages, InTransaction
<1>10. CASE AnswerView(q)
    BY <1>10, QuietAnswer DEF AnswerView, InTransaction
<1> QED
    BY <1>2, <1>3, <1>4, <1>5, <1>6, <1>7, <1>8, <1>9, <1>10

-----------------------------------------------------------------------------
(***************************************************************************)
(* The switch of the active pathway.                                       *)
(***************************************************************************)
\* Two switches of a learner are not in a transaction together.
LEMMA OneSwitchAtATime ==
    ASSUME PathwaysInv, NEW q \in Requests, NEW r \in Requests,
           pc[q] \in InTransaction, pc[r] \in InTransaction, Learner(q) = Learner(r)
    PROVE  q = r
<1>1. Learner(q) \in Learners
    BY DEF PathwaysInv, Found, At, InTransaction
<1> QED
    BY <1>1 DEF PathwaysInv, LockHeld

\* The transaction of a switch begins by locking the row of the learner.
LEMMA LockUserInv ==
    ASSUME PathwaysInv, NEW q \in Requests, LockUser(q) PROVE PathwaysInv'
<1> DEFINE l == Learner(q)
<1>1. /\ pc[q] = "careerFound" /\ holder[l] = Null /\ holder' = [holder EXCEPT ![l] = q]
      /\ pc' = [pc EXCEPT ![q] = "userLocked"] /\ UNCHANGED <<tables, call, deactivated>>
    BY DEF LockUser, At, Goto
<1>2. l \in Learners /\ Career(q) \in Careers
    BY <1>1 DEF PathwaysInv, Found, At
<1>3. ControlTypes'
    BY <1>1, <1>2 DEF PathwaysInv, ControlTypes, tables, Stages
<1>4. \A r \in Requests : Found(r)'
    BY <1>1, <1>2 DEF PathwaysInv, ControlTypes, Found, At, Learner, Career, Step, Saved, tables
<1>5. LockHeld'
    BY <1>1, <1>2, PathwaysAssumption
       DEF PathwaysInv, ControlTypes, LockHeld, InTransaction, Learner
<1>6. DeactivatesAll'
    BY <1>1 DEF PathwaysInv, ControlTypes, DeactivatesAll, At, Learner, Career, ActiveCareers, tables
<1>7. AtMostOneActive'
    BY <1>1 DEF PathwaysInv, AtMostOneActive, ActiveCareers, tables
<1> QED
    BY <1>1, <1>3, <1>4, <1>5, <1>6, <1>7, RowsKept DEF PathwaysInv

\* The switch notes everything else that is active.
LEMMA DeactivateOthersInv ==
    ASSUME PathwaysInv, NEW q \in Requests, DeactivateOthers(q) PROVE PathwaysInv'
<1> DEFINE l == Learner(q)
           active == {c \in Careers \ {Career(q)} : userPathway[l][c].isActive}
<1>1. /\ pc[q] = "userLocked" /\ deactivated' = [deactivated EXCEPT ![q] = active]
      /\ pc' = [pc EXCEPT ![q] = "othersDeactivated"] /\ UNCHANGED <<tables, call, holder>>
    BY DEF DeactivateOthers, At, Goto
<1>2. l \in Learners /\ Career(q) \in Careers
    BY <1>1 DEF PathwaysInv, Found, At
<1>3. ControlTypes'
    BY <1>1 DEF PathwaysInv, ControlTypes, tables, Stages
<1>4. \A r \in Requests : Found(r)'
    BY <1>1, <1>2 DEF PathwaysInv, ControlTypes, Found, At, Learner, Career, Step, Saved, tables
<1>5. LockHeld'
    BY <1>1 DEF PathwaysInv, ControlTypes, LockHeld, InTransaction, Learner
<1>6. DeactivatesAll'
    BY <1>1 DEF PathwaysInv, ControlTypes, DeactivatesAll, At, Learner, Career, ActiveCareers, tables
<1>7. AtMostOneActive'
    BY <1>1 DEF PathwaysInv, AtMostOneActive, ActiveCareers, tables
<1> QED
    BY <1>1, <1>3, <1>4, <1>5, <1>6, <1>7, RowsKept DEF PathwaysInv

\* The end of a transaction: the lock is released and the request answered.
LEMMA TransactionEnds ==
    ASSUME PathwaysInv, NEW q \in Requests, pc[q] \in InTransaction, Release(q),
           NEW stage \in {"done", "view"}, pc' = [pc EXCEPT ![q] = stage],
           NEW request \in CallRow, call' = [call EXCEPT ![q] = request],
           stage = "view" => request.learner \in Learners,
           deactivated' = [deactivated EXCEPT ![q] = {}],
           TableTypes',
           \A l \in Learners, c \in Careers : Saved(l, c) => Saved(l, c)',
           \A l \in Learners \ {Learner(q)}, c \in Careers :
              userPathway'[l][c] = userPathway[l][c]
    PROVE  ControlTypes' /\ (\A r \in Requests : Found(r)') /\ LockHeld' /\ DeactivatesAll'
<1> DEFINE l == Learner(q)
<1>1. /\ holder' = [holder EXCEPT ![l] = Null]
      /\ pc'[q] = stage /\ call'[q] = request /\ deactivated'[q] = {}
      /\ \A r \in Requests \ {q} : /\ pc'[r] = pc[r] /\ call'[r] = call[r]
                                   /\ deactivated'[r] = deactivated[r]
    BY DEF Release, Learner, PathwaysInv, ControlTypes
<1>2. l \in Learners
    BY DEF PathwaysInv, Found, At, InTransaction
<1>3. {} \in SUBSET Careers
    OBVIOUS
<1>4. ControlTypes'
    BY <1>1, <1>2, <1>3 DEF PathwaysInv, ControlTypes, TableTypes, Stages
<1>5. ASSUME NEW r \in Requests PROVE Found(r)'
  <2>1. CASE r = q
      BY <1>1, <2>1 DEF Found, At, Learner
  <2>2. CASE r # q
    <3>1. Found(r) /\ pc'[r] = pc[r] /\ call'[r] = call[r]
        BY <1>1, <2>2 DEF PathwaysInv, ControlTypes
    <3> QED
        BY <3>1 DEF Found, At, Learner, Career, Step
  <2> QED
      BY <2>1, <2>2
<1>6. LockHeld'
  <2> SUFFICES ASSUME NEW r \in Requests, NEW m \in Learners
               PROVE  holder'[m] = r <=> pc'[r] \in InTransaction /\ Learner(r)' = m
      BY DEF LockHeld
  <2>1. CASE r = q
    <3>1. pc'[r] \notin InTransaction
        BY <1>1, <2>1 DEF PathwaysInv, ControlTypes, InTransaction
    <3>2. holder'[m] # r
        BY <1>1, <1>2, <2>1, PathwaysAssumption DEF PathwaysInv, ControlTypes, LockHeld
    <3> QED
        BY <3>1, <3>2
  <2>2. CASE r # q
    <3>1. pc'[r] = pc[r] /\ Learner(r)' = Learner(r)
        BY <1>1, <2>2 DEF PathwaysInv, ControlTypes, Learner
    <3>2. holder[l] = q
        BY <1>2 DEF PathwaysInv, LockHeld
    <3> QED
        BY <1>1, <1>2, <2>2, <3>1, <3>2, PathwaysAssumption
           DEF PathwaysInv, ControlTypes, LockHeld
  <2> QED
      BY <2>1, <2>2
<1>7. DeactivatesAll'
  <2> SUFFICES ASSUME NEW r \in Requests, pc'[r] = "othersDeactivated"
               PROVE  deactivated'[r] = ActiveCareers(Learner(r))' \ {Career(r)'}
      BY DEF DeactivatesAll, At
  <2>1. /\ r # q /\ pc[r] = "othersDeactivated" /\ call'[r] = call[r]
        /\ deactivated'[r] = deactivated[r]
      BY <1>1
  <2>2. Learner(r) \in Learners \ {l}
      BY <2>1, OneSwitchAtATime DEF PathwaysInv, Found, At, InTransaction
  <2>3. ActiveCareers(Learner(r))' = ActiveCareers(Learner(r))
      BY <2>1, <2>2 DEF ActiveCareers, Learner
  <2> QED
      BY <2>1, <2>3 DEF PathwaysInv, DeactivatesAll, At, Career
<1> QED
    BY <1>4, <1>5, <1>6, <1>7

\* A switch that is cut off gives its lock back and has written nothing.
LEMMA AbortSwitchInv ==
    ASSUME PathwaysInv, NEW q \in Requests, AbortSwitch(q) PROVE PathwaysInv'
<1>1. pc[q] \in InTransaction /\ Release(q) /\ Answer(q) /\ UNCHANGED tables
    BY DEF AbortSwitch, InTransaction
<1>2. TableTypes'
    BY <1>1 DEF PathwaysInv, ControlTypes, TableTypes, tables
<1>3. ControlTypes' /\ (\A r \in Requests : Found(r)') /\ LockHeld' /\ DeactivatesAll'
  <2>1. ControlTypes
      BY DEF PathwaysInv
  <2>2. /\ pc' = [pc EXCEPT ![q] = "done"]
        /\ call' = [call EXCEPT ![q] = NoCall] /\ NoCall \in CallRow
        /\ deactivated' = [deactivated EXCEPT ![q] = {}]
      BY <1>1, <2>1, AnswerMoves
  <2>3. /\ \A l \in Learners, c \in Careers : Saved(l, c) => Saved(l, c)'
        /\ \A l \in Learners \ {Learner(q)}, c \in Careers :
              userPathway'[l][c] = userPathway[l][c]
      BY <1>1 DEF tables, Saved
  <2> QED
      BY <1>1, <1>2, <2>2, <2>3, TransactionEnds
<1>4. AtMostOneActive'
    BY <1>1 DEF PathwaysInv, AtMostOneActive, ActiveCareers, tables
<1> QED
    BY <1>1, <1>3, <1>4, RowsKept DEF PathwaysInv

\* What the commit of a switch leaves active: its career, and nothing besides, since
\* what it deactivates is what was active.
LEMMA SwitchEffect ==
    ASSUME PathwaysInv, NEW q \in Requests, ActivateAndCommit(q)
    PROVE  /\ Learner(q) \in Learners /\ Career(q) \in Careers
           /\ userPathway' \in [Learners -> [Careers -> PathwayRow]]
           /\ \A l \in Learners \ {Learner(q)}, c \in Careers :
                 userPathway'[l][c] = userPathway[l][c]
           /\ \A l \in Learners, c \in Careers :
                 /\ userPathway'[l][c].startStep = userPathway[l][c].startStep
                 /\ userPathway'[l][c].saved =
                       (userPathway[l][c].saved \/ (l = Learner(q) /\ c = Career(q)))
           /\ userPathway'[Learner(q)][Career(q)].isActive = TRUE
           /\ \A c \in Careers \ {Career(q)} : userPathway'[Learner(q)][c].isActive = FALSE
<1> DEFINE l == Learner(q)
           d == Career(q)
<1>1. /\ pc[q] = "othersDeactivated"
      /\ userPathway' = [userPathway EXCEPT ![l] =
                            [c \in Careers |->
                                IF c = d THEN [userPathway[l][c] EXCEPT !.saved = TRUE, !.isActive = TRUE]
                                ELSE IF c \in deactivated[q]
                                THEN [userPathway[l][c] EXCEPT !.isActive = FALSE]
                                ELSE userPathway[l][c]]]
    BY DEF ActivateAndCommit, At
<1>2. l \in Learners /\ d \in Careers
    BY <1>1 DEF PathwaysInv, Found, At
<1>3. userPathway \in [Learners -> [Careers -> PathwayRow]]
    BY DEF PathwaysInv, TypeOK
<1>4. deactivated[q] = ActiveCareers(l) \ {d}
    BY <1>1 DEF PathwaysInv, DeactivatesAll, At
<1>5. userPathway' \in [Learners -> [Careers -> PathwayRow]]
  <2>1. \A row \in PathwayRow : /\ [row EXCEPT !.saved = TRUE, !.isActive = TRUE] \in PathwayRow
                                /\ [row EXCEPT !.isActive = FALSE] \in PathwayRow
      BY DEF PathwayRow
  <2>2. \A c \in Careers : userPathway[l][c] \in PathwayRow
      BY <1>2, <1>3
  <2> QED
      BY <1>1, <1>3, <2>1, <2>2
<1>6. \A m \in Learners \ {l}, c \in Careers : userPathway'[m][c] = userPathway[m][c]
    BY <1>1, <1>3
<1>7. \A c \in Careers :
         /\ userPathway'[l][c].startStep = userPathway[l][c].startStep
         /\ userPathway'[l][c].saved = (userPathway[l][c].saved \/ c = d)
         /\ userPathway'[l][c].isActive = (c = d)
  <2> SUFFICES ASSUME NEW c \in Careers
               PROVE  /\ userPathway'[l][c].startStep = userPathway[l][c].startStep
                      /\ userPathway'[l][c].saved = (userPathway[l][c].saved \/ c = d)
                      /\ userPathway'[l][c].isActive = (c = d)
      OBVIOUS
  <2>1. userPathway[l][c] \in PathwayRow
      BY <1>2, <1>3
  <2>2. CASE c = d
    <3>1. userPathway'[l][c] = [userPathway[l][c] EXCEPT !.saved = TRUE, !.isActive = TRUE]
        BY <1>1, <1>2, <1>3, <2>2
    <3> QED
        BY <2>1, <2>2, <3>1 DEF PathwayRow
  <2>3. CASE c # d /\ c \in deactivated[q]
    <3>1. userPathway'[l][c] = [userPathway[l][c] EXCEPT !.isActive = FALSE]
        BY <1>1, <1>2, <1>3, <2>3
    <3> QED
        BY <2>1, <2>3, <3>1 DEF PathwayRow
  <2>4. CASE c # d /\ c \notin deactivated[q]
    <3>1. userPathway'[l][c] = userPathway[l][c]
        BY <1>1, <1>2, <1>3, <2>4
    <3>2. ~userPathway[l][c].isActive
        BY <1>4, <2>4 DEF ActiveCareers
    <3> QED
        BY <2>1, <2>4, <3>1, <3>2 DEF PathwayRow
  <2> QED
      BY <2>2, <2>3, <2>4
<1>8. \A m \in Learners, c \in Careers :
         /\ userPathway'[m][c].startStep = userPathway[m][c].startStep
         /\ userPathway'[m][c].saved = (userPathway[m][c].saved \/ (m = l /\ c = d))
  <2>1. \A m \in Learners, c \in Careers : userPathway[m][c].saved \in BOOLEAN
      BY <1>3 DEF PathwayRow
  <2> QED
      BY <1>6, <1>7, <2>1
<1> QED
    BY <1>2, <1>5, <1>6, <1>7, <1>8

\* Rows of pathways are written, and no others.
LEMMA PathwayRowsWritten ==
    ASSUME PathwaysInv, UNCHANGED <<stepState, userStep>>,
           userPathway' \in [Learners -> [Careers -> PathwayRow]],
           \A l \in Learners, c \in Careers :
              /\ Saved(l, c) => Saved(l, c)'
              /\ ~userPathway'[l][c].saved => userPathway'[l][c] = NoRow
              /\ userPathway'[l][c].startStep # Null => InPathway(userPathway'[l][c].startStep, c)
    PROVE  TypeOK'
<1>1. userStep' \in [Learners -> [Steps -> StepStatuses]]
    BY DEF PathwaysInv, TypeOK
<1>2. \A s \in Steps : CareerOf[s] \in Careers
    BY PathwaysAssumption
<1>3. ASSUME NEW l \in Learners, NEW s \in Steps, userStep'[l][s] # "ABSENT"
      PROVE  Live(s)' /\ Saved(l, CareerOf[s])'
    BY <1>2, <1>3 DEF PathwaysInv, TypeOK, Live
<1>4. ASSUME NEW l \in Learners, NEW c \in Careers
      PROVE  (LET row == userPathway[l][c] IN
              /\ ~row.saved => row = NoRow
              /\ row.startStep # Null => InPathway(row.startStep, c))'
    BY DEF InPathway, Live
<1> QED
    BY <1>1, <1>3, <1>4 DEF TypeOK

\* The commit of a switch keeps the invariant.
LEMMA ActivateAndCommitInv ==
    ASSUME PathwaysInv, NEW q \in Requests, ActivateAndCommit(q) PROVE PathwaysInv'
<1> DEFINE l == Learner(q)
<1>1. /\ pc[q] \in InTransaction /\ Release(q)
      /\ pc' = [pc EXCEPT ![q] = "view"]
      /\ deactivated' = [deactivated EXCEPT ![q] = {}]
      /\ UNCHANGED <<careerStatus, stepState, userStep, captured, call>>
    BY DEF ActivateAndCommit, At, InTransaction, Goto
<1>2. /\ l \in Learners /\ Career(q) \in Careers
      /\ userPathway' \in [Learners -> [Careers -> PathwayRow]]
      /\ \A m \in Learners \ {l}, c \in Careers : userPathway'[m][c] = userPathway[m][c]
      /\ \A m \in Learners, c \in Careers :
            /\ userPathway'[m][c].startStep = userPathway[m][c].startStep
            /\ userPathway'[m][c].saved = (userPathway[m][c].saved \/ (m = l /\ c = Career(q)))
      /\ \A c \in Careers \ {Career(q)} : userPathway'[l][c].isActive = FALSE
    BY SwitchEffect
<1>3. \A m \in Learners, c \in Careers : Saved(m, c) => Saved(m, c)'
    BY <1>2 DEF Saved
<1>4. TableTypes'
    BY <1>1 DEF PathwaysInv, ControlTypes, TableTypes
<1>5. ControlTypes' /\ (\A r \in Requests : Found(r)') /\ LockHeld' /\ DeactivatesAll'
  <2>1. call[q] \in CallRow /\ call' = [call EXCEPT ![q] = call[q]] /\ call[q].learner \in Learners
      BY <1>1, <1>2 DEF PathwaysInv, ControlTypes, Learner
  <2> QED
      BY <1>1, <1>2, <1>3, <1>4, <2>1, TransactionEnds
<1>6. ASSUME NEW m \in Learners, NEW c \in Careers, ~userPathway'[m][c].saved
      PROVE  userPathway'[m][c] = NoRow
  <2>1. ~userPathway[m][c].saved
      BY <1>2, <1>6
  <2>2. userPathway[m][c] = NoRow
      BY <2>1 DEF PathwaysInv, TypeOK
  <2>3. CASE m # l
      BY <1>2, <2>2, <2>3
  <2>4. CASE m = l
    <3>1. c # Career(q)
        BY <1>2, <1>6, <2>4
    <3>2. userPathway'[m][c].isActive = FALSE /\ userPathway'[m][c].startStep = Null
        BY <1>2, <2>2, <2>4, <3>1 DEF NoRow
    <3>3. userPathway'[m][c] \in PathwayRow
        BY <1>2
    <3> QED
        BY <1>6, <3>2, <3>3 DEF NoRow, PathwayRow
  <2> QED
      BY <2>3, <2>4
<1>7. TypeOK'
  <2>1. \A m \in Learners, c \in Careers :
           /\ ~userPathway'[m][c].saved => userPathway'[m][c] = NoRow
           /\ userPathway'[m][c].startStep # Null => InPathway(userPathway'[m][c].startStep, c)
      BY <1>2, <1>6 DEF PathwaysInv, TypeOK
  <2> QED
      BY <1>1, <1>2, <1>3, <2>1, PathwayRowsWritten
<1>8. AtMostOneActive'
  <2> SUFFICES ASSUME NEW m \in Learners, NEW c \in Careers, NEW d \in Careers,
                      userPathway'[m][c].isActive, userPathway'[m][d].isActive
               PROVE  c = d
      BY DEF AtMostOneActive, ActiveCareers
  <2>1. CASE m = l
      BY <1>2, <2>1
  <2>2. CASE m # l
      BY <1>2, <2>2 DEF PathwaysInv, AtMostOneActive, ActiveCareers
  <2> QED
      BY <2>1, <2>2
<1>9. CapturesRealChanges'
    BY <1>1 DEF PathwaysInv, CapturesRealChanges
<1> QED
    BY <1>5, <1>7, <1>8, <1>9 DEF PathwaysInv

-----------------------------------------------------------------------------
(***************************************************************************)
(* The other writes of a learner.                                          *)
(***************************************************************************)
\* A request that writes, outside of transactions: the rows remain to be looked at.
LEMMA WriteStep ==
    ASSUME PathwaysInv, NEW q \in Requests, pc[q] \notin InTransaction,
           NEW stage \in Stages \ InTransaction, pc' = [pc EXCEPT ![q] = stage],
           NEW request \in CallRow, call' = [call EXCEPT ![q] = request],
           NEW others \in SUBSET Careers, deactivated' = [deactivated EXCEPT ![q] = others],
           Found(q)', holder' = holder, TableTypes',
           \A l \in Learners, c \in Careers :
              /\ Saved(l, c) => Saved(l, c)'
              /\ userPathway'[l][c].isActive = userPathway[l][c].isActive,
           TypeOK', CapturesRealChanges'
    PROVE  PathwaysInv'
<1>1. ControlTypes
    BY DEF PathwaysInv
<1>2. RequestTypes' /\ OnlyOf({q}) /\ pc'[q] \notin InTransaction
    BY <1>1 DEF ControlTypes, RequestTypes, OnlyOf
<1>3. ControlTypes' /\ (\A r \in Requests : Found(r)') /\ LockHeld' /\ DeactivatesAll'
      /\ AtMostOneActive'
    BY <1>2, StepOutsideTransactions
<1> QED
    BY <1>3 DEF PathwaysInv

\* So does the write of setStartingPoint, whose step cannot be gone.
LEMMA SetStartInv == ASSUME PathwaysInv, NEW q \in Requests, SetStart(q) PROVE PathwaysInv'
<1> DEFINE l == Learner(q)
           c == Career(q)
           s == Step(q)
<1>1. /\ pc[q] = "startFound" /\ pc[q] \notin InTransaction
      /\ UNCHANGED <<careerStatus, stepState, userStep, captured, holder>>
    BY DEF SetStart, At, InTransaction
<1>2. /\ l \in Learners /\ c \in Careers /\ Saved(l, c)
      /\ s # Null => CareerOf[s] = c
      /\ s \in Steps \cup {Null}
    BY <1>1 DEF PathwaysInv, Found, At, ControlTypes, CallRow, Step
<1>3. TableTypes'
    BY <1>1 DEF PathwaysInv, ControlTypes, TableTypes
<1>4. userPathway \in [Learners -> [Careers -> PathwayRow]]
    BY DEF PathwaysInv, TypeOK
<1>5. CASE UNCHANGED userPathway /\ Answer(q)
  <2>1. UNCHANGED tables
      BY <1>1, <1>5 DEF tables
  <2> QED
      BY <1>1, <1>5, <2>1, QuietAnswer
<1>6. CASE /\ s = Null \/ Live(s)
           /\ userPathway' = [userPathway EXCEPT ![l][c].startStep = s]
           /\ call' = [call EXCEPT ![q].start = s]
           /\ Goto(q, "viewedFound") /\ UNCHANGED deactivated
  <2> DEFINE request == [call[q] EXCEPT !.start = s]
  <2>1. userPathway' = [userPathway EXCEPT ![l] = [userPathway[l] EXCEPT
                            ![c] = [userPathway[l][c] EXCEPT !.startStep = s]]]
      BY <1>6
  <2>2. /\ [userPathway[l][c] EXCEPT !.startStep = s] \in PathwayRow
        /\ [userPathway[l][c] EXCEPT !.startStep = s].startStep = s
        /\ [userPathway[l][c] EXCEPT !.startStep = s].saved = userPathway[l][c].saved
        /\ [userPathway[l][c] EXCEPT !.startStep = s].isActive = userPathway[l][c].isActive
      BY <1>2, <1>4 DEF PathwayRow
  <2>3. userPathway' \in [Learners -> [Careers -> PathwayRow]]
      BY <1>2, <1>4, <2>1, <2>2
  <2>4. \A m \in Learners, d \in Careers :
           ~(m = l /\ d = c) => userPathway'[m][d] = userPathway[m][d]
      BY <1>2, <1>4, <2>1
  <2>5. userPathway'[l][c] = [userPathway[l][c] EXCEPT !.startStep = s]
      BY <1>2, <1>4, <2>1
  <2>6. \A m \in Learners, d \in Careers :
           /\ Saved(m, d) => Saved(m, d)'
           /\ userPathway'[m][d].isActive = userPathway[m][d].isActive
      BY <2>2, <2>4, <2>5 DEF Saved
  <2>7. ASSUME NEW m \in Learners, NEW d \in Careers
        PROVE  /\ ~userPathway'[m][d].saved => userPathway'[m][d] = NoRow
               /\ userPathway'[m][d].startStep # Null => InPathway(userPathway'[m][d].startStep, d)
    <3>1. CASE m = l /\ d = c
        BY <1>2, <1>6, <2>2, <2>5, <3>1 DEF Saved, InPathway
    <3>2. CASE ~(m = l /\ d = c)
        BY <2>4, <3>2 DEF PathwaysInv, TypeOK
    <3> QED
        BY <3>1, <3>2
  <2>8. TypeOK'
      BY <1>1, <2>3, <2>6, <2>7, PathwayRowsWritten
  <2>9. CapturesRealChanges'
      BY <1>1 DEF PathwaysInv, CapturesRealChanges
  <2>10. /\ pc' = [pc EXCEPT ![q] = "viewedFound"] /\ pc'[q] = "viewedFound"
         /\ call' = [call EXCEPT ![q] = request] /\ call'[q] = request
         /\ deactivated[q] \in SUBSET Careers
         /\ deactivated' = [deactivated EXCEPT ![q] = deactivated[q]]
         /\ call[q] \in CallRow
      BY <1>6 DEF PathwaysInv, ControlTypes, Goto
  <2>11. request \in CallRow /\ request.learner = l /\ request.career = c
      BY <1>2, <2>10 DEF CallRow, Learner, Career
  <2>12. Found(q)'
      BY <1>2, <1>6, <2>6, <2>10, <2>11 DEF Found, At, Learner, Career, Step, Saved
  <2> HIDE DEF request
  <2> QED
      BY <1>1, <1>3, <2>6, <2>8, <2>9, <2>10, <2>11, <2>12, WriteStep DEF Stages, InTransaction
<1> QED
    BY <1>5, <1>6 DEF SetStart

\* A status changes of a live step of a saved pathway, to COMPLETED or from it.
LEMMA StatusChanges ==
    ASSUME PathwaysInv, NEW q \in Requests,
           pc[q] \in {"pathwaySaved", "statusNotUpdated"},
           Change(q), Goto(q, "viewedFound"),
           UNCHANGED <<careerStatus, stepState, userPathway, call, deactivated, holder>>,
           Live(Step(q)),
           call[q].status = "COMPLETED" <=> userStep[Learner(q)][Step(q)] # "COMPLETED"
    PROVE  PathwaysInv'
<1> DEFINE l == Learner(q)
           s == Step(q)
           status == call[q].status
           change == captured[l][s] + (IF status = "COMPLETED" THEN 1 ELSE -1)
<1>1. /\ l \in Learners /\ s \in Steps /\ status \in StepCompletionStatuses
      /\ Saved(l, CareerOf[s]) /\ pc[q] \notin InTransaction
    BY DEF PathwaysInv, Found, At, InTransaction
<1>2. /\ userStep' = [userStep EXCEPT ![l] = [userStep[l] EXCEPT ![s] = status]]
      /\ captured' = [captured EXCEPT ![l] = [captured[l] EXCEPT ![s] = change]]
    BY DEF Change
<1>3. /\ userStep \in [Learners -> [Steps -> StepStatuses]]
      /\ captured \in [Learners -> [Steps -> Int]]
    BY DEF PathwaysInv, TypeOK, ControlTypes
<1>4. change \in Int
    BY <1>1, <1>3
<1>5. /\ userStep' \in [Learners -> [Steps -> StepStatuses]]
      /\ userStep'[l][s] = status
      /\ \A m \in Learners, t \in Steps :
            ~(m = l /\ t = s) => userStep'[m][t] = userStep[m][t]
    BY <1>1, <1>2, <1>3 DEF StepStatuses, StepCompletionStatuses
<1> HIDE DEF change
<1>6. /\ captured' \in [Learners -> [Steps -> Int]]
      /\ captured'[l][s] = change
      /\ \A m \in Learners, t \in Steps :
            ~(m = l /\ t = s) => captured'[m][t] = captured[m][t]
    BY <1>1, <1>2, <1>3, <1>4
<1>7. TypeOK'
  <2>1. ASSUME NEW m \in Learners, NEW t \in Steps, userStep'[m][t] # "ABSENT"
        PROVE  Live(t)' /\ Saved(m, CareerOf[t])'
    <3>1. CASE m = l /\ t = s
        BY <1>1, <3>1 DEF Live, Saved
    <3>2. CASE ~(m = l /\ t = s)
        BY <1>5, <2>1, <3>2 DEF PathwaysInv, TypeOK, Live, Saved
    <3> QED
        BY <3>1, <3>2
  <2>2. \A m \in Learners, c \in Careers :
           (LET row == userPathway[m][c] IN
            /\ ~row.saved => row = NoRow
            /\ row.startStep # Null => InPathway(row.startStep, c))'
      BY DEF PathwaysInv, TypeOK, InPathway, Live
  <2>3. (userPathway \in [Learners -> [Careers -> PathwayRow]])'
      BY DEF PathwaysInv, TypeOK
  <2> QED
      BY <1>5, <2>1, <2>2, <2>3 DEF TypeOK
<1>8. CapturesRealChanges'
  <2> SUFFICES ASSUME NEW m \in Learners, NEW t \in Steps
               PROVE  captured'[m][t] = IF userStep'[m][t] = "COMPLETED" THEN 1 ELSE 0
      BY DEF CapturesRealChanges
  <2>1. captured[m][t] = IF userStep[m][t] = "COMPLETED" THEN 1 ELSE 0
      BY DEF PathwaysInv, CapturesRealChanges
  <2>2. CASE m = l /\ t = s
      BY <1>5, <1>6, <2>1, <2>2 DEF change
  <2>3. CASE ~(m = l /\ t = s)
      BY <1>5, <1>6, <2>1, <2>3
  <2> QED
      BY <2>2, <2>3
<1>9. TableTypes'
    BY <1>6 DEF PathwaysInv, ControlTypes, TableTypes
<1>10. \A m \in Learners, c \in Careers :
          /\ Saved(m, c) => Saved(m, c)'
          /\ userPathway'[m][c].isActive = userPathway[m][c].isActive
    BY DEF Saved
<1>11. /\ pc' = [pc EXCEPT ![q] = "viewedFound"] /\ pc'[q] = "viewedFound"
       /\ call[q] \in CallRow /\ call' = [call EXCEPT ![q] = call[q]]
       /\ deactivated[q] \in SUBSET Careers
       /\ deactivated' = [deactivated EXCEPT ![q] = deactivated[q]]
    BY DEF PathwaysInv, ControlTypes, Goto
<1>12. Found(q)'
  <2>1. Found(q)
      BY DEF PathwaysInv
  <2> QED
      BY <1>11, <2>1 DEF Found, At, Learner, Career, Step, Saved
<1> QED
    BY <1>1, <1>7, <1>8, <1>9, <1>10, <1>11, <1>12, WriteStep DEF Stages, InTransaction

\* setStepStatus updates a row that has the other status, and creates one only to say
\* that the step is completed.
LEMMA SetStatusInv ==
    ASSUME PathwaysInv, NEW q \in Requests, UpdateStatus(q) \/ CreateStatus(q)
    PROVE  PathwaysInv'
<1> DEFINE l == Learner(q)
           s == Step(q)
<1>1. /\ pc[q] \in {"pathwaySaved", "statusNotUpdated"} /\ pc[q] \notin InTransaction
      /\ UNCHANGED <<careerStatus, stepState, userPathway, holder>>
    BY DEF UpdateStatus, CreateStatus, At, InTransaction
<1>2. /\ l \in Learners /\ s \in Steps /\ call[q].status \in StepCompletionStatuses
      /\ Career(q) \in Careers /\ Saved(l, Career(q)) /\ Career(q) = CareerOf[s]
    BY <1>1 DEF PathwaysInv, Found, At
<1>3. userStep[l][s] \in StepStatuses
    BY <1>2 DEF PathwaysInv, TypeOK
<1>4. ASSUME UNCHANGED <<userStep, captured>>
      PROVE  UNCHANGED <<tables, holder>>
    BY <1>1, <1>4 DEF tables
<1>5. ASSUME NEW stage \in {"viewedFound", "statusNotUpdated"}, Goto(q, stage),
             UNCHANGED <<call, deactivated, userStep, captured>>,
             stage = "statusNotUpdated" => call[q].status = "COMPLETED"
      PROVE  PathwaysInv'
  <2>1. pc'[q] = stage => Found(q)'
      BY <1>1, <1>2, <1>5 DEF Found, At, Learner, Career, Step, Saved
  <2>2. stage \in Stages \ InTransaction
      BY DEF Stages, InTransaction
  <2> QED
      BY <1>1, <1>4, <1>5, <2>1, <2>2, QuietAdvance
<1>6. CASE UpdateStatus(q)
  <2>1. CASE RowsToUpdate(q) /\ Change(q) /\ Goto(q, "viewedFound")
    <3>1. userStep[l][s] \notin {"ABSENT", call[q].status}
        BY <2>1 DEF RowsToUpdate
    <3>2. Live(s)
        BY <1>2, <3>1 DEF PathwaysInv, TypeOK
    <3>3. call[q].status = "COMPLETED" <=> userStep[l][s] # "COMPLETED"
        BY <1>2, <1>3, <3>1 DEF StepStatuses, StepCompletionStatuses
    <3>4. UNCHANGED <<call, deactivated>>
        BY <1>6 DEF UpdateStatus
    <3> QED
        BY <1>1, <2>1, <3>2, <3>3, <3>4, StatusChanges
  <2>2. CASE ~(RowsToUpdate(q) /\ Change(q) /\ Goto(q, "viewedFound"))
    <3>1. /\ UNCHANGED <<call, deactivated, userStep, captured>>
          /\ Goto(q, IF call[q].status = "NOT_STARTED" THEN "viewedFound" ELSE "statusNotUpdated")
        BY <1>6, <2>2 DEF UpdateStatus
    <3>2. CASE call[q].status = "NOT_STARTED"
        BY <1>5, <3>1, <3>2
    <3>3. CASE call[q].status # "NOT_STARTED"
      <4>1. call[q].status = "COMPLETED"
          BY <1>2, <3>3 DEF StepCompletionStatuses
      <4> QED
          BY <1>5, <3>1, <3>3, <4>1
    <3> QED
        BY <3>2, <3>3
  <2> QED
      BY <2>1, <2>2
<1>7. CASE CreateStatus(q)
  <2>1. call[q].status = "COMPLETED"
      BY <1>7 DEF CreateStatus, PathwaysInv, Found, At
  <2>2. CASE Live(s) /\ userStep[l][s] = "ABSENT"
    <3>1. Change(q) /\ Goto(q, "viewedFound") /\ UNCHANGED <<call, deactivated>>
        BY <1>7, <2>2 DEF CreateStatus
    <3> QED
        BY <1>1, <2>1, <2>2, <3>1, StatusChanges
  <2>3. CASE Live(s) /\ userStep[l][s] # "ABSENT"
    <3>1. Goto(q, "viewedFound") /\ UNCHANGED <<call, deactivated, userStep, captured>>
        BY <1>7, <2>3 DEF CreateStatus
    <3> QED
        BY <1>5, <3>1
  <2>4. CASE ~Live(s)
    <3>1. Answer(q) /\ UNCHANGED <<userStep, captured>>
        BY <1>7, <2>4 DEF CreateStatus
    <3> QED
        BY <1>1, <1>4, <3>1, QuietAnswer
  <2> QED
      BY <2>2, <2>3, <2>4
<1> QED
    BY <1>6, <1>7

-----------------------------------------------------------------------------
(***************************************************************************)
(* The staff.                                                              *)
(***************************************************************************)
\* A step of the staff: the rows remain to be looked at.
LEMMA StaffStep ==
    ASSUME PathwaysInv, UNCHANGED <<pc, call, deactivated, holder>>, TableTypes',
           \A l \in Learners, c \in Careers :
              /\ Saved(l, c) => Saved(l, c)'
              /\ userPathway'[l][c].isActive = userPathway[l][c].isActive,
           TypeOK', CapturesRealChanges'
    PROVE  PathwaysInv'
<1>1. RequestTypes' /\ OnlyOf({})
    BY DEF PathwaysInv, ControlTypes, RequestTypes, OnlyOf
<1>2. {} \in SUBSET Requests
    OBVIOUS
<1>3. ControlTypes' /\ (\A r \in Requests : Found(r)') /\ LockHeld' /\ DeactivatesAll'
      /\ AtMostOneActive'
    BY <1>1, <1>2, StepOutsideTransactions
<1> QED
    BY <1>3 DEF PathwaysInv

\* No learner's row depends on the status of a career, nor on a step not being there yet.
LEMMA RetireOrAddInv ==
    ASSUME PathwaysInv, (\E c \in Careers : RetireCareer(c)) \/ (\E s \in Steps : AddStep(s))
    PROVE  PathwaysInv'
<1>1. UNCHANGED <<userPathway, userStep, captured, pc, call, deactivated, holder>>
    BY DEF RetireCareer, AddStep
<1>2. \A s \in Steps : CareerOf[s] \in Careers
    BY PathwaysAssumption
<1>3. TableTypes' /\ \A s \in Steps : Live(s) => Live(s)'
  <2>1. /\ careerStatus \in [Careers -> {"PUBLISHED", "RETIRED"}]
        /\ stepState \in [Steps -> {"NEW", "LIVE", "GONE"}]
        /\ captured' \in [Learners -> [Steps -> Int]]
      BY <1>1 DEF PathwaysInv, ControlTypes
  <2>2. ASSUME NEW c \in Careers, RetireCareer(c)
        PROVE  TableTypes' /\ \A s \in Steps : Live(s) => Live(s)'
      BY <2>1, <2>2 DEF TableTypes, RetireCareer, Live
  <2>3. ASSUME NEW s \in Steps, AddStep(s)
        PROVE  TableTypes' /\ \A t \in Steps : Live(t) => Live(t)'
    <3>1. /\ careerStatus' = [careerStatus EXCEPT ![CareerOf[s]] = "PUBLISHED"]
          /\ stepState' = [stepState EXCEPT ![s] = "LIVE"]
        BY <2>3 DEF AddStep
    <3> QED
        BY <1>2, <2>1, <3>1 DEF TableTypes, Live
  <2> QED
      BY <2>2, <2>3
<1>4. TypeOK'
  <2>1. ASSUME NEW l \in Learners, NEW c \in Careers
        PROVE  (LET row == userPathway[l][c] IN
                /\ ~row.saved => row = NoRow
                /\ row.startStep # Null => InPathway(row.startStep, c))'
    <3>1. /\ ~userPathway[l][c].saved => userPathway[l][c] = NoRow
          /\ userPathway[l][c].startStep # Null => InPathway(userPathway[l][c].startStep, c)
          /\ userPathway[l][c].startStep \in Steps \cup {Null}
        BY DEF PathwaysInv, TypeOK, PathwayRow
    <3> QED
        BY <1>1, <1>3, <3>1 DEF InPathway
  <2>2. \A l \in Learners, s \in Steps :
           userStep'[l][s] # "ABSENT" => Live(s)' /\ Saved(l, CareerOf[s])'
      BY <1>1, <1>3 DEF PathwaysInv, TypeOK, Saved
  <2> QED
      BY <1>1, <2>1, <2>2 DEF PathwaysInv, TypeOK
<1>5. CapturesRealChanges'
    BY <1>1 DEF PathwaysInv, CapturesRealChanges
<1>6. \A l \in Learners, c \in Careers :
         /\ Saved(l, c) => Saved(l, c)'
         /\ userPathway'[l][c].isActive = userPathway[l][c].isActive
    BY <1>1 DEF Saved
<1> QED
    BY <1>1, <1>3, <1>4, <1>5, <1>6, StaffStep

\* With a step go the starting points and the statuses that refer to it.
LEMMA RemoveStepInv ==
    ASSUME PathwaysInv, NEW s \in Steps, RemoveStep(s) PROVE PathwaysInv'
<1>1. /\ stepState' = [stepState EXCEPT ![s] = "GONE"]
      /\ careerStatus' = [careerStatus EXCEPT ![CareerOf[s]] = "PUBLISHED"]
      /\ userPathway' = [l \in Learners |-> [c \in Careers |-> StartWithout(userPathway[l][c], s)]]
      /\ userStep' = [l \in Learners |-> [userStep[l] EXCEPT ![s] = "ABSENT"]]
      /\ captured' = [l \in Learners |-> [captured[l] EXCEPT ![s] = 0]]
      /\ UNCHANGED <<pc, call, deactivated, holder>>
    BY DEF RemoveStep
<1>2. /\ userPathway \in [Learners -> [Careers -> PathwayRow]]
      /\ userStep \in [Learners -> [Steps -> StepStatuses]]
      /\ captured \in [Learners -> [Steps -> Int]]
      /\ stepState \in [Steps -> {"NEW", "LIVE", "GONE"}]
      /\ careerStatus \in [Careers -> {"PUBLISHED", "RETIRED"}]
    BY DEF PathwaysInv, TypeOK, ControlTypes
<1>3. Null \notin Steps
    BY PathwaysAssumption
<1>4. ASSUME NEW row \in PathwayRow
      PROVE  /\ StartWithout(row, s) \in PathwayRow
             /\ StartWithout(row, s).startStep \in {row.startStep, Null} \ {s}
             /\ StartWithout(row, s).saved = row.saved
             /\ StartWithout(row, s).isActive = row.isActive
    BY <1>3 DEF PathwayRow, StartWithout
<1>5. ASSUME NEW l \in Learners, NEW c \in Careers
      PROVE  /\ userPathway'[l][c] = StartWithout(userPathway[l][c], s)
             /\ userPathway'[l][c] \in PathwayRow
             /\ userPathway'[l][c].startStep \in {userPathway[l][c].startStep, Null} \ {s}
             /\ userPathway'[l][c].saved = userPathway[l][c].saved
             /\ userPathway'[l][c].isActive = userPathway[l][c].isActive
  <2>1. userPathway'[l][c] = StartWithout(userPathway[l][c], s) /\ userPathway[l][c] \in PathwayRow
      BY <1>1, <1>2
  <2> QED
      BY <1>4, <2>1
<1>6. userPathway' \in [Learners -> [Careers -> PathwayRow]]
    BY <1>1, <1>2, <1>4
<1>7. \A t \in Steps \ {s} : Live(t) => Live(t)'
    BY <1>1, <1>2 DEF Live
<1>8. ASSUME NEW l \in Learners, NEW t \in Steps
      PROVE  /\ userStep'[l][t] = IF t = s THEN "ABSENT" ELSE userStep[l][t]
             /\ captured'[l][t] = IF t = s THEN 0 ELSE captured[l][t]
    BY <1>1, <1>2
<1>9. /\ userStep' \in [Learners -> [Steps -> StepStatuses]]
      /\ captured' \in [Learners -> [Steps -> Int]]
  <2>1. userStep' \in [Learners -> [Steps -> StepStatuses]]
      BY <1>1, <1>2 DEF StepStatuses
  <2>2. captured' \in [Learners -> [Steps -> Int]]
      BY <1>1, <1>2
  <2> QED
      BY <2>1, <2>2
<1>10. TypeOK'
  <2>1. ASSUME NEW l \in Learners, NEW c \in Careers
        PROVE  (LET row == userPathway[l][c] IN
                /\ ~row.saved => row = NoRow
                /\ row.startStep # Null => InPathway(row.startStep, c))'
    <3>1. /\ ~userPathway[l][c].saved => userPathway[l][c] = NoRow
          /\ userPathway[l][c].startStep # Null => InPathway(userPathway[l][c].startStep, c)
          /\ userPathway[l][c].startStep \in Steps \cup {Null}
        BY DEF PathwaysInv, TypeOK, PathwayRow
    <3>2. StartWithout(NoRow, s) = NoRow
        BY <1>3 DEF StartWithout, NoRow
    <3>3. ~userPathway'[l][c].saved => userPathway'[l][c] = NoRow
        BY <1>5, <3>1, <3>2
    <3>4. ASSUME userPathway'[l][c].startStep # Null
          PROVE  InPathway(userPathway[l][c].startStep, c)'
      <4>1. /\ userPathway'[l][c].startStep = userPathway[l][c].startStep
            /\ userPathway'[l][c].startStep \in Steps \ {s}
          BY <1>5, <3>1, <3>4
      <4> QED
          BY <1>7, <3>1, <3>4, <4>1 DEF InPathway, Live
    <3> QED
        BY <3>3, <3>4
  <2>2. \A l \in Learners, t \in Steps :
           userStep'[l][t] # "ABSENT" => Live(t)' /\ Saved(l, CareerOf[t])'
    <3> SUFFICES ASSUME NEW l \in Learners, NEW t \in Steps, userStep'[l][t] # "ABSENT"
                 PROVE  Live(t)' /\ Saved(l, CareerOf[t])'
        OBVIOUS
    <3>1. t # s /\ userStep[l][t] # "ABSENT" /\ CareerOf[t] \in Careers
        BY <1>8, PathwaysAssumption
    <3>2. Live(t) /\ Saved(l, CareerOf[t])
        BY <3>1 DEF PathwaysInv, TypeOK
    <3> QED
        BY <1>5, <1>7, <3>1, <3>2 DEF Saved
  <2> QED
      BY <1>6, <1>9, <2>1, <2>2 DEF TypeOK
<1>11. CapturesRealChanges'
    BY <1>8 DEF PathwaysInv, CapturesRealChanges
<1>12. TableTypes'
    BY <1>1, <1>2, <1>9 DEF TableTypes
<1>13. \A l \in Learners, c \in Careers :
          /\ Saved(l, c) => Saved(l, c)'
          /\ userPathway'[l][c].isActive = userPathway[l][c].isActive
    BY <1>5 DEF Saved
<1> QED
    BY <1>1, <1>10, <1>11, <1>12, <1>13, StaffStep

-----------------------------------------------------------------------------
(***************************************************************************)
(* The theorems.                                                           *)
(***************************************************************************)
\* Every step, of a request or of the staff, keeps the invariant.
LEMMA NextPathwaysInv == PathwaysInv /\ [Next]_vars => PathwaysInv'
<1> SUFFICES ASSUME PathwaysInv, [Next]_vars PROVE PathwaysInv'
    OBVIOUS
<1>1. ASSUME NEW q \in Requests, Call(q) \/ Serve(q) \/ AbortSwitch(q) PROVE PathwaysInv'
  <2>1. CASE Call(q)
      BY <2>1, CallInv
  <2>2. CASE \/ FindCareer(q) \/ FindSavedPathway(q) \/ FindStartStep(q)
             \/ FindStep(q) \/ CheckSaved(q)
             \/ FindViewed(q) \/ ReadSteps(q) \/ ReadStatuses(q) \/ AnswerView(q)
      BY <2>2, LookUpInv
  <2>3. CASE LockUser(q)
      BY <2>3, LockUserInv
  <2>4. CASE DeactivateOthers(q)
      BY <2>4, DeactivateOthersInv
  <2>5. CASE ActivateAndCommit(q)
      BY <2>5, ActivateAndCommitInv
  <2>6. CASE SetStart(q)
      BY <2>6, SetStartInv
  <2>7. CASE UpdateStatus(q) \/ CreateStatus(q)
      BY <2>7, SetStatusInv
  <2>8. CASE AbortSwitch(q)
      BY <2>8, AbortSwitchInv
  <2> QED
      BY <1>1, <2>1, <2>2, <2>3, <2>4, <2>5, <2>6, <2>7, <2>8 DEF Serve
<1>2. CASE Staff
    BY <1>2, RetireOrAddInv, RemoveStepInv DEF Staff
<1>3. CASE UNCHANGED vars
  <2>1. UNCHANGED <<pc, call, deactivated, holder>> /\ UNCHANGED tables
      BY <1>3 DEF vars
  <2>2. /\ TableTypes'
        /\ \A l \in Learners, c \in Careers :
              /\ Saved(l, c) => Saved(l, c)'
              /\ userPathway'[l][c].isActive = userPathway[l][c].isActive
      BY <2>1 DEF PathwaysInv, ControlTypes, TableTypes, tables, Saved
  <2>3. TypeOK' /\ CapturesRealChanges'
      BY <2>1, RowsKept DEF PathwaysInv
  <2> QED
      BY <2>1, <2>2, <2>3, StaffStep
<1> QED
    BY <1>1, <1>2, <1>3 DEF Next

\* The invariant holds, whatever the learners and the staff do.
THEOREM PathwaysInvHolds == Spec => []PathwaysInv
<1> QED
    BY InitPathwaysInv, NextPathwaysInv, PTL DEF Spec

\* The rows keep their types and refer to live steps and saved pathways.
THEOREM RowsAreSound == Spec => []TypeOK
<1>1. PathwaysInv => TypeOK
    BY DEF PathwaysInv
<1> QED
    BY <1>1, PathwaysInvHolds, PTL

\* A learner never has two active pathways, however many switches race.
THEOREM OneActivePathway == Spec => []AtMostOneActive
<1>1. PathwaysInv => AtMostOneActive
    BY DEF PathwaysInv
<1> QED
    BY <1>1, PathwaysInvHolds, PTL

\* What is captured are the real changes of the statuses, each once.
THEOREM CapturesAreReal == Spec => []CapturesRealChanges
<1>1. PathwaysInv => CapturesRealChanges
    BY DEF PathwaysInv
<1> QED
    BY <1>1, PathwaysInvHolds, PTL

\* A step that leaves every pathway as active as it was.
ActiveKept == \A l \in Learners, c \in Careers : userPathway'[l][c].isActive = userPathway[l][c].isActive

\* Of all the steps, only the commit of a switch makes pathways active or inactive.
LEMMA OnlySwitchesActivate ==
    ASSUME PathwaysInv, [Next]_vars, ~\E q \in Requests : ActivateAndCommit(q)
    PROVE  ActiveKept
<1>1. userPathway \in [Learners -> [Careers -> PathwayRow]]
    BY DEF PathwaysInv, TypeOK
<1>2. CASE UNCHANGED userPathway
    BY <1>2 DEF ActiveKept
<1>3. ASSUME NEW q \in Requests, SetStart(q) PROVE ActiveKept
  <2> DEFINE l == Learner(q)
             c == Career(q)
             moved == [userPathway[l][c] EXCEPT !.startStep = Step(q)]
  <2>1. l \in Learners /\ c \in Careers
      BY <1>3 DEF PathwaysInv, Found, At, SetStart
  <2>2. CASE userPathway' = [userPathway EXCEPT ![l] = [userPathway[l] EXCEPT ![c] = moved]]
    <3>1. moved.isActive = userPathway[l][c].isActive
        BY <1>1, <2>1 DEF PathwayRow
    <3> HIDE DEF moved
    <3> QED
        BY <1>1, <2>1, <2>2, <3>1 DEF ActiveKept
  <2> QED
      BY <1>2, <1>3, <2>2 DEF SetStart
<1>4. ASSUME NEW s \in Steps, RemoveStep(s) PROVE ActiveKept
  <2> SUFFICES ASSUME NEW l \in Learners, NEW c \in Careers
               PROVE  userPathway'[l][c].isActive = userPathway[l][c].isActive
      BY DEF ActiveKept
  <2>1. userPathway'[l][c] = StartWithout(userPathway[l][c], s) /\ userPathway[l][c] \in PathwayRow
      BY <1>1, <1>4 DEF RemoveStep
  <2> QED
      BY <2>1 DEF StartWithout, PathwayRow
<1>5. UNCHANGED userPathway \/ (\E q \in Requests : SetStart(q)) \/ \E s \in Steps : RemoveStep(s)
  <2>1. ASSUME NEW q \in Requests, Call(q) PROVE UNCHANGED userPathway
      BY <2>1 DEF Call, CallSetActive, CallSetStart, CallSetStatus, CallView, Arrive, tables
  <2>2. ASSUME NEW q \in Requests, AbortSwitch(q) PROVE UNCHANGED userPathway
      BY <2>2 DEF AbortSwitch, tables
  <2>3. ASSUME NEW q \in Requests, Serve(q), ~SetStart(q) PROVE UNCHANGED userPathway
      BY <2>3 DEF Serve, FindCareer, LockUser, DeactivateOthers, FindSavedPathway, FindStartStep,
                  FindStep, CheckSaved, UpdateStatus, CreateStatus, FindViewed, ReadSteps,
                  ReadStatuses, AnswerView, tables
  <2>4. ASSUME Staff, ~\E s \in Steps : RemoveStep(s) PROVE UNCHANGED userPathway
      BY <2>4 DEF Staff, RetireCareer, AddStep
  <2> QED
      BY <2>1, <2>2, <2>3, <2>4 DEF Next, vars, tables
<1> QED
    BY <1>2, <1>3, <1>4, <1>5

\* A learner with an active pathway is never left without one: a switch is cut off before
\* its commit or activates its own career with it.
THEOREM NobodyIsLeftWithout == Spec => NeverLeftWithout
<1>1. ASSUME PathwaysInv, [Next]_vars
      PROVE  \A l \in Learners : ActiveCareers(l) # {} => ActiveCareers(l)' # {}
  <2> SUFFICES ASSUME NEW l \in Learners, NEW c \in Careers, userPathway[l][c].isActive
               PROVE  \E d \in Careers : userPathway'[l][d].isActive
      BY DEF ActiveCareers
  <2>1. ASSUME NEW q \in Requests, ActivateAndCommit(q)
        PROVE  \E d \in Careers : userPathway'[l][d].isActive
    <3>1. /\ Career(q) \in Careers
          /\ \A m \in Learners \ {Learner(q)} : userPathway'[m][c] = userPathway[m][c]
          /\ userPathway'[Learner(q)][Career(q)].isActive = TRUE
        BY <1>1, <2>1, SwitchEffect
    <3>2. CASE l = Learner(q)
        BY <3>1, <3>2
    <3>3. CASE l # Learner(q)
        BY <3>1, <3>3
    <3> QED
        BY <3>2, <3>3
  <2>2. CASE ~\E q \in Requests : ActivateAndCommit(q)
      BY <1>1, <2>2, OnlySwitchesActivate DEF ActiveKept
  <2> QED
      BY <2>1, <2>2
<1> QED
    BY <1>1, PathwaysInvHolds, PTL DEF Spec, NeverLeftWithout

-----------------------------------------------------------------------------
(***************************************************************************)
(* What a view shows.  Its steps are the ones a pathway had, all at one    *)
(* time: some, and no more than a draft may have.                          *)
(***************************************************************************)
Fit(steps) == steps # {} /\ Cardinality(steps) <= MaxSteps

StepsFit ==
    /\ \A c \in Careers : Fit(LiveSteps(c))
    /\ \A q \in Requests : At(q, "stepsRead") => Fit(call[q].steps)

\* Publications neither empty a pathway nor let it grow beyond the limit.
LEMMA PathwaysStayFit ==
    ASSUME PathwaysInv, StepsFit, [Next]_vars
    PROVE  \A c \in Careers : Fit(LiveSteps(c))'
<1> SUFFICES ASSUME NEW c \in Careers PROVE Fit(LiveSteps(c))'
    OBVIOUS
<1>1. /\ Fit(LiveSteps(c)) /\ IsFiniteSet(LiveSteps(c))
      /\ stepState \in [Steps -> {"NEW", "LIVE", "GONE"}]
    BY PathwaysAssumption, FS_Subset DEF StepsFit, LiveSteps, PathwaysInv, ControlTypes
<1>2. CASE UNCHANGED stepState
  <2>1. LiveSteps(c)' = LiveSteps(c)
      BY <1>2 DEF LiveSteps, InPathway, Live
  <2> QED
      BY <1>1, <2>1 DEF Fit
<1>3. ASSUME NEW s \in Steps, AddStep(s) PROVE Fit(LiveSteps(c))'
  <2>1. stepState' = [stepState EXCEPT ![s] = "LIVE"] /\ ~Live(s)
      BY <1>3 DEF AddStep, Live
  <2>2. CASE CareerOf[s] # c
    <3>1. LiveSteps(c)' = LiveSteps(c)
        BY <1>1, <2>1, <2>2 DEF LiveSteps, InPathway, Live
    <3> QED
        BY <1>1, <3>1 DEF Fit
  <2>3. CASE CareerOf[s] = c
    <3>1. LiveSteps(c)' = LiveSteps(c) \cup {s} /\ s \notin LiveSteps(c)
        BY <1>1, <2>1, <2>3 DEF LiveSteps, InPathway, Live
    <3>2. Cardinality(LiveSteps(c)) < MaxSteps
        BY <1>3, <2>3 DEF AddStep, LiveSteps
    <3>3. Cardinality(LiveSteps(c) \cup {s}) = Cardinality(LiveSteps(c)) + 1
        BY <1>1, <3>1, FS_AddElement
    <3>4. Cardinality(LiveSteps(c)) \in Nat
        BY <1>1, FS_CardinalityType
    <3> QED
        BY <3>1, <3>2, <3>3, <3>4 DEF Fit, MaxSteps
  <2> QED
      BY <2>2, <2>3
<1>4. ASSUME NEW s \in Steps, RemoveStep(s) PROVE Fit(LiveSteps(c))'
  <2>1. stepState' = [stepState EXCEPT ![s] = "GONE"]
      BY <1>4 DEF RemoveStep
  <2>2. PICK other \in Steps \ {s} : InPathway(other, CareerOf[s])
      BY <1>4 DEF RemoveStep
  <2>3. LiveSteps(c)' = LiveSteps(c) \ {s}
      BY <1>1, <2>1 DEF LiveSteps, InPathway, Live
  <2>4. LiveSteps(c) \ {s} # {}
      BY <1>1, <2>2 DEF LiveSteps, InPathway, Fit
  <2>5. Cardinality(LiveSteps(c) \ {s}) <= Cardinality(LiveSteps(c))
      BY <1>1, FS_Subset
  <2>6. Cardinality(LiveSteps(c)) \in Nat /\ Cardinality(LiveSteps(c) \ {s}) \in Nat
      BY <1>1, FS_CardinalityType, FS_Subset
  <2> QED
      BY <1>1, <2>3, <2>4, <2>5, <2>6 DEF Fit, MaxSteps
<1>5. UNCHANGED stepState \/ (\E s \in Steps : AddStep(s)) \/ \E s \in Steps : RemoveStep(s)
  <2>1. ASSUME NEW q \in Requests, Call(q) PROVE UNCHANGED stepState
      BY <2>1 DEF Call, CallSetActive, CallSetStart, CallSetStatus, CallView, Arrive, tables
  <2>2. ASSUME NEW q \in Requests, AbortSwitch(q) PROVE UNCHANGED stepState
      BY <2>2 DEF AbortSwitch, tables
  <2>3. ASSUME NEW q \in Requests, Serve(q) PROVE UNCHANGED stepState
      BY <2>3 DEF Serve, FindCareer, LockUser, DeactivateOthers, ActivateAndCommit,
                  FindSavedPathway, FindStartStep, SetStart, FindStep, CheckSaved, UpdateStatus,
                  CreateStatus, FindViewed, ReadSteps, ReadStatuses, AnswerView, tables
  <2>4. ASSUME Staff, ~\E s \in Steps : AddStep(s), ~\E s \in Steps : RemoveStep(s)
        PROVE UNCHANGED stepState
      BY <2>4 DEF Staff, RetireCareer
  <2> QED
      BY <2>1, <2>2, <2>3, <2>4 DEF Next, vars, tables
<1> QED
    BY <1>2, <1>3, <1>4, <1>5

\* A view holds on to the steps it has read.
LEMMA ViewsStayFit ==
    ASSUME PathwaysInv, StepsFit, [Next]_vars
    PROVE  \A q \in Requests : pc'[q] = "stepsRead" => Fit(call'[q].steps)
<1> DEFINE Kept(r) == pc'[r] = "stepsRead" => pc[r] = "stepsRead" /\ call'[r] = call[r]
<1>1. pc \in [Requests -> Stages] /\ call \in [Requests -> CallRow]
    BY DEF PathwaysInv, ControlTypes
<1>2. ASSUME NEW q \in Requests, Call(q), NEW r \in Requests PROVE Kept(r)
    BY <1>1, <1>2 DEF Call, CallSetActive, CallSetStart, CallSetStatus, CallView, Arrive, Goto
<1>3. ASSUME NEW q \in Requests, ReadSteps(q), NEW r \in Requests
      PROVE  pc'[r] = "stepsRead" => Fit(call'[r].steps)
  <2>1. /\ call' = [call EXCEPT ![q].steps = LiveSteps(Career(q))]
        /\ pc' = [pc EXCEPT ![q] = "stepsRead"] /\ pc[q] = "viewedFound"
      BY <1>3 DEF ReadSteps, LiveSteps, Goto, At
  <2>2. Career(q) \in Careers
      BY <2>1 DEF PathwaysInv, Found, At
  <2>3. CASE r = q
    <3>1. call'[r].steps = LiveSteps(Career(q))
        BY <1>1, <2>1, <2>3 DEF CallRow
    <3> QED
        BY <2>2, <3>1 DEF StepsFit
  <2>4. CASE r # q
      BY <1>1, <2>1, <2>4 DEF StepsFit, At
  <2> QED
      BY <2>3, <2>4
<1>4. ASSUME NEW q \in Requests, Serve(q) \/ AbortSwitch(q), ~ReadSteps(q), NEW r \in Requests
      PROVE  Kept(r)
  <2>1. CASE Answer(q)
      BY <1>1, <2>1 DEF Answer, Goto
  <2>2. ASSUME NEW stage, Goto(q, stage), stage # "stepsRead", UNCHANGED call PROVE Kept(r)
      BY <1>1, <2>2 DEF Goto
  <2>3. CASE FindViewed(q) /\ ~Answer(q)
    <3>1. PICK c \in Viewable(q) :
              /\ call' = [call EXCEPT ![q].career = c,
                                     ![q].start = userPathway[Learner(q)][c].startStep]
              /\ Goto(q, "viewedFound")
        BY <2>3 DEF FindViewed
    <3> QED
        BY <1>1, <3>1 DEF Goto
  <2>4. CASE ReadStatuses(q)
      BY <1>1, <2>4 DEF ReadStatuses, Goto
  <2>5. CASE (SetStart(q) \/ CheckSaved(q)) /\ ~Answer(q)
      BY <1>1, <2>5 DEF SetStart, CheckSaved, Goto
  <2>6. CASE UpdateStatus(q)
      BY <1>1, <2>6 DEF UpdateStatus, Goto
  <2> QED
      BY <1>4, <2>1, <2>2, <2>3, <2>4, <2>5, <2>6
         DEF Serve, AbortSwitch, FindCareer, LockUser, DeactivateOthers, ActivateAndCommit,
             FindSavedPathway, FindStartStep, FindStep, CreateStatus, AnswerView
<1>5. ASSUME Staff \/ UNCHANGED vars, NEW r \in Requests PROVE Kept(r)
    BY <1>5 DEF Staff, RetireCareer, AddStep, RemoveStep, vars
<1>6. ASSUME NEW r \in Requests, Kept(r) PROVE pc'[r] = "stepsRead" => Fit(call'[r].steps)
    BY <1>6 DEF StepsFit, At
<1> QED
    BY <1>2, <1>3, <1>4, <1>5, <1>6 DEF Next

\* It holds from the start on.
LEMMA StepsFitHolds == Spec => []StepsFit
<1>1. Init => StepsFit
  <2> SUFFICES ASSUME Init PROVE StepsFit
      OBVIOUS
  <2>1. ASSUME NEW c \in Careers PROVE LiveSteps(c) = {s \in FirstSteps : CareerOf[s] = c}
      BY PathwaysAssumption DEF Init, LiveSteps, InPathway, Live
  <2>2. \A c \in Careers : Fit(LiveSteps(c))
      BY <2>1, PathwaysAssumption DEF Fit
  <2> QED
      BY <2>2 DEF Init, StepsFit, At
<1>2. PathwaysInv /\ StepsFit /\ [Next]_vars => StepsFit'
    BY PathwaysStayFit, ViewsStayFit DEF StepsFit, At, Fit
<1> QED
    BY <1>1, <1>2, PathwaysInvHolds, PTL DEF Spec

\* Of the numbers of completed and incomplete steps, as computeProgress counts them.
LEMMA CompletedAndIncomplete ==
    ASSUME NEW steps, NEW left \in SUBSET steps, IsFiniteSet(steps), Fit(steps)
    PROVE  LET total == Cardinality(steps)
               completed == total - Cardinality(left) IN
           /\ total \in 1..MaxSteps
           /\ completed \in 0..total
           /\ completed = total <=> left = {}
<1>1. /\ Cardinality(steps) \in Nat /\ Cardinality(left) \in Nat
      /\ Cardinality(left) <= Cardinality(steps)
      /\ Cardinality(steps) # 0
      /\ Cardinality(left) = 0 <=> left = {}
    BY FS_CardinalityType, FS_Subset, FS_EmptySet DEF Fit
<1> QED
    BY <1>1 DEF Fit, MaxSteps

\* The next step is an incomplete one, from the starting point on if any is left there.
LEMMA NextStepIsLeft ==
    ASSUME NEW left, IsFiniteSet(left), left \subseteq Steps, left # {},
           NEW start, NEW steps \in SUBSET Steps, NEW step,
           start = FindStepOrder(steps, OrderOf, step)
    PROVE  LET next == Earliest(Candidates(left, OrderOf, start), OrderOf) IN
           /\ next \in left
           /\ \A o \in start : OrderOf[next] < o => \A s \in left : OrderOf[s] < o
<1> DEFINE candidates == Candidates(left, OrderOf, start)
           fromStart == {s \in left : \E o \in start : OrderOf[s] >= o}
           next == Earliest(candidates, OrderOf)
<1>1. candidates = (IF fromStart # {} THEN fromStart ELSE left)
    BY DEF Candidates
<1>2. candidates # {} /\ candidates \subseteq left /\ IsFiniteSet(candidates)
    BY <1>1, FS_Subset
<1>3. \A s \in Steps : OrderOf[s] \in Nat
    BY PathwaysAssumption
<1>4. next \in candidates
    BY <1>2, <1>3, EarliestIsMinimal
<1>5. start \subseteq Nat /\ \A o, p \in start : o = p
    BY <1>3 DEF FindStepOrder
<1>6. ASSUME NEW o \in start, OrderOf[next] < o, NEW s \in left PROVE OrderOf[s] < o
  <2>1. OrderOf[next] \in Nat /\ OrderOf[s] \in Nat /\ o \in Nat
      BY <1>2, <1>3, <1>4, <1>5
  <2>2. next \notin fromStart
      BY <1>5, <1>6, <2>1
  <2>3. fromStart = {}
      BY <1>1, <1>4, <2>2
  <2>4. ~(OrderOf[s] >= o)
      BY <2>3
  <2> QED
      BY <2>1, <2>4
<1> QED
    BY <1>2, <1>4, <1>6

\* No view strands its learner, however its statements interleave with the completions of
\* other requests and with publications: what it shows as the next step is incomplete, the
\* right one with respect to the starting point, and, while it exists, open to the learner;
\* without one, and only then, the percentage is 100.
THEOREM ViewsLeadOn == Spec => []NextStepLeadsOn
<1>1. ASSUME PathwaysInv, StepsFit PROVE NextStepLeadsOn
  <2> SUFFICES ASSUME NEW q \in Requests, pc[q] \in {"stepsRead", "statusesRead"}
               PROVE  LET shown == Shown(q)
                          next == shown.nextStepId
                          left == {s \in ShownSteps(q) : ShownStatuses(q)[s] # "COMPLETED"} IN
                      /\ (next = Null) = (left = {})
                      /\ shown.percentages \subseteq (IF left = {} THEN {100} ELSE 0..99)
                      /\ next # Null =>
                            /\ next \in left
                            /\ Live(next) => Accessible(Learner(q), next)
                            /\ \A o \in ShownStart(q) :
                                  OrderOf[next] < o => \A s \in left : OrderOf[s] < o
      BY DEF NextStepLeadsOn
  <2> DEFINE steps == ShownSteps(q)
             statuses == ComputeStepStatuses(steps, ShownStatuses(q))
             left == {s \in steps : ShownStatuses(q)[s] # "COMPLETED"}
             start == ShownStart(q)
             total == Cardinality(steps)
             completed == total - Cardinality(left)
             next == Earliest(Candidates(left, OrderOf, start), OrderOf)
  <2>1. /\ steps \in SUBSET Steps /\ Fit(steps)
        /\ Saved(Learner(q), Career(q)) /\ \A s \in steps : CareerOf[s] = Career(q)
    <3>1. /\ Found(q) /\ call[q].steps \in SUBSET Steps
          /\ Saved(Learner(q), Career(q)) /\ Career(q) \in Careers
        BY <1>1 DEF PathwaysInv, ControlTypes, CallRow, Found
    <3>2. CASE pc[q] = "stepsRead"
        BY <1>1, <3>1, <3>2 DEF Found, StepsFit, ShownSteps, At
    <3>3. CASE pc[q] # "stepsRead"
        BY <1>1, <3>1, <3>3 DEF StepsFit, ShownSteps, At, LiveSteps, InPathway
    <3> QED
        BY <3>2, <3>3
  <2>2. IsFiniteSet(steps) /\ IsFiniteSet(left)
      BY <2>1, PathwaysAssumption, FS_Subset
  <2>3. {s \in steps : statuses[s] # "COMPLETED"} = left
      BY DEF ComputeStepStatuses
  <2>4. Shown(q).nextStepId = next /\ Shown(q).percentages = Percentages(completed, total)
    <3>1. Shown(q) = [completed |-> completed, total |-> total,
                      percentages |-> Percentages(completed, total), nextStepId |-> next]
        BY <2>3 DEF Shown, ComputeProgress
    <3> HIDE DEF completed, next
    <3> QED
        BY <3>1
  <2>5. total \in 1..MaxSteps /\ completed \in 0..total /\ (completed = total <=> left = {})
      BY <2>1, <2>2, CompletedAndIncomplete
  <2>6. Shown(q).percentages \subseteq (IF left = {} THEN {100} ELSE 0..99)
    <3> SUFFICES ASSUME NEW p \in Percentages(completed, total)
                 PROVE  p \in (IF left = {} THEN {100} ELSE 0..99)
        BY <2>4
    <3>1. p \in 0..100
        BY <2>5 DEF Percentages, MaxSteps
    <3>2. p = 100 <=> completed = total
        BY <2>5, PercentageReachesNoEnd
    <3> HIDE DEF left, completed, total
    <3> QED
        BY <2>5, <3>1, <3>2
  <2>7. CASE left = {}
    <3>1. Candidates(left, OrderOf, start) = {}
        BY <2>7 DEF Candidates
    <3>2. next = Null
        BY <3>1 DEF Earliest
    <3> QED
        BY <2>4, <2>6, <2>7, <3>2
  <2>8. CASE left # {}
    <3>1. /\ next \in left
          /\ \A o \in start : OrderOf[next] < o => \A s \in left : OrderOf[s] < o
        BY <2>1, <2>2, <2>8, NextStepIsLeft DEF ShownStart
    <3>2. next # Null
        BY <2>1, <3>1, PathwaysAssumption
    <3>3. Live(next) => Accessible(Learner(q), next)
        BY <2>1, <3>1 DEF Accessible
    <3> HIDE DEF next, left, start
    <3> QED
        BY <2>4, <2>6, <2>8, <3>1, <3>2, <3>3 DEF left, start
  <2> QED
      BY <2>7, <2>8
<1> QED
    BY <1>1, PathwaysInvHolds, StepsFitHolds, PTL

=============================================================================
