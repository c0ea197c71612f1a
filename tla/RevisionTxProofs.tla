-------------------------- MODULE RevisionTxProofs --------------------------
(***************************************************************************)
(* Proofs about the transactions of the editorial workflow, for every set  *)
(* of careers, revisions, staff, contents and concurrent requests.         *)
(***************************************************************************)
EXTENDS RevisionTx, RevisionsProofs

-----------------------------------------------------------------------------
(***************************************************************************)
(* The inductive invariant.                                                *)
(***************************************************************************)
\* The stages that hold the lock on the career, and those on the revision, too.
Deep == {"revisionLocked", "planned"}
Inside == {"careerLocked"} \cup Deep
Running == {"peeked"} \cup Inside

ReadRow ==
    [careerStatus : CareerStatuses \cup {Null}, version : Nat,
     status : RevisionStatuses \cup {Null}, base : Nat,
     removed : SUBSET Steps, progress : SUBSET Steps]

TxShapes ==
    /\ pc \in [Requests -> Stages]
    /\ call = [q \in Requests |-> call[q]]
    /\ read \in [Requests -> ReadRow]
    /\ holder \in [Careers \cup RevisionIds -> Requests \cup {Null}]

\* A running call is one of the API; its revision keeps the career it was peeked with.
CallOK(q) ==
    /\ pc[q] \in {"idle", "done"} => call[q] = NoCall
    /\ pc[q] \in Running =>
          /\ call[q].op \in Ops
          /\ call[q].actor \in AtLeast(MinRole[call[q].op])
          /\ call[q].career \in Careers
    /\ pc[q] \in Running /\ call[q].op # "retire" =>
          /\ call[q].revision \in RevisionIds
          /\ call[q].arg \in ArgumentsOf(call[q].op)
          /\ revision[call[q].revision].status # "ABSENT"
          /\ revision[call[q].revision].career = call[q].career
          /\ career[call[q].career].status # "ABSENT"

\* A request holds its career and its revision, in this order, and nothing else; a recall
\* may go on without a career, but not past it.
LocksOK(q) ==
    /\ \A c \in Careers : holder[c] = q => pc[q] \in Inside /\ c = call[q].career
    /\ \A r \in RevisionIds : holder[r] = q => pc[q] \in Deep /\ r = call[q].revision
    /\ pc[q] \in Inside =>
          \/ holder[call[q].career] = q
          \/ pc[q] = "careerLocked" /\ call[q].op = "recall" /\ ~Exists(call[q].career)
    /\ pc[q] \in Deep => call[q].op # "retire" /\ holder[call[q].revision] = q

\* What it has read under its locks is so.
ReadsOK(q) ==
    /\ pc[q] \in Inside /\ holder[call[q].career] = q =>
          /\ Exists(call[q].career)
          /\ read[q].careerStatus = career[call[q].career].status
          /\ read[q].version = career[call[q].career].version
    /\ pc[q] \in Deep =>
          /\ InDatabase(call[q].revision)
          /\ read[q].status = revision[call[q].revision].status
          /\ read[q].base = revision[call[q].revision].baseVersion
          /\ call[q].op \in {"save", "rebase"} => read[q].careerStatus # "RETIRED"
    /\ pc[q] = "planned" =>
          /\ call[q].op \in {"submit", "publish"}
          /\ read[q].removed = RemovedSteps(call[q].revision)

TxInv ==
    /\ TypeOK
    /\ TxShapes
    /\ \A q \in Requests : CallOK(q) /\ LocksOK(q) /\ ReadsOK(q)

\* The service starts in the invariant, whatever the tables hold.
LEMMA TxInitInv == TxInit => TxInv
<1> SUFFICES ASSUME TxInit PROVE TxInv
    OBVIOUS
<1>1. PICK first \in FirstTables :
          career = first.career /\ revision = first.revision /\ review = first.review
    BY DEF TxInit
<1>2. TypeOK
    BY <1>1, TxAssumption DEF TxInit, TypeOK, RowTypes, ForeignKeys, InDatabase, Exists
<1>3. TxShapes
    BY DEF TxInit, TxShapes, ReadRow, NothingRead, Stages
<1>4. ASSUME NEW q \in Requests PROVE CallOK(q) /\ LocksOK(q) /\ ReadsOK(q)
  <2>1. pc[q] = "idle" /\ call[q] = NoCall /\ \A row \in Careers \cup RevisionIds : holder[row] # q
      BY TxAssumption DEF TxInit
  <2> QED
      BY <2>1 DEF CallOK, LocksOK, ReadsOK, Running, Inside, Deep
<1> QED
    BY <1>2, <1>3, <1>4 DEF TxInv

-----------------------------------------------------------------------------
(***************************************************************************)
(* What a step of one request leaves to the others.                        *)
(***************************************************************************)
\* Rows others have locked stay as they are; a revision keeps its career, and what is
\* there or gone is not made new.
TablesGuarded(free) ==
    /\ \A c \in Careers :
          /\ holder[c] \notin free => career'[c] = career[c]
          /\ career[c].status # "ABSENT" => career'[c].status # "ABSENT"
          /\ career[c].status = "DELETED" => career'[c].status = "DELETED"
    /\ \A r \in RevisionIds :
          /\ holder[r] \notin free => revision'[r] = revision[r]
          /\ revision[r].status # "ABSENT" =>
                revision'[r].status # "ABSENT" /\ revision'[r].career = revision[r].career

\* Request p does nothing itself.
Rests(p) ==
    /\ pc'[p] = pc[p] /\ call'[p] = call[p] /\ read'[p] = read[p]
    /\ \A row \in Careers \cup RevisionIds : (holder'[row] = p) <=> (holder[row] = p)

\* Then all that it holds and knows stays true.
LEMMA RestKeeps ==
    ASSUME TxInv, NEW p \in Requests, NEW free, p \notin free, TablesGuarded(free), Rests(p)
    PROVE  CallOK(p)' /\ LocksOK(p)' /\ ReadsOK(p)'
<1>1. CallOK(p) /\ LocksOK(p) /\ ReadsOK(p)
    BY DEF TxInv
<1>2. CallOK(p)'
    BY <1>1 DEF CallOK, Rests, TablesGuarded
<1>3. pc[p] \in Running => call[p].career \in Careers
    BY <1>1 DEF CallOK
<1>4. pc[p] \in Deep => call[p].revision \in RevisionIds
    BY <1>1 DEF CallOK, LocksOK, Running, Inside
<1>5. LocksOK(p)'
  <2>1. pc[p] \in Inside /\ ~Exists(call[p].career) => ~Exists(call[p].career)' \/ holder[call[p].career] = p
                                                       \/ call[p].op # "recall"
      BY <1>1, <1>3 DEF CallOK, TablesGuarded, Exists, Rests, Running
  <2> QED
      BY <1>1, <1>3, <1>4, <2>1 DEF LocksOK, Rests, Running, Inside
<1>6. ReadsOK(p)'
  <2>1. pc[p] \in Inside /\ holder[call[p].career] = p =>
            career'[call[p].career] = career[call[p].career]
      BY <1>3 DEF TablesGuarded, Running
  <2>2. pc[p] \in Deep => revision'[call[p].revision] = revision[call[p].revision]
      BY <1>1, <1>4 DEF TablesGuarded, LocksOK
  <2>3. pc[p] \in Deep => /\ holder[call[p].career] = p /\ pc[p] \in Inside
                          /\ revision[call[p].revision].career = call[p].career
      BY <1>1 DEF LocksOK, CallOK, Inside, Deep, Running
  <2>4. pc[p] = "planned" => RemovedSteps(call[p].revision)' = RemovedSteps(call[p].revision)
      BY <2>1, <2>2, <2>3 DEF RemovedSteps, Rests, Deep
  <2> QED
      BY <1>1, <1>3, <2>1, <2>2, <2>3, <2>4 DEF ReadsOK, Rests, Exists, InDatabase, Running, Inside, Deep
<1> QED
    BY <1>2, <1>5, <1>6

\* A step of q alone, which may write rows nobody else has locked.
LEMMA StepOfRequest ==
    ASSUME TxInv, NEW q \in Requests, TypeOK', TxShapes', TablesGuarded({Null, q}),
           \A p \in Requests \ {q} : Rests(p),
           CallOK(q)', LocksOK(q)', ReadsOK(q)'
    PROVE  TxInv'
<1>1. ASSUME NEW p \in Requests \ {q} PROVE CallOK(p)' /\ LocksOK(p)' /\ ReadsOK(p)'
    BY RestKeeps, TxAssumption
<1> QED
    BY <1>1 DEF TxInv

\* A step of nobody's: a single statement, or one of a learner.
LEMMA StepOfNobody ==
    ASSUME TxInv, TypeOK', UNCHANGED <<pc, local, holder>>, TablesGuarded({Null})
    PROVE  TxInv'
<1>1. TxShapes'
    BY DEF TxInv, TxShapes, local
<1>2. ASSUME NEW p \in Requests PROVE CallOK(p)' /\ LocksOK(p)' /\ ReadsOK(p)'
    BY RestKeeps, TxAssumption DEF Rests, local
<1> QED
    BY <1>1, <1>2 DEF TxInv

-----------------------------------------------------------------------------
(***************************************************************************)
(* Steps that write no table.                                              *)
(***************************************************************************)
\* A request that is over holds and knows nothing.
LEMMA Released ==
    ASSUME TxInv, NEW q \in Requests, Release(q)
    PROVE  /\ TxShapes'
           /\ \A p \in Requests \ {q} : Rests(p)
           /\ CallOK(q)' /\ LocksOK(q)' /\ ReadsOK(q)'
<1> q # Null /\ TxShapes
    BY TxAssumption DEF TxInv
<1>1. /\ pc'[q] = "done" /\ call'[q] = NoCall
      /\ \A row \in Careers \cup RevisionIds : holder'[row] # q
    BY DEF Release, Goto, TxShapes
<1>2. NothingRead \in ReadRow
    BY DEF NothingRead, ReadRow
<1>3. TxShapes'
  <2>1. pc' \in [Requests -> Stages] /\ call' = [p \in Requests |-> call'[p]]
      BY DEF Release, Goto, TxShapes, Stages
  <2>2. read' \in [Requests -> ReadRow]
      BY <1>2 DEF Release, TxShapes
  <2>3. holder' \in [Careers \cup RevisionIds -> Requests \cup {Null}]
      BY DEF Release, TxShapes
  <2> QED
      BY <2>1, <2>2, <2>3 DEF TxShapes
<1>4. \A p \in Requests \ {q} : Rests(p)
    BY TxAssumption DEF Release, Goto, TxShapes, Rests
<1>5. CallOK(q)' /\ LocksOK(q)' /\ ReadsOK(q)'
    BY <1>1 DEF CallOK, LocksOK, ReadsOK, Running, Inside, Deep
<1> QED
    BY <1>3, <1>4, <1>5

\* Rows that nobody writes are as they were.
LEMMA QuietTables ==
    ASSUME TxInv, UNCHANGED vars
    PROVE  TypeOK' /\ \A free : TablesGuarded(free)
BY DEF TxInv, TypeOK, RowTypes, ForeignKeys, InDatabase, Exists, TablesGuarded, vars

\* A request that is refused, or rolled back.
LEMMA RefuseKeeps ==
    ASSUME TxInv, NEW q \in Requests, Refuse(q)
    PROVE  TxInv'
BY Released, QuietTables, StepOfRequest DEF Refuse

\* A request that arrives is one of the API, on rows that are there.
LEMMA ArrivalKeeps ==
    ASSUME TxInv, NEW q \in Requests, Peek(q) \/ CallRetire(q)
    PROVE  TxInv'
<1> TxShapes /\ LocksOK(q)
    BY DEF TxInv
<1>1. PICK new :
          /\ call' = [call EXCEPT ![q] = new]
          /\ new.op \in Ops /\ new.actor \in AtLeast(MinRole[new.op]) /\ new.career \in Careers
          /\ new.op # "retire" => /\ new.revision \in RevisionIds /\ InDatabase(new.revision)
                                 /\ new.career = revision[new.revision].career
                                 /\ new.arg \in ArgumentsOf(new.op)
  <2>1. CASE Peek(q)
    <3>1. PICK op \in Ops \ {"retire"}, actor \in Actors, r \in RevisionIds :
              /\ actor \in AtLeast(MinRole[op])
              /\ InDatabase(r)
              /\ \E arg \in ArgumentsOf(op) :
                     call' = [call EXCEPT ![q] = [op |-> op, actor |-> actor,
                                                  career |-> revision[r].career,
                                                  revision |-> r, arg |-> arg]]
        BY <2>1 DEF Peek
    <3>2. PICK arg \in ArgumentsOf(op) :
              call' = [call EXCEPT ![q] = [op |-> op, actor |-> actor,
                                           career |-> revision[r].career,
                                           revision |-> r, arg |-> arg]]
        BY <3>1
    <3>3. revision[r].career \in Careers
        BY <3>1, RevisionRowFields DEF TxInv
    <3> WITNESS [op |-> op, actor |-> actor, career |-> revision[r].career, revision |-> r, arg |-> arg]
    <3> QED
        BY <3>1, <3>2, <3>3
  <2>2. CASE CallRetire(q)
    <3>1. PICK actor \in AtLeast(MinRole["retire"]), c \in Careers :
              call' = [call EXCEPT ![q] = [op |-> "retire", actor |-> actor, career |-> c,
                                           revision |-> Null, arg |-> Null]]
        BY <2>2 DEF CallRetire
    <3> WITNESS [op |-> "retire", actor |-> actor, career |-> c, revision |-> Null, arg |-> Null]
    <3> QED
        BY <3>1 DEF Ops, MinRole
  <2> QED
      BY <2>1, <2>2
<1>2. /\ pc[q] = "idle" /\ pc' = [pc EXCEPT ![q] = "peeked"]
      /\ read' = read /\ holder' = holder /\ UNCHANGED vars
    BY DEF Peek, CallRetire, Goto
<1>3. TxShapes' /\ \A p \in Requests \ {q} : Rests(p)
    BY <1>1, <1>2 DEF TxShapes, Stages, Rests
<1>4. pc'[q] = "peeked" /\ call'[q] = new
    BY <1>1, <1>2 DEF TxShapes
<1>5. new.op # "retire" => /\ revision[new.revision].status # "ABSENT"
                           /\ career[new.career].status # "ABSENT"
    BY <1>1, RevisionRowFields DEF TxInv, InDatabase, Exists
<1>6. CallOK(q)'
    BY <1>1, <1>2, <1>4, <1>5 DEF CallOK, vars, Inside, Deep
<1>7. LocksOK(q)' /\ ReadsOK(q)'
    BY <1>2, <1>4 DEF LocksOK, ReadsOK, Inside, Deep
<1> QED
    BY <1>2, <1>3, <1>6, <1>7, QuietTables, StepOfRequest

\* A lock is taken on a row that is free and there, and what is read then is so.
LEMMA LockKeeps ==
    ASSUME TxInv, NEW q \in Requests, LockCareer(q) \/ LockRevision(q) \/ CareerGone(q)
    PROVE  TxInv'
<1> TxShapes /\ CallOK(q) /\ LocksOK(q) /\ ReadsOK(q) /\ q # Null
    BY TxAssumption DEF TxInv
<1> DEFINE c == call[q].career
           r == call[q].revision
<1>1. CASE LockCareer(q)
  <2>1. /\ pc[q] = "peeked" /\ c \in Careers /\ holder[c] = Null /\ Exists(c)
        /\ pc' = [pc EXCEPT ![q] = "careerLocked"]
        /\ holder' = [holder EXCEPT ![c] = q]
        /\ read' = [read EXCEPT ![q].careerStatus = career[c].status, ![q].version = career[c].version]
        /\ UNCHANGED vars /\ call' = call
      BY <1>1 DEF LockCareer, Goto, Free, CallOK, Running
  <2>2. career[c].status \in CareerStatuses /\ career[c].version \in Nat
      BY <2>1, CareerRowFields DEF TxInv
  <2>3. read' \in [Requests -> ReadRow] /\ read'[q].careerStatus = career[c].status
        /\ read'[q].version = career[c].version
    <3> DEFINE new == [read[q] EXCEPT !.careerStatus = career[c].status, !.version = career[c].version]
    <3>1. /\ new \in ReadRow
          /\ new.careerStatus = career[c].status /\ new.version = career[c].version
        BY <2>2 DEF TxShapes, ReadRow
    <3>2. read' = [read EXCEPT ![q] = new]
        BY <2>1 DEF TxShapes, ReadRow
    <3> QED
        BY <3>1, <3>2 DEF TxShapes
  <2>4. TxShapes' /\ \A p \in Requests \ {q} : Rests(p)
      BY <2>1, <2>3, TxAssumption DEF TxShapes, Stages, Rests
  <2>5. pc'[q] = "careerLocked" /\ call'[q] = call[q] /\ holder'[c] = q
        /\ \A row \in Careers \cup RevisionIds : row # c => holder'[row] # q
      BY <2>1 DEF TxShapes, LocksOK, Inside, Deep
  <2>6. CallOK(q)'
      BY <2>1, <2>5 DEF CallOK, vars, Running, Inside
  <2>7. LocksOK(q)'
      BY <2>1, <2>5, TxAssumption DEF LocksOK, Inside, Deep
  <2>8. ReadsOK(q)'
      BY <2>1, <2>3, <2>5 DEF ReadsOK, Inside, Deep, Exists, vars
  <2> QED
      BY <2>1, <2>4, <2>6, <2>7, <2>8, QuietTables, StepOfRequest
<1>2. CASE CareerGone(q)
  <2>1. CASE call[q].op = "recall"
    <3>1. /\ pc[q] = "peeked" /\ ~Exists(c)
          /\ pc' = [pc EXCEPT ![q] = "careerLocked"]
          /\ UNCHANGED vars /\ UNCHANGED <<call, read, holder>>
        BY <1>2, <2>1 DEF CareerGone, Goto, local
    <3>2. TxShapes' /\ \A p \in Requests \ {q} : Rests(p)
        BY <3>1 DEF TxShapes, Stages, Rests
    <3>3. pc'[q] = "careerLocked" /\ \A row \in Careers \cup RevisionIds : holder[row] # q
        BY <3>1 DEF TxShapes, LocksOK, Inside, Deep
    <3>4. CallOK(q)'
        BY <3>1, <3>3 DEF CallOK, vars, Running, Inside
    <3>5. LocksOK(q)' /\ ReadsOK(q)'
      <4>1. c \in Careers
          BY <3>1 DEF CallOK, Running
      <4> QED
          BY <2>1, <3>1, <3>3, <4>1 DEF LocksOK, ReadsOK, Inside, Deep, Exists, vars
    <3> QED
        BY <3>1, <3>2, <3>4, <3>5, QuietTables, StepOfRequest
  <2>2. CASE call[q].op # "recall"
      BY <1>2, <2>2, RefuseKeeps DEF CareerGone
  <2> QED
      BY <2>1, <2>2
<1>3. CASE LockRevision(q)
  <2>1. CASE ~InDatabase(r)
      BY <1>3, <2>1, RefuseKeeps DEF LockRevision
  <2>2. CASE InDatabase(r)
    <3>1. /\ pc[q] = "careerLocked" /\ call[q].op # "retire" /\ r \in RevisionIds /\ c \in Careers
          /\ holder[r] = Null
          /\ call[q].op \in {"save", "rebase"} => read[q].careerStatus # "RETIRED"
          /\ pc' = [pc EXCEPT ![q] = "revisionLocked"]
          /\ holder' = [holder EXCEPT ![r] = q]
          /\ read' = [read EXCEPT ![q].status = revision[r].status, ![q].base = revision[r].baseVersion]
          /\ UNCHANGED vars /\ call' = call
        BY <1>3, <2>2 DEF LockRevision, Goto, Free, CallOK, Running, Inside
    <3>2. /\ revision[r].status \in RevisionStatuses /\ revision[r].baseVersion \in Nat
          /\ revision[r].career = c /\ Exists(c)
        BY <2>2, <3>1, RevisionRowFields DEF TxInv, CallOK, Running, Inside
    <3>3. /\ read' \in [Requests -> ReadRow]
          /\ read'[q].status = revision[r].status /\ read'[q].base = revision[r].baseVersion
          /\ read'[q].careerStatus = read[q].careerStatus /\ read'[q].version = read[q].version
      <4> DEFINE new == [read[q] EXCEPT !.status = revision[r].status, !.base = revision[r].baseVersion]
      <4>1. /\ new \in ReadRow
            /\ new.status = revision[r].status /\ new.base = revision[r].baseVersion
            /\ new.careerStatus = read[q].careerStatus /\ new.version = read[q].version
          BY <3>2 DEF TxShapes, ReadRow
      <4>2. read' = [read EXCEPT ![q] = new]
          BY <3>1 DEF TxShapes, ReadRow
      <4> QED
          BY <4>1, <4>2 DEF TxShapes
    <3>4. TxShapes' /\ \A p \in Requests \ {q} : Rests(p)
        BY <3>1, <3>3, TxAssumption DEF TxShapes, Stages, Rests
    <3>5. /\ pc'[q] = "revisionLocked" /\ call'[q] = call[q] /\ holder'[r] = q /\ holder'[c] = q
          /\ holder[c] = q
          /\ \A row \in Careers \cup RevisionIds : row \notin {c, r} => holder'[row] # q
        BY <3>1, <3>2 DEF TxShapes, LocksOK, Inside, Deep
    <3>6. CallOK(q)'
        BY <3>1, <3>5 DEF CallOK, vars, Running, Inside, Deep
    <3>7. LocksOK(q)'
        BY <3>1, <3>5, TxAssumption DEF LocksOK, Inside, Deep
    <3>8. ReadsOK(q)'
        BY <2>2, <3>1, <3>3, <3>5 DEF ReadsOK, Inside, Deep, Exists, InDatabase, vars
    <3> QED
        BY <3>1, <3>4, <3>6, <3>7, <3>8, QuietTables, StepOfRequest
  <2> QED
      BY <2>1, <2>2
<1> QED
    BY <1>1, <1>2, <1>3

\* submit and publish read the live steps and the progress under their locks.
LEMMA ReadPlanKeeps ==
    ASSUME TxInv, NEW q \in Requests, ReadPlan(q)
    PROVE  TxInv'
<1> TxShapes /\ CallOK(q) /\ LocksOK(q) /\ ReadsOK(q)
    BY DEF TxInv
<1> DEFINE c == call[q].career
           r == call[q].revision
<1>1. /\ pc[q] = "revisionLocked" /\ call[q].op \in {"submit", "publish"}
      /\ c \in Careers /\ r \in RevisionIds
      /\ pc' = [pc EXCEPT ![q] = "planned"]
      /\ read' = [read EXCEPT ![q].removed = RemovedSteps(r), ![q].progress = completed[c]]
      /\ UNCHANGED vars /\ call' = call /\ holder' = holder
    BY DEF ReadPlan, Goto, CallOK, Running, Inside, Deep
<1>2. RemovedSteps(r) \in SUBSET Steps /\ completed[c] \in SUBSET Steps
  <2>1. revision[r].career = c
      BY <1>1 DEF CallOK, Running, Inside, Deep
  <2>2. career[c].content \in Contents /\ completed[c] \in SUBSET Steps
      BY <1>1, CareerRowFields DEF TxInv
  <2> QED
      BY <2>1, <2>2, ContentsAssumption DEF RemovedSteps
<1>3. /\ read' \in [Requests -> ReadRow] /\ read'[q].removed = RemovedSteps(r)
      /\ read'[q].status = read[q].status /\ read'[q].base = read[q].base
      /\ read'[q].careerStatus = read[q].careerStatus /\ read'[q].version = read[q].version
    BY <1>1, <1>2 DEF TxShapes, ReadRow
<1>4. TxShapes' /\ \A p \in Requests \ {q} : Rests(p)
    BY <1>1, <1>3 DEF TxShapes, Stages, Rests
<1>5. pc'[q] = "planned" /\ call'[q] = call[q] /\ RemovedSteps(r)' = RemovedSteps(r)
    BY <1>1 DEF TxShapes, RemovedSteps, vars
<1>6. CallOK(q)' /\ LocksOK(q)'
    BY <1>1, <1>5 DEF CallOK, LocksOK, vars, Running, Inside, Deep
<1>7. ReadsOK(q)'
    BY <1>1, <1>3, <1>5 DEF ReadsOK, Inside, Deep, Exists, InDatabase, vars
<1> QED
    BY <1>1, <1>4, <1>6, <1>7, QuietTables, StepOfRequest

-----------------------------------------------------------------------------
(***************************************************************************)
(* Steps that commit.                                                      *)
(***************************************************************************)
\* What a request about a revision knows when it commits: everything it has read is so.
Current(q) ==
    LET c == call[q].career
        r == call[q].revision
        op == call[q].op IN
    /\ c \in Careers /\ r \in RevisionIds /\ revision[r].career = c
    /\ holder[c] = q /\ holder[r] = q
    /\ Exists(c) /\ InDatabase(r)
    /\ read[q].careerStatus = career[c].status /\ read[q].version = career[c].version
    /\ read[q].status = revision[r].status /\ read[q].base = revision[r].baseVersion
    /\ op \in Ops /\ call[q].actor \in AtLeast(MinRole[op]) /\ call[q].arg \in ArgumentsOf(op)
    /\ op \in {"save", "rebase"} => career[c].status # "RETIRED"
    /\ op \in {"submit", "publish"} => read[q].removed = RemovedSteps(r)

LEMMA AtCommit ==
    ASSUME TxInv, NEW q \in Requests, Ready(q), call[q].op # "retire"
    PROVE  Current(q)
<1>1. CallOK(q) /\ LocksOK(q) /\ ReadsOK(q)
    BY DEF TxInv
<1>2. pc[q] \in Deep /\ (call[q].op \in {"submit", "publish"} => pc[q] = "planned")
    BY DEF Ready, Deep
<1> QED
    BY <1>1, <1>2 DEF Current, CallOK, LocksOK, ReadsOK, Running, Inside, Deep

\* A revision is written by the request that holds it, and perhaps reviewed.
LEMMA RevisionWritten ==
    ASSUME TxInv, NEW q \in Requests, NEW r \in RevisionIds, holder[r] = q, InDatabase(r),
           NEW row \in RevisionRow, row.career = revision[r].career,
           row.status \notin {"ABSENT", "DELETED"},
           NEW verdicts \in SUBSET ReviewRow, \A v \in verdicts : v.revision = r,
           revision' = [revision EXCEPT ![r] = row], review' = review \cup verdicts,
           UNCHANGED <<career, saved, completed>>
    PROVE  TypeOK' /\ TablesGuarded({Null, q})
<1>1. RowTypes'
    BY DEF TxInv, TypeOK, RowTypes
<1>2. \A s \in RevisionIds : revision'[s] = IF s = r THEN row ELSE revision[s]
    BY DEF TxInv, TypeOK, RowTypes
<1>3. ForeignKeys'
    BY <1>2 DEF TxInv, TypeOK, RowTypes, ForeignKeys, InDatabase, Exists, ReviewRow
<1>4. TablesGuarded({Null, q})
    BY <1>2 DEF TablesGuarded, InDatabase
<1> QED
    BY <1>1, <1>3, <1>4 DEF TypeOK

\* Whoever may call a route is a caller.
LEMMA CallersAct == \A role : AtLeast(role) \subseteq Actors
BY DEF AtLeast

\* Saving, submitting, rebasing and recalling are the atomic operations, unless a learner
\* overtakes a submission.
LEMMA CommitRevisionIsAtomic ==
    ASSUME TxInv, NEW q \in Requests, CommitRevision(q)
    PROVE  Next \/ Overtaken(q)
<1> DEFINE r == call[q].revision
           c == call[q].career
           actor == call[q].actor
<1> Ready(q) /\ MayAct(q) /\ call[q].op # "retire"
    BY DEF CommitRevision
<1>1. Current(q)
    BY AtCommit
<1>2. actor \in Actors /\ r \in RevisionIds
    BY <1>1, CallersAct DEF Current
<1>3. ReadStale(q) <=> IsRevisionStale(r)
    BY <1>1 DEF Current, ReadStale, IsRevisionStale
<1>4. CASE call[q].op = "save"
  <2>1. SaveDraftRevision(actor, r, call[q].arg) /\ call[q].arg \in Contents
      BY <1>1, <1>4 DEF Current, CommitRevision, MayAct, SaveDraftRevision, IsDraft, MinRole, ArgumentsOf
  <2> QED
      BY <1>2, <2>1 DEF Next, RevisionNext
<1>5. CASE call[q].op = "submit"
  <2>1. ~Overtaken(q) => NoBlockers(r)
      BY <1>1, <1>5 DEF Current, CommitRevision, MayAct, ReadBlockers, Overtaken, NoBlockers
  <2>2. ~Overtaken(q) => SubmitRevision(actor, r)
      BY <1>1, <1>5, <2>1 DEF Current, CommitRevision, MayAct, SubmitRevision, IsDraft, MinRole, RetiredRule
  <2> QED
      BY <1>2, <2>2 DEF Next, RevisionNext
<1>6. CASE call[q].op = "rebase"
  <2>1. RebaseRevision(actor, r)
      BY <1>1, <1>3, <1>6 DEF Current, CommitRevision, MayAct, RebaseRevision, IsDraft, MinRole
  <2> QED
      BY <1>2, <2>1 DEF Next, RevisionNext
<1>7. CASE call[q].op = "recall"
  <2>1. RecallRevision(actor, r)
      BY <1>1, <1>7 DEF Current, CommitRevision, MayAct, RecallRevision, IsInReview, IsCreatorOrAdmin, MinRole
  <2> QED
      BY <1>2, <2>1 DEF Next, RevisionNext
<1> QED
    BY <1>4, <1>5, <1>6, <1>7 DEF CommitRevision

\* So are a review ...
LEMMA CommitReviewIsAtomic ==
    ASSUME TxInv, NEW q \in Requests, CommitReview(q)
    PROVE  Next
<1> DEFINE r == call[q].revision
           actor == call[q].actor
           decision == call[q].arg
<1>1. call[q].op = "review" /\ MayAct(q) /\ Current(q)
    BY AtCommit DEF CommitReview
<1>2. actor \in Actors /\ r \in RevisionIds /\ decision \in Decisions
    BY <1>1, CallersAct DEF Current, ArgumentsOf
<1>3. ReadStale(q) <=> IsRevisionStale(r)
    BY <1>1 DEF Current, ReadStale, IsRevisionStale
<1>4. ReviewRevision(actor, r, decision)
    BY <1>1, <1>3 DEF Current, CommitReview, MayAct, ReviewRevision, IsInReview,
           IsSelfReviewBlocked, MinRole
<1> QED
    BY <1>2, <1>4 DEF Next, RevisionNext

\* ... a publication that no learner overtakes ...
LEMMA CommitPublishIsAtomic ==
    ASSUME TxInv, NEW q \in Requests, CommitPublish(q)
    PROVE  Next \/ Overtaken(q)
<1> DEFINE r == call[q].revision
           actor == call[q].actor
<1> SUFFICES ASSUME ~Overtaken(q) PROVE Next
    OBVIOUS
<1>1. call[q].op = "publish" /\ MayAct(q) /\ Current(q)
    BY AtCommit DEF CommitPublish
<1>2. actor \in Actors /\ r \in RevisionIds
    BY <1>1, CallersAct DEF Current
<1>3. NoBlockers(r)
    BY <1>1 DEF Current, MayAct, ReadBlockers, Overtaken, NoBlockers
<1>4. ~IsRevisionStale(r)
    BY <1>1 DEF Current, MayAct, ReadStale, IsRevisionStale
<1>5. /\ actor \in AtLeast("PUBLISHER") /\ revision[r].status = "APPROVED"
      /\ RetiredRule(actor, revision[r].career)
    BY <1>1 DEF Current, MayAct, RetiredRule, MinRole
<1>6. PICK approval \in ApprovingReviews(r) :
          career' = [career EXCEPT ![revision[r].career] =
                       [status        |-> "PUBLISHED",
                        version       |-> career[revision[r].career].version + 1,
                        content       |-> revision[r].snapshot,
                        everPublished |-> TRUE,
                        publishedBy   |-> actor.id,
                        reviewedBy    |-> approval.reviewer]]
  <2> DEFINE c == call[q].career
  <2>1. PICK approval \in ApprovingReviews(r) :
            career' = [career EXCEPT ![c] =
                         [status        |-> "PUBLISHED",
                          version       |-> read[q].version + 1,
                          content       |-> revision[r].snapshot,
                          everPublished |-> TRUE,
                          publishedBy   |-> actor.id,
                          reviewedBy    |-> approval.reviewer]]
      BY DEF CommitPublish
  <2>2. revision[r].career = c /\ read[q].version = career[c].version
      BY <1>1 DEF Current
  <2> QED
      BY <2>1, <2>2
<1>7. /\ revision' = [revision EXCEPT ![r].status = "PUBLISHED"]
      /\ completed' = [completed EXCEPT ![revision[r].career] =
                          completed[revision[r].career] \ RemovedSteps(r)]
      /\ UNCHANGED <<review, saved>>
    BY <1>1 DEF Current, CommitPublish
<1>8. PublishRevision(actor, r)
    BY <1>3, <1>4, <1>5, <1>6, <1>7 DEF PublishRevision
<1> QED
    BY <1>2, <1>8 DEF Next, RevisionNext

\* ... and the retirement of a career.
LEMMA CommitRetireIsAtomic ==
    ASSUME TxInv, NEW q \in Requests, CommitRetire(q)
    PROVE  /\ Next
           /\ call[q].career \in Careers /\ holder[call[q].career] = q
<1> DEFINE c == call[q].career
           actor == call[q].actor
<1>1. /\ pc[q] = "careerLocked" /\ call[q].op = "retire" /\ MayAct(q)
      /\ CallOK(q) /\ LocksOK(q) /\ ReadsOK(q)
    BY DEF CommitRetire, Ready, TxInv
<1>2. /\ c \in Careers /\ holder[c] = q /\ read[q].careerStatus = career[c].status
      /\ actor \in AtLeast(MinRole[call[q].op])
    BY <1>1 DEF CallOK, LocksOK, ReadsOK, Running, Inside
<1>3. RetireCareer(actor, c) /\ actor \in Actors
    BY <1>1, <1>2, CallersAct DEF CommitRetire, MayAct, RetireCareer, MinRole
<1> QED
    BY <1>2, <1>3 DEF Next, CareerNext

\* A commit on a revision keeps the invariant ...
LEMMA CommitRevisionKeeps ==
    ASSUME TxInv, NEW q \in Requests, CommitRevision(q) \/ CommitReview(q)
    PROVE  TxInv'
<1> DEFINE r == call[q].revision
<1>1. Ready(q) /\ MayAct(q) /\ call[q].op # "retire" /\ Current(q) /\ Release(q)
      /\ UNCHANGED <<career, saved, completed>>
    BY AtCommit DEF CommitRevision, CommitReview
<1>2. /\ r \in RevisionIds /\ holder[r] = q /\ InDatabase(r) /\ revision[r] \in RevisionRow
      /\ revision \in [RevisionIds -> RevisionRow]
      /\ read[q].version \in Nat /\ call[q].actor \in Actors
      /\ call[q].career \in Careers /\ career[call[q].career].content \in Contents
    BY <1>1, CallersAct, CareerRowFields DEF Current, TxInv, TypeOK, RowTypes
<1>3. PICK row \in RevisionRow, verdicts \in SUBSET ReviewRow :
          /\ revision' = [revision EXCEPT ![r] = row]
          /\ row.career = revision[r].career /\ row.status \notin {"ABSENT", "DELETED"}
          /\ review' = review \cup verdicts /\ \A v \in verdicts : v.revision = r
  <2>1. CASE CommitRevision(q)
    <3>1. /\ review' = review
          /\ \/ call[q].arg \in Contents
                /\ revision' = [revision EXCEPT ![r] = [revision[r] EXCEPT !.snapshot = call[q].arg]]
             \/ revision' = [revision EXCEPT ![r] = [revision[r] EXCEPT !.baseVersion = read[q].version]]
             \/ \E status \in {"IN_REVIEW", "DRAFT"} :
                   revision' = [revision EXCEPT ![r] = [revision[r] EXCEPT !.status = status]]
        BY <1>1, <1>2, <2>1 DEF CommitRevision, Current, ArgumentsOf
    <3>2. \E row \in RevisionRow :
              /\ revision' = [revision EXCEPT ![r] = row]
              /\ row.career = revision[r].career /\ row.status \notin {"ABSENT", "DELETED"}
        BY <1>2, <3>1 DEF RevisionRow, RevisionStatuses, InDatabase
    <3> PICK row \in RevisionRow :
            /\ revision' = [revision EXCEPT ![r] = row]
            /\ row.career = revision[r].career /\ row.status \notin {"ABSENT", "DELETED"}
        BY <3>2
    <3> WITNESS row \in RevisionRow, {} \in SUBSET ReviewRow
    <3> QED
        BY <3>1
  <2>2. CASE CommitReview(q)
    <3> DEFINE row == [revision[r] EXCEPT !.status = call[q].arg]
               verdict == [revision |-> r, reviewer |-> call[q].actor.id,
                           decision |-> call[q].arg,
                           asAdmin  |-> call[q].actor.role = "ADMIN",
                           live     |-> career[call[q].career].content,
                           snapshot |-> revision[r].snapshot]
    <3>1. call[q].arg \in Decisions
        BY <1>1, <2>2 DEF CommitReview, Current, ArgumentsOf
    <3>2. row \in RevisionRow /\ row.career = revision[r].career /\ row.status \notin {"ABSENT", "DELETED"}
        BY <1>2, <3>1 DEF RevisionRow, RevisionStatuses, Decisions
    <3>3. verdict \in ReviewRow /\ verdict.revision = r
        BY <1>2, <3>1, ActorFields DEF RevisionRow, ReviewRow
    <3>4. revision' = [revision EXCEPT ![r] = row] /\ review' = review \cup {verdict}
        BY <1>2, <2>2 DEF CommitReview
    <3> HIDE DEF row, verdict
    <3> row \in RevisionRow /\ {verdict} \in SUBSET ReviewRow
        BY <3>2, <3>3
    <3> WITNESS row \in RevisionRow, {verdict} \in SUBSET ReviewRow
    <3> QED
        BY <3>2, <3>3, <3>4
  <2> QED
      BY <2>1, <2>2
<1>4. TypeOK' /\ TablesGuarded({Null, q})
    BY <1>1, <1>2, <1>3, RevisionWritten
<1> QED
    BY <1>1, <1>4, Released, StepOfRequest

\* ... so does a publication, overtaken or not: the progress rows of the steps it deletes
\* go with them ...
LEMMA CommitPublishKeeps ==
    ASSUME TxInv, NEW q \in Requests, CommitPublish(q)
    PROVE  TxInv'
<1> DEFINE r == call[q].revision
           c == call[q].career
<1>1. call[q].op = "publish" /\ MayAct(q) /\ Current(q) /\ Release(q)
    BY AtCommit DEF CommitPublish
<1>2. /\ c \in Careers /\ r \in RevisionIds /\ revision[r].career = c
      /\ holder[c] = q /\ holder[r] = q /\ Exists(c) /\ InDatabase(r)
      /\ read[q].removed = RemovedSteps(r)
      /\ read[q].version = career[c].version
    BY <1>1 DEF Current
<1>3. call[q].actor \in Actors
    BY <1>1, CallersAct DEF Current
<1>4. PICK approval \in ApprovingReviews(r) :
          career' = [career EXCEPT ![c] =
                       [status        |-> "PUBLISHED",
                        version       |-> read[q].version + 1,
                        content       |-> revision[r].snapshot,
                        everPublished |-> TRUE,
                        publishedBy   |-> call[q].actor.id,
                        reviewedBy    |-> approval.reviewer]]
    BY DEF CommitPublish
<1>5. /\ revision' = [revision EXCEPT ![r].status = "PUBLISHED"]
      /\ completed' = [completed EXCEPT ![c] = completed[c] \ read[q].removed]
      /\ UNCHANGED <<review, saved>>
    BY DEF CommitPublish
<1> TypeOK
    BY DEF TxInv
<1>6. /\ revision[r].snapshot \in Contents /\ career[c].version \in Nat
      /\ call[q].actor.id \in Staff /\ approval.reviewer \in Staff
    BY <1>2, <1>3, RevisionRowFields, CareerRowFields, ActorFields
       DEF ApprovingReviews, TypeOK, RowTypes, ReviewRow
<1>7. RowTypes'
  <2>1. career' \in [Careers -> CareerRow]
      BY <1>2, <1>4, <1>6 DEF TypeOK, RowTypes, CareerRow, CareerStatuses
  <2>2. revision' \in [RevisionIds -> RevisionRow]
      BY <1>5 DEF TypeOK, RowTypes, RevisionRow, RevisionStatuses
  <2> QED
      BY <1>5, <2>1, <2>2 DEF TypeOK, RowTypes
<1>8. /\ \A d \in Careers \ {c} : career'[d] = career[d] /\ completed'[d] = completed[d]
      /\ career'[c].status = "PUBLISHED" /\ career'[c].content = revision[r].snapshot
      /\ completed'[c] = completed[c] \ RemovedSteps(r)
      /\ \A s \in RevisionIds \ {r} : revision'[s] = revision[s]
      /\ revision'[r].status = "PUBLISHED" /\ revision'[r].career = c
    BY <1>2, <1>4, <1>5 DEF TypeOK, RowTypes, RevisionRow
<1>9. ForeignKeys'
  <2>1. \A s \in RevisionIds :
            InDatabase(s)' => /\ revision'[s].career \in Careers
                              /\ career'[revision'[s].career].status \notin {"ABSENT", "DELETED"}
      BY <1>2, <1>8 DEF TypeOK, ForeignKeys, InDatabase, Exists
  <2>2. \A v \in review' : InDatabase(v.revision)'
      BY <1>5, <1>8 DEF TypeOK, RowTypes, ReviewRow, ForeignKeys, InDatabase
  <2>3. \A d \in Careers : completed'[d] \subseteq StepsOf[career'[d].content]
      BY <1>2, <1>8 DEF TypeOK, ForeignKeys, RemovedSteps
  <2> QED
      BY <2>1, <2>2, <2>3 DEF ForeignKeys, Exists
<1>10. TablesGuarded({Null, q})
    BY <1>2, <1>8 DEF TablesGuarded, Exists
<1> QED
    BY <1>1, <1>7, <1>9, <1>10, Released, StepOfRequest DEF TypeOK

\* ... and a retirement.
LEMMA CommitRetireKeeps ==
    ASSUME TxInv, NEW q \in Requests, CommitRetire(q)
    PROVE  TxInv'
<1> DEFINE c == call[q].career
<1>1. Next /\ c \in Careers /\ holder[c] = q
    BY CommitRetireIsAtomic
<1>2. TypeOK'
    BY <1>1, NextTypeOK DEF TxInv
<1>3. /\ Release(q) /\ revision' = revision
      /\ career' = [career EXCEPT ![c].status = "RETIRED"]
    BY DEF CommitRetire
<1>4. /\ \A d \in Careers \ {c} : career'[d] = career[d]
      /\ career'[c].status = "RETIRED"
    BY <1>1, <1>3, CareerRowFields DEF TxInv, TypeOK, RowTypes, CareerRow
<1>5. career[c].status # "DELETED"
  <2>1. CallOK(q) /\ LocksOK(q) /\ ReadsOK(q)
      BY DEF TxInv
  <2> QED
      BY <1>1, <2>1 DEF LocksOK, ReadsOK, Exists
<1>6. TablesGuarded({Null, q})
    BY <1>1, <1>3, <1>4, <1>5 DEF TablesGuarded
<1> QED
    BY <1>2, <1>3, <1>6, Released, StepOfRequest

-----------------------------------------------------------------------------
(***************************************************************************)
(* Single statements and learners.                                         *)
(***************************************************************************)
\* Only rows that are there are held.
LEMMA HeldRowsExist ==
    ASSUME TxInv
    PROVE  /\ \A c \in Careers : holder[c] # Null => Exists(c)
           /\ \A r \in RevisionIds : holder[r] # Null => InDatabase(r)
<1>1. ASSUME NEW c \in Careers, holder[c] # Null PROVE Exists(c)
  <2>1. /\ holder[c] \in Requests
        /\ LocksOK(holder[c]) /\ ReadsOK(holder[c])
      BY <1>1 DEF TxInv, TxShapes
  <2> QED
      BY <2>1 DEF LocksOK, ReadsOK
<1>2. ASSUME NEW r \in RevisionIds, holder[r] # Null PROVE InDatabase(r)
  <2>1. /\ holder[r] \in Requests
        /\ LocksOK(holder[r]) /\ ReadsOK(holder[r])
      BY <1>2 DEF TxInv, TxShapes
  <2> QED
      BY <2>1 DEF LocksOK, ReadsOK
<1> QED
    BY <1>1, <1>2

\* A single statement is an atomic operation that writes only rows nobody holds.
LEMMA StatementKeeps ==
    ASSUME TxInv, Statement
    PROVE  Next /\ TxInv'
<1> PICK actor \in Actors :
        \/ \E c \in Careers :
              \/ RowsFree(c) /\ DeleteCareer(actor, c)
              \/ \E r \in RevisionIds :
                    \/ CreateCareer(actor, c, r)
                    \/ Free(c) /\ \E content \in Contents : OpenRevision(actor, c, r, content)
        \/ \E r \in RevisionIds : Free(r) /\ DeleteDraftRevision(actor, r)
    BY DEF Statement
<1> TypeOK /\ UNCHANGED <<pc, local, holder>>
    BY DEF TxInv, Statement
<1>1. Next /\ TablesGuarded({Null})
  <2>1. ASSUME NEW c \in Careers, RowsFree(c), DeleteCareer(actor, c)
        PROVE  Next /\ TablesGuarded({Null})
    <3>1. Next
        BY <2>1 DEF Next, CareerNext
    <3>2. TablesGuarded({Null})
        BY <2>1 DEF TablesGuarded, RowsFree, Free, DeleteCareer, TypeOK, RowTypes,
               CareerRow, RevisionRow
    <3> QED
        BY <3>1, <3>2
  <2>2. ASSUME NEW c \in Careers, NEW r \in RevisionIds, CreateCareer(actor, c, r)
        PROVE  Next /\ TablesGuarded({Null})
    <3>1. Next
        BY <2>2 DEF Next, CareerNext
    <3>2. holder[c] = Null /\ holder[r] = Null
        BY <2>2, HeldRowsExist DEF CreateCareer, Exists, InDatabase
    <3>3. TablesGuarded({Null})
        BY <2>2, <3>2 DEF TablesGuarded, CreateCareer, TypeOK, RowTypes, CareerRow
    <3> QED
        BY <3>1, <3>3
  <2>3. ASSUME NEW c \in Careers, NEW r \in RevisionIds, NEW content \in Contents,
               OpenRevision(actor, c, r, content)
        PROVE  Next /\ TablesGuarded({Null})
    <3>1. Next
        BY <2>3 DEF Next, RevisionNext
    <3>2. holder[r] = Null
        BY <2>3, HeldRowsExist DEF OpenRevision, InDatabase
    <3>3. TablesGuarded({Null})
        BY <2>3, <3>2 DEF TablesGuarded, OpenRevision, TypeOK, RowTypes
    <3> QED
        BY <3>1, <3>3
  <2>4. ASSUME NEW r \in RevisionIds, Free(r), DeleteDraftRevision(actor, r)
        PROVE  Next /\ TablesGuarded({Null})
    <3>1. Next
        BY <2>4 DEF Next, RevisionNext
    <3>2. TablesGuarded({Null})
        BY <2>4 DEF TablesGuarded, Free, DeleteDraftRevision, TypeOK, RowTypes, RevisionRow
    <3> QED
        BY <3>1, <3>2
  <2> QED
      BY <2>1, <2>2, <2>3, <2>4
<1>2. TypeOK'
    BY <1>1, NextTypeOK
<1> QED
    BY <1>1, <1>2, StepOfNobody

\* So is a step of a learner, who takes no lock the requests wait for.
LEMMA LearnerKeeps ==
    ASSUME TxInv, Learner
    PROVE  Next /\ TxInv'
<1>1. Next
    BY TxAssumption DEF Learner, Next, LearnerNext
<1>2. /\ UNCHANGED <<pc, local, holder>>
      /\ career' = career /\ revision' = revision
    BY DEF Learner, SetActivePathway, SetStepStatus
<1>3. TypeOK' /\ TablesGuarded({Null})
    BY <1>1, <1>2, NextTypeOK DEF TxInv, TablesGuarded
<1> QED
    BY <1>1, <1>2, <1>3, StepOfNobody

-----------------------------------------------------------------------------
(***************************************************************************)
(* The theorems.                                                           *)
(***************************************************************************)
\* Every step keeps the invariant.
LEMMA TxStep == TxInv /\ [TxNext]_txVars => TxInv'
<1> SUFFICES ASSUME TxInv, [TxNext]_txVars PROVE TxInv'
    OBVIOUS
<1>1. ASSUME NEW q \in Requests, Peek(q) \/ CallRetire(q) \/ Abort(q) \/ Advance(q)
      PROVE  TxInv'
  <2>1. CASE Peek(q) \/ CallRetire(q)
      BY <2>1, ArrivalKeeps
  <2>2. CASE LockCareer(q) \/ LockRevision(q) \/ CareerGone(q)
      BY <2>2, LockKeeps
  <2>3. CASE Abort(q) \/ RefuseRetired(q) \/ Fail(q)
      BY <2>3, RefuseKeeps DEF Abort, RefuseRetired, Fail
  <2>4. CASE ReadPlan(q)
      BY <2>4, ReadPlanKeeps
  <2>5. CASE CommitRevision(q) \/ CommitReview(q)
      BY <2>5, CommitRevisionKeeps
  <2>6. CASE CommitPublish(q)
      BY <2>6, CommitPublishKeeps
  <2>7. CASE CommitRetire(q)
      BY <2>7, CommitRetireKeeps
  <2> QED
      BY <1>1, <2>1, <2>2, <2>3, <2>4, <2>5, <2>6, <2>7 DEF Advance
<1>2. CASE UNCHANGED txVars
  <2>1. UNCHANGED vars /\ UNCHANGED <<pc, local, holder>>
      BY <1>2 DEF txVars, vars, local
  <2> QED
      BY <2>1, QuietTables, StepOfNobody
<1> QED
    BY <1>1, <1>2, StatementKeeps, LearnerKeeps DEF TxNext

\* The invariant holds for as long as the service runs.
THEOREM TxInvHolds == TxSpec => []TxInv
<1>1. TxInit => TxInv
    BY TxInitInv
<1>2. TxInv /\ [TxNext]_txVars => TxInv'
    BY TxStep
<1> QED
    BY <1>1, <1>2, PTL DEF TxSpec

\* Requests hold locks only while their transaction runs, and the lock on a revision only
\* with the one on its career.
THEOREM LocksAreOrdered == TxSpec => []TxTypeOK
<1>1. TxInv => TxTypeOK
  <2> SUFFICES ASSUME TxInv PROVE TxTypeOK
      OBVIOUS
  <2>1. TxShapes /\ TypeOK
      BY DEF TxInv
  <2>2. ASSUME NEW q \in Requests
        PROVE  /\ call[q] # NoCall => call[q].op \in Ops /\ call[q].actor \in Actors
               /\ read[q].removed \subseteq Steps /\ read[q].progress \subseteq Steps
               /\ pc[q] \in {"idle", "peeked", "done"} => \A row \in DOMAIN holder : holder[row] # q
               /\ \A r \in RevisionIds : holder[r] = q => holder[revision[r].career] = q
    <3>1. CallOK(q) /\ LocksOK(q)
        BY DEF TxInv
    <3>2. pc[q] \in Running \cup {"idle", "done"}
        BY <2>1 DEF TxShapes, Stages, Running, Inside, Deep
    <3>3. call[q] # NoCall => call[q].op \in Ops /\ call[q].actor \in Actors
        BY <3>1, <3>2, CallersAct DEF CallOK
    <3>4. read[q].removed \subseteq Steps /\ read[q].progress \subseteq Steps
        BY <2>1 DEF TxShapes, ReadRow
    <3>5. pc[q] \in {"idle", "peeked", "done"} => \A row \in DOMAIN holder : holder[row] # q
        BY <2>1, <3>1 DEF TxShapes, LocksOK, Inside, Deep
    <3>6. \A r \in RevisionIds : holder[r] = q => holder[revision[r].career] = q
        BY <3>1 DEF CallOK, LocksOK, Running, Inside, Deep
    <3> QED
        BY <3>3, <3>4, <3>5, <3>6
  <2> QED
      BY <2>1, <2>2 DEF TxTypeOK, TxShapes
<1> QED
    BY <1>1, TxInvHolds, PTL

\* Every check of a transaction is made on what the rows hold: its locks keep what it has
\* read of its career and its revision.
THEOREM ReadsAreCurrent == TxSpec => []ReadsStayCurrent
<1>1. TxInv => ReadsStayCurrent
  <2> SUFFICES ASSUME TxInv, NEW q \in Requests
               PROVE  /\ pc[q] \in {"careerLocked", "revisionLocked", "planned"} /\ Exists(call[q].career) =>
                            /\ read[q].careerStatus = career[call[q].career].status
                            /\ read[q].version = career[call[q].career].version
                      /\ pc[q] \in {"revisionLocked", "planned"} =>
                            /\ read[q].status = revision[call[q].revision].status
                            /\ read[q].base = revision[call[q].revision].baseVersion
                      /\ pc[q] = "planned" => read[q].removed = RemovedSteps(call[q].revision)
      BY DEF ReadsStayCurrent
  <2>1. LocksOK(q) /\ ReadsOK(q)
      BY DEF TxInv
  <2> QED
      BY <2>1 DEF LocksOK, ReadsOK, Inside, Deep
<1> QED
    BY <1>1, TxInvHolds, PTL

\* What a step of the service does to the tables, an atomic operation does, unless a learner
\* overtakes a submission or a publication.
LEMMA StepIsAtomic ==
    TxInv /\ [TxNext]_txVars =>
        [Next \/ \E q \in Requests : Overtaken(q) /\ (CommitRevision(q) \/ CommitPublish(q))]_vars
<1> SUFFICES ASSUME TxInv, [TxNext]_txVars
             PROVE  \/ Next
                    \/ \E q \in Requests : Overtaken(q) /\ (CommitRevision(q) \/ CommitPublish(q))
                    \/ UNCHANGED vars
    OBVIOUS
<1>1. ASSUME NEW q \in Requests, Peek(q) \/ CallRetire(q) \/ Abort(q) \/ Advance(q)
      PROVE  \/ Next
             \/ Overtaken(q) /\ (CommitRevision(q) \/ CommitPublish(q))
             \/ UNCHANGED vars
  <2>1. CASE CommitRevision(q)
      BY <2>1, CommitRevisionIsAtomic
  <2>2. CASE CommitReview(q)
      BY <2>2, CommitReviewIsAtomic
  <2>3. CASE CommitPublish(q)
      BY <2>3, CommitPublishIsAtomic
  <2>4. CASE CommitRetire(q)
      BY <2>4, CommitRetireIsAtomic
  <2>5. CASE \/ Peek(q) \/ CallRetire(q) \/ Abort(q) \/ LockCareer(q) \/ CareerGone(q)
             \/ RefuseRetired(q) \/ LockRevision(q) \/ ReadPlan(q) \/ Fail(q)
      BY <2>5 DEF Peek, CallRetire, Abort, LockCareer, CareerGone, RefuseRetired, LockRevision,
             ReadPlan, Fail, Refuse
  <2> QED
      BY <1>1, <2>1, <2>2, <2>3, <2>4, <2>5 DEF Advance
<1>2. CASE UNCHANGED txVars
    BY <1>2 DEF txVars, vars
<1> QED
    BY <1>1, <1>2, StatementKeeps, LearnerKeeps DEF TxNext

\* The interleaved transactions, with their locks, aborts and refusals, serialize: to the
\* tables they are atomic operations one after the other, up to learners who overtake.
THEOREM TransactionsSerialize == TxSpec => Serializes
<1>1. TxInv /\ [TxNext]_txVars =>
        [Next \/ \E q \in Requests : Overtaken(q) /\ (CommitRevision(q) \/ CommitPublish(q))]_vars
    BY StepIsAtomic
<1> QED
    BY <1>1, TxInvHolds, PTL DEF TxSpec, Serializes

=============================================================================
