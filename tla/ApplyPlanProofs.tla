--------------------------- MODULE ApplyPlanProofs ---------------------------
(***************************************************************************)
(* Proofs about ApplyPlan.  The rows in the middle of a publication are a  *)
(* function of the live rows, the snapshot and the operations not yet      *)
(* applied; only which resources have been deleted depends on what the     *)
(* others did meanwhile.                                                   *)
(***************************************************************************)
EXTENDS ApplyPlan, TLAPS

-----------------------------------------------------------------------------
(***************************************************************************)
(* The invariant.                                                          *)
(***************************************************************************)
\* All a publication has to do.
Whole == BuildPlan(live, snap, input.completed) \cup Op("steps", "offset", Moves(live, snap))

Waits(section, kind, id) == <<section, kind, id>> \in todo

\* What saveDraftRevision lets through, of a draft of some live rows.
Sound(given, s) ==
    /\ IsRows(s)
    /\ \A p, q \in DOMAIN s.steps : s.steps[p].order = s.steps[q].order => p = q
    /\ DOMAIN s.steps # {} => s.pathway # Null
    /\ \A link \in s.stepSkills \cup s.stepResources : link[1] \in DOMAIN s.steps
    /\ \A link \in s.stepResources : link[2] \in TempIds => link[2] \in DOMAIN s.resources
    /\ \A ref \in DOMAIN s.steps \cup TempIds :
          /\ Fresh(ref) \notin DOMAIN given.live.steps \cup DOMAIN given.live.resources \cup OtherLinked
          /\ \A link \in s.stepResources : Fresh(ref) # link[2]

Typed ==
    /\ input \in Inputs
    /\ result \in {"editing", "invalid", "saved", "blocked",
                  "applying", "applied", "failed", "interrupted"}
    /\ IsRows(rows)

SnapshotSound ==
    /\ result \notin {"editing", "invalid"} => Sound(input, snap)
    /\ result \in {"applying", "applied", "failed"} => Blockers(live, snap, input.completed) = {}

AtRest == result \notin {"applying", "applied"} => rows = live
Settled == result # "applying" => doomed = Null

\* The stages are gone through in their order.
InOrder ==
    /\ todo \subseteq Whole
    /\ \A n \in DOMAIN Stages, m \in DOMAIN Stages :
          n < m /\ By(Stages[n][1], Stages[n][2]) # {} =>
              \A op \in Whole : op[1] = Stages[m][1] /\ op[2] = Stages[m][2] => op \in todo

CareerHalfway ==
    rows.career = IF By("career", "update") = {} THEN snap.career ELSE live.career

PathwayHalfway ==
    rows.pathway = IF \A kind \in {"create", "update", "delete"} : By("pathway", kind) = {}
                   THEN snap.pathway ELSE live.pathway

SkillsHalfway ==
    /\ DOMAIN rows.skills =
          {k \in DOMAIN live.skills : k \in DOMAIN snap.skills \/ Waits("skills", "unlink", k)}
          \cup {k \in New(live.skills, snap.skills) : ~Waits("skills", "link", k)}
    /\ \A k \in DOMAIN rows.skills :
          rows.skills[k] = IF k \in DOMAIN snap.skills /\ ~Waits("skills", "update", k)
                           THEN snap.skills[k] ELSE live.skills[k]
    /\ \A k \in New(live.skills, snap.skills) : Waits("skills", "link", k) \/ k \in AllSkills

\* The outlook rows that are created.
OutlookCreates == DOMAIN snap.outlook \ (DOMAIN live.outlook \ TempIds)

OutlookHalfway ==
    /\ DOMAIN rows.outlook =
          {o \in DOMAIN live.outlook :
              o \in DOMAIN snap.outlook \ TempIds \/ Waits("outlook", "delete", o)}
          \cup {o \in OutlookCreates : ~Waits("outlook", "create", o)}
    /\ \A o \in DOMAIN rows.outlook :
          rows.outlook[o] =
              IF /\ o \in DOMAIN snap.outlook
                 /\ ~Waits("outlook", "update", o) /\ ~Waits("outlook", "create", o)
              THEN snap.outlook[o] ELSE live.outlook[o]
    /\ \A o \in OutlookCreates : Waits("outlook", "create", o) \/ o \notin DOMAIN live.outlook

\* No live step that is to be deleted has the order of this one.
Unrivalled(ref) ==
    \A p \in DOMAIN live.steps \ DOMAIN snap.steps : live.steps[p].order # snap.steps[ref].order

HalfwayOrder(p) ==
    CASE Waits("steps", "offset", p) -> live.steps[p].order
      [] ~Waits("steps", "offset", p) /\ Waits("steps", "move", p) -> live.steps[p].order + Offset
      [] OTHER -> IF p \in DOMAIN snap.steps THEN snap.steps[p].order ELSE live.steps[p].order

HalfwayText(p) ==
    IF p \in DOMAIN snap.steps /\ ~Waits("steps", "update", p)
    THEN snap.steps[p].text ELSE live.steps[p].text

StepsHalfway ==
    /\ DOMAIN rows.steps =
          {p \in DOMAIN live.steps : p \in DOMAIN snap.steps \/ Waits("steps", "delete", p)}
          \cup {Fresh(ref) : ref \in {r \in StepCreates(live, snap) : ~Waits("steps", "create", r)}}
    /\ \A p \in DOMAIN rows.steps \cap DOMAIN live.steps :
          rows.steps[p].order = HalfwayOrder(p) /\ rows.steps[p].text = HalfwayText(p)
    /\ \A ref \in StepCreates(live, snap) :
          Waits("steps", "create", ref) \/ rows.steps[Fresh(ref)] = snap.steps[ref]
    /\ \A ref \in StepCreates(live, snap) : Waits("steps", "create", ref) \/ Unrivalled(ref)
    /\ \A ref \in Moves(live, snap) : Waits("steps", "move", ref) \/ Unrivalled(ref)

\* The live links that are still there, and the new ones already made.
Remaining(section) ==
    {link \in live[section] :
        /\ link[1] \in DOMAIN rows.steps
        /\ link[1] \in DOMAIN snap.steps =>
              link \in snap[section] \/ Waits(section, "unlink", link)}

Linked(section) ==
    {link \in snap[section] \ live[section] :
        link[1] \in Kept(live, snap) \cup TempIds /\ ~Waits(section, "link", link)}

LinksHalfway ==
    /\ rows.stepSkills = Remaining("stepSkills")
          \cup {<<ResolveStep(link[1]), link[2]>> : link \in Linked("stepSkills")}
    /\ rows.stepResources = Remaining("stepResources")
          \cup {<<ResolveStep(link[1]), ResolveResource(link[2])>> : link \in Linked("stepResources")}
    /\ \A link \in Linked("stepSkills") : link[2] \in AllSkills
    /\ \A link \in Linked("stepResources") : link[2] \in DOMAIN live.resources \cup TempIds

ResourceCreates == DOMAIN snap.resources \cap TempIds

ResourcesHalfway ==
    /\ DOMAIN rows.resources \subseteq
          DOMAIN live.resources \cup {Fresh(x) : x \in ResourceCreates}
    /\ \A x \in DOMAIN live.resources \ DOMAIN rows.resources :
          x \in LinkedBy(live) \ DOMAIN snap.resources /\ ~Waits("resources", "unlink", x)
    /\ \A x \in DOMAIN live.resources \cap DOMAIN rows.resources :
          rows.resources[x] =
              IF /\ x \in (DOMAIN snap.resources \ TempIds) \cap LinkedBy(live)
                 /\ snap.resources[x].text # live.resources[x].text
                 /\ ~Waits("resources", "update", x)
              THEN snap.resources[x] ELSE live.resources[x]
    /\ \A x \in ResourceCreates :
          \/ Waits("resources", "create", x)
          \/ Fresh(x) \in DOMAIN rows.resources /\ rows.resources[Fresh(x)] = snap.resources[x]

DoomedUnlinked ==
    doomed # Null =>
        /\ doomed \notin LinkedBy(rows)
        /\ doomed \in LinkedBy(live) \ DOMAIN snap.resources
        /\ ~Waits("resources", "unlink", doomed)

Halfway ==
    /\ InOrder
    /\ CareerHalfway /\ PathwayHalfway /\ SkillsHalfway /\ OutlookHalfway
    /\ StepsHalfway /\ LinksHalfway /\ ResourcesHalfway /\ DoomedUnlinked

Finished == \A n \in DOMAIN Stages : By(Stages[n][1], Stages[n][2]) = {}

\* What another career has linked all along.
Steady == OtherLinked \ input.contended

SteadyKept ==
    /\ Steady \subseteq others
    /\ doomed # Null => doomed \notin Steady
    /\ Steady \cap DOMAIN live.resources \subseteq DOMAIN rows.resources

\* What other careers have, neither the live rows nor those of now collide with; nothing this
\* publication creates is known to them.
Guarded ==
    /\ ColumnsFit(rows)
    /\ Keys(live) \cap taken = {} /\ Keys(rows) \cap taken = {}
    /\ LinkedBy(live) \cap gone = {} /\ LinkedBy(rows) \cap gone = {}
    /\ others \cup joining \cup gone \subseteq OtherLinked \cup DOMAIN live.resources

OrdersDiffer(steps) == \A p, q \in DOMAIN steps : steps[p].order = steps[q].order => p = q

PublicationInv ==
    /\ Typed /\ SnapshotSound /\ AtRest /\ Settled /\ Guarded
    /\ result \in {"applying", "applied"} => Halfway
    /\ result = "applied" => Finished
    /\ result = "failed" => Conflict \/ OffsetReached
    /\ OrdersDiffer(rows.steps)
    /\ \A link \in rows.stepResources : link[2] \in DOMAIN rows.resources

-----------------------------------------------------------------------------
(***************************************************************************)
(* Drafts that are saved.                                                  *)
(***************************************************************************)
LEMMA IdsListed ==
    ASSUME NEW list
    PROVE Ids(list) = {list[i].id : i \in DOMAIN list}
BY DEF Ids, Column, Range

LEMMA NoneTwice ==
    ASSUME NEW list, IsList(list), NEW field, Duplicates(Column(list, field)) = {},
           NEW i \in DOMAIN list, NEW j \in DOMAIN list, list[i][field] = list[j][field]
    PROVE i = j
<1>1. DOMAIN Column(list, field) = DOMAIN list /\ i \in Nat /\ j \in Nat
  BY DEF Column, IsList
<1>2. Column(list, field)[i] = Column(list, field)[j]
  BY DEF Column
<1>3. ~(i < j) /\ ~(j < i)
  BY <1>1, <1>2 DEF Duplicates, IsList
<1> QED
  BY <1>1, <1>3

LEMMA ByIdRows ==
    ASSUME NEW list, IsList(list), Duplicates(Column(list, "id")) = {}
    PROVE /\ DOMAIN ById(list) = {list[i].id : i \in DOMAIN list}
          /\ \A i \in DOMAIN list : ById(list)[list[i].id] = list[i]
<1>1. DOMAIN ById(list) = {list[i].id : i \in DOMAIN list}
  BY IdsListed DEF ById
<1>2. ASSUME NEW i \in DOMAIN list
      PROVE ById(list)[list[i].id] = list[i]
  <2> DEFINE Last(k) == k \in DOMAIN list /\ list[k].id = list[i].id
                        /\ \A j \in DOMAIN list : list[j].id = list[i].id => j <= k
  <2>1. \A j \in DOMAIN list : list[j].id = list[i].id => j = i
    BY NoneTwice
  <2>2. Last(i)
    BY <2>1 DEF IsList
  <2>3. \A k : Last(k) => k = i
    BY <2>1
  <2>4. (CHOOSE k \in DOMAIN list : /\ list[k].id = list[i].id
                                    /\ \A j \in DOMAIN list : list[j].id = list[i].id => j <= k) = i
    BY <2>2, <2>3
  <2> QED
    BY <1>1, <2>4, IdsListed DEF ById
<1> QED
  BY <1>1, <1>2

LEMMA SavedIsSound ==
    ASSUME NEW given \in Inputs, NEW draft, draft = given.draft,
           NEW s, s = Snapshot(draft), FindSnapshotProblems(draft) = {}
    PROVE Sound(given, s)
<1>1. /\ \A part \in {"steps", "skills", "resources", "outlook"} :
            IsList(draft[part]) /\ Duplicates(Column(draft[part], "id")) = {}
      /\ Duplicates(Column(draft.steps, "order")) = {}
      /\ draft.steps # <<>> => draft.pathway # Null
      /\ LinkProblems(draft) = {}
  <2>1. DuplicateRows(draft) = {} /\ LinkProblems(draft) = {}
        /\ ~(draft.steps # <<>> /\ draft.pathway = Null)
    BY DEF FindSnapshotProblems
  <2>2. \A part \in {"steps", "skills", "resources", "outlook"} : IsList(draft[part])
    BY InputsAssumption
  <2>3. \A part \in {"steps", "skills", "resources", "outlook"} : Duplicates(Column(draft[part], "id")) = {}
    <3> SUFFICES ASSUME NEW part \in {"steps", "skills", "resources", "outlook"},
                        NEW i \in Duplicates(Column(draft[part], "id"))
                 PROVE FALSE
      OBVIOUS
    <3>1. <<part, i>> \in DuplicateRows(draft)
      BY DEF DuplicateRows
    <3> QED
      BY <2>1, <3>1
  <2>4. Duplicates(Column(draft.steps, "order")) = {}
    <3> SUFFICES ASSUME NEW i \in Duplicates(Column(draft.steps, "order"))
                 PROVE FALSE
      OBVIOUS
    <3>1. <<"orders", i>> \in DuplicateRows(draft)
      BY DEF DuplicateRows
    <3> QED
      BY <2>1, <3>1
  <2> QED
    BY <2>1, <2>2, <2>3, <2>4
<1>2. /\ DOMAIN s.steps = {draft.steps[i].id : i \in DOMAIN draft.steps}
      /\ \A i \in DOMAIN draft.steps :
            s.steps[draft.steps[i].id] = [order |-> draft.steps[i].order, text |-> draft.steps[i].text]
  <2>1. DOMAIN s.steps = DOMAIN ById(draft.steps)
        /\ \A p \in DOMAIN s.steps : s.steps[p] = [order |-> ById(draft.steps)[p].order,
                                                   text |-> ById(draft.steps)[p].text]
    BY DEF Snapshot
  <2>2. IsList(draft.steps) /\ Duplicates(Column(draft.steps, "id")) = {}
    BY <1>1
  <2> QED
    BY <2>1, <2>2, ByIdRows
<1>3. ASSUME NEW link \in s.stepSkills \cup s.stepResources
      PROVE link = <<link[1], link[2]>> /\ link[1] \in DOMAIN s.steps
  BY DEF Snapshot, Pairs, Column
<1>4. ASSUME NEW link \in s.stepResources
      PROVE \E i \in DOMAIN draft.steps : link[2] \in Range(draft.steps[i].resourceIds)
  <2>1. PICK id \in DOMAIN ById(draft.steps) : link[2] \in Range(ById(draft.steps)[id].resourceIds)
    BY DEF Snapshot, Pairs, Column
  <2>2. IsList(draft.steps) /\ Duplicates(Column(draft.steps, "id")) = {}
    BY <1>1
  <2> DOMAIN ById(draft.steps) = {draft.steps[i].id : i \in DOMAIN draft.steps}
    BY <2>2, ByIdRows
  <2>3. PICK i \in DOMAIN draft.steps : draft.steps[i].id = id
    OBVIOUS
  <2>4. ById(draft.steps)[id] = draft.steps[i]
    BY <2>2, <2>3, ByIdRows
  <2> QED
    BY <2>1, <2>4
<1>5. IsRows(s)
  <2>1. /\ s = [career |-> s.career, pathway |-> s.pathway, steps |-> s.steps,
              stepSkills |-> s.stepSkills, stepResources |-> s.stepResources,
              skills |-> s.skills, resources |-> s.resources, outlook |-> s.outlook]
        /\ s.career = draft.career
        /\ IsTable(s.steps) /\ IsTable(s.skills) /\ IsTable(s.resources) /\ IsTable(s.outlook)
    BY DEF Snapshot, IsTable
  <2>2. IsCareer(draft.career)
        /\ \A i \in DOMAIN draft.steps : draft.steps[i].order \in Int
    BY InputsAssumption
  <2>3. ASSUME NEW p \in DOMAIN s.steps
        PROVE s.steps[p] = [order |-> s.steps[p].order, text |-> s.steps[p].text]
              /\ s.steps[p].order \in Int
    <3>1. PICK i \in DOMAIN draft.steps : draft.steps[i].id = p
      BY <1>2
    <3>2. s.steps[p] = [order |-> draft.steps[i].order, text |-> draft.steps[i].text]
      BY <1>2, <3>1
    <3> QED
      BY <2>2, <3>2
  <2> QED
    BY <1>3, <2>1, <2>2, <2>3 DEF IsRows
<1>6. ASSUME NEW p \in DOMAIN s.steps, NEW q \in DOMAIN s.steps, s.steps[p].order = s.steps[q].order
      PROVE p = q
  <2>1. PICK i \in DOMAIN draft.steps : draft.steps[i].id = p
    BY <1>2
  <2>2. PICK j \in DOMAIN draft.steps : draft.steps[j].id = q
    BY <1>2
  <2>3. /\ s.steps[p] = [order |-> draft.steps[i].order, text |-> draft.steps[i].text]
        /\ s.steps[q] = [order |-> draft.steps[j].order, text |-> draft.steps[j].text]
    BY <1>2, <2>1, <2>2
  <2>4. draft.steps[i].order = draft.steps[j].order
    BY <1>6, <2>3
  <2> QED
    BY <1>1, <2>1, <2>2, <2>4, NoneTwice
<1>7. DOMAIN s.steps # {} => s.pathway # Null
  BY <1>1, <1>2 DEF Snapshot, IsList
<1>8. ASSUME NEW link \in s.stepResources, link[2] \in TempIds
      PROVE link[2] \in DOMAIN s.resources
  <2>1. DOMAIN s.resources = DOMAIN ById(draft.resources)
        /\ DOMAIN ById(draft.resources) = Ids(draft.resources)
    BY DEF Snapshot, ById
  <2>2. PICK i \in DOMAIN draft.steps : link[2] \in Range(draft.steps[i].resourceIds)
    BY <1>4
  <2>3. PICK j \in DOMAIN draft.steps[i].resourceIds : link[2] = draft.steps[i].resourceIds[j]
    BY <2>2 DEF Range
  <2>4. j \notin {k \in DOMAIN draft.steps[i].resourceIds :
                     draft.steps[i].resourceIds[k] \in TempIds \ Ids(draft.resources)}
    <3> SUFFICES ASSUME j \in DOMAIN draft.steps[i].resourceIds,
                        draft.steps[i].resourceIds[j] \in TempIds \ Ids(draft.resources)
                 PROVE FALSE
      OBVIOUS
    <3>1. j \in {k \in DOMAIN draft.steps[i].resourceIds :
                   draft.steps[i].resourceIds[k] \in TempIds \ Ids(draft.resources)}
      OBVIOUS
    <3>2. {<<"resourceIds", k>> : k \in Duplicates(draft.steps[i].resourceIds)
                \cup {k \in DOMAIN draft.steps[i].resourceIds :
                         draft.steps[i].resourceIds[k] \in TempIds \ Ids(draft.resources)}} # {}
      BY <3>1
    <3>3. <<"steps", i>> \in LinkProblems(draft)
      BY <3>2 DEF LinkProblems
    <3> QED
      BY <1>1, <3>3
  <2> QED
    BY <1>8, <2>1, <2>3, <2>4
<1>9. ASSUME NEW ref \in DOMAIN s.steps \cup TempIds
      PROVE /\ Fresh(ref) \notin DOMAIN given.live.steps \cup DOMAIN given.live.resources \cup OtherLinked
            /\ \A link \in s.stepResources : Fresh(ref) # link[2]
  <2>1. ref \in Ids(draft.steps) \cup TempIds
    BY <1>2, IdsListed
  <2>2. Fresh(ref) \notin DOMAIN given.live.steps \cup DOMAIN given.live.resources
                           \cup DraftLinks(draft) \cup OtherLinked
    BY <2>1, InputsAssumption
  <2>3. \A link \in s.stepResources : link[2] \in DraftLinks(draft)
    BY <1>4 DEF DraftLinks
  <2> QED
    BY <2>2, <2>3
<1> QED
  BY <1>3, <1>5, <1>6, <1>7, <1>8, <1>9 DEF Sound

-------------------------------------------------------------
(***************************************************************************)
(* Operations.                                                             *)
(***************************************************************************)
LEMMA WholeIs ==
    ASSUME NEW id
    PROVE /\ <<"career", "update", id>> \in Whole <=> id \in Changed(live.career, snap.career)
          /\ <<"skills", "link", id>> \in Whole <=> id \in New(live.skills, snap.skills)
          /\ <<"skills", "update", id>> \in Whole <=> id \in Changed(live.skills, snap.skills)
          /\ <<"skills", "unlink", id>> \in Whole <=> id \in New(snap.skills, live.skills)
          /\ <<"resources", "update", id>> \in Whole
                <=> /\ id \in (DOMAIN snap.resources \ TempIds) \cap LinkedBy(live)
                    /\ snap.resources[id].text # live.resources[id].text
          /\ <<"resources", "unlink", id>> \in Whole
                <=> id \in LinkedBy(live) \ (DOMAIN snap.resources \ TempIds)
          /\ <<"resources", "create", id>> \in Whole <=> id \in ResourceCreates
          /\ <<"outlook", "create", id>> \in Whole <=> id \in OutlookCreates
          /\ <<"outlook", "update", id>> \in Whole
                <=> id \in Changed(live.outlook, snap.outlook) \ TempIds
          /\ <<"outlook", "delete", id>> \in Whole
                <=> id \in DOMAIN live.outlook \ (DOMAIN snap.outlook \ TempIds)
          /\ <<"steps", "offset", id>> \in Whole <=> id \in Moves(live, snap)
          /\ <<"steps", "move", id>> \in Whole <=> id \in Moves(live, snap)
          /\ <<"steps", "update", id>> \in Whole
                <=> id \in Kept(live, snap) /\ live.steps[id].text # snap.steps[id].text
          /\ <<"steps", "create", id>> \in Whole <=> id \in StepCreates(live, snap)
          /\ <<"steps", "delete", id>> \in Whole
                <=> id \in DOMAIN live.steps \ (Kept(live, snap) \cup input.completed)
          /\ <<"stepSkills", "link", id>> \in Whole
                <=> /\ id \in snap.stepSkills \ live.stepSkills
                    /\ id[1] \in Kept(live, snap) \cup TempIds
          /\ <<"stepSkills", "unlink", id>> \in Whole
                <=> id \in live.stepSkills \ snap.stepSkills /\ id[1] \in Kept(live, snap)
          /\ <<"stepResources", "link", id>> \in Whole
                <=> /\ id \in snap.stepResources \ live.stepResources
                    /\ id[1] \in Kept(live, snap) \cup TempIds
          /\ <<"stepResources", "unlink", id>> \in Whole
                <=> id \in live.stepResources \ snap.stepResources /\ id[1] \in Kept(live, snap)
BY DEF Whole, BuildPlan, PlanCareerFields, PlanPathway, PlanSkills, PlanResources, PlanOutlook,
       PlanSteps, PlanStepLinks, Op, ResourceCreates, OutlookCreates, Changed

LEMMA PathwayPlanned ==
    /\ (\A kind \in {"create", "update", "delete"} : \A id : <<"pathway", kind, id>> \notin Whole)
          <=> live.pathway = snap.pathway
    /\ \A kind, other, id, i :
          <<"pathway", kind, id>> \in Whole /\ <<"pathway", other, i>> \in Whole => kind = other
<1>1. \A kind, id : <<"pathway", kind, id>> \in Whole
                       <=> <<"pathway", kind, id>> \in PlanPathway(live, snap)
  BY DEF Whole, BuildPlan, PlanCareerFields, PlanPathway, PlanSkills, PlanResources, PlanOutlook,
         PlanSteps, PlanStepLinks, Op
<1>2. CASE live.pathway = snap.pathway
  BY <1>1, <1>2 DEF PlanPathway
<1>3. CASE live.pathway # snap.pathway
  <2>1. PICK kind \in {"create", "update", "delete"} :
           PlanPathway(live, snap) = {<<"pathway", kind, "pathway">>}
    BY <1>3 DEF PlanPathway, Op
  <2>2. \A other, id : <<"pathway", other, id>> \in Whole <=> other = kind /\ id = "pathway"
    BY <1>1, <2>1
  <2>3. \E other \in {"create", "update", "delete"} : \E id : <<"pathway", other, id>> \in Whole
    BY <2>2
  <2>4. \A k1, k2, id, i :
           <<"pathway", k1, id>> \in Whole /\ <<"pathway", k2, i>> \in Whole => k1 = k2
    BY <2>2
  <2> QED
    BY <1>3, <2>3, <2>4
<1> QED
  BY <1>2, <1>3

LEMMA Triples ==
    ASSUME NEW op \in Whole
    PROVE op = <<op[1], op[2], op[3]>>
BY DEF Whole, BuildPlan, PlanCareerFields, PlanPathway, PlanSkills, PlanResources, PlanOutlook,
       PlanSteps, PlanStepLinks, Op

LEMMA NoneOfKind ==
    ASSUME NEW ops, \A op \in ops : op = <<op[1], op[2], op[3]>>, NEW section, NEW kind
    PROVE {op \in ops : op[1] = section /\ op[2] = kind} = {}
             <=> \A id : <<section, kind, id>> \notin ops
<1>1. ASSUME NEW op \in ops, op[1] = section, op[2] = kind
      PROVE <<section, kind, op[3]>> \in ops
  BY <1>1
<1> QED
  BY <1>1

LEMMA NoneWaits ==
    ASSUME todo \subseteq Whole, NEW section, NEW kind
    PROVE By(section, kind) = {} <=> \A id : ~Waits(section, kind, id)
BY Triples, NoneOfKind DEF By, Waits

LEMMA NoneWaitsNext ==
    ASSUME todo' \subseteq Whole, NEW section, NEW kind
    PROVE By(section, kind)' = {} <=> \A id : ~Waits(section, kind, id)'
BY Triples, NoneOfKind DEF By, Waits

LEMMA StageNumbers == DOMAIN Stages = 1..22
BY DEF Stages

LEMMA StagesApart ==
    ASSUME NEW n \in DOMAIN Stages, NEW m \in DOMAIN Stages,
           Stages[n][1] = Stages[m][1], Stages[n][2] = Stages[m][2]
    PROVE n = m
BY SMTT(60) DEF Stages

LEMMA Taken ==
    ASSUME todo \subseteq Whole, NEW section, NEW kind, NEW op, Take(section, kind, {op})
    PROVE /\ result = "applying" /\ doomed = Null
          /\ op = <<section, kind, op[3]>> /\ op \in todo /\ op \in Whole
          /\ todo' = todo \ {op}
          /\ input' = input /\ snap' = snap
BY Triples DEF Take, By

LEMMA TakenId ==
    ASSUME todo \subseteq Whole, NEW section, NEW kind, NEW op, Take(section, kind, {op})
    PROVE /\ <<section, kind, op[3]>> \in Whole /\ Waits(section, kind, op[3])
          /\ \A k, i : Waits(section, k, i)'
                <=> Waits(section, k, i) /\ ~(k = kind /\ i = op[3])
<1> op = <<section, kind, op[3]>> /\ op \in todo /\ op \in Whole /\ todo' = todo \ {op}
  BY Taken
<1> QED
  BY DEF Waits

\* When an operation is applied, those of earlier stages have been, and no later one.
LEMMA StageReached ==
    ASSUME InOrder, NEW section, NEW kind, NEW ops, Take(section, kind, ops),
           NEW n \in 1..22, Stages[n] = <<section, kind>>
    PROVE /\ \A m \in 1..(n - 1) : \A id : ~Waits(Stages[m][1], Stages[m][2], id)
          /\ \A m \in (n + 1)..22 : \A id :
                <<Stages[m][1], Stages[m][2], id>> \in Whole => Waits(Stages[m][1], Stages[m][2], id)
<1>1. PICK k \in DOMAIN Stages :
         Stages[k] = <<section, kind>> /\ \A m \in 1..(k - 1) : By(Stages[m][1], Stages[m][2]) = {}
  BY DEF Take
<1>2. k = n
  BY <1>1, StageNumbers, StagesApart
<1>3. By(Stages[n][1], Stages[n][2]) # {}
  BY DEF Take
<1>4. \A m \in 1..(n - 1) : \A id : ~Waits(Stages[m][1], Stages[m][2], id)
  BY <1>1, <1>2, NoneWaits DEF InOrder
<1>5. ASSUME NEW m \in (n + 1)..22, NEW id, <<Stages[m][1], Stages[m][2], id>> \in Whole
      PROVE Waits(Stages[m][1], Stages[m][2], id)
  <2>1. n \in DOMAIN Stages /\ m \in DOMAIN Stages /\ n < m
    BY StageNumbers
  <2> DEFINE op == <<Stages[m][1], Stages[m][2], id>>
  <2>2. op \in Whole /\ op[1] = Stages[m][1] /\ op[2] = Stages[m][2]
    BY <1>5
  <2>3. op \in todo
    BY <1>3, <2>1, <2>2 DEF InOrder
  <2> QED
    BY <2>3 DEF Waits
<1> QED
  BY <1>4, <1>5

LEMMA EarlierDone ==
    ASSUME InOrder, NEW section, NEW kind, NEW ops, Take(section, kind, ops),
           NEW n \in 1..22, Stages[n] = <<section, kind>>,
           NEW m \in 1..(n - 1), NEW other, NEW k, Stages[m] = <<other, k>>, NEW id
    PROVE ~Waits(other, k, id)
<1> ~Waits(Stages[m][1], Stages[m][2], id)
  BY StageReached
<1> QED
  OBVIOUS

LEMMA LaterAhead ==
    ASSUME InOrder, NEW section, NEW kind, NEW ops, Take(section, kind, ops),
           NEW n \in 1..22, Stages[n] = <<section, kind>>,
           NEW m \in (n + 1)..22, NEW other, NEW k, Stages[m] = <<other, k>>, NEW id,
           <<other, k, id>> \in Whole
    PROVE Waits(other, k, id)
<1> <<Stages[m][1], Stages[m][2], id>> \in Whole => Waits(Stages[m][1], Stages[m][2], id)
  BY StageReached
<1> QED
  OBVIOUS

LEMMA OrderIsKept ==
    ASSUME InOrder, NEW section, NEW kind, NEW ops, Take(section, kind, ops)
    PROVE InOrder'
<1>1. PICK k \in DOMAIN Stages :
         Stages[k] = <<section, kind>> /\ \A m \in 1..(k - 1) : By(Stages[m][1], Stages[m][2]) = {}
  BY DEF Take
<1>2. Whole' = Whole /\ todo' = todo \ ops
  BY DEF Take, Whole, live
<1>3. \A op \in ops : op[1] = section /\ op[2] = kind
  BY DEF Take, By
<1>4. ASSUME NEW n \in DOMAIN Stages, NEW m \in DOMAIN Stages, n < m,
             By(Stages[n][1], Stages[n][2])' # {},
             NEW op \in Whole, op[1] = Stages[m][1], op[2] = Stages[m][2]
      PROVE op \in todo'
  <2>1. By(Stages[n][1], Stages[n][2]) # {}
    BY <1>2, <1>4 DEF By
  <2>2. op \in todo
    BY <1>4, <2>1 DEF InOrder
  <2>3. ~(n < k)
    <3> n \in 1..22 /\ k \in 1..22
      BY StageNumbers
    <3> SUFFICES ASSUME n < k PROVE FALSE
      OBVIOUS
    <3>1. n \in 1..(k - 1)
      OBVIOUS
    <3> QED
      BY <1>1, <2>1, <3>1
  <2>4. m # k
    BY <1>4, <2>3, StageNumbers
  <2>5. op \notin ops
    BY <1>1, <1>3, <1>4, <2>4, StagesApart
  <2> QED
    BY <1>2, <2>2, <2>5
<1>5. todo' \subseteq Whole'
  BY <1>2 DEF InOrder
<1>6. DOMAIN Stages' = DOMAIN Stages /\ \A n : Stages'[n] = Stages[n]
  BY DEF Stages
<1> QED
  BY <1>2, <1>4, <1>5 DEF InOrder

-------------------------------------------------------------
(***************************************************************************)
(* What a statement leaves alone.                                          *)
(***************************************************************************)
CareerStep == UpdateCareer
PathwayStep == WritePathway
SkillsStep == \E op \in todo : LinkSkill(op) \/ UpdateSkill(op) \/ UnlinkSkill(op)
OutlookStep == \E op \in todo : CreateOutlook(op) \/ UpdateOutlook(op) \/ DeleteOutlook(op)
StepsStep ==
    \E op \in todo : OffsetStep(op) \/ MoveStep(op) \/ UpdateStep(op) \/ CreateStep(op) \/ DeleteStep(op)
LinksStep == \E op \in todo : LinkStep(op) \/ UnlinkStep(op)
ResourcesStep ==
    \/ \E op \in todo : CreateResource(op) \/ UpdateResource(op) \/ CountReferences(op)
    \/ DeleteResource

\* The operations of a section that have not been applied are the same.
Still(section) == \A kind, id : Waits(section, kind, id)' <=> Waits(section, kind, id)

Columns == {"career", "pathway", "steps", "stepSkills", "stepResources", "skills", "resources", "outlook"}

\* Only these columns of a career's rows change.
OnlyIn(columns) ==
    /\ rows' = [f \in Columns |-> rows'[f]]
    /\ \A f \in Columns \ columns : rows'[f] = rows[f]

LEMMA RowsAreColumns ==
    ASSUME NEW r, IsRows(r)
    PROVE r = [f \in Columns |-> r[f]]
BY DEF IsRows, Columns

LEMMA StillElsewhere ==
    ASSUME NEW op, NEW section, NEW kind, op = <<section, kind, op[3]>>, todo' = todo \ {op},
           NEW other, other # section
    PROVE Still(other)
BY DEF Still, Waits

Frames ==
    /\ input' = input /\ snap' = snap
    /\ rows' = [f \in Columns |-> rows'[f]]
    /\ CareerStep \/ (rows'["career"] = rows["career"] /\ Still("career"))
    /\ PathwayStep \/ (rows'["pathway"] = rows["pathway"] /\ Still("pathway"))
    /\ SkillsStep \/ (rows'["skills"] = rows["skills"] /\ Still("skills"))
    /\ OutlookStep \/ (rows'["outlook"] = rows["outlook"] /\ Still("outlook"))
    /\ StepsStep \/ (rows'["steps"] = rows["steps"] /\ Still("steps"))
    /\ LinksStep \/ (Still("stepSkills") /\ Still("stepResources"))
    /\ \/ LinksStep \/ StepsStep
       \/ rows'["stepSkills"] = rows["stepSkills"] /\ rows'["stepResources"] = rows["stepResources"]
    /\ \/ ResourcesStep
       \/ rows'["resources"] = rows["resources"] /\ Still("resources") /\ doomed' = doomed

LEMMA PlanIsFixed ==
    ASSUME Frames
    PROVE Whole' = Whole /\ live' = live /\ snap' = snap
BY DEF Frames, Whole, live

LEMMA StatementFrames ==
    ASSUME InOrder, IsRows(rows), Publication, result' \notin {"failed", "interrupted"}
    PROVE Frames
<1> USE RowsAreColumns
<1> rows = [f \in Columns |-> rows[f]]
  OBVIOUS
<1>1. CASE \E op \in todo : CreateResource(op)
  <2>1. PICK op \in todo : CreateResource(op)
    BY <1>1
  <2>2. op = <<"resources", "create", op[3]>> /\ todo' = todo \ {op} /\ input' = input /\ snap' = snap
        /\ doomed = Null
    BY <2>1, Taken DEF InOrder, CreateResource
  <2>3. \A other : other # "resources" => Still(other)
    BY <2>2, StillElsewhere
  <2>4. OnlyIn({"resources"})
    BY <2>1 DEF CreateResource, Write, WriteIf, Rollback, SetOrder, OnlyIn, Columns
  <2> QED
    BY <1>1, <2>2, <2>3, <2>4 DEF Frames, OnlyIn, Columns, ResourcesStep
<1>2. CASE \E op \in todo : UpdateResource(op)
  <2>1. PICK op \in todo : UpdateResource(op)
    BY <1>2
  <2>2. op = <<"resources", "update", op[3]>> /\ todo' = todo \ {op} /\ input' = input /\ snap' = snap
        /\ doomed = Null
    BY <2>1, Taken DEF InOrder, UpdateResource
  <2>3. \A other : other # "resources" => Still(other)
    BY <2>2, StillElsewhere
  <2>4. OnlyIn({"resources"})
    BY <2>1 DEF UpdateResource, Write, WriteIf, Rollback, SetOrder, OnlyIn, Columns
  <2> QED
    BY <1>2, <2>2, <2>3, <2>4 DEF Frames, OnlyIn, Columns, ResourcesStep
<1>3. CASE \E op \in todo : CountReferences(op)
  <2>1. PICK op \in todo : CountReferences(op)
    BY <1>3
  <2>2. op = <<"resources", "unlink", op[3]>> /\ todo' = todo \ {op} /\ input' = input /\ snap' = snap
        /\ doomed = Null
    BY <2>1, Taken DEF InOrder, CountReferences
  <2>3. \A other : other # "resources" => Still(other)
    BY <2>2, StillElsewhere
  <2>4. OnlyIn({})
    BY <2>1 DEF CountReferences, Write, WriteIf, Rollback, SetOrder, OnlyIn, Columns
  <2> QED
    BY <1>3, <2>2, <2>3, <2>4 DEF Frames, OnlyIn, Columns, ResourcesStep
<1>4. CASE \E op \in todo : OffsetStep(op)
  <2>1. PICK op \in todo : OffsetStep(op)
    BY <1>4
  <2>2. op = <<"steps", "offset", op[3]>> /\ todo' = todo \ {op} /\ input' = input /\ snap' = snap
        /\ doomed = Null
    BY <2>1, Taken DEF InOrder, OffsetStep
  <2>3. \A other : other # "steps" => Still(other)
    BY <2>2, StillElsewhere
  <2>4. OnlyIn({"steps"}) /\ doomed' = doomed
    BY <2>1 DEF OffsetStep, Write, WriteIf, Rollback, SetOrder, OnlyIn, Columns
  <2> QED
    BY <1>4, <2>2, <2>3, <2>4 DEF Frames, OnlyIn, Columns, StepsStep
<1>5. CASE \E op \in todo : MoveStep(op)
  <2>1. PICK op \in todo : MoveStep(op)
    BY <1>5
  <2>2. op = <<"steps", "move", op[3]>> /\ todo' = todo \ {op} /\ input' = input /\ snap' = snap
        /\ doomed = Null
    BY <2>1, Taken DEF InOrder, MoveStep
  <2>3. \A other : other # "steps" => Still(other)
    BY <2>2, StillElsewhere
  <2>4. OnlyIn({"steps"}) /\ doomed' = doomed
    BY <2>1 DEF MoveStep, Write, WriteIf, Rollback, SetOrder, OnlyIn, Columns
  <2> QED
    BY <1>5, <2>2, <2>3, <2>4 DEF Frames, OnlyIn, Columns, StepsStep
<1>6. CASE \E op \in todo : UpdateStep(op)
  <2>1. PICK op \in todo : UpdateStep(op)
    BY <1>6
  <2>2. op = <<"steps", "update", op[3]>> /\ todo' = todo \ {op} /\ input' = input /\ snap' = snap
        /\ doomed = Null
    BY <2>1, Taken DEF InOrder, UpdateStep
  <2>3. \A other : other # "steps" => Still(other)
    BY <2>2, StillElsewhere
  <2>4. OnlyIn({"steps"}) /\ doomed' = doomed
    BY <2>1 DEF UpdateStep, Write, WriteIf, Rollback, SetOrder, OnlyIn, Columns
  <2> QED
    BY <1>6, <2>2, <2>3, <2>4 DEF Frames, OnlyIn, Columns, StepsStep
<1>7. CASE \E op \in todo : CreateStep(op)
  <2>1. PICK op \in todo : CreateStep(op)
    BY <1>7
  <2>2. op = <<"steps", "create", op[3]>> /\ todo' = todo \ {op} /\ input' = input /\ snap' = snap
        /\ doomed = Null
    BY <2>1, Taken DEF InOrder, CreateStep
  <2>3. \A other : other # "steps" => Still(other)
    BY <2>2, StillElsewhere
  <2>4. OnlyIn({"steps"}) /\ doomed' = doomed
    BY <2>1 DEF CreateStep, Write, WriteIf, Rollback, SetOrder, OnlyIn, Columns
  <2> QED
    BY <1>7, <2>2, <2>3, <2>4 DEF Frames, OnlyIn, Columns, StepsStep
<1>8. CASE \E op \in todo : DeleteStep(op)
  <2>1. PICK op \in todo : DeleteStep(op)
    BY <1>8
  <2>2. op = <<"steps", "delete", op[3]>> /\ todo' = todo \ {op} /\ input' = input /\ snap' = snap
        /\ doomed = Null
    BY <2>1, Taken DEF InOrder, DeleteStep
  <2>3. \A other : other # "steps" => Still(other)
    BY <2>2, StillElsewhere
  <2>4. OnlyIn({"steps", "stepSkills", "stepResources"}) /\ doomed' = doomed
    BY <2>1 DEF DeleteStep, Write, WriteIf, Rollback, SetOrder, OnlyIn, Columns
  <2> QED
    BY <1>8, <2>2, <2>3, <2>4 DEF Frames, OnlyIn, Columns, StepsStep
<1>9. CASE \E op \in todo : LinkSkill(op)
  <2>1. PICK op \in todo : LinkSkill(op)
    BY <1>9
  <2>2. op = <<"skills", "link", op[3]>> /\ todo' = todo \ {op} /\ input' = input /\ snap' = snap
        /\ doomed = Null
    BY <2>1, Taken DEF InOrder, LinkSkill
  <2>3. \A other : other # "skills" => Still(other)
    BY <2>2, StillElsewhere
  <2>4. OnlyIn({"skills"}) /\ doomed' = doomed
    BY <2>1 DEF LinkSkill, Write, WriteIf, Rollback, SetOrder, OnlyIn, Columns
  <2> QED
    BY <1>9, <2>2, <2>3, <2>4 DEF Frames, OnlyIn, Columns, SkillsStep
<1>10. CASE \E op \in todo : UpdateSkill(op)
  <2>1. PICK op \in todo : UpdateSkill(op)
    BY <1>10
  <2>2. op = <<"skills", "update", op[3]>> /\ todo' = todo \ {op} /\ input' = input /\ snap' = snap
        /\ doomed = Null
    BY <2>1, Taken DEF InOrder, UpdateSkill
  <2>3. \A other : other # "skills" => Still(other)
    BY <2>2, StillElsewhere
  <2>4. OnlyIn({"skills"}) /\ doomed' = doomed
    BY <2>1 DEF UpdateSkill, Write, WriteIf, Rollback, SetOrder, OnlyIn, Columns
  <2> QED
    BY <1>10, <2>2, <2>3, <2>4 DEF Frames, OnlyIn, Columns, SkillsStep
<1>11. CASE \E op \in todo : UnlinkSkill(op)
  <2>1. PICK op \in todo : UnlinkSkill(op)
    BY <1>11
  <2>2. op = <<"skills", "unlink", op[3]>> /\ todo' = todo \ {op} /\ input' = input /\ snap' = snap
        /\ doomed = Null
    BY <2>1, Taken DEF InOrder, UnlinkSkill
  <2>3. \A other : other # "skills" => Still(other)
    BY <2>2, StillElsewhere
  <2>4. OnlyIn({"skills"}) /\ doomed' = doomed
    BY <2>1 DEF UnlinkSkill, Write, WriteIf, Rollback, SetOrder, OnlyIn, Columns
  <2> QED
    BY <1>11, <2>2, <2>3, <2>4 DEF Frames, OnlyIn, Columns, SkillsStep
<1>12. CASE \E op \in todo : CreateOutlook(op)
  <2>1. PICK op \in todo : CreateOutlook(op)
    BY <1>12
  <2>2. op = <<"outlook", "create", op[3]>> /\ todo' = todo \ {op} /\ input' = input /\ snap' = snap
        /\ doomed = Null
    BY <2>1, Taken DEF InOrder, CreateOutlook
  <2>3. \A other : other # "outlook" => Still(other)
    BY <2>2, StillElsewhere
  <2>4. OnlyIn({"outlook"}) /\ doomed' = doomed
    BY <2>1 DEF CreateOutlook, Write, WriteIf, Rollback, SetOrder, OnlyIn, Columns
  <2> QED
    BY <1>12, <2>2, <2>3, <2>4 DEF Frames, OnlyIn, Columns, OutlookStep
<1>13. CASE \E op \in todo : UpdateOutlook(op)
  <2>1. PICK op \in todo : UpdateOutlook(op)
    BY <1>13
  <2>2. op = <<"outlook", "update", op[3]>> /\ todo' = todo \ {op} /\ input' = input /\ snap' = snap
        /\ doomed = Null
    BY <2>1, Taken DEF InOrder, UpdateOutlook
  <2>3. \A other : other # "outlook" => Still(other)
    BY <2>2, StillElsewhere
  <2>4. OnlyIn({"outlook"}) /\ doomed' = doomed
    BY <2>1 DEF UpdateOutlook, Write, WriteIf, Rollback, SetOrder, OnlyIn, Columns
  <2> QED
    BY <1>13, <2>2, <2>3, <2>4 DEF Frames, OnlyIn, Columns, OutlookStep
<1>14. CASE \E op \in todo : DeleteOutlook(op)
  <2>1. PICK op \in todo : DeleteOutlook(op)
    BY <1>14
  <2>2. op = <<"outlook", "delete", op[3]>> /\ todo' = todo \ {op} /\ input' = input /\ snap' = snap
        /\ doomed = Null
    BY <2>1, Taken DEF InOrder, DeleteOutlook
  <2>3. \A other : other # "outlook" => Still(other)
    BY <2>2, StillElsewhere
  <2>4. OnlyIn({"outlook"}) /\ doomed' = doomed
    BY <2>1 DEF DeleteOutlook, Write, WriteIf, Rollback, SetOrder, OnlyIn, Columns
  <2> QED
    BY <1>14, <2>2, <2>3, <2>4 DEF Frames, OnlyIn, Columns, OutlookStep
<1>15. CASE \E op \in todo : LinkStep(op)
  <2>1. PICK op \in todo : LinkStep(op)
    BY <1>15
  <2>2. PICK section \in {"stepSkills", "stepResources"} :
           /\ op = <<section, "link", op[3]>>
           /\ todo' = todo \ {op} /\ input' = input /\ snap' = snap
    BY <2>1, Taken DEF InOrder, LinkStep
  <2>3. \A other : other \notin {"stepSkills", "stepResources"} => Still(other)
    BY <2>2, StillElsewhere
  <2>4. OnlyIn({"stepSkills", "stepResources"}) /\ doomed' = doomed
    BY <2>1 DEF LinkStep, Write, WriteIf, Rollback, OnlyIn, Columns
  <2> QED
    BY <1>15, <2>2, <2>3, <2>4 DEF Frames, OnlyIn, Columns, LinksStep
<1>16. CASE \E op \in todo : UnlinkStep(op)
  <2>1. PICK op \in todo : UnlinkStep(op)
    BY <1>16
  <2>2. PICK section \in {"stepSkills", "stepResources"} :
           /\ op = <<section, "unlink", op[3]>>
           /\ todo' = todo \ {op} /\ input' = input /\ snap' = snap
    BY <2>1, Taken DEF InOrder, UnlinkStep
  <2>3. \A other : other \notin {"stepSkills", "stepResources"} => Still(other)
    BY <2>2, StillElsewhere
  <2>4. OnlyIn({"stepSkills", "stepResources"}) /\ doomed' = doomed
    BY <2>1 DEF UnlinkStep, Write, WriteIf, Rollback, OnlyIn, Columns
  <2> QED
    BY <1>16, <2>2, <2>3, <2>4 DEF Frames, OnlyIn, Columns, LinksStep
<1>17. CASE UpdateCareer
  <2>1. \A other : other # "career" => Still(other)
    BY <1>17 DEF UpdateCareer, Take, By, Still, Waits
  <2>2. OnlyIn({"career"}) /\ doomed' = doomed /\ input' = input /\ snap' = snap
    BY <1>17 DEF UpdateCareer, Take, Write, WriteIf, Rollback, OnlyIn, Columns
  <2> QED
    BY <1>17, <2>1, <2>2 DEF Frames, OnlyIn, Columns, CareerStep
<1>18. CASE WritePathway
  <2>1. \A other : other # "pathway" => Still(other)
    BY <1>18 DEF WritePathway, Take, By, Still, Waits
  <2>2. OnlyIn({"pathway"}) /\ doomed' = doomed /\ input' = input /\ snap' = snap
    BY <1>18 DEF WritePathway, Take, Write, OnlyIn, Columns
  <2> QED
    BY <1>18, <2>1, <2>2 DEF Frames, OnlyIn, Columns, PathwayStep
<1>19. CASE DeleteResource
  <2>1. \A other : Still(other)
    BY <1>19 DEF DeleteResource, Still, Waits
  <2>2. OnlyIn({"resources"}) /\ input' = input /\ snap' = snap
    BY <1>19 DEF DeleteResource, OnlyIn, Columns
  <2> QED
    BY <1>19, <2>1, <2>2 DEF Frames, OnlyIn, Columns, ResourcesStep
<1>20. CASE Commit
  <2>1. \A other : Still(other)
    BY <1>20 DEF Commit, Still, Waits
  <2> QED
    BY <1>20, <2>1 DEF Commit, Frames
<1> QED
  BY <1>1, <1>2, <1>3, <1>4, <1>5, <1>6, <1>7, <1>8, <1>9, <1>10,
     <1>11, <1>12, <1>13, <1>14, <1>15, <1>16, <1>17, <1>18, <1>19, <1>20
     DEF Publication, Statement, Interrupt

-----------------------------------------------------------------------------
(***************************************************************************)
(* Sections, one at a time.                                                *)
(***************************************************************************)
LEMMA SkillsAdvance ==
    ASSUME InOrder, IsRows(rows), SkillsHalfway, Frames, result' # "failed"
    PROVE SkillsHalfway' /\ IsTable(rows.skills)'
<1>0. todo \subseteq Whole
  BY DEF InOrder
<1>1. live' = live /\ snap' = snap /\ IsTable(rows.skills)
  BY DEF Frames, live, IsRows
<1>2. CASE rows'["skills"] = rows["skills"] /\ Still("skills")
  BY <1>1, <1>2 DEF SkillsHalfway, Still, IsTable
<1>3. ASSUME NEW op \in todo, LinkSkill(op)
      PROVE SkillsHalfway' /\ IsTable(rows.skills)'
  <2>0. Take("skills", "link", {op})
    BY <1>3 DEF LinkSkill
  <2> DEFINE k == op[3]
  <2>1. /\ <<"skills", "link", k>> \in Whole
        /\ \A kind, id : Waits("skills", kind, id)'
              <=> Waits("skills", kind, id) /\ ~(kind = "link" /\ id = k)
    BY <1>0, <2>0, TakenId
  <2>2. k \in New(live.skills, snap.skills)
    BY <2>1, WholeIs
  <2>3. k \in AllSkills /\ rows'.skills = With(rows.skills, k, snap.skills[k])
    BY <1>3, <2>1, RowsAreColumns DEF LinkSkill, WriteIf, Write, Rollback, Columns
  <2> HIDE DEF k
  <2>5. \A id : Waits("skills", "update", id) => id \in Changed(live.skills, snap.skills)
    BY WholeIs DEF InOrder, Waits
  <2> QED
    BY <1>1, <2>1, <2>2, <2>3, <2>5 DEF SkillsHalfway, With, IsTable, New, Changed
<1>4. ASSUME NEW op \in todo, UpdateSkill(op)
      PROVE SkillsHalfway' /\ IsTable(rows.skills)'
  <2>0. Take("skills", "update", {op})
    BY <1>4 DEF UpdateSkill
  <2> DEFINE k == op[3]
  <2>1. /\ <<"skills", "update", k>> \in Whole
        /\ \A kind, id : Waits("skills", kind, id)'
              <=> Waits("skills", kind, id) /\ ~(kind = "update" /\ id = k)
    BY <1>0, <2>0, TakenId
  <2>2. k \in Changed(live.skills, snap.skills)
    BY <2>1, WholeIs
  <2>3. rows'.skills = [rows.skills EXCEPT ![k] = snap.skills[k]]
    BY <1>4, <2>1, RowsAreColumns DEF UpdateSkill, Write, Columns
  <2> HIDE DEF k
  <2> QED
    BY <1>1, <2>1, <2>2, <2>3 DEF SkillsHalfway, IsTable, New, Changed
<1>5. ASSUME NEW op \in todo, UnlinkSkill(op)
      PROVE SkillsHalfway' /\ IsTable(rows.skills)'
  <2>0. Take("skills", "unlink", {op})
    BY <1>5 DEF UnlinkSkill
  <2> DEFINE k == op[3]
  <2>1. /\ <<"skills", "unlink", k>> \in Whole
        /\ \A kind, id : Waits("skills", kind, id)'
              <=> Waits("skills", kind, id) /\ ~(kind = "unlink" /\ id = k)
    BY <1>0, <2>0, TakenId
  <2>2. k \in New(snap.skills, live.skills)
    BY <2>1, WholeIs
  <2>3. rows'.skills = Without(rows.skills, {k})
    BY <1>5, <2>1, RowsAreColumns DEF UnlinkSkill, Write, Columns
  <2> HIDE DEF k
  <2> QED
    BY <1>1, <2>1, <2>2, <2>3 DEF SkillsHalfway, Without, IsTable, New
<1> QED
  BY <1>2, <1>3, <1>4, <1>5 DEF Frames, SkillsStep

LEMMA OutlookAdvances ==
    ASSUME InOrder, IsRows(rows), OutlookHalfway, Frames, result' # "failed"
    PROVE OutlookHalfway' /\ IsTable(rows.outlook)'
<1>0. todo \subseteq Whole
  BY DEF InOrder
<1>1. live' = live /\ snap' = snap /\ IsTable(rows.outlook) /\ OutlookCreates' = OutlookCreates
  BY DEF Frames, live, IsRows, OutlookCreates
<1>2. CASE rows'["outlook"] = rows["outlook"] /\ Still("outlook")
  BY <1>1, <1>2 DEF OutlookHalfway, Still, IsTable
<1>3. ASSUME NEW op \in todo, CreateOutlook(op)
      PROVE OutlookHalfway' /\ IsTable(rows.outlook)'
  <2>0. Take("outlook", "create", {op})
    BY <1>3 DEF CreateOutlook
  <2> DEFINE o == op[3]
  <2>1. /\ <<"outlook", "create", o>> \in Whole
        /\ \A kind, id : Waits("outlook", kind, id)'
              <=> Waits("outlook", kind, id) /\ ~(kind = "create" /\ id = o)
    BY <1>0, <2>0, TakenId
  <2>2. o \in OutlookCreates
    BY <2>1, WholeIs
  <2>3. /\ o \notin DOMAIN rows.outlook
        /\ rows'.outlook = With(rows.outlook, o, snap.outlook[o])
    BY <1>3, <2>1, RowsAreColumns DEF CreateOutlook, WriteIf, Write, Rollback, Columns
  <2> HIDE DEF o
  <2>4. \A id \in DOMAIN live.outlook \ (DOMAIN snap.outlook \ TempIds) : Waits("outlook", "delete", id)
    <3>2. 20 \in 1..22 /\ 22 \in (20 + 1)..22 /\ Stages[20] = <<"outlook", "create">>
          /\ Stages[22] = <<"outlook", "delete">>
      BY DEF Stages
    <3>3. ASSUME NEW id, <<"outlook", "delete", id>> \in Whole PROVE Waits("outlook", "delete", id)
      BY <2>0, <3>2, <3>3, LaterAhead
    <3> QED
      BY <3>3, WholeIs
  <2>6. \A id : Waits("outlook", "update", id) => id \in Changed(live.outlook, snap.outlook) \ TempIds
    BY WholeIs DEF InOrder, Waits
  <2>7. o \notin DOMAIN live.outlook
    BY <2>2, <2>3, <2>4 DEF OutlookHalfway, OutlookCreates
  <2> QED
    BY <1>1, <2>1, <2>2, <2>3, <2>6, <2>7 DEF OutlookHalfway, With, IsTable, OutlookCreates, Changed
<1>4. ASSUME NEW op \in todo, UpdateOutlook(op)
      PROVE OutlookHalfway' /\ IsTable(rows.outlook)'
  <2>0. Take("outlook", "update", {op})
    BY <1>4 DEF UpdateOutlook
  <2> DEFINE o == op[3]
  <2>1. /\ <<"outlook", "update", o>> \in Whole
        /\ \A kind, id : Waits("outlook", kind, id)'
              <=> Waits("outlook", kind, id) /\ ~(kind = "update" /\ id = o)
    BY <1>0, <2>0, TakenId
  <2>2. o \in Changed(live.outlook, snap.outlook) \ TempIds
    BY <2>1, WholeIs
  <2>3. rows'.outlook = [rows.outlook EXCEPT ![o] = snap.outlook[o]]
    BY <1>4, <2>1, RowsAreColumns DEF UpdateOutlook, WriteIf, Write, Rollback, Columns
  <2> HIDE DEF o
  <2>5. ~Waits("outlook", "create", o)
    BY <2>2, WholeIs DEF InOrder, Waits, OutlookCreates, Changed
  <2> QED
    BY <1>1, <2>1, <2>2, <2>3, <2>5 DEF OutlookHalfway, IsTable, OutlookCreates, Changed
<1>5. ASSUME NEW op \in todo, DeleteOutlook(op)
      PROVE OutlookHalfway' /\ IsTable(rows.outlook)'
  <2>0. Take("outlook", "delete", {op})
    BY <1>5 DEF DeleteOutlook
  <2> DEFINE o == op[3]
  <2>1. /\ <<"outlook", "delete", o>> \in Whole
        /\ \A kind, id : Waits("outlook", kind, id)'
              <=> Waits("outlook", kind, id) /\ ~(kind = "delete" /\ id = o)
    BY <1>0, <2>0, TakenId
  <2>2. o \in DOMAIN live.outlook \ (DOMAIN snap.outlook \ TempIds)
    BY <2>1, WholeIs
  <2>3. rows'.outlook = Without(rows.outlook, {o})
    BY <1>5, <2>1, RowsAreColumns DEF DeleteOutlook, Write, Columns
  <2> HIDE DEF o
  <2>4. \A id \in OutlookCreates : ~Waits("outlook", "create", id)
    <3>2. 22 \in 1..22 /\ 20 \in 1..(22 - 1) /\ Stages[20] = <<"outlook", "create">>
          /\ Stages[22] = <<"outlook", "delete">>
      BY DEF Stages
    <3> QED
      BY <2>0, <3>2, EarlierDone
  <2> QED
    BY <1>1, <2>1, <2>2, <2>3, <2>4 DEF OutlookHalfway, Without, IsTable, OutlookCreates
<1> QED
  BY <1>2, <1>3, <1>4, <1>5 DEF Frames, OutlookStep

LEMMA CareerAdvances ==
    ASSUME InOrder, InOrder', IsRows(rows), CareerHalfway, Frames, result' # "failed"
    PROVE CareerHalfway' /\ (rows.career = live.career \/ rows.career = snap.career)'
<1>1. live' = live /\ snap' = snap
  BY DEF Frames, live
<1>2. CASE rows'["career"] = rows["career"] /\ Still("career")
  <2>1. By("career", "update") = {} <=> By("career", "update")' = {}
    <3>1. By("career", "update") = {} <=> \A id : ~Waits("career", "update", id)
      BY NoneWaits DEF InOrder
    <3>2. By("career", "update")' = {} <=> \A id : ~Waits("career", "update", id)'
      BY PlanIsFixed, NoneWaitsNext DEF InOrder
    <3> QED
      BY <1>2, <3>1, <3>2 DEF Still
  <2> QED
    BY <1>1, <1>2, <2>1 DEF CareerHalfway
<1>3. CASE UpdateCareer
  <2>1. By("career", "update")' = {}
    BY <1>3 DEF UpdateCareer, Take, By
  <2>2. rows'.career = snap.career
    BY <1>3, <2>1, RowsAreColumns DEF UpdateCareer, WriteIf, Write, Rollback, Columns
  <2> QED
    BY <1>1, <2>1, <2>2 DEF CareerHalfway
<1> QED
  BY <1>2, <1>3 DEF Frames, CareerStep

LEMMA PathwayAdvances ==
    ASSUME InOrder, InOrder', IsRows(rows), PathwayHalfway, Frames
    PROVE PathwayHalfway'
<1>1. live' = live /\ snap' = snap
  BY DEF Frames, live
<1>2. CASE rows'["pathway"] = rows["pathway"] /\ Still("pathway")
  <2>1. ASSUME NEW kind PROVE By("pathway", kind) = {} <=> By("pathway", kind)' = {}
    <3>1. By("pathway", kind) = {} <=> \A id : ~Waits("pathway", kind, id)
      BY NoneWaits DEF InOrder
    <3>2. By("pathway", kind)' = {} <=> \A id : ~Waits("pathway", kind, id)'
      BY PlanIsFixed, NoneWaitsNext DEF InOrder
    <3> QED
      BY <1>2, <3>1, <3>2 DEF Still
  <2> QED
    BY <1>1, <1>2, <2>1 DEF PathwayHalfway
<1>3. CASE WritePathway
  <2>1. PICK kind \in {"create", "update", "delete"} : Take("pathway", kind, By("pathway", kind))
    BY <1>3 DEF WritePathway
  <2>2. rows'.pathway = snap.pathway
    BY <1>3, <2>1, RowsAreColumns DEF WritePathway, Write, Columns
  <2>3. todo' = todo \ By("pathway", kind) /\ By("pathway", kind) # {}
    BY <2>1 DEF Take
  <2>4. ASSUME NEW other, NEW id, Waits("pathway", other, id)'
        PROVE FALSE
    <3>1. Waits("pathway", other, id) /\ other # kind
      BY <2>3, <2>4 DEF Waits, By
    <3>2. \E i : Waits("pathway", kind, i)
      BY <2>3, NoneWaits DEF InOrder
    <3> QED
      BY <3>1, <3>2, PathwayPlanned DEF InOrder, Waits
  <2>5. \A other : By("pathway", other)' = {}
    BY PlanIsFixed, <2>4, NoneWaitsNext DEF InOrder
  <2> QED
    BY <1>1, <2>2, <2>5 DEF PathwayHalfway
<1> QED
  BY <1>2, <1>3 DEF Frames, PathwayStep

\* What the live rows are.
LEMMA LiveIs ==
    ASSUME input \in Inputs
    PROVE /\ IsRows(live) /\ SatisfiesSchema(live) /\ Keys(live) \cap OtherKeys = {}
          /\ Offset \in Nat \ {0} /\ MaxOrder \in Int
          /\ TempIds \cap (DOMAIN live.steps \cup DOMAIN live.resources) = {}
          /\ LinkedBy(live) \subseteq DOMAIN live.resources
<1>1. /\ IsRows(live) /\ SatisfiesSchema(live) /\ Keys(live) \cap OtherKeys = {}
      /\ Offset \in Nat \ {0} /\ MaxOrder \in Int
      /\ TempIds \cap (DOMAIN live.steps \cup DOMAIN live.resources) = {}
  BY InputsAssumption DEF live
<1>2. LinkedBy(live) \subseteq DOMAIN live.resources
  BY <1>1 DEF SatisfiesSchema, LinkedBy
<1> QED
  BY <1>1, <1>2

\* Created rows get ids that are not those of live rows.
LEMMA FreshIds ==
    ASSUME Sound(input, snap)
    PROVE /\ \A ref \in DOMAIN snap.steps \cup TempIds :
                Fresh(ref) \notin DOMAIN live.steps \cup DOMAIN live.resources \cup OtherLinked
          /\ \A ref, x : Fresh(ref) = Fresh(x) => ref = x
BY DEF Sound, Fresh, live

LEMMA StepsAdvance ==
    ASSUME InOrder, IsRows(rows), input \in Inputs, Sound(input, snap),
           Blockers(live, snap, input.completed) = {},
           StepsHalfway, Frames, result' # "failed"
    PROVE StepsHalfway'
<1> DEFINE kept == Kept(live, snap)
           creates == StepCreates(live, snap)
<1>0. todo \subseteq Whole
  BY DEF InOrder
<1>1. live' = live /\ snap' = snap /\ input' = input
  BY DEF Frames, live
<1>2. /\ kept = DOMAIN snap.steps \cap DOMAIN live.steps
      /\ creates = DOMAIN snap.steps \ DOMAIN live.steps
      /\ Moves(live, snap) = {p \in kept : live.steps[p].order # snap.steps[p].order}
  BY DEF Kept, StepCreates, Moves
<1>3. \A ref \in creates : Fresh(ref) \notin DOMAIN live.steps
  BY <1>2, FreshIds
<1>4. \A ref, x : Fresh(ref) = Fresh(x) => ref = x
  BY FreshIds
<1>5. /\ creates' = creates /\ Moves(live, snap)' = Moves(live, snap)
      /\ \A ref : Unrivalled(ref)' <=> Unrivalled(ref)
  BY <1>1 DEF StepCreates, Kept, Moves, Unrivalled
<1>6. \A p \in DOMAIN live.steps \ DOMAIN snap.steps :
         /\ ~Waits("steps", "offset", p) /\ ~Waits("steps", "move", p)
         /\ <<"steps", "delete", p>> \in Whole
  <2>1. ASSUME NEW p \in DOMAIN live.steps \ DOMAIN snap.steps PROVE p \notin input.completed
    <3> SUFFICES ASSUME p \in input.completed PROVE FALSE
      OBVIOUS
    <3>1. <<"STEP_HAS_PROGRESS", p>> \in Blockers(live, snap, input.completed)
      BY DEF Blockers, Blocker, Removed
    <3> QED
      BY <3>1
  <2>2. ASSUME NEW p \in DOMAIN live.steps \ DOMAIN snap.steps
        PROVE <<"steps", "delete", p>> \in Whole
    BY <2>1, <1>2, WholeIs
  <2>3. ASSUME NEW p \in DOMAIN live.steps \ DOMAIN snap.steps
        PROVE <<"steps", "offset", p>> \notin Whole /\ <<"steps", "move", p>> \notin Whole
    BY <1>2, WholeIs
  <2> QED
    BY <1>0, <2>2, <2>3 DEF Waits
<1> HIDE DEF kept, creates
<1>7. CASE rows'["steps"] = rows["steps"] /\ Still("steps")
  <2>1. \A p : HalfwayOrder(p)' = HalfwayOrder(p) /\ HalfwayText(p)' = HalfwayText(p)
    BY <1>1, <1>7 DEF HalfwayOrder, HalfwayText, Still
  <2> QED
    BY <1>1, <1>5, <1>7, <2>1 DEF StepsHalfway, Still, creates
<1>8. ASSUME NEW op \in todo, OffsetStep(op)
      PROVE StepsHalfway'
  <2>1. Take("steps", "offset", {op})
    BY <1>8 DEF OffsetStep
  <2> DEFINE p == op[3]
  <2>2. /\ <<"steps", "offset", p>> \in Whole
        /\ \A k, i : Waits("steps", k, i)' <=> Waits("steps", k, i) /\ ~(k = "offset" /\ i = p)
    BY <1>0, <2>1, TakenId
  <2>3. p \in Moves(live, snap)
    BY <2>2, WholeIs
  <2>4. rows'.steps = [rows.steps EXCEPT ![p].order = rows.steps[p].order + Offset]
    BY <1>8, RowsAreColumns DEF OffsetStep, SetOrder, WriteIf, Write, Rollback, Columns
  <2>5. /\ 6 \in 1..22 /\ Stages[6] = <<"steps", "offset">>
        /\ 7 \in (6 + 1)..22 /\ Stages[7] = <<"steps", "move">>
    BY DEF Stages
  <2>51. <<"steps", "move", p>> \in Whole
    BY <2>3, WholeIs
  <2>6. Waits("steps", "move", p)
    BY <2>1, <2>5, <2>51, LaterAhead
  <2>7. Waits("steps", "offset", p)
    BY <1>8, <2>1, Taken, <1>0 DEF Waits
  <2> HIDE DEF p
  <2>8. p \in DOMAIN live.steps /\ p \in DOMAIN snap.steps
    BY <1>2, <2>3
  <2>9. p \in DOMAIN rows.steps /\ rows.steps[p] = [order |-> rows.steps[p].order, text |-> rows.steps[p].text]
    BY <2>8 DEF StepsHalfway, IsRows
  <2>10. /\ rows'.steps[p].order = live.steps[p].order + Offset
         /\ rows'.steps[p].text = rows.steps[p].text
         /\ \A q \in DOMAIN rows.steps : q # p => rows'.steps[q] = rows.steps[q]
         /\ DOMAIN rows'.steps = DOMAIN rows.steps
    BY <2>4, <2>7, <2>8, <2>9 DEF StepsHalfway, HalfwayOrder
  <2>11. /\ HalfwayOrder(p)' = live.steps[p].order + Offset
         /\ \A q : q # p => HalfwayOrder(q)' = HalfwayOrder(q)
         /\ \A q : HalfwayText(q)' = HalfwayText(q)
    BY <1>1, <2>2, <2>6 DEF HalfwayOrder, HalfwayText
  <2>12. DOMAIN rows'.steps =
           {q \in DOMAIN live.steps : q \in DOMAIN snap.steps \/ Waits("steps", "delete", q)'}
           \cup {Fresh(ref) : ref \in {r \in creates : ~Waits("steps", "create", r)'}}
    BY <2>2, <2>10 DEF StepsHalfway, creates
  <2>13. ASSUME NEW q \in DOMAIN rows'.steps \cap DOMAIN live.steps
         PROVE rows'.steps[q].order = HalfwayOrder(q)' /\ rows'.steps[q].text = HalfwayText(q)'
    BY <2>8, <2>9, <2>10, <2>11 DEF StepsHalfway
  <2>14. ASSUME NEW ref \in creates, ~Waits("steps", "create", ref)'
         PROVE rows'.steps[Fresh(ref)] = snap.steps[ref] /\ Unrivalled(ref)
    <3>1. Fresh(ref) \in DOMAIN rows.steps /\ Fresh(ref) # p
      BY <1>3, <2>2, <2>8, <2>14 DEF StepsHalfway, creates
    <3> QED
      BY <2>2, <2>10, <2>14, <3>1 DEF StepsHalfway, creates
  <2>15. \A ref \in Moves(live, snap) : Waits("steps", "move", ref)' \/ Unrivalled(ref)
    BY <2>2 DEF StepsHalfway
  <2> QED
    BY <1>1, <1>5, <2>12, <2>13, <2>14, <2>15 DEF StepsHalfway, creates
<1>9. ASSUME NEW op \in todo, MoveStep(op)
      PROVE StepsHalfway'
  <2>1. Take("steps", "move", {op})
    BY <1>9 DEF MoveStep
  <2> DEFINE p == op[3]
  <2>2. /\ <<"steps", "move", p>> \in Whole
        /\ \A k, i : Waits("steps", k, i)' <=> Waits("steps", k, i) /\ ~(k = "move" /\ i = p)
    BY <1>0, <2>1, TakenId
  <2>3. p \in Moves(live, snap)
    BY <2>2, WholeIs
  <2>4. /\ rows'.steps = [rows.steps EXCEPT ![p].order = snap.steps[p].order]
        /\ OrderFree(snap.steps[p].order)
    BY <1>9, RowsAreColumns DEF MoveStep, SetOrder, WriteIf, Write, Rollback, Columns
  <2>5. /\ 7 \in 1..22 /\ Stages[7] = <<"steps", "move">>
        /\ 6 \in 1..(7 - 1) /\ Stages[6] = <<"steps", "offset">>
        /\ 10 \in (7 + 1)..22 /\ Stages[10] = <<"steps", "delete">>
    BY DEF Stages
  <2>6. ~Waits("steps", "offset", p)
    BY <2>1, <2>5, EarlierDone
  <2>7. ASSUME NEW q \in DOMAIN live.steps \ DOMAIN snap.steps
        PROVE Waits("steps", "delete", q)
    BY <1>6, <2>1, <2>5, LaterAhead
  <2> HIDE DEF p
  <2>8. p \in DOMAIN live.steps /\ p \in DOMAIN snap.steps
    BY <1>2, <2>3
  <2>9. p \in DOMAIN rows.steps /\ rows.steps[p] = [order |-> rows.steps[p].order, text |-> rows.steps[p].text]
    BY <2>8 DEF StepsHalfway, IsRows
  <2>10. /\ rows'.steps[p].order = snap.steps[p].order
         /\ rows'.steps[p].text = rows.steps[p].text
         /\ \A q \in DOMAIN rows.steps : q # p => rows'.steps[q] = rows.steps[q]
         /\ DOMAIN rows'.steps = DOMAIN rows.steps
    BY <2>4, <2>9
  <2>11. /\ HalfwayOrder(p)' = snap.steps[p].order
         /\ \A q : q # p => HalfwayOrder(q)' = HalfwayOrder(q)
         /\ \A q : HalfwayText(q)' = HalfwayText(q)
    BY <1>1, <2>2, <2>6, <2>8 DEF HalfwayOrder, HalfwayText
  <2>12. DOMAIN rows'.steps =
           {q \in DOMAIN live.steps : q \in DOMAIN snap.steps \/ Waits("steps", "delete", q)'}
           \cup {Fresh(ref) : ref \in {r \in creates : ~Waits("steps", "create", r)'}}
    BY <2>2, <2>10 DEF StepsHalfway, creates
  <2>13. ASSUME NEW q \in DOMAIN rows'.steps \cap DOMAIN live.steps
         PROVE rows'.steps[q].order = HalfwayOrder(q)' /\ rows'.steps[q].text = HalfwayText(q)'
    BY <2>8, <2>9, <2>10, <2>11 DEF StepsHalfway
  <2>14. ASSUME NEW ref \in creates, ~Waits("steps", "create", ref)'
         PROVE rows'.steps[Fresh(ref)] = snap.steps[ref] /\ Unrivalled(ref)
    <3>1. Fresh(ref) \in DOMAIN rows.steps /\ Fresh(ref) # p
      BY <1>3, <2>2, <2>8, <2>14 DEF StepsHalfway, creates
    <3> QED
      BY <2>2, <2>10, <2>14, <3>1 DEF StepsHalfway, creates
  <2>15. Unrivalled(p)
    <3> SUFFICES ASSUME NEW q \in DOMAIN live.steps \ DOMAIN snap.steps
                 PROVE live.steps[q].order # snap.steps[p].order
      BY DEF Unrivalled
    <3>1. q \in DOMAIN rows.steps
      BY <2>7 DEF StepsHalfway
    <3>2. rows.steps[q].order = live.steps[q].order
      BY <3>1, <1>6 DEF StepsHalfway, HalfwayOrder
    <3> QED
      BY <2>4, <3>1, <3>2 DEF OrderFree
  <2>16. \A ref \in Moves(live, snap) : Waits("steps", "move", ref)' \/ Unrivalled(ref)
    BY <2>2, <2>15 DEF StepsHalfway
  <2> QED
    BY <1>1, <1>5, <2>12, <2>13, <2>14, <2>16 DEF StepsHalfway, creates
<1>10. ASSUME NEW op \in todo, UpdateStep(op)
      PROVE StepsHalfway'
  <2>1. Take("steps", "update", {op})
    BY <1>10 DEF UpdateStep
  <2> DEFINE p == op[3]
  <2>2. /\ <<"steps", "update", p>> \in Whole
        /\ \A k, i : Waits("steps", k, i)' <=> Waits("steps", k, i) /\ ~(k = "update" /\ i = p)
    BY <1>0, <2>1, TakenId
  <2>3. p \in DOMAIN live.steps /\ p \in DOMAIN snap.steps
    BY <1>2, <2>2, WholeIs DEF kept
  <2>4. rows'.steps = [rows.steps EXCEPT ![p].text = snap.steps[p].text]
    BY <1>10, RowsAreColumns DEF UpdateStep, Write, Columns
  <2> HIDE DEF p
  <2>5. p \in DOMAIN rows.steps /\ rows.steps[p] = [order |-> rows.steps[p].order, text |-> rows.steps[p].text]
    BY <2>3 DEF StepsHalfway, IsRows
  <2>6. /\ rows'.steps[p].order = rows.steps[p].order
        /\ rows'.steps[p].text = snap.steps[p].text
        /\ \A q \in DOMAIN rows.steps : q # p => rows'.steps[q] = rows.steps[q]
        /\ DOMAIN rows'.steps = DOMAIN rows.steps
    BY <2>4, <2>5
  <2>7. /\ HalfwayText(p)' = snap.steps[p].text
        /\ \A q : q # p => HalfwayText(q)' = HalfwayText(q)
        /\ \A q : HalfwayOrder(q)' = HalfwayOrder(q)
    BY <1>1, <2>2, <2>3 DEF HalfwayOrder, HalfwayText
  <2>8. DOMAIN rows'.steps =
           {q \in DOMAIN live.steps : q \in DOMAIN snap.steps \/ Waits("steps", "delete", q)'}
           \cup {Fresh(ref) : ref \in {r \in creates : ~Waits("steps", "create", r)'}}
    BY <2>2, <2>6 DEF StepsHalfway, creates
  <2>9. ASSUME NEW q \in DOMAIN rows'.steps \cap DOMAIN live.steps
        PROVE rows'.steps[q].order = HalfwayOrder(q)' /\ rows'.steps[q].text = HalfwayText(q)'
    BY <2>3, <2>5, <2>6, <2>7 DEF StepsHalfway
  <2>10. ASSUME NEW ref \in creates, ~Waits("steps", "create", ref)'
         PROVE rows'.steps[Fresh(ref)] = snap.steps[ref] /\ Unrivalled(ref)
    <3>1. Fresh(ref) \in DOMAIN rows.steps /\ Fresh(ref) # p
      BY <1>3, <2>2, <2>3, <2>10 DEF StepsHalfway, creates
    <3> QED
      BY <2>2, <2>6, <2>10, <3>1 DEF StepsHalfway, creates
  <2>11. \A ref \in Moves(live, snap) : Waits("steps", "move", ref)' \/ Unrivalled(ref)
    BY <2>2 DEF StepsHalfway
  <2> QED
    BY <1>1, <1>5, <2>8, <2>9, <2>10, <2>11 DEF StepsHalfway, creates
<1>11. ASSUME NEW op \in todo, CreateStep(op)
      PROVE StepsHalfway'
  <2>1. Take("steps", "create", {op})
    BY <1>11 DEF CreateStep
  <2> DEFINE ref == op[3]
  <2>2. /\ <<"steps", "create", ref>> \in Whole
        /\ \A k, i : Waits("steps", k, i)' <=> Waits("steps", k, i) /\ ~(k = "create" /\ i = ref)
    BY <1>0, <2>1, TakenId
  <2>3. ref \in creates
    BY <2>2, WholeIs DEF creates
  <2>4. /\ rows'.steps = With(rows.steps, Fresh(ref), snap.steps[ref])
        /\ OrderFree(snap.steps[ref].order)
    BY <1>11, RowsAreColumns DEF CreateStep, WriteIf, Write, Rollback, Columns
  <2>5. /\ 9 \in 1..22 /\ Stages[9] = <<"steps", "create">>
        /\ 10 \in (9 + 1)..22 /\ Stages[10] = <<"steps", "delete">>
    BY DEF Stages
  <2>7. ASSUME NEW q \in DOMAIN live.steps \ DOMAIN snap.steps
        PROVE Waits("steps", "delete", q)
    BY <1>6, <2>1, <2>5, LaterAhead
  <2> HIDE DEF ref
  <2>8. \A q : HalfwayOrder(q)' = HalfwayOrder(q) /\ HalfwayText(q)' = HalfwayText(q)
    BY <1>1, <2>2 DEF HalfwayOrder, HalfwayText
  <2>9. /\ DOMAIN rows'.steps = DOMAIN rows.steps \cup {Fresh(ref)}
        /\ rows'.steps[Fresh(ref)] = snap.steps[ref]
        /\ \A q \in DOMAIN rows.steps : q # Fresh(ref) => rows'.steps[q] = rows.steps[q]
    BY <2>4 DEF With
  <2>10. DOMAIN rows'.steps =
           {q \in DOMAIN live.steps : q \in DOMAIN snap.steps \/ Waits("steps", "delete", q)'}
           \cup {Fresh(x) : x \in {r \in creates : ~Waits("steps", "create", r)'}}
    BY <2>2, <2>3, <2>9 DEF StepsHalfway, creates
  <2>11. ASSUME NEW q \in DOMAIN rows'.steps \cap DOMAIN live.steps
         PROVE rows'.steps[q].order = HalfwayOrder(q)' /\ rows'.steps[q].text = HalfwayText(q)'
    <3>1. q # Fresh(ref) /\ q \in DOMAIN rows.steps
      BY <1>3, <2>3, <2>9
    <3> QED
      BY <2>8, <2>9, <3>1 DEF StepsHalfway
  <2>12. Unrivalled(ref)
    <3> SUFFICES ASSUME NEW q \in DOMAIN live.steps \ DOMAIN snap.steps
                 PROVE live.steps[q].order # snap.steps[ref].order
      BY DEF Unrivalled
    <3>1. q \in DOMAIN rows.steps
      BY <2>7 DEF StepsHalfway
    <3>2. rows.steps[q].order = live.steps[q].order
      BY <3>1, <1>6 DEF StepsHalfway, HalfwayOrder
    <3> QED
      BY <2>4, <3>1, <3>2 DEF OrderFree
  <2>13. ASSUME NEW x \in creates, ~Waits("steps", "create", x)'
         PROVE rows'.steps[Fresh(x)] = snap.steps[x] /\ Unrivalled(x)
    <3>1. CASE x = ref
      BY <2>9, <2>12, <3>1
    <3>2. CASE x # ref
      <4>1. Fresh(x) \in DOMAIN rows.steps /\ Fresh(x) # Fresh(ref) /\ ~Waits("steps", "create", x)
        BY <1>4, <2>2, <2>13, <3>2 DEF StepsHalfway, creates
      <4> QED
        BY <2>9, <2>13, <4>1 DEF StepsHalfway, creates
    <3> QED
      BY <3>1, <3>2
  <2>14. \A x \in Moves(live, snap) : Waits("steps", "move", x)' \/ Unrivalled(x)
    BY <2>2 DEF StepsHalfway
  <2> QED
    BY <1>1, <1>5, <2>10, <2>11, <2>13, <2>14 DEF StepsHalfway, creates
<1>12. ASSUME NEW op \in todo, DeleteStep(op)
      PROVE StepsHalfway'
  <2>1. Take("steps", "delete", {op})
    BY <1>12 DEF DeleteStep
  <2> DEFINE p == op[3]
  <2>2. /\ <<"steps", "delete", p>> \in Whole
        /\ \A k, i : Waits("steps", k, i)' <=> Waits("steps", k, i) /\ ~(k = "delete" /\ i = p)
    BY <1>0, <2>1, TakenId
  <2>3. p \in DOMAIN live.steps /\ p \notin DOMAIN snap.steps
    BY <1>2, <2>2, WholeIs DEF kept
  <2>4. rows'.steps = Without(rows.steps, {p})
    BY <1>12, RowsAreColumns DEF DeleteStep, Write, Columns
  <2> HIDE DEF p
  <2>5. \A q : HalfwayOrder(q)' = HalfwayOrder(q) /\ HalfwayText(q)' = HalfwayText(q)
    BY <1>1, <2>2 DEF HalfwayOrder, HalfwayText
  <2>6. /\ DOMAIN rows'.steps = DOMAIN rows.steps \ {p}
        /\ \A q \in DOMAIN rows'.steps : rows'.steps[q] = rows.steps[q]
    BY <2>4 DEF Without
  <2>7. DOMAIN rows'.steps =
           {q \in DOMAIN live.steps : q \in DOMAIN snap.steps \/ Waits("steps", "delete", q)'}
           \cup {Fresh(ref) : ref \in {r \in creates : ~Waits("steps", "create", r)'}}
    BY <1>3, <2>2, <2>3, <2>6 DEF StepsHalfway, creates
  <2>8. ASSUME NEW q \in DOMAIN rows'.steps \cap DOMAIN live.steps
        PROVE rows'.steps[q].order = HalfwayOrder(q)' /\ rows'.steps[q].text = HalfwayText(q)'
    BY <2>5, <2>6 DEF StepsHalfway
  <2>9. ASSUME NEW ref \in creates, ~Waits("steps", "create", ref)'
        PROVE rows'.steps[Fresh(ref)] = snap.steps[ref] /\ Unrivalled(ref)
    <3>1. Fresh(ref) \in DOMAIN rows.steps /\ Fresh(ref) # p
      BY <1>3, <2>2, <2>3, <2>9 DEF StepsHalfway, creates
    <3> QED
      BY <2>2, <2>6, <2>9, <3>1 DEF StepsHalfway, creates
  <2>10. \A ref \in Moves(live, snap) : Waits("steps", "move", ref)' \/ Unrivalled(ref)
    BY <2>2 DEF StepsHalfway
  <2> QED
    BY <1>1, <1>5, <2>7, <2>8, <2>9, <2>10 DEF StepsHalfway, creates
<1> QED
  BY <1>7, <1>8, <1>9, <1>10, <1>11, <1>12 DEF Frames, StepsStep

LEMMA ResourcesAdvance ==
    ASSUME InOrder, IsRows(rows), input \in Inputs, Sound(input, snap),
           ResourcesHalfway, DoomedUnlinked, Frames, result' # "failed"
    PROVE ResourcesHalfway' /\ IsTable(rows.resources)'
<1>0. todo \subseteq Whole
  BY DEF InOrder
<1>1. /\ live' = live /\ snap' = snap /\ ResourceCreates' = ResourceCreates
      /\ LinkedBy(live)' = LinkedBy(live) /\ IsTable(rows.resources)
  BY DEF Frames, live, ResourceCreates, LinkedBy, IsRows
<1>2. /\ \A x \in ResourceCreates : Fresh(x) \notin DOMAIN live.resources
      /\ \A x, y : Fresh(x) = Fresh(y) => x = y
      /\ LinkedBy(live) \subseteq DOMAIN live.resources
      /\ TempIds \cap DOMAIN live.resources = {}
  BY FreshIds, LiveIs DEF ResourceCreates
<1>3. CASE rows'["resources"] = rows["resources"] /\ Still("resources")
  BY <1>1, <1>3 DEF ResourcesHalfway, Still, IsTable
<1>4. ASSUME NEW op \in todo, CreateResource(op)
      PROVE ResourcesHalfway' /\ IsTable(rows.resources)'
  <2>1. Take("resources", "create", {op})
    BY <1>4 DEF CreateResource
  <2> DEFINE x == op[3]
  <2>2. /\ <<"resources", "create", x>> \in Whole
        /\ \A k, i : Waits("resources", k, i)'
                       <=> Waits("resources", k, i) /\ ~(k = "create" /\ i = x)
    BY <1>0, <2>1, TakenId
  <2>3. x \in ResourceCreates
    BY <2>2, WholeIs
  <2>4. rows'.resources = With(rows.resources, Fresh(x), snap.resources[x])
    BY <1>4, RowsAreColumns DEF CreateResource, WriteIf, Write, Rollback, Columns
  <2> HIDE DEF x
  <2>5. /\ DOMAIN rows'.resources = DOMAIN rows.resources \cup {Fresh(x)}
        /\ rows'.resources[Fresh(x)] = snap.resources[x]
        /\ \A y \in DOMAIN rows.resources : y # Fresh(x) => rows'.resources[y] = rows.resources[y]
        /\ IsTable(rows'.resources)
    BY <2>4 DEF With, IsTable
  <2>6. DOMAIN rows'.resources \subseteq DOMAIN live.resources \cup {Fresh(y) : y \in ResourceCreates}
    BY <2>3, <2>5 DEF ResourcesHalfway
  <2>7. \A y \in DOMAIN live.resources \ DOMAIN rows'.resources :
           y \in LinkedBy(live) \ DOMAIN snap.resources /\ ~Waits("resources", "unlink", y)'
    BY <2>2, <2>5 DEF ResourcesHalfway
  <2>8. \A y \in DOMAIN live.resources \cap DOMAIN rows'.resources :
           rows'.resources[y] =
              IF /\ y \in (DOMAIN snap.resources \ TempIds) \cap LinkedBy(live)
                 /\ snap.resources[y].text # live.resources[y].text
                 /\ ~Waits("resources", "update", y)'
              THEN snap.resources[y] ELSE live.resources[y]
    BY <1>2, <2>2, <2>3, <2>5 DEF ResourcesHalfway
  <2>9. \A y \in ResourceCreates :
          \/ Waits("resources", "create", y)'
          \/ Fresh(y) \in DOMAIN rows'.resources /\ rows'.resources[Fresh(y)] = snap.resources[y]
    BY <1>2, <2>2, <2>5 DEF ResourcesHalfway
  <2> QED
    BY <1>1, <2>5, <2>6, <2>7, <2>8, <2>9 DEF ResourcesHalfway
<1>5. ASSUME NEW op \in todo, UpdateResource(op)
      PROVE ResourcesHalfway' /\ IsTable(rows.resources)'
  <2>1. Take("resources", "update", {op})
    BY <1>5 DEF UpdateResource
  <2> DEFINE x == op[3]
  <2>2. /\ <<"resources", "update", x>> \in Whole
        /\ \A k, i : Waits("resources", k, i)'
                       <=> Waits("resources", k, i) /\ ~(k = "update" /\ i = x)
    BY <1>0, <2>1, TakenId
  <2>3. /\ x \in (DOMAIN snap.resources \ TempIds) \cap LinkedBy(live)
        /\ snap.resources[x].text # live.resources[x].text
    BY <2>2, WholeIs
  <2>4. rows'.resources = [rows.resources EXCEPT ![x] = snap.resources[x]]
    BY <1>5, RowsAreColumns DEF UpdateResource, WriteIf, Write, Rollback, Columns
  <2> HIDE DEF x
  <2>5. x \in DOMAIN rows.resources /\ x \in DOMAIN live.resources
    BY <1>2, <2>3 DEF ResourcesHalfway
  <2>6. /\ DOMAIN rows'.resources = DOMAIN rows.resources
        /\ rows'.resources[x] = snap.resources[x]
        /\ \A y \in DOMAIN rows.resources : y # x => rows'.resources[y] = rows.resources[y]
        /\ IsTable(rows'.resources)
    BY <2>4, <2>5 DEF IsTable
  <2>7. \A y \in DOMAIN live.resources \cap DOMAIN rows'.resources :
           rows'.resources[y] =
              IF /\ y \in (DOMAIN snap.resources \ TempIds) \cap LinkedBy(live)
                 /\ snap.resources[y].text # live.resources[y].text
                 /\ ~Waits("resources", "update", y)'
              THEN snap.resources[y] ELSE live.resources[y]
    BY <2>2, <2>3, <2>6 DEF ResourcesHalfway
  <2>8. \A y \in ResourceCreates :
          \/ Waits("resources", "create", y)'
          \/ Fresh(y) \in DOMAIN rows'.resources /\ rows'.resources[Fresh(y)] = snap.resources[y]
    BY <1>2, <2>2, <2>5, <2>6 DEF ResourcesHalfway
  <2> QED
    BY <1>1, <2>2, <2>6, <2>7, <2>8 DEF ResourcesHalfway
<1>6. ASSUME NEW op \in todo, CountReferences(op)
      PROVE ResourcesHalfway' /\ IsTable(rows.resources)'
  <2>1. Take("resources", "unlink", {op})
    BY <1>6 DEF CountReferences
  <2>2. /\ <<"resources", "unlink", op[3]>> \in Whole
        /\ \A k, i : Waits("resources", k, i)'
                       <=> Waits("resources", k, i) /\ ~(k = "unlink" /\ i = op[3])
    BY <1>0, <2>1, TakenId
  <2>3. rows' = rows
    BY <1>6 DEF CountReferences
  <2> QED
    BY <1>1, <2>2, <2>3 DEF ResourcesHalfway
<1>7. CASE DeleteResource
  <2>1. rows'.resources = Without(rows.resources, {doomed}) /\ doomed # Null /\ todo' = todo
    BY <1>7, RowsAreColumns DEF DeleteResource, Columns
  <2>2. /\ DOMAIN rows'.resources = DOMAIN rows.resources \ {doomed}
        /\ \A y \in DOMAIN rows'.resources : rows'.resources[y] = rows.resources[y]
        /\ IsTable(rows'.resources)
    BY <2>1 DEF Without, IsTable
  <2>3. \A k, i : Waits("resources", k, i)' <=> Waits("resources", k, i)
    BY <2>1 DEF Waits
  <2>4. doomed \in LinkedBy(live) \ DOMAIN snap.resources /\ ~Waits("resources", "unlink", doomed)
    BY <2>1 DEF DoomedUnlinked
  <2> QED
    BY <1>1, <1>2, <2>2, <2>3, <2>4 DEF ResourcesHalfway
<1> QED
  BY <1>3, <1>4, <1>5, <1>6, <1>7 DEF Frames, ResourcesStep

\* Only a resource that nothing was found to link is deleted.
LEMMA DoomedStaysUnlinked ==
    ASSUME todo \subseteq Whole, input \in Inputs, Publication, DoomedUnlinked
    PROVE DoomedUnlinked'
<1>1. CASE \E op \in todo : CountReferences(op)
  <2>1. PICK op \in todo : CountReferences(op)
    BY <1>1
  <2>2. Take("resources", "unlink", {op})
    BY <2>1 DEF CountReferences
  <2>3. /\ <<"resources", "unlink", op[3]>> \in Whole
        /\ ~Waits("resources", "unlink", op[3])'
    BY <2>2, TakenId
  <2>4. rows' = rows /\ live' = live /\ snap' = snap
        /\ (doomed' # Null => doomed' = op[3] /\ ~StillReferenced(op[3]))
    BY <2>1 DEF CountReferences, Take, live
  <2>5. op[3] \in LinkedBy(live) \ DOMAIN snap.resources
    BY <2>3, WholeIs, LiveIs
  <2> QED
    BY <2>3, <2>4, <2>5 DEF DoomedUnlinked, StillReferenced, LinkedBy
<1>2. CASE ~\E op \in todo : CountReferences(op)
  <2>1. doomed' = Null
    BY <1>2 DEF Publication, Statement, CreateResource, UpdateResource, OffsetStep, MoveStep,
       UpdateStep, CreateStep, DeleteStep, LinkStep, UnlinkStep, LinkSkill, UpdateSkill, UnlinkSkill,
       CreateOutlook, UpdateOutlook, DeleteOutlook, UpdateCareer, WritePathway, DeleteResource, Commit,
       Interrupt, Take, Write, WriteIf, Rollback, SetOrder
  <2> QED
    BY <2>1 DEF DoomedUnlinked
<1> QED
  BY <1>1, <1>2

\* Which of the live steps there are, and which links, when steps are written.
LEMMA StepsLeave ==
    ASSUME InOrder, IsRows(rows), Sound(input, snap), StepsStep, result' # "failed"
    PROVE \E left :
            /\ \A p \in DOMAIN live.steps : p \in DOMAIN rows'.steps
                  <=> p \in DOMAIN rows.steps /\ p \notin left
            /\ left \subseteq DOMAIN live.steps \ DOMAIN snap.steps
            /\ rows'.stepSkills = {link \in rows.stepSkills : link[1] \notin left}
            /\ rows'.stepResources = {link \in rows.stepResources : link[1] \notin left}
<1>0. todo \subseteq Whole
  BY DEF InOrder
<1>1. CASE \E op \in todo : DeleteStep(op)
  <2>1. PICK op \in todo : DeleteStep(op)
    BY <1>1
  <2>2. Take("steps", "delete", {op})
    BY <2>1 DEF DeleteStep
  <2>3. <<"steps", "delete", op[3]>> \in Whole
    BY <1>0, <2>2, TakenId
  <2>4. op[3] \in DOMAIN live.steps \ DOMAIN snap.steps
    BY <2>3, WholeIs DEF Kept
  <2>5. /\ rows'.steps = Without(rows.steps, {op[3]})
        /\ rows'.stepSkills = {link \in rows.stepSkills : link[1] # op[3]}
        /\ rows'.stepResources = {link \in rows.stepResources : link[1] # op[3]}
    BY <2>1, RowsAreColumns DEF DeleteStep, Write, Columns
  <2> WITNESS {op[3]}
  <2> QED
    BY <2>4, <2>5 DEF Without
<1>2. CASE \E op \in todo : CreateStep(op)
  <2>1. PICK op \in todo : CreateStep(op)
    BY <1>2
  <2>2. Take("steps", "create", {op})
    BY <2>1 DEF CreateStep
  <2>3. <<"steps", "create", op[3]>> \in Whole
    BY <1>0, <2>2, TakenId
  <2>4. Fresh(op[3]) \notin DOMAIN live.steps
    BY <2>3, WholeIs, FreshIds DEF StepCreates
  <2>5. /\ rows'.steps = With(rows.steps, Fresh(op[3]), snap.steps[op[3]])
        /\ rows'.stepSkills = rows.stepSkills
        /\ rows'.stepResources = rows.stepResources
    BY <2>1, RowsAreColumns DEF CreateStep, WriteIf, Write, Rollback, Columns
  <2> PICK left : left = {}
    OBVIOUS
  <2> WITNESS left
  <2> QED
    BY <2>4, <2>5 DEF With
<1>3. CASE \E op \in todo : OffsetStep(op) \/ MoveStep(op) \/ UpdateStep(op)
  <2>1. PICK op \in todo : OffsetStep(op) \/ MoveStep(op) \/ UpdateStep(op)
    BY <1>3
  <2>2. /\ DOMAIN rows'.steps = DOMAIN rows.steps
        /\ rows'.stepSkills = rows.stepSkills
        /\ rows'.stepResources = rows.stepResources
    BY <2>1, RowsAreColumns DEF OffsetStep, MoveStep, UpdateStep, SetOrder, WriteIf, Write, Rollback, Columns
  <2> PICK left : left = {}
    OBVIOUS
  <2> WITNESS left
  <2> QED
    BY <2>2
<1> QED
  BY <1>1, <1>2, <1>3 DEF StepsStep

\* Links resolve to different rows, and new ones not to live ones.
LEMMA LinksResolve ==
    ASSUME input \in Inputs, Sound(input, snap)
    PROVE /\ \A link \in Linked("stepSkills") \cup Linked("stepResources") :
                /\ link = <<link[1], link[2]>>
                /\ link[1] \in DOMAIN snap.steps
                /\ ResolveStep(link[1]) \in DOMAIN live.steps
                      => link[1] \in DOMAIN live.steps /\ ResolveStep(link[1]) = link[1]
          /\ \A link \in Linked("stepResources") :
                ResolveResource(link[2]) \in DOMAIN live.resources => ResolveResource(link[2]) = link[2]
<1>1. \A link \in Linked("stepSkills") \cup Linked("stepResources") :
                link = <<link[1], link[2]>> /\ link[1] \in DOMAIN snap.steps
  BY DEF Sound, IsRows, Linked
<1>2. ASSUME NEW link \in Linked("stepSkills") \cup Linked("stepResources"),
             ResolveStep(link[1]) \in DOMAIN live.steps
      PROVE link[1] \in DOMAIN live.steps /\ ResolveStep(link[1]) = link[1]
  BY <1>1, <1>2, FreshIds DEF ResolveStep, StepCreates, Kept
<1>3. ASSUME NEW link \in Linked("stepResources"), ResolveResource(link[2]) \in DOMAIN live.resources
      PROVE ResolveResource(link[2]) = link[2]
  BY <1>3, FreshIds DEF ResolveResource
<1> QED
  BY <1>1, <1>2, <1>3

LEMMA LinksAdvance ==
    ASSUME InOrder, IsRows(rows), input \in Inputs, Sound(input, snap),
           StepsHalfway, ResourcesHalfway, LinksHalfway, Frames, result' # "failed"
    PROVE LinksHalfway'
<1>0. todo \subseteq Whole
  BY DEF InOrder
<1>1. /\ live' = live /\ snap' = snap /\ Kept(live, snap)' = Kept(live, snap)
      /\ StepCreates(live, snap)' = StepCreates(live, snap)
      /\ \A x : ResolveStep(x)' = ResolveStep(x) /\ ResolveResource(x)' = ResolveResource(x)
  BY DEF Frames, live, Kept, StepCreates, ResolveStep, ResolveResource
<1>2. /\ \A link \in live.stepSkills \cup live.stepResources :
            link = <<link[1], link[2]>> /\ link[1] \in DOMAIN live.steps
      /\ \A link \in live.stepResources : link[2] \in DOMAIN live.resources
  BY LiveIs DEF SatisfiesSchema, IsRows
<1>3. CASE /\ \A p \in DOMAIN live.steps : p \in DOMAIN rows'.steps <=> p \in DOMAIN rows.steps
           /\ rows'["stepSkills"] = rows["stepSkills"] /\ rows'["stepResources"] = rows["stepResources"]
           /\ Still("stepSkills") /\ Still("stepResources")
  <2>1. ASSUME NEW section \in {"stepSkills", "stepResources"}
        PROVE Remaining(section)' = Remaining(section) /\ Linked(section)' = Linked(section)
    BY <1>1, <1>2, <1>3, <2>1 DEF Remaining, Linked, Still
  <2> QED
    BY <1>1, <1>3, <2>1 DEF LinksHalfway
<1>4. CASE StepsStep
  <2>1. PICK left :
            /\ \A p \in DOMAIN live.steps : p \in DOMAIN rows'.steps
                  <=> p \in DOMAIN rows.steps /\ p \notin left
            /\ left \subseteq DOMAIN live.steps \ DOMAIN snap.steps
            /\ rows'.stepSkills = {link \in rows.stepSkills : link[1] \notin left}
            /\ rows'.stepResources = {link \in rows.stepResources : link[1] \notin left}
    BY <1>4, StepsLeave
  <2>2. Still("stepSkills") /\ Still("stepResources")
    <3>1. PICK op \in todo :
            OffsetStep(op) \/ MoveStep(op) \/ UpdateStep(op) \/ CreateStep(op) \/ DeleteStep(op)
      BY <1>4 DEF StepsStep
    <3>2. PICK kind : Take("steps", kind, {op})
      BY <3>1 DEF OffsetStep, MoveStep, UpdateStep, CreateStep, DeleteStep
    <3>3. op = <<"steps", kind, op[3]>> /\ todo' = todo \ {op}
      BY <1>0, <3>2, Taken
    <3> QED
      BY <3>3, StillElsewhere
  <2>3. ASSUME NEW section \in {"stepSkills", "stepResources"}
        PROVE /\ Remaining(section)' = {link \in Remaining(section) : link[1] \notin left}
              /\ Linked(section)' = Linked(section)
    BY <1>1, <1>2, <2>1, <2>2, <2>3 DEF Remaining, Linked, Still
  <2>4. \A link \in Linked("stepSkills") \cup Linked("stepResources") : ResolveStep(link[1]) \notin left
    BY <2>1, LinksResolve
  <2> QED
    BY <1>1, <2>1, <2>3, <2>4 DEF LinksHalfway
<1>5. ASSUME NEW op \in todo, LinkStep(op), Take("stepSkills", "link", {op})
      PROVE LinksHalfway'
  <2> DEFINE link == op[3]
  <2>1. /\ <<"stepSkills", "link", link>> \in Whole
        /\ \A k, i : Waits("stepSkills", k, i)'
              <=> Waits("stepSkills", k, i) /\ ~(k = "link" /\ i = link)
    BY <1>0, <1>5, TakenId
  <2>2. link \in snap.stepSkills \ live.stepSkills /\ link[1] \in Kept(live, snap) \cup TempIds
    BY <2>1, WholeIs
  <2>3. op = <<"stepSkills", "link", op[3]>> /\ todo' = todo \ {op}
    BY <1>0, <1>5, Taken
  <2>4. /\ rows'.stepSkills = rows.stepSkills \cup {<<ResolveStep(link[1]), link[2]>>}
        /\ rows'.stepResources = rows.stepResources /\ rows'.steps = rows.steps
        /\ link[2] \in AllSkills
    BY <1>5, <2>3, RowsAreColumns DEF LinkStep, Take, By, WriteIf, Write, Rollback, Columns
  <2>5. Still("stepResources")
    BY <2>3, StillElsewhere
  <2> HIDE DEF link
  <2>7. /\ Remaining("stepSkills")' = Remaining("stepSkills")
        /\ Linked("stepSkills")' = Linked("stepSkills") \cup {link}
        /\ Remaining("stepResources")' = Remaining("stepResources")
        /\ Linked("stepResources")' = Linked("stepResources")
    BY <1>1, <2>1, <2>2, <2>4, <2>5 DEF Remaining, Linked, Still
  <2> QED
    BY <1>1, <2>4, <2>7 DEF LinksHalfway
<1>6. ASSUME NEW op \in todo, UnlinkStep(op), Take("stepSkills", "unlink", {op})
      PROVE LinksHalfway'
  <2> DEFINE link == op[3]
  <2>1. /\ <<"stepSkills", "unlink", link>> \in Whole
        /\ \A k, i : Waits("stepSkills", k, i)'
              <=> Waits("stepSkills", k, i) /\ ~(k = "unlink" /\ i = link)
    BY <1>0, <1>6, TakenId
  <2>2. link \in live.stepSkills \ snap.stepSkills /\ link[1] \in Kept(live, snap)
    BY <2>1, WholeIs
  <2>3. op = <<"stepSkills", "unlink", op[3]>> /\ todo' = todo \ {op}
    BY <1>0, <1>6, Taken
  <2>4. /\ rows'.stepSkills = rows.stepSkills \ {link}
        /\ rows'.stepResources = rows.stepResources /\ rows'.steps = rows.steps
    BY <1>6, <2>3, RowsAreColumns DEF UnlinkStep, Take, By, Write, Columns
  <2>5. Still("stepResources")
    BY <2>3, StillElsewhere
  <2> HIDE DEF link
  <2>6. \A k \in Linked("stepSkills") : <<ResolveStep(k[1]), k[2]>> # link
    <3> SUFFICES ASSUME NEW k \in Linked("stepSkills"), <<ResolveStep(k[1]), k[2]>> = link
                 PROVE FALSE
      OBVIOUS
    <3>1. link[1] = ResolveStep(k[1]) /\ link[2] = k[2]
          /\ link = <<link[1], link[2]>> /\ link[1] \in DOMAIN live.steps
      BY <1>2, <2>2
    <3>2. k = link
      BY <3>1, LinksResolve
    <3> QED
      BY <2>2, <3>2 DEF Linked
  <2>7. /\ Remaining("stepSkills")' = Remaining("stepSkills") \ {link}
        /\ Linked("stepSkills")' = Linked("stepSkills")
        /\ Remaining("stepResources")' = Remaining("stepResources")
        /\ Linked("stepResources")' = Linked("stepResources")
    BY <1>1, <2>1, <2>2, <2>4, <2>5 DEF Remaining, Linked, Still, Kept
  <2> QED
    BY <1>1, <2>4, <2>6, <2>7 DEF LinksHalfway
<1>7. ASSUME NEW op \in todo, LinkStep(op), Take("stepResources", "link", {op})
      PROVE LinksHalfway'
  <2> DEFINE link == op[3]
  <2>1. /\ <<"stepResources", "link", link>> \in Whole
        /\ \A k, i : Waits("stepResources", k, i)'
              <=> Waits("stepResources", k, i) /\ ~(k = "link" /\ i = link)
    BY <1>0, <1>7, TakenId
  <2>2. link \in snap.stepResources \ live.stepResources /\ link[1] \in Kept(live, snap) \cup TempIds
    BY <2>1, WholeIs
  <2>3. op = <<"stepResources", "link", op[3]>> /\ todo' = todo \ {op}
    BY <1>0, <1>7, Taken
  <2>4. /\ rows'.stepResources = rows.stepResources \cup {<<ResolveStep(link[1]), ResolveResource(link[2])>>}
        /\ rows'.stepSkills = rows.stepSkills /\ rows'.steps = rows.steps
        /\ ResolveResource(link[2]) \in DOMAIN rows.resources
    BY <1>7, <2>3, RowsAreColumns DEF LinkStep, Take, By, WriteIf, Write, Rollback, Columns
  <2>5. Still("stepSkills")
    BY <2>3, StillElsewhere
  <2> HIDE DEF link
  <2>6. link[2] \in DOMAIN live.resources \cup TempIds
    <3>1. \A x \in ResourceCreates : Fresh(x) # link[2]
      BY <2>2 DEF Sound, ResourceCreates
    <3> QED
      BY <2>4, <3>1 DEF ResolveResource, ResourcesHalfway
  <2>7. /\ Remaining("stepResources")' = Remaining("stepResources")
        /\ Linked("stepResources")' = Linked("stepResources") \cup {link}
        /\ Remaining("stepSkills")' = Remaining("stepSkills") /\ Linked("stepSkills")' = Linked("stepSkills")
    BY <1>1, <2>1, <2>2, <2>4, <2>5 DEF Remaining, Linked, Still
  <2> QED
    BY <1>1, <2>4, <2>6, <2>7 DEF LinksHalfway
<1>8. ASSUME NEW op \in todo, UnlinkStep(op), Take("stepResources", "unlink", {op})
      PROVE LinksHalfway'
  <2> DEFINE link == op[3]
  <2>1. /\ <<"stepResources", "unlink", link>> \in Whole
        /\ \A k, i : Waits("stepResources", k, i)'
              <=> Waits("stepResources", k, i) /\ ~(k = "unlink" /\ i = link)
    BY <1>0, <1>8, TakenId
  <2>2. link \in live.stepResources \ snap.stepResources /\ link[1] \in Kept(live, snap)
    BY <2>1, WholeIs
  <2>3. op = <<"stepResources", "unlink", op[3]>> /\ todo' = todo \ {op}
    BY <1>0, <1>8, Taken
  <2>4. /\ rows'.stepResources = rows.stepResources \ {link}
        /\ rows'.stepSkills = rows.stepSkills /\ rows'.steps = rows.steps
    BY <1>8, <2>3, RowsAreColumns DEF UnlinkStep, Take, By, Write, Columns
  <2>5. Still("stepSkills")
    BY <2>3, StillElsewhere
  <2> HIDE DEF link
  <2>6. \A k \in Linked("stepResources") : <<ResolveStep(k[1]), ResolveResource(k[2])>> # link
    <3> SUFFICES ASSUME NEW k \in Linked("stepResources"), <<ResolveStep(k[1]), ResolveResource(k[2])>> = link
                 PROVE FALSE
      OBVIOUS
    <3>1. link[1] = ResolveStep(k[1]) /\ link[2] = ResolveResource(k[2])
          /\ link = <<link[1], link[2]>> /\ link[1] \in DOMAIN live.steps
          /\ link[2] \in DOMAIN live.resources
      BY <1>2, <2>2
    <3>2. k = link
      BY <3>1, LinksResolve
    <3> QED
      BY <2>2, <3>2 DEF Linked
  <2>7. /\ Remaining("stepResources")' = Remaining("stepResources") \ {link}
        /\ Linked("stepResources")' = Linked("stepResources")
        /\ Remaining("stepSkills")' = Remaining("stepSkills") /\ Linked("stepSkills")' = Linked("stepSkills")
    BY <1>1, <2>1, <2>2, <2>4, <2>5 DEF Remaining, Linked, Still, Kept
  <2> QED
    BY <1>1, <2>4, <2>6, <2>7 DEF LinksHalfway
<1>9. CASE LinksStep
  <2>1. PICK op \in todo : LinkStep(op) \/ UnlinkStep(op)
    BY <1>9 DEF LinksStep
  <2> QED
    BY <1>5, <1>6, <1>7, <1>8, <2>1 DEF LinkStep, UnlinkStep
<1> QED
  BY <1>3, <1>4, <1>9 DEF Frames

-----------------------------------------------------------------------------
(***************************************************************************)
(* The constraints of the schema.                                          *)
(***************************************************************************)
\* The steps are records, with different orders.
AreSteps(steps) ==
    /\ IsTable(steps) /\ OrdersDiffer(steps)
    /\ \A p \in DOMAIN steps :
          steps[p] = [order |-> steps[p].order, text |-> steps[p].text] /\ steps[p].order \in Int

LEMMA OrderSet ==
    ASSUME NEW steps, AreSteps(steps), NEW p \in DOMAIN steps, NEW order \in Int,
           \A q \in DOMAIN steps : steps[q].order # order
    PROVE AreSteps([steps EXCEPT ![p].order = order])
<1> DEFINE set == [steps EXCEPT ![p].order = order]
<1>1. /\ IsTable(set) /\ DOMAIN set = DOMAIN steps
      /\ \A q \in DOMAIN steps : q # p => set[q] = steps[q]
      /\ set[p] = [order |-> order, text |-> steps[p].text]
  BY DEF IsTable, AreSteps
<1> HIDE DEF set
<1>2. OrdersDiffer(set)
  BY <1>1 DEF AreSteps, OrdersDiffer
<1>3. AreSteps(set)
  BY <1>1, <1>2 DEF AreSteps
<1> QED
  BY <1>3 DEF set

LEMMA StepsStaySteps ==
    ASSUME InOrder, IsRows(rows), OrdersDiffer(rows.steps), input \in Inputs, Sound(input, snap),
           StepsHalfway, Frames, result' # "failed"
    PROVE AreSteps(rows'.steps)
<1>0. todo \subseteq Whole /\ AreSteps(rows.steps) /\ AreSteps(snap.steps) /\ Offset \in Int
  BY LiveIs DEF InOrder, AreSteps, IsRows, Sound, OrdersDiffer
<1>1. CASE rows'["steps"] = rows["steps"]
  BY <1>0, <1>1
<1>2. ASSUME NEW op \in todo, OffsetStep(op)
      PROVE AreSteps(rows'.steps)
  <2>1. Take("steps", "offset", {op})
    BY <1>2 DEF OffsetStep
  <2> DEFINE p == op[3]
  <2>2. p \in DOMAIN rows.steps
    <3>1. <<"steps", "offset", p>> \in Whole
      BY <1>0, <2>1, TakenId
    <3> QED
      BY <3>1, WholeIs DEF Moves, Kept, StepsHalfway
  <2> DEFINE order == rows.steps[p].order + Offset
  <2>3. order \in Int
    <3>1. rows.steps[p].order \in Int
      BY <1>0, <2>2 DEF AreSteps
    <3> QED
      BY <1>0, <3>1
  <2>4. OrderFree(order) /\ rows'.steps = [rows.steps EXCEPT ![p].order = order]
    BY <1>2, RowsAreColumns DEF OffsetStep, SetOrder, WriteIf, Write, Rollback, Columns
  <2> HIDE DEF p, order
  <2> QED
    BY <1>0, <2>2, <2>3, <2>4, OrderSet DEF OrderFree
<1>3. ASSUME NEW op \in todo, MoveStep(op)
      PROVE AreSteps(rows'.steps)
  <2>1. Take("steps", "move", {op})
    BY <1>3 DEF MoveStep
  <2> DEFINE p == op[3]
  <2>2. p \in DOMAIN rows.steps /\ p \in DOMAIN snap.steps
    <3>1. <<"steps", "move", p>> \in Whole
      BY <1>0, <2>1, TakenId
    <3> QED
      BY <3>1, WholeIs DEF Moves, Kept, StepsHalfway
  <2> DEFINE order == snap.steps[p].order
  <2>3. order \in Int
    BY <1>0, <2>2 DEF AreSteps
  <2>4. OrderFree(order) /\ rows'.steps = [rows.steps EXCEPT ![p].order = order]
    BY <1>3, RowsAreColumns DEF MoveStep, SetOrder, WriteIf, Write, Rollback, Columns
  <2> HIDE DEF p, order
  <2> QED
    BY <1>0, <2>2, <2>3, <2>4, OrderSet DEF OrderFree
<1>4. ASSUME NEW op \in todo, UpdateStep(op)
      PROVE AreSteps(rows'.steps)
  <2>1. Take("steps", "update", {op})
    BY <1>4 DEF UpdateStep
  <2> DEFINE p == op[3]
             text == snap.steps[p].text
  <2>2. p \in DOMAIN rows.steps
    <3>1. <<"steps", "update", p>> \in Whole
      BY <1>0, <2>1, TakenId
    <3> QED
      BY <3>1, WholeIs DEF Kept, StepsHalfway
  <2>3. rows'.steps = [rows.steps EXCEPT ![p].text = text]
    BY <1>4, RowsAreColumns DEF UpdateStep, Write, Columns
  <2> HIDE DEF p, text
  <2>4. /\ IsTable(rows'.steps) /\ DOMAIN rows'.steps = DOMAIN rows.steps
        /\ \A q \in DOMAIN rows.steps : q # p => rows'.steps[q] = rows.steps[q]
        /\ rows'.steps[p] = [order |-> rows.steps[p].order, text |-> text]
    BY <1>0, <2>2, <2>3 DEF IsTable, AreSteps
  <2>5. OrdersDiffer(rows'.steps)
    BY <1>0, <2>2, <2>4 DEF AreSteps, OrdersDiffer
  <2>6. ASSUME NEW q \in DOMAIN rows'.steps
        PROVE /\ rows'.steps[q] = [order |-> rows'.steps[q].order, text |-> rows'.steps[q].text]
              /\ rows'.steps[q].order \in Int
    <3>1. CASE q = p
      <4>1. rows.steps[p].order \in Int
        BY <1>0, <2>2 DEF AreSteps
      <4> QED
        BY <2>4, <3>1, <4>1
    <3>2. CASE q # p
      BY <1>0, <2>4, <3>2 DEF AreSteps
    <3> QED
      BY <3>1, <3>2
  <2> QED
    BY <2>4, <2>5, <2>6 DEF AreSteps
<1>5. ASSUME NEW op \in todo, CreateStep(op)
      PROVE AreSteps(rows'.steps)
  <2>1. Take("steps", "create", {op})
    BY <1>5 DEF CreateStep
  <2> DEFINE ref == op[3]
  <2>2. ref \in DOMAIN snap.steps
    <3>1. <<"steps", "create", ref>> \in Whole
      BY <1>0, <2>1, TakenId
    <3> QED
      BY <3>1, WholeIs DEF StepCreates
  <2>3. OrderFree(snap.steps[ref].order) /\ rows'.steps = With(rows.steps, Fresh(ref), snap.steps[ref])
    BY <1>5, RowsAreColumns DEF CreateStep, WriteIf, Write, Rollback, Columns
  <2> HIDE DEF ref
  <2>4. /\ IsTable(rows'.steps) /\ DOMAIN rows'.steps = DOMAIN rows.steps \cup {Fresh(ref)}
        /\ \A q \in DOMAIN rows.steps : q # Fresh(ref) => rows'.steps[q] = rows.steps[q]
        /\ rows'.steps[Fresh(ref)] = snap.steps[ref]
    BY <2>3 DEF IsTable, With
  <2>5. OrdersDiffer(rows'.steps)
    BY <1>0, <2>3, <2>4 DEF AreSteps, OrdersDiffer, OrderFree
  <2>6. ASSUME NEW q \in DOMAIN rows'.steps
        PROVE /\ rows'.steps[q] = [order |-> rows'.steps[q].order, text |-> rows'.steps[q].text]
              /\ rows'.steps[q].order \in Int
    BY <1>0, <2>2, <2>4 DEF AreSteps
  <2> QED
    BY <2>4, <2>5, <2>6 DEF AreSteps
<1>6. ASSUME NEW op \in todo, DeleteStep(op)
      PROVE AreSteps(rows'.steps)
  <2>1. rows'.steps = Without(rows.steps, {op[3]})
    BY <1>6, RowsAreColumns DEF DeleteStep, Write, Columns
  <2>2. /\ IsTable(rows'.steps) /\ DOMAIN rows'.steps \subseteq DOMAIN rows.steps
        /\ \A q \in DOMAIN rows'.steps : rows'.steps[q] = rows.steps[q]
    BY <2>1 DEF IsTable, Without
  <2> QED
    BY <1>0, <2>2 DEF AreSteps, OrdersDiffer
<1> QED
  BY <1>1, <1>2, <1>3, <1>4, <1>5, <1>6 DEF Frames, StepsStep

\* Every link is one of a step there is: those of the steps to be created come after them.
LEMMA LinkedStepsExist ==
    ASSUME InOrder, input \in Inputs, Sound(input, snap), StepsHalfway, LinksHalfway
    PROVE \A link \in rows.stepSkills \cup rows.stepResources :
             link = <<link[1], link[2]>> /\ link[1] \in DOMAIN rows.steps
<1>1. ASSUME NEW section \in {"stepSkills", "stepResources"}, NEW link \in Remaining(section)
      PROVE link = <<link[1], link[2]>> /\ link[1] \in DOMAIN rows.steps
  BY <1>1, LiveIs DEF Remaining, IsRows
<1>2. ASSUME NEW section \in {"stepSkills", "stepResources"}, NEW link \in Linked(section)
      PROVE ResolveStep(link[1]) \in DOMAIN rows.steps
  <2>1. link[1] \in DOMAIN snap.steps
    BY <1>2, LinksResolve
  <2>2. CASE link[1] \in StepCreates(live, snap)
    <3>1. ~Waits("steps", "create", link[1])
      <4> SUFFICES ASSUME Waits("steps", "create", link[1]) PROVE FALSE
        OBVIOUS
      <4>1. By("steps", "create") # {}
        BY NoneWaits DEF InOrder
      <4>2. <<section, "link", link>> \in Whole
        BY <1>2, WholeIs DEF Linked
      <4>3. PICK m \in {11, 13} : Stages[m] = <<section, "link">>
        BY DEF Stages
      <4>4. 9 \in DOMAIN Stages /\ m \in DOMAIN Stages /\ 9 < m /\ Stages[9] = <<"steps", "create">>
        BY DEF Stages
      <4>5. <<section, "link", link>> \in todo
        BY <4>1, <4>2, <4>3, <4>4 DEF InOrder
      <4> QED
        BY <1>2, <4>5 DEF Linked, Waits
    <3> QED
      BY <2>2, <3>1 DEF ResolveStep, StepsHalfway
  <2>3. CASE link[1] \notin StepCreates(live, snap)
    BY <2>1, <2>3 DEF ResolveStep, StepCreates, Kept, StepsHalfway
  <2> QED
    BY <2>2, <2>3
<1> QED
  BY <1>1, <1>2 DEF LinksHalfway

LEMMA PathwayExists ==
    ASSUME InOrder, input \in Inputs, Sound(input, snap), StepsHalfway, PathwayHalfway,
           DOMAIN snap.steps # {}
    PROVE snap.pathway # Null /\ (DOMAIN rows.steps # {} => rows.pathway # Null)
<1>1. snap.pathway # Null
  BY DEF Sound
<1>2. ASSUME DOMAIN rows.steps # {}, rows.pathway = Null
      PROVE FALSE
  <2>1. rows.pathway = live.pathway
    BY <1>1, <1>2 DEF PathwayHalfway
  <2>2. DOMAIN live.steps = {}
    BY <1>2, <2>1, LiveIs DEF SatisfiesSchema
  <2>3. PICK ref \in StepCreates(live, snap) : ~Waits("steps", "create", ref)
    BY <1>2, <2>2 DEF StepsHalfway
  <2>4. PICK kind \in {"create", "update", "delete"} : By("pathway", kind) # {}
    BY <1>1, <1>2 DEF PathwayHalfway
  <2>5. kind # "delete"
    <3> SUFFICES ASSUME kind = "delete" PROVE FALSE
      OBVIOUS
    <3>1. \E id : <<"pathway", "delete", id>> \in Whole
      BY <2>4, NoneWaits DEF InOrder, Waits
    <3> QED
      BY <1>1, <3>1 DEF Whole, BuildPlan, PlanCareerFields, PlanPathway, PlanSkills, PlanResources,
         PlanOutlook, PlanSteps, PlanStepLinks, Op
  <2>6. PICK n \in {4, 5} : Stages[n] = <<"pathway", kind>>
    BY <2>5 DEF Stages
  <2>7. 9 \in DOMAIN Stages /\ n \in DOMAIN Stages /\ n < 9 /\ Stages[9] = <<"steps", "create">>
    BY DEF Stages
  <2>8. <<"steps", "create", ref>> \in Whole
    BY WholeIs
  <2>9. <<"steps", "create", ref>> \in todo
    BY <2>4, <2>6, <2>7, <2>8 DEF InOrder
  <2> QED
    BY <2>3, <2>9 DEF Waits
<1> QED
  BY <1>1, <1>2

\* A link is made to a resource there is, and none is deleted that a step links.
LEMMA LinkedResourcesStay ==
    ASSUME InOrder, IsRows(rows), input \in Inputs, Sound(input, snap), DoomedUnlinked,
           \A link \in rows.stepResources : link[2] \in DOMAIN rows.resources,
           Frames, result' # "failed"
    PROVE \A link \in rows'.stepResources : link[2] \in DOMAIN rows'.resources
<1>0. todo \subseteq Whole
  BY DEF InOrder
<1>1. CASE rows'["stepResources"] = rows["stepResources"] /\ rows'["resources"] = rows["resources"]
  BY <1>1
<1>2. CASE ResourcesStep
  <2>1. CASE DeleteResource
    <3>1. /\ rows'.resources = Without(rows.resources, {doomed}) /\ doomed # Null
          /\ rows'.stepResources = rows.stepResources
      BY <2>1, RowsAreColumns DEF DeleteResource, Columns
    <3>2. \A link \in rows.stepResources : link[2] # doomed
      BY <3>1 DEF DoomedUnlinked, LinkedBy
    <3> QED
      BY <3>1, <3>2 DEF Without
  <2>2. CASE \E op \in todo : CreateResource(op) \/ UpdateResource(op) \/ CountReferences(op)
    <3>1. PICK op \in todo : CreateResource(op) \/ UpdateResource(op) \/ CountReferences(op)
      BY <2>2
    <3>2. /\ DOMAIN rows.resources \subseteq DOMAIN rows'.resources
          /\ rows'.stepResources = rows.stepResources
      BY <3>1, RowsAreColumns DEF CreateResource, UpdateResource, CountReferences,
         WriteIf, Write, Rollback, With, Columns
    <3> QED
      BY <3>2
  <2> QED
    BY <1>2, <2>1, <2>2 DEF ResourcesStep
<1>3. CASE StepsStep
  <2>1. rows'.stepResources \subseteq rows.stepResources
    BY <1>3, StepsLeave
  <2>2. rows'.resources = rows.resources
    <3>1. PICK op \in todo :
            OffsetStep(op) \/ MoveStep(op) \/ UpdateStep(op) \/ CreateStep(op) \/ DeleteStep(op)
      BY <1>3 DEF StepsStep
    <3> QED
      BY <3>1, RowsAreColumns DEF OffsetStep, MoveStep, UpdateStep, CreateStep, DeleteStep,
         SetOrder, WriteIf, Write, Rollback, Columns
  <2> QED
    BY <2>1, <2>2
<1>4. CASE LinksStep
  <2>1. PICK op \in todo : LinkStep(op) \/ UnlinkStep(op)
    BY <1>4 DEF LinksStep
  <2>2. /\ rows'.resources = rows.resources
        /\ \A link \in rows'.stepResources : link \in rows.stepResources \/ link[2] \in DOMAIN rows.resources
    BY <2>1, RowsAreColumns DEF LinkStep, UnlinkStep, WriteIf, Write, Rollback, Columns
  <2> QED
    BY <2>2
<1> QED
  BY <1>1, <1>2, <1>3, <1>4 DEF Frames

-----------------------------------------------------------------------------
(***************************************************************************)
(* Failure.                                                                *)
(***************************************************************************)
\* A plan without blockers keeps skills and steps, required fields, and the steps
\* that somebody has completed.
LEMMA Unblocked ==
    ASSUME NEW l, NEW s, NEW c, Blockers(l, s, c) = {}
    PROVE /\ DOMAIN s.skills # {} /\ DOMAIN s.steps # {}
          /\ ~Lacking(s.career)
          /\ c \cap DOMAIN l.steps \subseteq DOMAIN s.steps
<1>1. ASSUME NEW p \in c \cap DOMAIN l.steps, p \notin DOMAIN s.steps
      PROVE FALSE
  <2>1. <<"STEP_HAS_PROGRESS", p>> \in Blockers(l, s, c)
    BY <1>1 DEF Blockers, Blocker, Removed
  <2> QED
    BY <2>1
<1>2. ASSUME Lacking(s.career) PROVE FALSE
  <2>1. <<"MISSING_CAREER_FIELD", "career">> \in Blockers(l, s, c)
    BY <1>2 DEF Blockers, Blocker
  <2> QED
    BY <2>1
<1>3. ASSUME DOMAIN s.skills = {} PROVE FALSE
  <2>1. <<"NO_SKILLS", "career">> \in Blockers(l, s, c)
    BY <1>3 DEF Blockers, Blocker
  <2> QED
    BY <2>1
<1>4. ASSUME DOMAIN s.steps = {} PROVE FALSE
  <2>1. <<"NO_PATHWAY_STEPS", "career">> \in Blockers(l, s, c)
    BY <1>4 DEF Blockers, Blocker
  <2> QED
    BY <2>1
<1> QED
  BY <1>1, <1>2, <1>3, <1>4

\* Where the live steps are: a moved one at its order, its offset or its new order.
LEMMA WhereStepsAre ==
    ASSUME InOrder, StepsHalfway, NEW q \in DOMAIN rows.steps \cap DOMAIN live.steps
    PROVE /\ q \notin DOMAIN snap.steps => rows.steps[q].order = live.steps[q].order
          /\ q \in DOMAIN snap.steps \ Moves(live, snap) =>
                rows.steps[q].order = live.steps[q].order /\ rows.steps[q].order = snap.steps[q].order
          /\ q \in Moves(live, snap) =>
                IF Waits("steps", "offset", q) THEN rows.steps[q].order = live.steps[q].order
                ELSE IF Waits("steps", "move", q) THEN rows.steps[q].order = live.steps[q].order + Offset
                ELSE rows.steps[q].order = snap.steps[q].order
<1>1. rows.steps[q].order = HalfwayOrder(q)
  BY DEF StepsHalfway
<1>2. q \notin Moves(live, snap) => ~Waits("steps", "offset", q) /\ ~Waits("steps", "move", q)
  BY WholeIs DEF InOrder, Waits
<1>3. q \in Moves(live, snap) => q \in DOMAIN snap.steps
  BY DEF Moves, Kept
<1>4. q \in DOMAIN snap.steps \ Moves(live, snap) => live.steps[q].order = snap.steps[q].order
  BY DEF Moves, Kept
<1> QED
  BY <1>1, <1>2, <1>3, <1>4 DEF HalfwayOrder

\* A failed offset, move or insert met another step.
LEMMA StepsFail ==
    ASSUME InOrder, IsRows(rows), input \in Inputs, Sound(input, snap), DOMAIN snap.steps # {},
           PathwayHalfway, StepsHalfway, result # "failed", StepsStep, result' = "failed"
    PROVE Conflict \/ OffsetReached
<1> USE DEF InOrder
<1>0. /\ todo \subseteq Whole
      /\ \A p \in DOMAIN live.steps : live.steps[p].order \in Int
      /\ \A p, q \in DOMAIN live.steps : live.steps[p].order = live.steps[q].order => p = q
      /\ \A p, q \in DOMAIN snap.steps : snap.steps[p].order = snap.steps[q].order => p = q
      /\ \A p \in DOMAIN snap.steps : snap.steps[p].order \in Int
      /\ Offset \in Int /\ Offset # 0 /\ MaxOrder \in Int
  BY LiveIs DEF IsRows, SatisfiesSchema, Sound
<1>1. ASSUME NEW op \in todo, OffsetStep(op)
      PROVE OffsetReached
  <2>1. Take("steps", "offset", {op})
    BY <1>1 DEF OffsetStep
  <2> DEFINE p == op[3]
  <2>2. p \in Moves(live, snap) /\ Waits("steps", "offset", p)
    <3>1. <<"steps", "offset", p>> \in Whole /\ Waits("steps", "offset", p)
      BY <1>0, <2>1, TakenId
    <3> QED
      BY <3>1, WholeIs
  <2> DEFINE order == rows.steps[p].order + Offset
  <2>3. ~(order <= MaxOrder /\ OrderFree(order))
    BY <1>1 DEF OffsetStep, SetOrder, WriteIf, Write
  <2>4. /\ 6 \in 1..22 /\ Stages[6] = <<"steps", "offset">>
        /\ 7 \in (6 + 1)..22 /\ Stages[7] = <<"steps", "move">>
        /\ 9 \in (6 + 1)..22 /\ Stages[9] = <<"steps", "create">>
    BY DEF Stages
  <2>5. \A r \in Moves(live, snap) : <<"steps", "move", r>> \in Whole
    BY WholeIs
  <2>6. \A r \in Moves(live, snap) : Waits("steps", "move", r)
    BY <2>1, <2>4, <2>5, LaterAhead
  <2>7. \A r \in StepCreates(live, snap) : <<"steps", "create", r>> \in Whole
    BY WholeIs
  <2>8. \A r \in StepCreates(live, snap) : Waits("steps", "create", r)
    BY <2>1, <2>4, <2>7, LaterAhead
  <2> HIDE DEF p
  <2>9. p \in DOMAIN live.steps /\ p \in DOMAIN rows.steps
    BY <2>2, <2>8 DEF StepsHalfway, Moves, Kept
  <2>10. rows.steps[p].order = live.steps[p].order
    BY <2>2, <2>9, WhereStepsAre
  <2>11. CASE ~(order <= MaxOrder)
    <3>1. live.steps[p].order + Offset > MaxOrder
      BY <1>0, <2>9, <2>10, <2>11
    <3> QED
      BY <2>2, <3>1 DEF OffsetReached
  <2>12. CASE ~OrderFree(order)
    <3>1. PICK q \in DOMAIN rows.steps : rows.steps[q].order = rows.steps[p].order + Offset
      BY <2>12 DEF OrderFree
    <3>2. q \in DOMAIN live.steps
      BY <2>8 DEF StepsHalfway
    <3>3. \/ rows.steps[q].order = live.steps[q].order
          \/ rows.steps[q].order = live.steps[q].order + Offset /\ ~Waits("steps", "offset", q)
      BY <2>6, <3>2, WhereStepsAre
    <3>4. rows.steps[q].order = live.steps[q].order
      <4> SUFFICES ASSUME rows.steps[q].order = live.steps[q].order + Offset, ~Waits("steps", "offset", q)
                   PROVE FALSE
        BY <3>3
      <4>1. live.steps[q].order = live.steps[p].order
        BY <1>0, <2>9, <2>10, <3>1, <3>2
      <4> QED
        BY <1>0, <2>2, <2>9, <3>2, <4>1
    <3> QED
      BY <2>2, <2>10, <3>1, <3>2, <3>4 DEF OffsetReached
  <2> QED
    BY <2>3, <2>11, <2>12
<1>2. ASSUME NEW op \in todo, MoveStep(op)
      PROVE Conflict \/ OffsetReached
  <2>1. Take("steps", "move", {op})
    BY <1>2 DEF MoveStep
  <2> DEFINE p == op[3]
  <2>2. p \in Moves(live, snap) /\ Waits("steps", "move", p)
    <3>1. <<"steps", "move", p>> \in Whole /\ Waits("steps", "move", p)
      BY <1>0, <2>1, TakenId
    <3> QED
      BY <3>1, WholeIs
  <2>3. ~(snap.steps[p].order <= MaxOrder /\ OrderFree(snap.steps[p].order))
    BY <1>2 DEF MoveStep, SetOrder, WriteIf, Write
  <2>4. /\ 7 \in 1..22 /\ Stages[7] = <<"steps", "move">>
        /\ 6 \in 1..(7 - 1) /\ Stages[6] = <<"steps", "offset">>
        /\ 9 \in (7 + 1)..22 /\ Stages[9] = <<"steps", "create">>
    BY DEF Stages
  <2>5. \A r : ~Waits("steps", "offset", r)
    BY <2>1, <2>4, EarlierDone
  <2>6. \A r \in StepCreates(live, snap) : <<"steps", "create", r>> \in Whole
    BY WholeIs
  <2>7. \A r \in StepCreates(live, snap) : Waits("steps", "create", r)
    BY <2>1, <2>4, <2>6, LaterAhead
  <2> HIDE DEF p
  <2>8. p \in DOMAIN snap.steps
    BY <2>2 DEF Moves, Kept
  <2>9. CASE ~(snap.steps[p].order <= MaxOrder)
    <3>1. snap.steps[p].order > MaxOrder
      BY <1>0, <2>8, <2>9
    <3> QED
      BY <2>2, <3>1 DEF Conflict
  <2>10. CASE ~OrderFree(snap.steps[p].order)
    <3>1. PICK q \in DOMAIN rows.steps : rows.steps[q].order = snap.steps[p].order
      BY <2>10 DEF OrderFree
    <3>2. q \in DOMAIN live.steps
      BY <2>7 DEF StepsHalfway
    <3>3. CASE q \notin DOMAIN snap.steps
      <4>1. live.steps[q].order = snap.steps[p].order
        BY <3>1, <3>2, <3>3, WhereStepsAre
      <4> QED
        BY <2>2, <3>2, <3>3, <4>1 DEF Conflict, Kept
    <3>4. CASE q \in DOMAIN snap.steps /\ q \notin Moves(live, snap)
      <4>1. snap.steps[q].order = snap.steps[p].order
        BY <3>1, <3>2, <3>4, WhereStepsAre
      <4> QED
        BY <1>0, <2>2, <2>8, <3>4, <4>1
    <3>5. CASE q \in Moves(live, snap) /\ Waits("steps", "move", q)
      <4>1. live.steps[q].order + Offset = snap.steps[p].order
        BY <2>5, <3>1, <3>2, <3>5, WhereStepsAre
      <4> QED
        BY <2>2, <3>5, <4>1 DEF OffsetReached
    <3>6. CASE q \in Moves(live, snap) /\ ~Waits("steps", "move", q)
      <4>1. snap.steps[q].order = snap.steps[p].order /\ q \in DOMAIN snap.steps
        BY <2>5, <3>1, <3>2, <3>6, WhereStepsAre DEF Moves, Kept
      <4> QED
        BY <1>0, <2>2, <2>8, <3>6, <4>1
    <3> QED
      BY <3>3, <3>4, <3>5, <3>6
  <2> QED
    BY <2>3, <2>9, <2>10
<1>3. ASSUME NEW op \in todo, CreateStep(op)
      PROVE Conflict
  <2>1. Take("steps", "create", {op})
    BY <1>3 DEF CreateStep
  <2> DEFINE p == op[3]
  <2>2. p \in StepCreates(live, snap) /\ Waits("steps", "create", p)
    <3>1. <<"steps", "create", p>> \in Whole /\ Waits("steps", "create", p)
      BY <1>0, <2>1, TakenId
    <3> QED
      BY <3>1, WholeIs
  <2>3. /\ 9 \in 1..22 /\ Stages[9] = <<"steps", "create">>
        /\ 6 \in 1..(9 - 1) /\ Stages[6] = <<"steps", "offset">>
        /\ 7 \in 1..(9 - 1) /\ Stages[7] = <<"steps", "move">>
        /\ 4 \in 1..(9 - 1) /\ Stages[4] = <<"pathway", "create">>
        /\ 5 \in 1..(9 - 1) /\ Stages[5] = <<"pathway", "update">>
    BY DEF Stages
  <2>4. \A r : ~Waits("steps", "offset", r) /\ ~Waits("steps", "move", r)
    BY <2>1, <2>3, EarlierDone
  <2>5. snap.pathway # Null
    BY PathwayExists
  <2>6. rows.pathway # Null
    <3>1. \A r : ~Waits("pathway", "create", r) /\ ~Waits("pathway", "update", r)
      BY <2>1, <2>3, EarlierDone
    <3>2. \A r : ~Waits("pathway", "delete", r)
      <4>1. \A r : <<"pathway", "delete", r>> \notin Whole
        BY <2>5 DEF Whole, BuildPlan, PlanCareerFields, PlanPathway, PlanSkills, PlanResources,
           PlanOutlook, PlanSteps, PlanStepLinks, Op
      <4> QED
        BY <1>0, <4>1 DEF Waits
    <3>3. \A kind \in {"create", "update", "delete"} : By("pathway", kind) = {}
      BY <1>0, <3>1, <3>2, NoneWaits
    <3> QED
      BY <2>5, <3>3 DEF PathwayHalfway
  <2>7. ~(snap.steps[p].order <= MaxOrder /\ OrderFree(snap.steps[p].order))
    BY <1>3, <2>6 DEF CreateStep, WriteIf, Write
  <2> HIDE DEF p
  <2>8. p \in DOMAIN snap.steps /\ p \notin DOMAIN live.steps
    BY <2>2 DEF StepCreates, Kept
  <2>9. CASE ~(snap.steps[p].order <= MaxOrder)
    <3>1. snap.steps[p].order > MaxOrder
      BY <1>0, <2>8, <2>9
    <3> QED
      BY <2>2, <3>1 DEF Conflict
  <2>10. CASE ~OrderFree(snap.steps[p].order)
    <3>1. PICK q \in DOMAIN rows.steps : rows.steps[q].order = snap.steps[p].order
      BY <2>10 DEF OrderFree
    <3>2. CASE q \in DOMAIN live.steps /\ q \notin DOMAIN snap.steps
      <4>1. live.steps[q].order = snap.steps[p].order
        BY <3>1, <3>2, WhereStepsAre
      <4> QED
        BY <2>2, <3>2, <4>1 DEF Conflict, Kept
    <3>3. CASE q \in DOMAIN live.steps /\ q \in DOMAIN snap.steps
      <4>1. snap.steps[q].order = snap.steps[p].order
        BY <2>4, <3>1, <3>3, WhereStepsAre
      <4> QED
        BY <1>0, <2>8, <3>3, <4>1
    <3>4. CASE q \notin DOMAIN live.steps
      <4>1. PICK ref \in StepCreates(live, snap) : q = Fresh(ref) /\ ~Waits("steps", "create", ref)
        BY <3>4 DEF StepsHalfway
      <4>2. snap.steps[ref].order = snap.steps[p].order /\ ref \in DOMAIN snap.steps
        BY <3>1, <4>1 DEF StepsHalfway, StepCreates
      <4> QED
        BY <1>0, <2>2, <2>8, <4>1, <4>2
    <3> QED
      BY <3>2, <3>3, <3>4
  <2> QED
    BY <2>7, <2>9, <2>10
<1>4. ASSUME NEW op \in todo, UpdateStep(op) \/ DeleteStep(op)
      PROVE FALSE
  BY <1>4 DEF UpdateStep, DeleteStep, Write
<1> QED
  BY <1>1, <1>2, <1>3, <1>4 DEF StepsStep

\* So did a statement on anything else, with what is there, or with what others have.
LEMMA OthersFail ==
    ASSUME InOrder, IsRows(rows), input \in Inputs, Sound(input, snap),
           OutlookHalfway, ResourcesHalfway, Guarded, result # "failed",
           Publication, ~StepsStep, result' = "failed"
    PROVE Conflict
<1>0. todo \subseteq Whole
  BY DEF InOrder
<1> DEFINE plan == BuildPlan(live, snap, input.completed)
<1>1. ASSUME NEW section, NEW kind, kind # "offset", NEW kinds, kind \in kinds,
             NEW id, <<section, kind, id>> \in Whole
      PROVE id \in RowsOf(plan, section, kinds)
  <2> DEFINE op == <<section, kind, id>>
  <2>1. op \in plan
    BY <1>1 DEF Whole, Op
  <2>2. op[1] = section /\ op[2] = kind /\ op[3] = id
    OBVIOUS
  <2> HIDE DEF op
  <2> QED
    BY <1>1, <2>1, <2>2 DEF RowsOf
<1> HIDE DEF plan
<1>2. CASE UpdateCareer
  <2> DEFINE new == [rows EXCEPT !.career = snap.career]
  <2>1. ~(Keys(new) \cap taken = {} /\ snap.career.field \in AllFields)
    BY <1>2 DEF UpdateCareer, WriteIf, Write
  <2>2. CASE snap.career.field \notin AllFields
    BY <2>2 DEF Conflict
  <2>3. CASE Keys(new) \cap taken # {}
    <3>1. new.career = snap.career /\ new.outlook = rows.outlook
      BY RowsAreColumns DEF Columns
    <3> HIDE DEF new
    <3>2. PICK key \in Keys(new) : key \in taken
      BY <2>3
    <3>3. key \in Keys(snap) \/ key \in Keys(rows)
      BY <3>1, <3>2 DEF Keys
    <3>4. key \in Keys(snap) \cap taken
      BY <3>2, <3>3 DEF Guarded
    <3> QED
      BY <3>4 DEF Conflict
  <2> QED
    BY <2>1, <2>2, <2>3
<1>3. ASSUME NEW op \in todo, LinkStep(op), Take("stepSkills", "link", {op})
      PROVE Conflict
  <2>1. op = <<"stepSkills", "link", op[3]>> /\ op \in Whole
    BY <1>0, <1>3, Taken
  <2>2. op[3][2] \notin AllSkills
    BY <1>3, <2>1 DEF LinkStep, Take, By, WriteIf, Write
  <2>3. op[3] \in RowsOf(plan, "stepSkills", {"link"})
    BY <1>1, <2>1
  <2> QED
    BY <2>2, <2>3 DEF Conflict, plan
<1>4. ASSUME NEW op \in todo, LinkStep(op), Take("stepResources", "link", {op})
      PROVE Conflict
  <2>1. op = <<"stepResources", "link", op[3]>> /\ op \in Whole
    BY <1>0, <1>4, Taken
  <2> DEFINE x == op[3][2]
  <2>2. ResolveResource(x) \notin DOMAIN rows.resources \ gone
    BY <1>4, <2>1 DEF LinkStep, Take, By, WriteIf, Write
  <2>3. op[3] \in snap.stepResources
    <3>1. <<"stepResources", "link", op[3]>> \in Whole
      BY <1>0, <1>4, TakenId
    <3> QED
      BY <3>1, WholeIs
  <2>4. /\ 13 \in 1..22 /\ Stages[13] = <<"stepResources", "link">>
        /\ 1 \in 1..(13 - 1) /\ Stages[1] = <<"resources", "create">>
        /\ 15 \in (13 + 1)..22 /\ Stages[15] = <<"resources", "unlink">>
    BY DEF Stages
  <2>5. \A r : ~Waits("resources", "create", r)
    BY <1>4, <2>4, EarlierDone
  <2>6. ASSUME NEW r, <<"resources", "unlink", r>> \in Whole PROVE Waits("resources", "unlink", r)
    BY <1>4, <2>4, <2>6, LaterAhead
  <2>7. DOMAIN live.resources \subseteq DOMAIN rows.resources
    <3> SUFFICES ASSUME NEW y \in DOMAIN live.resources \ DOMAIN rows.resources
                 PROVE FALSE
      OBVIOUS
    <3>1. y \in LinkedBy(live) \ DOMAIN snap.resources /\ ~Waits("resources", "unlink", y)
      BY DEF ResourcesHalfway
    <3> QED
      BY <2>6, <3>1, WholeIs
  <2>8. x \notin TempIds
    <3> SUFFICES ASSUME x \in TempIds PROVE FALSE
      OBVIOUS
    <3>1. x \in ResourceCreates
      BY <2>3 DEF Sound, ResourceCreates
    <3>2. ResolveResource(x) = Fresh(x) /\ Fresh(x) \in DOMAIN rows.resources
      BY <2>5, <3>1 DEF ResolveResource, ResourcesHalfway, ResourceCreates
    <3>3. Fresh(x) \notin gone
      BY FreshIds DEF Guarded
    <3> QED
      BY <2>2, <3>2, <3>3
  <2>9. x \notin (DOMAIN live.resources \ gone) \cup TempIds
    BY <2>2, <2>7, <2>8 DEF ResolveResource
  <2>10. op[3] \in RowsOf(plan, "stepResources", {"link"})
    BY <1>1, <2>1
  <2> QED
    BY <2>9, <2>10 DEF Conflict, plan
<1>5. ASSUME NEW op \in todo, LinkSkill(op)
      PROVE Conflict
  <2>1. op = <<"skills", "link", op[3]>> /\ op \in Whole
    BY <1>0, <1>5, Taken DEF LinkSkill
  <2>2. op[3] \notin AllSkills
    BY <1>5 DEF LinkSkill, WriteIf, Write
  <2>3. op[3] \in RowsOf(plan, "skills", {"link"})
    BY <1>1, <2>1
  <2> QED
    BY <2>2, <2>3 DEF Conflict, plan
<1>6. ASSUME NEW op \in todo, CreateOutlook(op)
      PROVE Conflict
  <2>1. op = <<"outlook", "create", op[3]>> /\ op \in Whole /\ op \in todo
    BY <1>0, <1>6, Taken DEF CreateOutlook
  <2> DEFINE o == op[3]
             row == snap.outlook[o]
  <2>2. ~(o \notin DOMAIN rows.outlook /\ <<"outlook", o>> \notin taken /\ OutlookFits(row))
    BY <1>6 DEF CreateOutlook, WriteIf, Write
  <2>3. Waits("outlook", "create", o)
    BY <2>1 DEF Waits
  <2>4. o \in DOMAIN snap.outlook
    <3>1. <<"outlook", "create", o>> \in Whole
      BY <2>1
    <3> QED
      BY <3>1, WholeIs DEF OutlookCreates
  <2>5. CASE o \in DOMAIN rows.outlook
    <3>1. o \in DOMAIN live.outlook
      BY <2>3, <2>5 DEF OutlookHalfway
    <3>2. o \in RowsOf(plan, "outlook", {"create"})
      BY <1>1, <2>1
    <3> QED
      BY <3>1, <3>2 DEF Conflict, plan
  <2> HIDE DEF o
  <2>6. CASE <<"outlook", o>> \in taken
    <3>1. <<"outlook", o>> \in Keys(snap) \cap taken
      BY <2>4, <2>6 DEF Keys
    <3> QED
      BY <3>1 DEF Conflict
  <2>7. CASE ~OutlookFits(row)
    BY <2>4, <2>7 DEF Conflict
  <2> QED
    BY <2>2, <2>5, <2>6, <2>7
<1>7. ASSUME NEW op \in todo, UpdateOutlook(op)
      PROVE Conflict
  <2>1. op[3] \in DOMAIN snap.outlook
    <3>1. <<"outlook", "update", op[3]>> \in Whole
      BY <1>0, <1>7, TakenId DEF UpdateOutlook
    <3> QED
      BY <3>1, WholeIs DEF Changed
  <2>2. ~OutlookFits(snap.outlook[op[3]])
    BY <1>7 DEF UpdateOutlook, WriteIf, Write
  <2> QED
    BY <2>1, <2>2 DEF Conflict
<1>10. ASSUME NEW op \in todo, CreateResource(op) \/ UpdateResource(op)
       PROVE Conflict
  <2>1. \/ Take("resources", "create", {op})
        \/ Take("resources", "update", {op})
    BY <1>10 DEF CreateResource, UpdateResource
  <2>2. ~ResourceFits(snap.resources[op[3]])
    BY <1>10 DEF CreateResource, UpdateResource, WriteIf, Write
  <2>3. PICK kind \in {"create", "update"} : <<"resources", kind, op[3]>> \in Whole
    BY <1>0, <2>1, TakenId
  <2>4. op[3] \in RowsOf(plan, "resources", {"create", "update"})
    BY <1>1, <2>3
  <2> QED
    BY <2>2, <2>4 DEF Conflict, plan
<1>11. ASSUME NEW op \in todo,
              \/ CountReferences(op) \/ UnlinkStep(op)
              \/ UpdateSkill(op) \/ UnlinkSkill(op) \/ DeleteOutlook(op)
       PROVE FALSE
  BY <1>11 DEF CountReferences, UnlinkStep, UpdateSkill, UnlinkSkill, DeleteOutlook, Write
<1>8. CASE WritePathway \/ DeleteResource \/ Commit \/ Interrupt
  BY <1>8 DEF WritePathway, DeleteResource, Commit, Interrupt, Write
<1>9. ASSUME NEW op \in todo, LinkStep(op)
      PROVE Conflict
  BY <1>3, <1>4, <1>9 DEF LinkStep
<1> QED
  BY <1>2, <1>5, <1>6, <1>7, <1>8, <1>9, <1>10, <1>11 DEF Publication, Statement, StepsStep

-----------------------------------------------------------------------------
(***************************************************************************)
(* The invariant holds.                                                    *)
(***************************************************************************)
LEMMA PublicationStarts ==
    ASSUME input \in Inputs, Sound(input, snap), Blockers(live, snap, input.completed) = {},
           rows = live, doomed = Null,
           rows' = rows, input' = input, snap' = snap, doomed' = doomed, todo' = Whole
    PROVE Halfway'
<1>1. /\ live' = live /\ Whole' = Whole
      /\ \A section, kind, id : Waits(section, kind, id)' <=> <<section, kind, id>> \in Whole
  BY DEF live, Whole, Waits
<1>2. InOrder'
  BY <1>1 DEF InOrder
<1>3. \A section, kind : By(section, kind)' = {} <=> \A id : <<section, kind, id>> \notin Whole
  BY <1>1, NoneWaitsNext
<1>4. CareerHalfway'
  <2>1. By("career", "update")' = {} => live.career = snap.career
    <3> SUFFICES ASSUME By("career", "update")' = {} PROVE live.career = snap.career
      OBVIOUS
    <3>1. \A id : <<"career", "update", id>> \notin Whole
      BY <1>3
    <3>4. ASSUME NEW id \in Changed(live.career, snap.career) PROVE FALSE
      BY <3>1, WholeIs
    <3>2. IsCareer(live.career) /\ IsCareer(snap.career)
      BY LiveIs DEF IsRows, Sound
    <3>3. \A c : IsCareer(c) => DOMAIN c = {"slug", "title", "field", "text"}
      BY DEF IsCareer
    <3>5. \A column \in {"slug", "title", "field", "text"} : live.career[column] = snap.career[column]
      BY <3>2, <3>3, <3>4 DEF Changed
    <3> QED
      BY <3>2, <3>5 DEF IsCareer
  <2> QED
    BY <1>1, <2>1 DEF CareerHalfway
<1>5. PathwayHalfway'
  <2>1. (\A kind \in {"create", "update", "delete"} : By("pathway", kind)' = {}) => live.pathway = snap.pathway
    BY <1>3, PathwayPlanned
  <2> QED
    BY <1>1, <2>1 DEF PathwayHalfway
<1>6. SkillsHalfway'
  BY <1>1, WholeIs DEF SkillsHalfway, New, Changed
<1>7. OutlookHalfway'
  BY <1>1, WholeIs DEF OutlookHalfway, OutlookCreates, Changed
<1>8. StepsHalfway'
  <2>1. \A p \in DOMAIN live.steps \ DOMAIN snap.steps : p \notin input.completed
    BY Unblocked
  <2>2. \A p \in DOMAIN live.steps : live.steps[p].order = HalfwayOrder(p)' /\ live.steps[p].text = HalfwayText(p)'
    BY <1>1, WholeIs DEF HalfwayOrder, HalfwayText, Moves, Kept
  <2>3. \A p \in DOMAIN live.steps : p \in DOMAIN snap.steps \/ <<"steps", "delete", p>> \in Whole
    BY <2>1, WholeIs DEF Kept
  <2>4. /\ \A ref \in StepCreates(live, snap) : <<"steps", "create", ref>> \in Whole
        /\ \A ref \in Moves(live, snap) : <<"steps", "move", ref>> \in Whole
    BY WholeIs
  <2>5. StepCreates(live, snap)' = StepCreates(live, snap) /\ Moves(live, snap)' = Moves(live, snap)
    BY <1>1 DEF StepCreates, Moves, Kept
  <2> QED
    BY <1>1, <2>2, <2>3, <2>4, <2>5 DEF StepsHalfway
<1>9. LinksHalfway'
  <2>1. \A link \in live.stepSkills \cup live.stepResources : link[1] \in DOMAIN live.steps
    BY LiveIs DEF SatisfiesSchema
  <2>2. Kept(live, snap)' = Kept(live, snap)
    BY <1>1 DEF Kept
  <2>3. Remaining("stepSkills")' = live.stepSkills /\ Linked("stepSkills")' = {}
    BY <1>1, <2>1, <2>2, WholeIs DEF Remaining, Linked, Kept
  <2>4. Remaining("stepResources")' = live.stepResources /\ Linked("stepResources")' = {}
    BY <1>1, <2>1, <2>2, WholeIs DEF Remaining, Linked, Kept
  <2> QED
    BY <2>3, <2>4 DEF LinksHalfway
<1>10. ResourcesHalfway'
  BY <1>1, WholeIs DEF ResourcesHalfway, ResourceCreates, LinkedBy
<1>11. DoomedUnlinked'
  BY DEF DoomedUnlinked
<1> QED
  BY <1>2, <1>4, <1>5, <1>6, <1>7, <1>8, <1>9, <1>10, <1>11 DEF Halfway

LEMMA InitPublicationInv ==
    ASSUME Init
    PROVE PublicationInv
<1>1. input \in Inputs /\ rows = live /\ result = "editing" /\ doomed = Null
  BY DEF Init
<1>2. IsRows(live) /\ SatisfiesSchema(live) /\ Keys(live) \cap OtherKeys = {}
  BY <1>1, LiveIs
<1>3. Guarded
  BY <1>1, <1>2 DEF Init, Guarded, SatisfiesSchema
<1> QED
  BY <1>1, <1>2, <1>3 DEF PublicationInv, Typed, SnapshotSound, AtRest, Settled, SatisfiesSchema, OrdersDiffer

\* What the publication has written fits, as each statement checks it.
LEMMA ColumnsStayFit ==
    ASSUME InOrder, IsRows(rows), input \in Inputs, Sound(input, snap),
           StepsHalfway, Guarded, Frames, result' # "failed"
    PROVE ColumnsFit(rows')
<1>0. todo \subseteq Whole /\ ColumnsFit(rows)
  BY DEF InOrder, Guarded
<1>1. rows'.career.field \in AllFields
  <2>1. CASE UpdateCareer
    BY <2>1, RowsAreColumns DEF UpdateCareer, WriteIf, Write, Rollback, Columns
  <2>2. CASE rows'["career"] = rows["career"]
    BY <1>0, <2>2 DEF ColumnsFit
  <2> QED
    BY <2>1, <2>2 DEF Frames, CareerStep
<1>2. \A p \in DOMAIN rows'.steps : rows'.steps[p].order <= MaxOrder
  <2>1. CASE rows'["steps"] = rows["steps"]
    BY <1>0, <2>1 DEF ColumnsFit
  <2>2. ASSUME NEW op \in todo, OffsetStep(op) \/ MoveStep(op)
        PROVE \A p \in DOMAIN rows'.steps : rows'.steps[p].order <= MaxOrder
    <3>1. PICK order : order <= MaxOrder /\ rows'.steps = [rows.steps EXCEPT ![op[3]].order = order]
      BY <2>2, RowsAreColumns DEF OffsetStep, MoveStep, SetOrder, WriteIf, Write, Rollback, Columns
    <3>2. ASSUME NEW p \in DOMAIN rows.steps
          PROVE rows.steps[p] = [order |-> rows.steps[p].order, text |-> rows.steps[p].text]
      BY DEF IsRows
    <3> QED
      BY <1>0, <3>1, <3>2 DEF ColumnsFit
  <2>3. ASSUME NEW op \in todo, UpdateStep(op)
        PROVE \A p \in DOMAIN rows'.steps : rows'.steps[p].order <= MaxOrder
    <3>1. rows'.steps = [rows.steps EXCEPT ![op[3]].text = snap.steps[op[3]].text]
      BY <2>3, RowsAreColumns DEF UpdateStep, Write, Columns
    <3>2. ASSUME NEW p \in DOMAIN rows.steps
          PROVE rows.steps[p] = [order |-> rows.steps[p].order, text |-> rows.steps[p].text]
      BY DEF IsRows
    <3> QED
      BY <1>0, <3>1, <3>2 DEF ColumnsFit
  <2>4. ASSUME NEW op \in todo, CreateStep(op)
        PROVE \A p \in DOMAIN rows'.steps : rows'.steps[p].order <= MaxOrder
    <3>1. /\ snap.steps[op[3]].order <= MaxOrder
          /\ rows'.steps = With(rows.steps, Fresh(op[3]), snap.steps[op[3]])
      BY <2>4, RowsAreColumns DEF CreateStep, WriteIf, Write, Rollback, Columns
    <3> QED
      BY <1>0, <3>1 DEF ColumnsFit, With
  <2>5. ASSUME NEW op \in todo, DeleteStep(op)
        PROVE \A p \in DOMAIN rows'.steps : rows'.steps[p].order <= MaxOrder
    <3>1. rows'.steps = Without(rows.steps, {op[3]})
      BY <2>5, RowsAreColumns DEF DeleteStep, Write, Columns
    <3> QED
      BY <1>0, <3>1 DEF ColumnsFit, Without
  <2> QED
    BY <2>1, <2>2, <2>3, <2>4, <2>5 DEF Frames, StepsStep
<1>3. DOMAIN rows'.skills \subseteq AllSkills
  <2>1. CASE rows'["skills"] = rows["skills"]
    BY <1>0, <2>1 DEF ColumnsFit
  <2>2. ASSUME NEW op \in todo, LinkSkill(op) \/ UpdateSkill(op) \/ UnlinkSkill(op)
        PROVE DOMAIN rows'.skills \subseteq AllSkills
    BY <1>0, <2>2, RowsAreColumns
       DEF LinkSkill, UpdateSkill, UnlinkSkill, WriteIf, Write, Rollback, Columns, ColumnsFit, With, Without
  <2> QED
    BY <2>1, <2>2 DEF Frames, SkillsStep
<1>4. \A link \in rows'.stepSkills : link[2] \in AllSkills
  <2>1. CASE rows'["stepSkills"] = rows["stepSkills"]
    BY <1>0, <2>1 DEF ColumnsFit
  <2>2. CASE StepsStep
    <3>1. rows'.stepSkills \subseteq rows.stepSkills
      BY <2>2, StepsLeave
    <3> QED
      BY <1>0, <3>1 DEF ColumnsFit
  <2>3. ASSUME NEW op \in todo, LinkStep(op) \/ UnlinkStep(op)
        PROVE \A link \in rows'.stepSkills : link[2] \in AllSkills
    BY <1>0, <2>3, RowsAreColumns
       DEF LinkStep, UnlinkStep, WriteIf, Write, Rollback, Columns, ColumnsFit
  <2> QED
    BY <2>1, <2>2, <2>3 DEF Frames, LinksStep
<1>5. \A x \in DOMAIN rows'.resources : ResourceFits(rows'.resources[x])
  <2>1. CASE rows'["resources"] = rows["resources"]
    BY <1>0, <2>1 DEF ColumnsFit
  <2>2. ASSUME NEW op \in todo, CreateResource(op)
        PROVE \A x \in DOMAIN rows'.resources : ResourceFits(rows'.resources[x])
    <3>1. /\ ResourceFits(snap.resources[op[3]])
          /\ rows'.resources = With(rows.resources, Fresh(op[3]), snap.resources[op[3]])
      BY <2>2, RowsAreColumns DEF CreateResource, WriteIf, Write, Rollback, Columns
    <3> QED
      BY <1>0, <3>1 DEF ColumnsFit, With
  <2>3. ASSUME NEW op \in todo, UpdateResource(op)
        PROVE \A x \in DOMAIN rows'.resources : ResourceFits(rows'.resources[x])
    <3>1. /\ ResourceFits(snap.resources[op[3]])
          /\ rows'.resources = [rows.resources EXCEPT ![op[3]] = snap.resources[op[3]]]
      BY <2>3, RowsAreColumns DEF UpdateResource, WriteIf, Write, Rollback, Columns
    <3> QED
      BY <1>0, <3>1 DEF ColumnsFit
  <2>4. ASSUME NEW op \in todo, CountReferences(op)
        PROVE \A x \in DOMAIN rows'.resources : ResourceFits(rows'.resources[x])
    BY <1>0, <2>4 DEF CountReferences, ColumnsFit
  <2>5. CASE DeleteResource
    BY <1>0, <2>5, RowsAreColumns DEF DeleteResource, Without, Columns, ColumnsFit
  <2> QED
    BY <2>1, <2>2, <2>3, <2>4, <2>5 DEF Frames, ResourcesStep
<1>6. \A o \in DOMAIN rows'.outlook : OutlookFits(rows'.outlook[o])
  <2>1. CASE rows'["outlook"] = rows["outlook"]
    BY <1>0, <2>1 DEF ColumnsFit
  <2>2. ASSUME NEW op \in todo, CreateOutlook(op)
        PROVE \A o \in DOMAIN rows'.outlook : OutlookFits(rows'.outlook[o])
    <3>1. /\ OutlookFits(snap.outlook[op[3]])
          /\ rows'.outlook = With(rows.outlook, op[3], snap.outlook[op[3]])
      BY <2>2, RowsAreColumns DEF CreateOutlook, WriteIf, Write, Rollback, Columns
    <3> QED
      BY <1>0, <3>1 DEF ColumnsFit, With
  <2>3. ASSUME NEW op \in todo, UpdateOutlook(op)
        PROVE \A o \in DOMAIN rows'.outlook : OutlookFits(rows'.outlook[o])
    <3>1. /\ OutlookFits(snap.outlook[op[3]])
          /\ rows'.outlook = [rows.outlook EXCEPT ![op[3]] = snap.outlook[op[3]]]
      BY <2>3, RowsAreColumns DEF UpdateOutlook, WriteIf, Write, Rollback, Columns
    <3> QED
      BY <1>0, <3>1 DEF ColumnsFit
  <2>4. ASSUME NEW op \in todo, DeleteOutlook(op)
        PROVE \A o \in DOMAIN rows'.outlook : OutlookFits(rows'.outlook[o])
    <3>1. rows'.outlook = Without(rows.outlook, {op[3]})
      BY <2>4, RowsAreColumns DEF DeleteOutlook, Write, Columns
    <3> QED
      BY <1>0, <3>1 DEF ColumnsFit, Without
  <2> QED
    BY <2>1, <2>2, <2>3, <2>4 DEF Frames, OutlookStep
<1> QED
  BY <1>1, <1>2, <1>3, <1>4, <1>5, <1>6 DEF ColumnsFit

\* A key that the rows get was checked against those of other careers.
LEMMA KeysStayFree ==
    ASSUME IsRows(rows), Guarded, Frames, result' # "failed"
    PROVE Keys(rows') \cap taken = {}
<1>1. /\ <<"slug", rows'.career.slug>> \notin taken
      /\ <<"title", rows'.career.title>> \notin taken
  <2>1. CASE UpdateCareer
    <3> DEFINE new == [rows EXCEPT !.career = snap.career]
    <3>1. Keys(new) \cap taken = {} /\ rows' = new
      BY <2>1 DEF UpdateCareer, WriteIf, Write, Rollback
    <3> QED
      BY <3>1 DEF Keys
  <2>2. CASE rows'["career"] = rows["career"]
    BY <2>2 DEF Guarded, Keys
  <2> QED
    BY <2>1, <2>2 DEF Frames, CareerStep
<1>2. \A o \in DOMAIN rows'.outlook : <<"outlook", o>> \notin taken
  <2>1. \A o \in DOMAIN rows.outlook : <<"outlook", o>> \notin taken
    BY DEF Guarded, Keys
  <2>2. CASE rows'["outlook"] = rows["outlook"]
    BY <2>1, <2>2
  <2>3. ASSUME NEW op \in todo, CreateOutlook(op)
        PROVE \A o \in DOMAIN rows'.outlook : <<"outlook", o>> \notin taken
    <3>1. /\ <<"outlook", op[3]>> \notin taken
          /\ rows'.outlook = With(rows.outlook, op[3], snap.outlook[op[3]])
      BY <2>3, RowsAreColumns DEF CreateOutlook, WriteIf, Write, Rollback, Columns
    <3>2. DOMAIN rows'.outlook = DOMAIN rows.outlook \cup {op[3]}
      BY <3>1 DEF With
    <3> QED
      BY <2>1, <3>1, <3>2
  <2>4. ASSUME NEW op \in todo, UpdateOutlook(op) \/ DeleteOutlook(op)
        PROVE \A o \in DOMAIN rows'.outlook : <<"outlook", o>> \notin taken
    <3>1. DOMAIN rows'.outlook \subseteq DOMAIN rows.outlook
      BY <2>4, RowsAreColumns
         DEF UpdateOutlook, DeleteOutlook, WriteIf, Write, Rollback, Without, Columns
    <3> QED
      BY <2>1, <3>1
  <2> QED
    BY <2>2, <2>3, <2>4 DEF Frames, OutlookStep
<1> QED
  BY <1>1, <1>2 DEF Keys

\* No link is made to a resource that others have deleted.
LEMMA LinksAvoidGone ==
    ASSUME InOrder, IsRows(rows), Sound(input, snap), Guarded, Frames, result' # "failed"
    PROVE LinkedBy(rows') \cap gone = {}
<1>0. \A link \in rows.stepResources : link[2] \notin gone
  BY DEF Guarded, LinkedBy
<1>1. \A link \in rows'.stepResources : link[2] \notin gone
  <2>1. CASE rows'["stepResources"] = rows["stepResources"]
    BY <1>0, <2>1
  <2>2. CASE StepsStep
    <3>1. rows'.stepResources \subseteq rows.stepResources
      BY <2>2, StepsLeave
    <3> QED
      BY <1>0, <3>1
  <2>3. ASSUME NEW op \in todo, LinkStep(op) \/ UnlinkStep(op)
        PROVE \A link \in rows'.stepResources : link[2] \notin gone
    BY <1>0, <2>3, RowsAreColumns DEF LinkStep, UnlinkStep, WriteIf, Write, Rollback, Columns
  <2> QED
    BY <2>1, <2>2, <2>3 DEF Frames, LinksStep
<1> QED
  BY <1>1 DEF LinkedBy

\* What others do, they do to what this career has not.
LEMMA OthersKeepGuarded ==
    ASSUME Guarded, OtherPublication
    PROVE Guarded'
<1>1. /\ input' = input /\ rows' = rows /\ live' = live /\ Keys(live)' = Keys(live)
      /\ LinkedBy(live)' = LinkedBy(live)
  BY DEF OtherPublication, publication, live, Keys, LinkedBy
<1>2. ColumnsFit(rows)'
  BY <1>1 DEF Guarded, ColumnsFit
<1>3. ASSUME NEW x \in input.contended,
             OtherLinks(x) \/ OtherCommits(x) \/ OtherRollsBack(x) \/ OtherUnlinks(x)
      PROVE Guarded'
  <2>1. gone' = gone /\ taken' = taken
    BY <1>3 DEF OtherLinks, OtherCommits, OtherRollsBack, OtherUnlinks
  <2>2. others' \cup joining' \subseteq others \cup joining \cup DOMAIN live.resources
    BY <1>3 DEF OtherLinks, OtherCommits, OtherRollsBack, OtherUnlinks
  <2> QED
    BY <1>1, <1>2, <2>1, <2>2 DEF Guarded, Keys, LinkedBy
<1>4. ASSUME NEW x \in input.contended, OtherDeletes(x)
      PROVE Guarded'
  <2>1. /\ gone' = gone \cup {x} /\ taken' = taken /\ joining' = joining /\ others' \subseteq others
        /\ x \in others /\ x \notin LinkedBy(live) \cup LinkedBy(rows)
    BY <1>4 DEF OtherDeletes
  <2>2. LinkedBy(rows)' = LinkedBy(rows) /\ Keys(rows)' = Keys(rows)
    BY <1>1 DEF LinkedBy, Keys
  <2> QED
    BY <1>1, <1>2, <2>1, <2>2 DEF Guarded
<1>5. ASSUME NEW key \in input.rivalled, OtherTakes(key) \/ OtherDrops(key)
      PROVE Guarded'
  <2>1. /\ gone' = gone /\ joining' = joining /\ others' = others
        /\ taken' \subseteq taken \cup {key}
        /\ key \in taken' => key \notin Keys(live) \cup Keys(rows)
    BY <1>5 DEF OtherTakes, OtherDrops
  <2>2. LinkedBy(rows)' = LinkedBy(rows) /\ Keys(rows)' = Keys(rows)
    BY <1>1 DEF LinkedBy, Keys
  <2> QED
    BY <1>1, <1>2, <2>1, <2>2 DEF Guarded
<1> QED
  BY <1>3, <1>4, <1>5 DEF OtherPublication

\* Whatever leaves the rows and the others alone, or gives the live rows back.
LEMMA GuardedStays ==
    ASSUME PublicationInv, UNCHANGED elsewhere, input' = input, rows' = rows \/ rows' = live
    PROVE Guarded'
<1>1. live' = live /\ others' = others /\ joining' = joining /\ gone' = gone /\ taken' = taken
  BY DEF live, elsewhere
<1>2. input \in Inputs /\ Guarded
  BY DEF PublicationInv, Typed
<1>3. ColumnsFit(live)
  BY <1>2, LiveIs DEF SatisfiesSchema
<1>4. CASE rows' = rows
  BY <1>1, <1>2, <1>4 DEF Guarded, ColumnsFit, Keys, LinkedBy
<1>5. CASE rows' = live
  BY <1>1, <1>2, <1>3, <1>5 DEF Guarded, ColumnsFit, Keys, LinkedBy
<1> QED
  BY <1>4, <1>5

LEMMA SaveDraftKeepsInv ==
    ASSUME PublicationInv, SaveDraft
    PROVE PublicationInv'
<1>1. /\ result = "editing" /\ input' = input /\ live' = live /\ rows' = rows /\ doomed' = doomed
      /\ \/ /\ FindSnapshotProblems(input.draft) = {}
            /\ snap' = Snapshot(input.draft) /\ result' = "saved"
         \/ result' = "invalid"
  BY DEF SaveDraft, live
<1>2. result' = "saved" => Sound(input, snap')
  BY <1>1, SavedIsSound DEF PublicationInv, Typed
<1>3. Guarded'
  BY <1>1, GuardedStays DEF SaveDraft
<1> QED
  BY <1>1, <1>2, <1>3 DEF PublicationInv, Typed, SnapshotSound, AtRest, Settled, Sound

LEMMA StartApplyingKeepsInv ==
    ASSUME PublicationInv, StartApplying
    PROVE PublicationInv'
<1>1. /\ result = "saved" /\ input' = input /\ live' = live /\ rows' = rows /\ doomed' = doomed
      /\ snap' = snap
      /\ \/ Blockers(live, snap, input.completed) = {} /\ todo' = Whole /\ result' = "applying"
         \/ result' = "blocked"
  BY DEF StartApplying, live, Whole
<1>2. rows = live /\ doomed = Null /\ Sound(input, snap) /\ input \in Inputs
  BY <1>1 DEF PublicationInv, AtRest, Settled, SnapshotSound, Typed
<1>3. result' = "applying" => Halfway'
  BY <1>1, <1>2, PublicationStarts
<1>4. Guarded'
  BY <1>1, GuardedStays DEF StartApplying
<1> QED
  BY <1>1, <1>2, <1>3, <1>4 DEF PublicationInv, Typed, SnapshotSound, AtRest, Settled, Sound

LEMMA PublicationKeepsInv ==
    ASSUME PublicationInv, Publication, UNCHANGED elsewhere
    PROVE PublicationInv'
<1>1. /\ result = "applying" /\ result' \in {"applying", "applied", "failed", "interrupted"}
      /\ result' \in {"failed", "interrupted"} => rows' = live /\ doomed' = Null
      /\ result' = "applied" => doomed' = Null
      /\ input' = input /\ snap' = snap
  BY DEF Publication, Statement, CreateResource, UpdateResource, CountReferences, OffsetStep, MoveStep,
     UpdateStep, CreateStep, DeleteStep, LinkStep, UnlinkStep, LinkSkill, UpdateSkill, UnlinkSkill,
     CreateOutlook, UpdateOutlook, DeleteOutlook, UpdateCareer, WritePathway, DeleteResource, Commit,
     Interrupt, Take, Write, WriteIf, Rollback, SetOrder
<1>2. /\ input \in Inputs /\ Sound(input, snap) /\ Blockers(live, snap, input.completed) = {}
      /\ Halfway /\ todo \subseteq Whole /\ IsRows(rows) /\ OrdersDiffer(rows.steps) /\ Guarded
      /\ \A link \in rows.stepResources : link[2] \in DOMAIN rows.resources
  BY <1>1 DEF PublicationInv, SnapshotSound, Typed, Halfway, InOrder
<1>3. /\ live' = live /\ Whole' = Whole
      /\ others' = others /\ joining' = joining /\ gone' = gone /\ taken' = taken
  BY <1>1 DEF live, Whole, elsewhere
<1>4. CASE result' = "failed"
  <2>1. rows' = live /\ doomed' = Null
    BY <1>1, <1>4
  <2>2. IsRows(live) /\ SatisfiesSchema(live)
    BY <1>2, LiveIs
  <2>3. Conflict \/ OffsetReached
    <3>1. CASE StepsStep
      BY <1>1, <1>2, <1>4, <3>1, StepsFail, Unblocked DEF Halfway
    <3>2. CASE ~StepsStep
      BY <1>1, <1>2, <1>4, <3>2, OthersFail DEF Halfway
    <3> QED
      BY <3>1, <3>2
  <2>4. (Conflict \/ OffsetReached)'
    BY <1>1, <1>3, <2>3 DEF Conflict, OffsetReached, Keys
  <2>5. Typed' /\ SnapshotSound' /\ AtRest' /\ Settled'
    BY <1>1, <1>2, <1>3, <1>4, <2>1, <2>2 DEF Typed, SnapshotSound, AtRest, Settled, Sound
  <2>6. Guarded'
    BY <1>1, <2>1, GuardedStays
  <2> QED
    BY <1>4, <2>1, <2>2, <2>4, <2>5, <2>6 DEF PublicationInv, SatisfiesSchema, OrdersDiffer
<1>6. CASE result' = "interrupted"
  <2>1. rows' = live /\ doomed' = Null
    BY <1>1, <1>6
  <2>2. IsRows(live) /\ SatisfiesSchema(live)
    BY <1>2, LiveIs
  <2>3. Typed' /\ SnapshotSound' /\ AtRest' /\ Settled'
    BY <1>1, <1>2, <1>3, <1>6, <2>1, <2>2 DEF Typed, SnapshotSound, AtRest, Settled, Sound
  <2>4. Guarded'
    BY <1>1, <2>1, GuardedStays
  <2> QED
    BY <1>6, <2>1, <2>2, <2>3, <2>4 DEF PublicationInv, SatisfiesSchema, OrdersDiffer
<1>5. CASE result' \notin {"failed", "interrupted"}
  <2>1. Frames
    BY <1>2, <1>5, StatementFrames DEF Halfway
  <2>2. InOrder'
    <3>1. CASE DeleteResource \/ Commit
      <4>1. todo' = todo
        BY <3>1 DEF DeleteResource, Commit
      <4> QED
        BY <1>2, <1>3, <4>1 DEF Halfway, InOrder, By, Stages
    <3>2. CASE ~(DeleteResource \/ Commit)
      <4>1. \E section, kind, ops : Take(section, kind, ops)
        BY <1>5, <3>2 DEF Interrupt, Publication, Statement, CreateResource, UpdateResource, CountReferences, OffsetStep,
           MoveStep, UpdateStep, CreateStep, DeleteStep, LinkStep, UnlinkStep, LinkSkill, UpdateSkill,
           UnlinkSkill, CreateOutlook, UpdateOutlook, DeleteOutlook, UpdateCareer, WritePathway
      <4> QED
        BY <1>2, <4>1, OrderIsKept DEF Halfway
    <3> QED
      BY <3>1, <3>2
  <2>3. CareerHalfway' /\ (rows.career = live.career \/ rows.career = snap.career)'
    BY <1>2, <1>5, <2>1, <2>2, CareerAdvances DEF Halfway
  <2>4. PathwayHalfway'
    BY <1>2, <2>1, <2>2, PathwayAdvances DEF Halfway
  <2>5. SkillsHalfway' /\ IsTable(rows.skills)'
    BY <1>2, <1>5, <2>1, SkillsAdvance DEF Halfway
  <2>6. OutlookHalfway' /\ IsTable(rows.outlook)'
    BY <1>2, <1>5, <2>1, OutlookAdvances DEF Halfway
  <2>7. StepsHalfway'
    BY <1>2, <1>5, <2>1, StepsAdvance DEF Halfway
  <2>8. LinksHalfway'
    BY <1>2, <1>5, <2>1, LinksAdvance DEF Halfway
  <2>9. ResourcesHalfway' /\ IsTable(rows.resources)'
    BY <1>2, <1>5, <2>1, ResourcesAdvance DEF Halfway
  <2>10. DoomedUnlinked'
    BY <1>2, DoomedStaysUnlinked DEF Halfway
  <2>11. Halfway'
    BY <2>2, <2>3, <2>4, <2>5, <2>6, <2>7, <2>8, <2>9, <2>10 DEF Halfway
  <2>12. AreSteps(rows'.steps)
    BY <1>2, <1>5, <2>1, StepsStaySteps DEF Halfway
  <2>13. \A link \in rows'.stepResources : link[2] \in DOMAIN rows'.resources
    BY <1>2, <1>5, <2>1, LinkedResourcesStay DEF Halfway
  <2>14. \A link \in rows'.stepSkills \cup rows'.stepResources : link = <<link[1], link[2]>>
    <3>1. \A link \in live.stepSkills \cup live.stepResources : link = <<link[1], link[2]>>
      BY <1>2, LiveIs DEF IsRows
    <3> QED
      BY <1>3, <2>8, <3>1 DEF LinksHalfway, Remaining
  <2>15. IsRows(rows')
    <3>1. rows' = [f \in Columns |-> rows'[f]]
      BY <2>1 DEF Frames
    <3>2. rows' = [career |-> rows'.career, pathway |-> rows'.pathway, steps |-> rows'.steps,
                   stepSkills |-> rows'.stepSkills, stepResources |-> rows'.stepResources,
                   skills |-> rows'.skills, resources |-> rows'.resources, outlook |-> rows'.outlook]
      BY <3>1 DEF Columns
    <3>3. IsCareer(rows'.career)
      BY <1>1, <1>2, <1>3, <2>3, LiveIs DEF IsRows, Sound
    <3> QED
      BY <2>5, <2>6, <2>9, <2>12, <2>14, <3>2, <3>3 DEF IsRows, AreSteps
  <2>16. result' = "applied" => Finished'
    <3> SUFFICES ASSUME result' = "applied" PROVE Finished'
      OBVIOUS
    <3>1. Commit
      BY <1>1 DEF Publication, Statement, CreateResource, UpdateResource, CountReferences, OffsetStep, MoveStep,
         UpdateStep, CreateStep, DeleteStep, LinkStep, UnlinkStep, LinkSkill, UpdateSkill, UnlinkSkill,
         CreateOutlook, UpdateOutlook, DeleteOutlook, UpdateCareer, WritePathway, DeleteResource,
         Interrupt, Take, Write, WriteIf, Rollback, SetOrder
    <3> QED
      BY <3>1 DEF Commit, Finished, By, Stages
  <2>17. Typed' /\ SnapshotSound' /\ AtRest' /\ Settled'
    BY <1>1, <1>2, <1>3, <1>5, <2>15 DEF Typed, SnapshotSound, AtRest, Settled, Sound
  <2>18. Guarded'
    <3>1. ColumnsFit(rows')
      BY <1>2, <1>5, <2>1, ColumnsStayFit DEF Halfway
    <3>2. Keys(rows') \cap taken = {}
      BY <1>2, <1>5, <2>1, KeysStayFree
    <3>3. LinkedBy(rows') \cap gone = {}
      BY <1>2, <1>5, <2>1, LinksAvoidGone DEF Halfway
    <3> QED
      BY <1>2, <1>3, <3>1, <3>2, <3>3 DEF Guarded, ColumnsFit, Keys, LinkedBy
  <2> QED
    BY <1>5, <2>11, <2>12, <2>13, <2>16, <2>17, <2>18 DEF PublicationInv, AreSteps
<1> QED
  BY <1>1, <1>4, <1>5, <1>6

LEMMA UnchangedKeepsInv ==
    ASSUME PublicationInv, UNCHANGED publication, Guarded',
           result = "failed" => UNCHANGED elsewhere
    PROVE PublicationInv'
<1>1. /\ input' = input /\ snap' = snap /\ rows' = rows /\ todo' = todo
      /\ doomed' = doomed /\ result' = result
  BY DEF publication
<1>2. live' = live /\ Whole' = Whole
  BY <1>1 DEF live, Whole
<1>3. /\ \A section, kind, id : Waits(section, kind, id)' <=> Waits(section, kind, id)
      /\ \A section, kind : By(section, kind)' = By(section, kind)
  BY <1>1 DEF Waits, By
<1>4. Typed' /\ SnapshotSound' /\ AtRest' /\ Settled'
  BY <1>1, <1>2 DEF PublicationInv, Typed, SnapshotSound, AtRest, Settled, Sound
<1>5. result = "failed" => ((Conflict \/ OffsetReached)' <=> Conflict \/ OffsetReached)
  BY <1>1, <1>2 DEF Conflict, OffsetReached, Keys, elsewhere
<1>6. Finished' <=> Finished
  BY <1>1 DEF Finished, Stages, By
<1>7. ASSUME Halfway PROVE Halfway'
  <2>1. InOrder'
    BY <1>1, <1>2, <1>7 DEF Halfway, InOrder, Stages, By
  <2>2. CareerHalfway' /\ PathwayHalfway'
    BY <1>1, <1>2, <1>3, <1>7 DEF Halfway, CareerHalfway, PathwayHalfway
  <2>3. SkillsHalfway'
    BY <1>1, <1>2, <1>3, <1>7 DEF Halfway, SkillsHalfway
  <2>4. OutlookHalfway'
    BY <1>1, <1>2, <1>3, <1>7 DEF Halfway, OutlookHalfway, OutlookCreates
  <2>5. StepsHalfway'
    <3>1. \A p : HalfwayOrder(p)' = HalfwayOrder(p) /\ HalfwayText(p)' = HalfwayText(p)
      BY <1>1, <1>2, <1>3 DEF HalfwayOrder, HalfwayText
    <3>2. /\ StepCreates(live, snap)' = StepCreates(live, snap)
          /\ Moves(live, snap)' = Moves(live, snap)
          /\ \A ref : Unrivalled(ref)' <=> Unrivalled(ref)
      BY <1>1, <1>2 DEF Unrivalled
    <3> QED
      BY <1>1, <1>2, <1>3, <1>7, <3>1, <3>2 DEF Halfway, StepsHalfway
  <2>6. LinksHalfway'
    <3>1. /\ \A section : Remaining(section)' = Remaining(section)
          /\ \A section : Linked(section)' = Linked(section)
      BY <1>1, <1>2, <1>3 DEF Remaining, Linked
    <3>2. \A x : ResolveStep(x)' = ResolveStep(x) /\ ResolveResource(x)' = ResolveResource(x)
      BY <1>1, <1>2 DEF ResolveStep, ResolveResource
    <3> QED
      BY <1>1, <1>2, <1>7, <3>1, <3>2 DEF Halfway, LinksHalfway
  <2>7. ResourcesHalfway'
    BY <1>1, <1>2, <1>3, <1>7 DEF Halfway, ResourcesHalfway, ResourceCreates
  <2>8. DoomedUnlinked'
    BY <1>1, <1>2, <1>3, <1>7 DEF Halfway, DoomedUnlinked
  <2> QED
    BY <2>1, <2>2, <2>3, <2>4, <2>5, <2>6, <2>7, <2>8 DEF Halfway
<1> QED
  BY <1>1, <1>4, <1>5, <1>6, <1>7 DEF PublicationInv, OrdersDiffer

\* The rows are halfway between the live ones and the snapshot, as far as the operations
\* not yet applied say, in every state of a publication (applyPlan).
THEOREM PublicationInvHolds == Spec => []PublicationInv
<1>1. Init => PublicationInv
  BY InitPublicationInv
<1>2. ASSUME PublicationInv, [Next]_vars PROVE PublicationInv'
  <2>1. CASE SaveDraft
    BY <1>2, <2>1, SaveDraftKeepsInv
  <2>2. CASE StartApplying
    BY <1>2, <2>2, StartApplyingKeepsInv
  <2>3. CASE Publication /\ UNCHANGED elsewhere
    BY <1>2, <2>3, PublicationKeepsInv
  <2>4. CASE OtherPublication
    <3>1. Guarded' /\ result # "failed" /\ UNCHANGED publication
      BY <1>2, <2>4, OthersKeepGuarded DEF OtherPublication, PublicationInv
    <3> QED
      BY <1>2, <3>1, UnchangedKeepsInv
  <2>5. CASE UNCHANGED vars
    <3>1. UNCHANGED publication /\ UNCHANGED elsewhere
      BY <2>5 DEF vars
    <3>2. Guarded'
      BY <1>2, <3>1, GuardedStays DEF publication
    <3> QED
      BY <1>2, <3>1, <3>2, UnchangedKeepsInv
  <2> QED
    BY <1>2, <2>1, <2>2, <2>3, <2>4, <2>5 DEF Next
<1> QED
  BY <1>1, <1>2, PTL DEF Spec

\* No statement of a publication ever leaves rows that break a constraint of the schema: two
\* steps of one order, steps without a pathway, links to nothing, a field or source there is
\* not, a slug, title or outlook id that another career has meanwhile (applyPlan).
THEOREM ConstraintsAlwaysHold == Spec => []ConstraintsHold
<1>1. ASSUME PublicationInv PROVE ConstraintsHold
  <2>1. CASE result \notin {"applying", "applied"}
    <3>1. rows = live /\ input \in Inputs /\ Guarded
      BY <1>1, <2>1 DEF PublicationInv, AtRest, Typed
    <3> QED
      BY <3>1, LiveIs DEF ConstraintsHold, Guarded
  <2>2. CASE result \in {"applying", "applied"}
    <3>1. /\ input \in Inputs /\ Sound(input, snap) /\ Blockers(live, snap, input.completed) = {}
          /\ InOrder /\ StepsHalfway /\ PathwayHalfway /\ LinksHalfway
          /\ OrdersDiffer(rows.steps) /\ Guarded
          /\ \A link \in rows.stepResources : link[2] \in DOMAIN rows.resources
      BY <1>1, <2>2 DEF PublicationInv, SnapshotSound, Typed, Halfway
    <3>2. DOMAIN snap.steps # {}
      BY <3>1, Unblocked
    <3>3. DOMAIN rows.steps # {} => rows.pathway # Null
      BY <3>1, <3>2, PathwayExists
    <3>4. \A link \in rows.stepSkills \cup rows.stepResources : link[1] \in DOMAIN rows.steps
      BY <3>1, LinkedStepsExist
    <3> QED
      BY <3>1, <3>3, <3>4 DEF ConstraintsHold, SatisfiesSchema, OrdersDiffer, Guarded
  <2> QED
    BY <2>1, <2>2
<1> QED
  BY <1>1, PublicationInvHolds, PTL

-----------------------------------------------------------------------------
(***************************************************************************)
(* Resources that others link.                                             *)
(***************************************************************************)
LEMMA PublicationKeepsSteady ==
    ASSUME PublicationInv, SteadyKept, Publication, UNCHANGED others
    PROVE SteadyKept'
<1>1. /\ result = "applying" /\ input' = input /\ live' = live /\ others' = others /\ Steady' = Steady
  BY DEF Publication, Statement, CreateResource, UpdateResource, CountReferences, OffsetStep, MoveStep,
     UpdateStep, CreateStep, DeleteStep, LinkStep, UnlinkStep, LinkSkill, UpdateSkill, UnlinkSkill,
     CreateOutlook, UpdateOutlook, DeleteOutlook, UpdateCareer, WritePathway, DeleteResource, Commit,
     Interrupt, Take, Write, WriteIf, Rollback, SetOrder, live, Steady
<1>2. InOrder /\ IsRows(rows)
  BY <1>1 DEF PublicationInv, Typed, Halfway
<1>3. CASE result' \in {"failed", "interrupted"}
  <2>1. rows' = live /\ doomed' = Null
    BY <1>3 DEF Publication, Statement, CreateResource, UpdateResource, CountReferences, OffsetStep, MoveStep,
       UpdateStep, CreateStep, DeleteStep, LinkStep, UnlinkStep, LinkSkill, UpdateSkill, UnlinkSkill,
       CreateOutlook, UpdateOutlook, DeleteOutlook, UpdateCareer, WritePathway, DeleteResource, Commit,
       Interrupt, Take, Write, WriteIf, Rollback, SetOrder
  <2> QED
    BY <1>1, <2>1 DEF SteadyKept
<1>4. CASE result' \notin {"failed", "interrupted"}
  <2>1. Frames
    BY <1>2, <1>4, StatementFrames
  <2>2. CASE rows'["resources"] = rows["resources"] /\ doomed' = doomed
    BY <1>1, <2>2 DEF SteadyKept
  <2>3. ASSUME NEW op \in todo, CreateResource(op) \/ UpdateResource(op)
        PROVE SteadyKept'
    <3>1. DOMAIN rows.resources \subseteq DOMAIN rows'.resources /\ doomed' = doomed
      BY <1>2, <1>4, <2>3, RowsAreColumns DEF CreateResource, UpdateResource,
         WriteIf, Write, Rollback, With, Columns
    <3> QED
      BY <1>1, <3>1 DEF SteadyKept
  <2>4. ASSUME NEW op \in todo, CountReferences(op)
        PROVE SteadyKept'
    BY <1>1, <2>4 DEF CountReferences, StillReferenced, SteadyKept
  <2>5. CASE DeleteResource
    <3>1. DOMAIN rows'.resources = DOMAIN rows.resources \ {doomed} /\ doomed # Null /\ doomed' = Null
      BY <1>2, <2>5, RowsAreColumns DEF DeleteResource, Without, Columns
    <3> QED
      BY <1>1, <3>1 DEF SteadyKept
  <2> QED
    BY <2>1, <2>2, <2>3, <2>4, <2>5 DEF Frames, ResourcesStep
<1> QED
  BY <1>3, <1>4

\* A resource another career has linked all along is not deleted when a career that
\* linked it too is published: every deletion counts the references first (applyPlan).
THEOREM SharedResourcesStay == Spec => []SharedResourcesSurvive
<1>1. ASSUME Init PROVE SteadyKept
  BY <1>1 DEF Init, SteadyKept, Steady
<1>2. ASSUME PublicationInv, SteadyKept, [Next]_vars PROVE SteadyKept'
  <2>1. CASE SaveDraft \/ StartApplying
    BY <1>2, <2>1 DEF SaveDraft, StartApplying, SteadyKept, Steady, live, elsewhere
  <2>2. CASE Publication /\ UNCHANGED elsewhere
    BY <1>2, <2>2, PublicationKeepsSteady DEF elsewhere
  <2>3. CASE OtherPublication
    <3>1. input' = input /\ live' = live /\ Steady' = Steady /\ rows' = rows /\ doomed' = doomed
      BY <2>3 DEF OtherPublication, publication, live, Steady
    <3>2. others \ input.contended \subseteq others'
      BY <2>3 DEF OtherPublication, OtherLinks, OtherCommits, OtherRollsBack, OtherUnlinks,
         OtherDeletes, OtherTakes, OtherDrops
    <3> QED
      BY <1>2, <3>1, <3>2 DEF SteadyKept, Steady
  <2>4. CASE UNCHANGED vars
    BY <1>2, <2>4 DEF vars, publication, elsewhere, SteadyKept, Steady, live
  <2> QED
    BY <1>2, <2>1, <2>2, <2>3, <2>4 DEF Next
<1>3. SteadyKept => SharedResourcesSurvive
  BY DEF SteadyKept, Steady, SharedResourcesSurvive
<1> QED
  BY <1>1, <1>2, <1>3, PublicationInvHolds, PTL DEF Spec

-----------------------------------------------------------------------------
(***************************************************************************)
(* What is published.                                                      *)
(***************************************************************************)
LEMMA NothingWaits ==
    ASSUME todo \subseteq Whole, Finished, NEW n \in 1..22
    PROVE \A id : ~Waits(Stages[n][1], Stages[n][2], id)
BY StageNumbers, NoneWaits DEF Finished

LEMMA SkillsPublished ==
    ASSUME input \in Inputs, Sound(input, snap), IsRows(rows), Halfway, Finished
    PROVE rows.skills = snap.skills /\ rows.outlook = snap.outlook
<1>0. todo \subseteq Whole
  BY DEF Halfway, InOrder
<1>1. /\ Stages[17] = <<"skills", "link">> /\ Stages[18] = <<"skills", "update">>
      /\ Stages[19] = <<"skills", "unlink">>
      /\ Stages[20] = <<"outlook", "create">> /\ Stages[21] = <<"outlook", "update">>
      /\ Stages[22] = <<"outlook", "delete">>
  BY DEF Stages
<1>2. \A k : /\ ~Waits("skills", "link", k) /\ ~Waits("skills", "update", k)
             /\ ~Waits("skills", "unlink", k)
  BY <1>0, <1>1, NothingWaits
<1>3. \A o : /\ ~Waits("outlook", "create", o) /\ ~Waits("outlook", "update", o)
             /\ ~Waits("outlook", "delete", o)
  BY <1>0, <1>1, NothingWaits
<1>4. /\ IsTable(rows.skills) /\ IsTable(snap.skills)
      /\ IsTable(rows.outlook) /\ IsTable(snap.outlook)
  BY DEF IsRows, Sound
<1>5. DOMAIN rows.skills = DOMAIN snap.skills
      /\ \A k \in DOMAIN rows.skills : rows.skills[k] = snap.skills[k]
  BY <1>2 DEF Halfway, SkillsHalfway, New
<1>6. DOMAIN rows.outlook = DOMAIN snap.outlook
      /\ \A o \in DOMAIN rows.outlook : rows.outlook[o] = snap.outlook[o]
  BY <1>3 DEF Halfway, OutlookHalfway, OutlookCreates
<1> QED
  BY <1>4, <1>5, <1>6 DEF IsTable

LEMMA StepsPublished ==
    ASSUME input \in Inputs, Sound(input, snap), IsRows(rows), Halfway, Finished
    PROVE /\ DOMAIN rows.steps = {ResolveStep(ref) : ref \in DOMAIN snap.steps}
          /\ \A ref \in DOMAIN snap.steps : rows.steps[ResolveStep(ref)] = snap.steps[ref]
          /\ \A p \in DOMAIN live.steps : p \in DOMAIN rows.steps <=> p \in DOMAIN snap.steps
<1>0. todo \subseteq Whole
  BY DEF Halfway, InOrder
<1>1. /\ Stages[6] = <<"steps", "offset">> /\ Stages[7] = <<"steps", "move">>
      /\ Stages[8] = <<"steps", "update">> /\ Stages[9] = <<"steps", "create">>
      /\ Stages[10] = <<"steps", "delete">>
  BY DEF Stages
<1>2. \A p : /\ ~Waits("steps", "offset", p) /\ ~Waits("steps", "move", p)
             /\ ~Waits("steps", "update", p) /\ ~Waits("steps", "create", p)
             /\ ~Waits("steps", "delete", p)
  BY <1>0, <1>1, NothingWaits
<1>3. DOMAIN rows.steps = (DOMAIN live.steps \cap DOMAIN snap.steps)
                             \cup {Fresh(ref) : ref \in StepCreates(live, snap)}
  BY <1>2 DEF Halfway, StepsHalfway
<1>4. /\ \A ref \in StepCreates(live, snap) :
            ref \in DOMAIN snap.steps /\ ref \notin DOMAIN live.steps /\ ResolveStep(ref) = Fresh(ref)
      /\ \A ref \in DOMAIN snap.steps \cap DOMAIN live.steps :
            ref \notin StepCreates(live, snap) /\ ResolveStep(ref) = ref
      /\ \A ref \in DOMAIN snap.steps \ DOMAIN live.steps : ref \in StepCreates(live, snap)
      /\ \A ref \in StepCreates(live, snap) : Fresh(ref) \notin DOMAIN live.steps
  BY FreshIds DEF StepCreates, Kept, ResolveStep
<1>5. DOMAIN rows.steps = {ResolveStep(ref) : ref \in DOMAIN snap.steps}
  BY <1>3, <1>4
<1>6. ASSUME NEW p \in DOMAIN snap.steps \cap DOMAIN live.steps
      PROVE rows.steps[p] = snap.steps[p]
  <2>1. p \in DOMAIN rows.steps
    BY <1>3
  <2>2. rows.steps[p].order = snap.steps[p].order /\ rows.steps[p].text = snap.steps[p].text
    BY <1>2, <2>1 DEF Halfway, StepsHalfway, HalfwayOrder, HalfwayText
  <2>3. /\ rows.steps[p] = [order |-> rows.steps[p].order, text |-> rows.steps[p].text]
        /\ snap.steps[p] = [order |-> snap.steps[p].order, text |-> snap.steps[p].text]
    BY <2>1 DEF Sound, IsRows
  <2> QED
    BY <2>2, <2>3
<1>7. \A ref \in StepCreates(live, snap) : rows.steps[Fresh(ref)] = snap.steps[ref]
  BY <1>2 DEF Halfway, StepsHalfway
<1> QED
  BY <1>3, <1>4, <1>5, <1>6, <1>7

LEMMA LinksPublished ==
    ASSUME input \in Inputs, Sound(input, snap), IsRows(rows), Halfway, Finished
    PROVE /\ rows.stepSkills =
                {<<ResolveStep(link[1]), link[2]>> :
                    link \in {k \in snap.stepSkills : k[1] \in Kept(live, snap) \cup TempIds}}
          /\ rows.stepResources =
                {<<ResolveStep(link[1]), ResolveResource(link[2])>> :
                    link \in {k \in snap.stepResources : k[1] \in Kept(live, snap) \cup TempIds}}
<1>0. todo \subseteq Whole
  BY DEF Halfway, InOrder
<1>1. /\ Stages[11] = <<"stepSkills", "link">> /\ Stages[12] = <<"stepSkills", "unlink">>
      /\ Stages[13] = <<"stepResources", "link">> /\ Stages[14] = <<"stepResources", "unlink">>
  BY DEF Stages
<1>2. \A link : /\ ~Waits("stepSkills", "link", link) /\ ~Waits("stepSkills", "unlink", link)
                /\ ~Waits("stepResources", "link", link) /\ ~Waits("stepResources", "unlink", link)
  BY <1>0, <1>1, NothingWaits
<1>3. /\ \A link \in live.stepSkills \cup live.stepResources :
            link = <<link[1], link[2]>> /\ link[1] \in DOMAIN live.steps /\ link[1] \notin TempIds
      /\ \A link \in live.stepResources : link[2] \notin TempIds
  BY LiveIs DEF IsRows, SatisfiesSchema
<1>4. \A p \in DOMAIN live.steps : p \in DOMAIN rows.steps <=> p \in Kept(live, snap)
  BY StepsPublished DEF Kept
<1>5. \A p \in Kept(live, snap) : ResolveStep(p) = p /\ p \in DOMAIN snap.steps
  BY DEF ResolveStep, StepCreates, Kept
<1>6. \A section \in {"stepSkills", "stepResources"} :
         /\ Remaining(section) =
               {link \in live[section] : link[1] \in Kept(live, snap) /\ link \in snap[section]}
         /\ Linked(section) =
               {link \in snap[section] \ live[section] : link[1] \in Kept(live, snap) \cup TempIds}
  BY <1>2, <1>3, <1>4, <1>5 DEF Remaining, Linked
<1>7. \A x : x \notin TempIds => ResolveResource(x) = x
  BY DEF ResolveResource
<1>8. rows.stepSkills = Remaining("stepSkills")
         \cup {<<ResolveStep(link[1]), link[2]>> : link \in Linked("stepSkills")}
  BY DEF Halfway, LinksHalfway
<1>9. rows.stepResources = Remaining("stepResources")
         \cup {<<ResolveStep(link[1]), ResolveResource(link[2])>> : link \in Linked("stepResources")}
  BY DEF Halfway, LinksHalfway
<1>10. \A link \in Remaining("stepSkills") :
          link \in snap.stepSkills /\ link[1] \in Kept(live, snap)
          /\ link = <<ResolveStep(link[1]), link[2]>>
  BY <1>3, <1>5, <1>6
<1>11. \A link \in Remaining("stepResources") :
          link \in snap.stepResources /\ link[1] \in Kept(live, snap)
          /\ link = <<ResolveStep(link[1]), ResolveResource(link[2])>>
  BY <1>3, <1>5, <1>6, <1>7
<1>12. \A link \in snap.stepSkills :
          link[1] \in Kept(live, snap) \cup TempIds =>
              link \in Remaining("stepSkills") \/ link \in Linked("stepSkills")
  BY <1>3, <1>6
<1>13. \A link \in snap.stepResources :
          link[1] \in Kept(live, snap) \cup TempIds =>
              link \in Remaining("stepResources") \/ link \in Linked("stepResources")
  BY <1>3, <1>6
<1>14. /\ \A link \in Linked("stepSkills") :
            link \in snap.stepSkills /\ link[1] \in Kept(live, snap) \cup TempIds
       /\ \A link \in Linked("stepResources") :
            link \in snap.stepResources /\ link[1] \in Kept(live, snap) \cup TempIds
  BY DEF Linked
<1> QED
  BY <1>8, <1>9, <1>10, <1>11, <1>12, <1>13, <1>14

LEMMA ResourcesPublished ==
    ASSUME input \in Inputs, Sound(input, snap), Halfway, Finished,
           NEW x \in DOMAIN snap.resources, x \in TempIds \cup LinkedBy(live)
    PROVE rows.resources[ResolveResource(x)].text = snap.resources[x].text
<1>0. todo \subseteq Whole
  BY DEF Halfway, InOrder
<1>1. Stages[1] = <<"resources", "create">> /\ Stages[2] = <<"resources", "update">>
  BY DEF Stages
<1>2. ~Waits("resources", "create", x) /\ ~Waits("resources", "update", x)
  BY <1>0, <1>1, NothingWaits
<1>3. CASE x \in TempIds
  <2>1. x \in ResourceCreates /\ ResolveResource(x) = Fresh(x)
    BY <1>3 DEF ResourceCreates, ResolveResource
  <2> QED
    BY <1>2, <2>1 DEF Halfway, ResourcesHalfway
<1>4. CASE x \notin TempIds
  <2>1. x \in LinkedBy(live) /\ x \in DOMAIN live.resources /\ ResolveResource(x) = x
    BY <1>4, LiveIs DEF ResolveResource
  <2>2. x \in DOMAIN rows.resources
    BY <2>1 DEF Halfway, ResourcesHalfway
  <2>3. rows.resources[x] = IF snap.resources[x].text # live.resources[x].text
                            THEN snap.resources[x] ELSE live.resources[x]
    BY <1>2, <1>4, <2>1, <2>2 DEF Halfway, ResourcesHalfway
  <2> QED
    BY <2>1, <2>3
<1> QED
  BY <1>3, <1>4

LEMMA NoConflict ==
    ASSUME input \in Inputs, Sound(input, snap), IsRows(rows), Halfway, Finished, Guarded
    PROVE ~Conflict
<1>0. todo \subseteq Whole
  BY DEF Halfway, InOrder
<1>1. /\ Stages[1] = <<"resources", "create">> /\ Stages[2] = <<"resources", "update">>
      /\ Stages[7] = <<"steps", "move">> /\ Stages[9] = <<"steps", "create">>
      /\ Stages[11] = <<"stepSkills", "link">> /\ Stages[13] = <<"stepResources", "link">>
      /\ Stages[17] = <<"skills", "link">> /\ Stages[20] = <<"outlook", "create">>
      /\ \A n \in {1, 2, 7, 9, 11, 13, 17, 20} : n \in 1..22
  BY DEF Stages
<1>2. \A id : /\ ~Waits("resources", "create", id) /\ ~Waits("resources", "update", id)
              /\ ~Waits("steps", "move", id) /\ ~Waits("steps", "create", id)
              /\ ~Waits("stepSkills", "link", id) /\ ~Waits("stepResources", "link", id)
              /\ ~Waits("skills", "link", id) /\ ~Waits("outlook", "create", id)
  BY <1>0, <1>1, NothingWaits
<1> DEFINE plan == BuildPlan(live, snap, input.completed)
<1>2a. \A op \in plan : op \in Whole /\ op = <<op[1], op[2], op[3]>>
  BY Triples DEF Whole
<1>3. \A ref \in Moves(live, snap) \cup StepCreates(live, snap) : Unrivalled(ref)
  BY <1>2 DEF Halfway, StepsHalfway
<1>4. ASSUME NEW p \in DOMAIN live.steps \ Kept(live, snap),
             NEW ref \in Moves(live, snap) \cup StepCreates(live, snap),
             live.steps[p].order = snap.steps[ref].order
      PROVE FALSE
  BY <1>3, <1>4 DEF Unrivalled, Kept
<1>5. ASSUME NEW ref \in Moves(live, snap) \cup StepCreates(live, snap)
      PROVE ~(snap.steps[ref].order > MaxOrder)
  <2>1. ref \in DOMAIN snap.steps
    BY DEF Moves, StepCreates, Kept
  <2>2. ResolveStep(ref) \in DOMAIN rows.steps /\ rows.steps[ResolveStep(ref)] = snap.steps[ref]
    BY <2>1, StepsPublished
  <2>3. snap.steps[ref].order <= MaxOrder /\ snap.steps[ref].order \in Int /\ MaxOrder \in Int
    BY <2>1, <2>2, LiveIs DEF Guarded, ColumnsFit, Sound, IsRows
  <2> QED
    BY <2>3
<1>6. ASSUME NEW link \in RowsOf(plan, "stepResources", {"link"})
      PROVE link[2] \in (DOMAIN live.resources \ gone) \cup TempIds
  <2>1. <<"stepResources", "link", link>> \in Whole
    BY <1>6, <1>2a DEF RowsOf
  <2>2. link \in Linked("stepResources")
    BY <1>2, <2>1, WholeIs DEF Linked
  <2>3. link[2] \in DOMAIN live.resources \cup TempIds
    BY <2>2 DEF Halfway, LinksHalfway
  <2>4. ASSUME link[2] \notin TempIds PROVE link[2] \notin gone
    <3>1. <<ResolveStep(link[1]), ResolveResource(link[2])>> \in rows.stepResources
      BY <2>2 DEF Halfway, LinksHalfway
    <3>2. ResolveResource(link[2]) = link[2]
      BY <2>4 DEF ResolveResource
    <3>3. link[2] \in LinkedBy(rows)
      BY <3>1, <3>2 DEF LinkedBy
    <3> QED
      BY <3>3 DEF Guarded
  <2> QED
    BY <2>3, <2>4
<1>7. ASSUME NEW link \in RowsOf(plan, "stepSkills", {"link"})
      PROVE link[2] \in AllSkills
  <2>1. <<"stepSkills", "link", link>> \in Whole
    BY <1>2a DEF RowsOf
  <2>2. link \in Linked("stepSkills")
    BY <1>2, <2>1, WholeIs DEF Linked
  <2> QED
    BY <2>2 DEF Halfway, LinksHalfway
<1>8. ASSUME NEW k \in RowsOf(plan, "skills", {"link"})
      PROVE k \in AllSkills
  <2>1. <<"skills", "link", k>> \in Whole
    BY <1>2a DEF RowsOf
  <2> QED
    BY <1>2, <2>1, WholeIs DEF Halfway, SkillsHalfway
<1>9. ASSUME NEW o \in RowsOf(plan, "outlook", {"create"})
      PROVE o \notin DOMAIN live.outlook
  <2>1. <<"outlook", "create", o>> \in Whole
    BY <1>2a DEF RowsOf
  <2> QED
    BY <1>2, <2>1, WholeIs DEF Halfway, OutlookHalfway
<1>10. rows.career = snap.career /\ rows.outlook = snap.outlook
  <2>1. By("career", "update") = {}
    BY StageNumbers DEF Finished, Stages
  <2>2. rows.outlook = snap.outlook
    BY SkillsPublished
  <2> QED
    BY <2>1, <2>2 DEF Halfway, CareerHalfway
<1>11. Keys(snap) \cap taken = {} /\ snap.career.field \in AllFields
       /\ \A o \in DOMAIN snap.outlook : OutlookFits(snap.outlook[o])
  BY <1>10 DEF Guarded, ColumnsFit, Keys
<1>12. ASSUME NEW x \in RowsOf(plan, "resources", {"create", "update"})
       PROVE ResourceFits(snap.resources[x])
  <2>1. \A y \in DOMAIN rows.resources : ResourceFits(rows.resources[y])
    BY DEF Guarded, ColumnsFit
  <2>2. \/ <<"resources", "create", x>> \in Whole
        \/ <<"resources", "update", x>> \in Whole
    BY <1>12, <1>2a DEF RowsOf
  <2>3. CASE <<"resources", "create", x>> \in Whole
    <3>1. x \in ResourceCreates
      BY <2>3, WholeIs
    <3>2. Fresh(x) \in DOMAIN rows.resources /\ rows.resources[Fresh(x)] = snap.resources[x]
      BY <1>2, <3>1 DEF Halfway, ResourcesHalfway
    <3> QED
      BY <2>1, <3>2
  <2>4. CASE <<"resources", "update", x>> \in Whole
    <3>1. /\ x \in (DOMAIN snap.resources \ TempIds) \cap LinkedBy(live)
          /\ snap.resources[x].text # live.resources[x].text
      BY <2>4, WholeIs
    <3>2. x \in DOMAIN live.resources
      BY <3>1, LiveIs
    <3>3. x \in DOMAIN rows.resources
      BY <3>1, <3>2 DEF Halfway, ResourcesHalfway
    <3>4. rows.resources[x] = snap.resources[x]
      BY <1>2, <3>1, <3>2, <3>3 DEF Halfway, ResourcesHalfway
    <3> QED
      BY <2>1, <3>3, <3>4
  <2> QED
    BY <2>2, <2>3, <2>4
<1> QED
  BY <1>4, <1>5, <1>6, <1>7, <1>8, <1>9, <1>11, <1>12 DEF Conflict

\* A publication that commits has made the career's rows those of the snapshot, row by
\* row and link by link, whatever the statements before met (applyPlan).
THEOREM AppliedIsTheSnapshot == Spec => []AppliedMatchesSnapshot
<1>1. ASSUME PublicationInv, result = "applied"
      PROVE AppliedMatchesSnapshot
  <2>1. /\ input \in Inputs /\ Sound(input, snap) /\ IsRows(rows) /\ Halfway /\ Finished
    BY <1>1 DEF PublicationInv, SnapshotSound, Typed
  <2>2. todo \subseteq Whole
    BY <2>1 DEF Halfway, InOrder
  <2>3. rows.career = snap.career
    <3>1. By("career", "update") = {}
      BY <2>1, StageNumbers DEF Finished, Stages
    <3> QED
      BY <2>1, <3>1 DEF Halfway, CareerHalfway
  <2>4. rows.pathway = snap.pathway
    <3>1. Stages[4] = <<"pathway", "create">> /\ Stages[5] = <<"pathway", "update">>
          /\ Stages[16] = <<"pathway", "delete">>
      BY DEF Stages
    <3>2. /\ By("pathway", "create") = {} /\ By("pathway", "update") = {}
          /\ By("pathway", "delete") = {}
      BY <2>1, <3>1, StageNumbers DEF Finished
    <3> QED
      BY <2>1, <3>2 DEF Halfway, PathwayHalfway
  <2>5. rows.skills = snap.skills /\ rows.outlook = snap.outlook
    BY <2>1, SkillsPublished
  <2>6. /\ DOMAIN rows.steps = {ResolveStep(ref) : ref \in DOMAIN snap.steps}
        /\ \A ref \in DOMAIN snap.steps : rows.steps[ResolveStep(ref)] = snap.steps[ref]
    BY <2>1, StepsPublished
  <2>7. /\ rows.stepSkills =
                {<<ResolveStep(link[1]), link[2]>> :
                    link \in {k \in snap.stepSkills : k[1] \in Kept(live, snap) \cup TempIds}}
        /\ rows.stepResources =
                {<<ResolveStep(link[1]), ResolveResource(link[2])>> :
                    link \in {k \in snap.stepResources : k[1] \in Kept(live, snap) \cup TempIds}}
    BY <2>1, LinksPublished
  <2>8. \A x \in DOMAIN snap.resources :
           x \in TempIds \cup LinkedBy(live) =>
               rows.resources[ResolveResource(x)].text = snap.resources[x].text
    BY <2>1, ResourcesPublished
  <2> QED
    BY <2>3, <2>4, <2>5, <2>6, <2>7, <2>8 DEF AppliedMatchesSnapshot, Made
<1>2. PublicationInv => AppliedMatchesSnapshot
  <2>1. CASE result # "applied"
    BY <2>1 DEF AppliedMatchesSnapshot
  <2> QED
    BY <1>1, <2>1
<1> QED
  BY <1>2, PublicationInvHolds, PTL

\* Nothing is published that the database allows and the product does not (buildPlan's
\* blockers): a career without skills, steps or a required field, or without a step that
\* learners completed.
THEOREM ProductRulesKept == Spec => []ProductRulesHold
<1>1. ASSUME PublicationInv, result = "applied"
      PROVE ProductRulesHold
  <2>1. /\ input \in Inputs /\ Sound(input, snap) /\ IsRows(rows) /\ Halfway /\ Finished
        /\ Blockers(live, snap, input.completed) = {}
    BY <1>1 DEF PublicationInv, SnapshotSound, Typed
  <2>2. /\ DOMAIN snap.skills # {} /\ DOMAIN snap.steps # {} /\ ~Lacking(snap.career)
        /\ input.completed \cap DOMAIN live.steps \subseteq DOMAIN snap.steps
    BY <2>1, Unblocked
  <2>3. rows.career = snap.career
    <3>1. By("career", "update") = {}
      BY <2>1, StageNumbers DEF Finished, Stages
    <3> QED
      BY <2>1, <3>1 DEF Halfway, CareerHalfway
  <2>4. rows.skills = snap.skills
    BY <2>1, SkillsPublished
  <2>5. /\ DOMAIN rows.steps = {ResolveStep(ref) : ref \in DOMAIN snap.steps}
        /\ \A p \in DOMAIN live.steps : p \in DOMAIN rows.steps <=> p \in DOMAIN snap.steps
    BY <2>1, StepsPublished
  <2>6. DOMAIN rows.steps # {}
    <3>1. PICK ref : ref \in DOMAIN snap.steps
      BY <2>2
    <3> QED
      BY <2>5, <3>1
  <2> QED
    BY <2>2, <2>3, <2>4, <2>5, <2>6 DEF ProductRulesHold
<1>2. PublicationInv => ProductRulesHold
  <2>1. CASE result # "applied"
    BY <2>1 DEF ProductRulesHold
  <2> QED
    BY <1>1, <2>1
<1> QED
  BY <1>2, PublicationInvHolds, PTL

\* Whether a publication fails is decided by the snapshot, the live rows and what others
\* have by the time it ends, not by the order of its statements nor by when the others did
\* what they did: a failed one has a conflict or an order at the offset, and one that has a
\* conflict is never applied (applyPlan, setOrder).
THEOREM FailuresAreConflicts == Spec => []FailsOnConflict
<1>1. PublicationInv => FailsOnConflict
  <2> SUFFICES ASSUME PublicationInv PROVE FailsOnConflict
    OBVIOUS
  <2>1. result = "applied" => ~Conflict
    BY NoConflict DEF PublicationInv, SnapshotSound, Typed
  <2> QED
    BY <2>1 DEF PublicationInv, FailsOnConflict
<1> QED
  BY <1>1, PublicationInvHolds, PTL

=============================================================================
