------------------------------ MODULE Snapshots ------------------------------
(***************************************************************************)
(* Drafts and plans: what saveDraftRevision accepts (findSnapshotProblems),*)
(* the operations and blockers buildPlan finds between the live rows of a  *)
(* career and a snapshot, and what the reviewer is shown of them.          *)
(*                                                                         *)
(* A draft lists rows as the editor sends them; a snapshot has them by id, *)
(* as do the live rows:                                                    *)
(*    career      its slug, title and field, and the rest as one text      *)
(*    pathway     its text, or Null                                        *)
(*    steps       [order, text] of each step                               *)
(*    stepSkills, stepResources    pairs of a step and what it links       *)
(*    skills      the importance of each skill of the career               *)
(*    resources   [text, checked] of each resource, of any career if live  *)
(*    outlook     [text, source] of each row                               *)
(***************************************************************************)
EXTENDS Integers, FiniteSets, Sequences, Functions

CONSTANTS
    TempIds,       \* ids the editor invents: "new-1", "new-2", ...
    Incomplete,    \* texts of a career that lack a required field
    Null

-----------------------------------------------------------------------------
(***************************************************************************)
(* Drafts.                                                                 *)
(***************************************************************************)
\* The places of a list whose element was there before.
Duplicates(list) == {j \in DOMAIN list : \E i \in 1..(j - 1) : list[i] = list[j]}

\* One field of the rows of a list.
Column(list, field) == [i \in DOMAIN list |-> list[i][field]]

Ids(list) == Range(Column(list, "id"))

\* Mutant: orders are not compared.
DuplicateRows_NotOrders(draft) ==
    UNION {{<<part, i>> : i \in Duplicates(Column(draft[part], "id"))} :
              part \in {"steps", "skills", "outlook", "resources"}}

\* Rows with the id of an earlier one, and steps with its order.
DuplicateRows(draft) ==
    (UNION {{<<part, i>> : i \in Duplicates(Column(draft[part], "id"))} :
               part \in {"steps", "skills", "outlook", "resources"}})
    \cup {<<"orders", i>> : i \in Duplicates(Column(draft.steps, "order"))}

\* Skills and resources a step lists twice, and temporary resources that are
\* not in the draft.
LinkProblems(draft) ==
    LET InStep(step) ==
            {<<"skillIds", i>> : i \in Duplicates(step.skillIds)}
            \cup {<<"resourceIds", i>> :
                    i \in Duplicates(step.resourceIds)
                          \cup {j \in DOMAIN step.resourceIds :
                                   step.resourceIds[j] \in TempIds \ Ids(draft.resources)}}
    IN {<<"steps", i>> : i \in {j \in DOMAIN draft.steps : InStep(draft.steps[j]) # {}}}

FindSnapshotProblems(draft) ==
    DuplicateRows(draft) \cup LinkProblems(draft)
    \cup (IF draft.steps # <<>> /\ draft.pathway = Null THEN {<<"pathway", 0>>} ELSE {})

\* By id, the last row of a list that has it.
ById(list) ==
    [id \in Ids(list) |->
        list[CHOOSE i \in DOMAIN list :
                /\ list[i].id = id
                /\ \A j \in DOMAIN list : list[j].id = id => j <= i]]

\* The pairs of a step and what its list links.
Pairs(lists) == UNION {{id} \X Range(lists[id]) : id \in DOMAIN lists}

Snapshot(draft) ==
    LET steps == ById(draft.steps)
        skills == ById(draft.skills)
        resources == ById(draft.resources)
        outlook == ById(draft.outlook) IN
    [career        |-> draft.career,
     pathway       |-> draft.pathway,
     steps         |-> [p \in DOMAIN steps |-> [order |-> steps[p].order, text |-> steps[p].text]],
     stepSkills    |-> Pairs(Column(steps, "skillIds")),
     stepResources |-> Pairs(Column(steps, "resourceIds")),
     skills        |-> [k \in DOMAIN skills |-> skills[k].importance],
     resources     |-> [x \in DOMAIN resources |->
                           [text |-> resources[x].text, checked |-> resources[x].checked]],
     outlook       |-> [o \in DOMAIN outlook |->
                           [text |-> outlook[o].text, source |-> outlook[o].source]]]

-----------------------------------------------------------------------------
(***************************************************************************)
(* buildPlan, of live rows l and a snapshot s.  An operation is a section, *)
(* a kind and the row it is about.                                         *)
(***************************************************************************)
Op(section, kind, ids) == {<<section, kind, id>> : id \in ids}

\* What appears, disappears or has another value from one function to another.
New(from, to) == DOMAIN to \ DOMAIN from
Changed(from, to) == {id \in DOMAIN from \cap DOMAIN to : from[id] # to[id]}

PlanCareerFields(l, s) == Op("career", "update", Changed(l.career, s.career))

PlanPathway(l, s) ==
    CASE l.pathway = s.pathway -> {}
      [] l.pathway = Null /\ s.pathway # Null -> Op("pathway", "create", {"pathway"})
      [] l.pathway # Null /\ s.pathway = Null -> Op("pathway", "delete", {"pathway"})
      [] OTHER -> Op("pathway", "update", {"pathway"})

PlanSkills(l, s) ==
    Op("skills", "link", New(l.skills, s.skills))
    \cup Op("skills", "update", Changed(l.skills, s.skills))
    \cup Op("skills", "unlink", New(s.skills, l.skills))

LinkedBy(l) == {link[2] : link \in l.stepResources}

\* The live resources are those its steps link; the date of the last check is
\* not compared.
PlanResources(l, s) ==
    LET saved == DOMAIN s.resources \ TempIds
        linked == LinkedBy(l) IN
    Op("resources", "link", saved \ linked)
    \cup Op("resources", "update",
            {x \in saved \cap linked : s.resources[x].text # l.resources[x].text})
    \cup Op("resources", "unlink", linked \ saved)
    \cup Op("resources", "create", DOMAIN s.resources \cap TempIds)

\* A row in the snapshot under a temporary id is always new.
PlanOutlook(l, s) ==
    LET saved == DOMAIN s.outlook \ TempIds IN
    Op("outlook", "create", (saved \ DOMAIN l.outlook) \cup (DOMAIN s.outlook \cap TempIds))
    \cup Op("outlook", "update", Changed(l.outlook, s.outlook) \cap saved)
    \cup Op("outlook", "delete", DOMAIN l.outlook \ saved)

Kept(l, s) == DOMAIN s.steps \cap DOMAIN l.steps

\* Mutant: only the steps that go down the pathway are moved.
Moves_Down(l, s) == {p \in Kept(l, s) : l.steps[p].order < s.steps[p].order}

Moves(l, s) == {p \in Kept(l, s) : l.steps[p].order # s.steps[p].order}

\* A saved step that is no longer live is created anew, but unlike a new step
\* it gets no links.
StepCreates(l, s) == DOMAIN s.steps \ Kept(l, s)

PlanStepLinks(section, kept, from, to) ==
    Op(section, "link", {link \in to \ from : link[1] \in kept \cup TempIds})
    \cup Op(section, "unlink", {link \in from \ to : link[1] \in kept})

PlanSteps(l, s, completed) ==
    LET kept == Kept(l, s) IN
    Op("steps", "create", StepCreates(l, s))
    \cup Op("steps", "update", {p \in kept : l.steps[p].text # s.steps[p].text})
    \cup Op("steps", "move", Moves(l, s))
    \cup Op("steps", "delete", DOMAIN l.steps \ (kept \cup completed))
    \cup PlanStepLinks("stepSkills", kept, l.stepSkills, s.stepSkills)
    \cup PlanStepLinks("stepResources", kept, l.stepResources, s.stepResources)

BuildPlan(l, s, completed) ==
    PlanCareerFields(l, s) \cup PlanPathway(l, s) \cup PlanSkills(l, s)
    \cup PlanResources(l, s) \cup PlanOutlook(l, s) \cup PlanSteps(l, s, completed)

Blocker(code, ids) == {<<code, id>> : id \in ids}

\* A required field of the career is not filled in.
Lacking(career) == career.field = Null \/ career.text \in Incomplete

Removed(l, s, completed) == completed \cap (DOMAIN l.steps \ DOMAIN s.steps)

\* Mutant: a career without skills is let through.
Blockers_NotSkills(l, s, completed) ==
    Blocker("STEP_HAS_PROGRESS", Removed(l, s, completed))
    \cup Blocker("MISSING_CAREER_FIELD", {x \in {"career"} : Lacking(s.career)})
    \cup Blocker("NO_PATHWAY_STEPS", {x \in {"career"} : DOMAIN s.steps = {}})

\* Why a plan may not be published; steps somebody has completed stay.
Blockers(l, s, completed) ==
    Blocker("STEP_HAS_PROGRESS", Removed(l, s, completed))
    \cup Blocker("MISSING_CAREER_FIELD", {x \in {"career"} : Lacking(s.career)})
    \cup Blocker("NO_SKILLS", {x \in {"career"} : DOMAIN s.skills = {}})
    \cup Blocker("NO_PATHWAY_STEPS", {x \in {"career"} : DOMAIN s.steps = {}})

-----------------------------------------------------------------------------
(***************************************************************************)
(* What the reviewer is shown: in each bucket of a section a list, of      *)
(* which only how often it has an entry matters.  Titles and labels, which *)
(* follow from ids and values, are left out.                               *)
(***************************************************************************)
\* How often each entry is pushed, of pairs of a row and the entry for it.
Counted(pushed) ==
    [entry \in {pair[2] : pair \in pushed} |-> Cardinality({pair \in pushed : pair[2] = entry})]

\* A change: the field, if the operation has one, and its value before and after.  No
\* id of a row is among them, except where a whole resource is shown.
Change(l, s, section, id) ==
    CASE section = "career" -> <<id, l.career[id], s.career[id]>>
      [] section = "pathway" -> <<"text", l.pathway, s.pathway>>
      [] section = "steps" -> <<"text", l.steps[id].text, s.steps[id].text>>
      [] section = "skills" -> <<"importance", l.skills[id], s.skills[id]>>
      [] section = "outlook" -> <<"", l.outlook[id], s.outlook[id]>>
      [] section = "resources" -> <<"", <<id, l.resources[id]>>, <<id, s.resources[id]>>>>

\* A moved step, with its orders.
Move(l, s, p) == <<p, l.steps[p].order, s.steps[p].order>>

\* Mutant: of a link of a step, the step is shown and not what it links.
EntityId_Parent(section, id) == IF section \in {"stepSkills", "stepResources"} THEN id[1] ELSE id

\* The entityId of an operation.  That of a link of a step is what is linked; the step
\* is its parentId.
EntityId(section, id) == IF section \in {"stepSkills", "stepResources"} THEN id[2] ELSE id

\* What is pushed for an operation on a row.
Entry(l, s, section, bucket, id) ==
    CASE bucket = "changed" -> Change(l, s, section, id)
      [] bucket = "moved" -> Move(l, s, id)
      [] OTHER -> EntityId(section, id)

\* The rows that operations of these kinds are about.
RowsOf(plan, section, kinds) == {op[3] : op \in {o \in plan : o[1] = section /\ o[2] \in kinds}}

GroupOperations(l, s, plan) ==
    LET Bucket(section, bucket, kinds) ==
            Counted({<<id, Entry(l, s, section, bucket, id)>> : id \in RowsOf(plan, section, kinds)}) IN
    [section \in {op[1] : op \in plan} |->
        [changed |-> Bucket(section, "changed", {"update"}),
         added   |-> Bucket(section, "added", {"create", "link"}),
         removed |-> Bucket(section, "removed", {"delete", "unlink"}),
         moved   |-> Bucket(section, "moved", {"move"})]]

=============================================================================
