------------------------- MODULE ApplyPlanDiffProofs -------------------------
(***************************************************************************)
(* Proofs about ApplyPlan: what the reviewer is shown of a plan against    *)
(* what its publication makes of the rows.                                 *)
(***************************************************************************)
EXTENDS ApplyPlanProofs

-----------------------------------------------------------------------------
(***************************************************************************)
(* The plan.                                                               *)
(***************************************************************************)
Plan == BuildPlan(live, snap, input.completed)

LEMMA PlanIsWhole ==
    ASSUME NEW section, NEW kind, NEW id, kind # "offset"
    PROVE <<section, kind, id>> \in Plan <=> <<section, kind, id>> \in Whole
BY DEF Plan, Whole, Op

\* The rows that operations of some kinds are about.
LEMMA RowsPlanned ==
    ASSUME NEW plan, plan \subseteq Whole, NEW section, NEW kinds, NEW id
    PROVE id \in RowsOf(plan, section, kinds) <=> \E kind \in kinds : <<section, kind, id>> \in plan
<1>1. ASSUME NEW op \in plan, op[1] = section, op[2] \in kinds, op[3] = id
      PROVE <<section, op[2], id>> \in plan
  BY <1>1, Triples
<1>2. ASSUME NEW kind \in kinds, <<section, kind, id>> \in plan
      PROVE id \in RowsOf(plan, section, kinds)
  <2>1. <<section, kind, id>> \in {o \in plan : o[1] = section /\ o[2] \in kinds}
    BY <1>2
  <2>2. <<section, kind, id>>[3] = id
    OBVIOUS
  <2> QED
    BY <2>1, <2>2 DEF RowsOf
<1> QED
  BY <1>1, <1>2 DEF RowsOf

-----------------------------------------------------------------------------
(***************************************************************************)
(* What is shown.                                                          *)
(***************************************************************************)
Buckets == [added |-> {"create", "link"}, changed |-> {"update"},
            moved |-> {"move"}, removed |-> {"delete", "unlink"}]

Diff == GroupOperations(live, snap, Plan)

\* The list of a bucket of a section, and the rows it has entries of.
Listed(section, bucket) == IF section \in DOMAIN Diff THEN Diff[section][bucket] ELSE Counted({})

Shows(section, bucket) == RowsOf(Plan, section, Buckets[bucket])

LEMMA ShownIds ==
    ASSUME NEW section, NEW bucket \in {"added", "changed", "moved", "removed"}, NEW id
    PROVE id \in Shows(section, bucket) <=> \E kind \in Buckets[bucket] : <<section, kind, id>> \in Plan
<1>1. Plan \subseteq Whole
  BY DEF Plan, Whole
<1> QED
  BY <1>1, RowsPlanned DEF Shows

LEMMA DiffIs ==
    ASSUME NEW section
    PROVE section \in DOMAIN Diff <=> \E kind, id : <<section, kind, id>> \in Plan
<1>1. DOMAIN Diff = {op[1] : op \in Plan}
  BY DEF Diff, GroupOperations
<1>2. ASSUME NEW op \in Plan, op[1] = section
      PROVE <<section, op[2], op[3]>> \in Plan
  <2>1. op \in Whole
    BY DEF Plan, Whole
  <2> QED
    BY <1>2, <2>1, Triples
<1>3. ASSUME NEW kind, NEW id, <<section, kind, id>> \in Plan
      PROVE section \in DOMAIN Diff
  <2>1. <<section, kind, id>>[1] = section
    OBVIOUS
  <2> QED
    BY <1>1, <1>3, <2>1
<1> QED
  BY <1>1, <1>2, <1>3

\* A list has one entry of each of the rows.
LEMMA ListedIs ==
    ASSUME NEW section, NEW bucket \in {"added", "changed", "moved", "removed"}
    PROVE Listed(section, bucket)
             = Counted({<<id, Entry(live, snap, section, bucket, id)>> : id \in Shows(section, bucket)})
<1>1. CASE section \in DOMAIN Diff
  <2>1. section \in {op[1] : op \in Plan}
    BY <1>1 DEF Diff, GroupOperations
  <2>2. CASE bucket = "changed"
    BY <1>1, <2>1, <2>2 DEF Listed, Diff, GroupOperations, Shows, Buckets
  <2>3. CASE bucket = "added"
    BY <1>1, <2>1, <2>3 DEF Listed, Diff, GroupOperations, Shows, Buckets
  <2>4. CASE bucket = "removed"
    BY <1>1, <2>1, <2>4 DEF Listed, Diff, GroupOperations, Shows, Buckets
  <2>5. CASE bucket = "moved"
    BY <1>1, <2>1, <2>5 DEF Listed, Diff, GroupOperations, Shows, Buckets
  <2> QED
    BY <2>2, <2>3, <2>4, <2>5
<1>2. CASE section \notin DOMAIN Diff
  <2>1. Shows(section, bucket) = {}
    BY <1>2, DiffIs, ShownIds
  <2>2. {<<id, Entry(live, snap, section, bucket, id)>> : id \in Shows(section, bucket)} = {}
    BY <2>1
  <2> QED
    BY <1>2, <2>2 DEF Listed
<1> QED
  BY <1>1, <1>2

\* Lists of ids.
LEMMA IdsListedAre ==
    ASSUME NEW section, NEW bucket \in {"added", "removed"}
    PROVE Listed(section, bucket)
             = Counted({<<id, EntityId(section, id)>> : id \in Shows(section, bucket)})
<1>1. \A id : Entry(live, snap, section, bucket, id) = EntityId(section, id)
  BY DEF Entry
<1>2. {<<id, Entry(live, snap, section, bucket, id)>> : id \in Shows(section, bucket)}
         = {<<id, EntityId(section, id)>> : id \in Shows(section, bucket)}
  BY <1>1
<1>3. bucket \in {"added", "changed", "moved", "removed"}
  OBVIOUS
<1>4. Listed(section, bucket)
         = Counted({<<id, Entry(live, snap, section, bucket, id)>> : id \in Shows(section, bucket)})
  BY <1>3, ListedIs
<1> QED
  BY <1>2, <1>4

LEMMA RowsListed ==
    ASSUME NEW section \in {"skills", "resources", "outlook", "steps"}, NEW bucket \in {"added", "removed"}
    PROVE Listed(section, bucket) = Counted({<<id, id>> : id \in Shows(section, bucket)})
<1>1. \A id : EntityId(section, id) = id
  BY DEF EntityId
<1>2. {<<id, EntityId(section, id)>> : id \in Shows(section, bucket)}
         = {<<id, id>> : id \in Shows(section, bucket)}
  BY <1>1
<1> QED
  BY <1>2, IdsListedAre

LEMMA LinksListed ==
    ASSUME NEW section \in {"stepSkills", "stepResources"}, NEW bucket \in {"added", "removed"}
    PROVE Listed(section, bucket) = Counted({<<link, link[2]>> : link \in Shows(section, bucket)})
<1>1. \A link : EntityId(section, link) = link[2]
  BY DEF EntityId
<1>2. {<<link, EntityId(section, link)>> : link \in Shows(section, bucket)}
         = {<<link, link[2]>> : link \in Shows(section, bucket)}
  BY <1>1
<1> QED
  BY <1>2, IdsListedAre

\* Lists of changes, of rows whose values after are those published.
LEMMA ChangesListed ==
    ASSUME NEW section,
           \A id \in Shows(section, "changed") :
              Change(live, snap, section, id) = Change(live, rows, section, id)
    PROVE Listed(section, "changed")
             = Counted({<<id, Change(live, rows, section, id)>> : id \in Shows(section, "changed")})
<1>1. \A id : Entry(live, snap, section, "changed", id) = Change(live, snap, section, id)
  BY DEF Entry
<1>2. {<<id, Entry(live, snap, section, "changed", id)>> : id \in Shows(section, "changed")}
         = {<<id, Change(live, rows, section, id)>> : id \in Shows(section, "changed")}
  BY <1>1
<1> QED
  BY <1>2, ListedIs

\* What is true when a publication has been applied.
Applied ==
    /\ input \in Inputs /\ Sound(input, snap) /\ IsRows(rows)
    /\ Blockers(live, snap, input.completed) = {}
    /\ Halfway /\ Finished

LEMMA SkillsShown ==
    ASSUME Applied
    PROVE /\ Shows("skills", "removed") = New(rows.skills, live.skills)
          /\ Shows("skills", "added") = New(live.skills, rows.skills)
          /\ Shows("skills", "changed") = Changed(live.skills, rows.skills)
          /\ rows.skills = snap.skills
<1>1. rows.skills = snap.skills
  BY SkillsPublished DEF Applied
<1>2. ASSUME NEW k
      PROVE /\ <<"skills", "link", k>> \in Plan <=> k \in New(live.skills, snap.skills)
            /\ <<"skills", "update", k>> \in Plan <=> k \in Changed(live.skills, snap.skills)
            /\ <<"skills", "unlink", k>> \in Plan <=> k \in New(snap.skills, live.skills)
            /\ <<"skills", "create", k>> \notin Plan /\ <<"skills", "delete", k>> \notin Plan
  <2>1. <<"skills", "create", k>> \notin Whole /\ <<"skills", "delete", k>> \notin Whole
    BY DEF Whole, BuildPlan, PlanCareerFields, PlanPathway, PlanSkills, PlanResources,
       PlanOutlook, PlanSteps, PlanStepLinks, Op
  <2> QED
    BY <2>1, PlanIsWhole, WholeIs
<1>3. \A k : /\ k \in Shows("skills", "removed") <=> k \in New(snap.skills, live.skills)
             /\ k \in Shows("skills", "added") <=> k \in New(live.skills, snap.skills)
             /\ k \in Shows("skills", "changed") <=> k \in Changed(live.skills, snap.skills)
  BY <1>2, ShownIds DEF Buckets
<1> QED
  BY <1>1, <1>3

LEMMA CareerShown ==
    ASSUME Applied
    PROVE Shows("career", "changed") = Changed(live.career, rows.career) /\ rows.career = snap.career
<1>1. rows.career = snap.career
  <2>1. By("career", "update") = {}
    BY StageNumbers DEF Applied, Finished, Stages
  <2> QED
    BY <2>1 DEF Applied, Halfway, CareerHalfway
<1>2. ASSUME NEW f
      PROVE f \in Shows("career", "changed") <=> f \in Changed(live.career, snap.career)
  BY PlanIsWhole, WholeIs, ShownIds DEF Buckets
<1> QED
  BY <1>1, <1>2

LEMMA OutlookShown ==
    ASSUME Applied
    PROVE /\ Shows("outlook", "removed") = New(rows.outlook, live.outlook)
          /\ Shows("outlook", "added") = New(live.outlook, rows.outlook)
          /\ Shows("outlook", "changed") = Changed(live.outlook, rows.outlook)
          /\ rows.outlook = snap.outlook
<1>0. todo \subseteq Whole
  BY DEF Applied, Halfway, InOrder
<1>1. rows.outlook = snap.outlook
  BY SkillsPublished DEF Applied
<1>2. \A o \in OutlookCreates : o \notin DOMAIN live.outlook
  <2>1. Stages[20] = <<"outlook", "create">>
    BY DEF Stages
  <2>2. \A o : ~Waits("outlook", "create", o)
    BY <1>0, <2>1, NothingWaits DEF Applied
  <2> QED
    BY <2>2 DEF Applied, Halfway, OutlookHalfway
<1>3. DOMAIN live.outlook \cap DOMAIN snap.outlook \cap TempIds = {}
  BY <1>2 DEF OutlookCreates
<1>4. ASSUME NEW o
      PROVE /\ <<"outlook", "create", o>> \in Plan <=> o \in OutlookCreates
            /\ <<"outlook", "update", o>> \in Plan <=> o \in Changed(live.outlook, snap.outlook) \ TempIds
            /\ <<"outlook", "delete", o>> \in Plan
                  <=> o \in DOMAIN live.outlook \ (DOMAIN snap.outlook \ TempIds)
            /\ <<"outlook", "link", o>> \notin Plan /\ <<"outlook", "unlink", o>> \notin Plan
  <2>1. <<"outlook", "link", o>> \notin Whole /\ <<"outlook", "unlink", o>> \notin Whole
    BY DEF Whole, BuildPlan, PlanCareerFields, PlanPathway, PlanSkills, PlanResources,
       PlanOutlook, PlanSteps, PlanStepLinks, Op
  <2> QED
    BY <2>1, PlanIsWhole, WholeIs
<1>5. \A o : /\ o \in Shows("outlook", "removed")
                   <=> o \in DOMAIN live.outlook \ (DOMAIN snap.outlook \ TempIds)
             /\ o \in Shows("outlook", "added") <=> o \in OutlookCreates
             /\ o \in Shows("outlook", "changed") <=> o \in Changed(live.outlook, snap.outlook) \ TempIds
  BY <1>4, ShownIds DEF Buckets
<1> QED
  BY <1>1, <1>2, <1>3, <1>5 DEF New, Changed, OutlookCreates

LEMMA PathwayShown ==
    ASSUME Applied
    PROVE "pathway" \in DOMAIN Diff <=> rows.pathway # live.pathway
<1>0. todo \subseteq Whole
  BY DEF Applied, Halfway, InOrder
<1>1. rows.pathway = snap.pathway
  <2>1. Stages[4] = <<"pathway", "create">> /\ Stages[5] = <<"pathway", "update">>
        /\ Stages[16] = <<"pathway", "delete">>
    BY DEF Stages
  <2>2. /\ By("pathway", "create") = {} /\ By("pathway", "update") = {}
        /\ By("pathway", "delete") = {}
    BY <2>1, StageNumbers DEF Applied, Finished
  <2> QED
    BY <2>2 DEF Applied, Halfway, PathwayHalfway
<1>2. "pathway" \in DOMAIN Diff <=> \E kind, id : <<"pathway", kind, id>> \in Plan
  BY DiffIs
<1>3. \A kind, id : <<"pathway", kind, id>> \in Plan => kind \in {"create", "update", "delete"}
  BY DEF Plan, BuildPlan, PlanCareerFields, PlanPathway, PlanSkills, PlanResources,
     PlanOutlook, PlanSteps, PlanStepLinks, Op
<1>4. (\E kind, id : <<"pathway", kind, id>> \in Plan)
         <=> \E kind \in {"create", "update", "delete"} : \E id : <<"pathway", kind, id>> \in Whole
  <2>1. ASSUME NEW kind, NEW id, kind \in {"create", "update", "delete"}
        PROVE <<"pathway", kind, id>> \in Plan <=> <<"pathway", kind, id>> \in Whole
    BY <2>1, PlanIsWhole
  <2>2. ASSUME NEW kind, NEW id, <<"pathway", kind, id>> \in Plan
        PROVE kind \in {"create", "update", "delete"} /\ <<"pathway", kind, id>> \in Whole
    <3>1. kind \in {"create", "update", "delete"}
      BY <1>3, <2>2
    <3> QED
      BY <2>1, <2>2, <3>1
  <2>3. ASSUME NEW kind \in {"create", "update", "delete"}, NEW id, <<"pathway", kind, id>> \in Whole
        PROVE <<"pathway", kind, id>> \in Plan
    BY <2>1, <2>3
  <2> HIDE DEF Plan, Whole
  <2> QED
    BY <2>2, <2>3
<1> QED
  BY <1>1, <1>2, <1>4, PathwayPlanned

LEMMA ResourcesShown ==
    ASSUME Applied
    PROVE /\ Shows("resources", "changed") = Changed(live.resources, rows.resources)
          /\ \A x \in Shows("resources", "changed") : rows.resources[x] = snap.resources[x]
          /\ New(rows.resources, live.resources) \subseteq Shows("resources", "removed")
<1>0. todo \subseteq Whole
  BY DEF Applied, Halfway, InOrder
<1>1. \A x : ~Waits("resources", "update", x)
  <2>1. Stages[2] = <<"resources", "update">>
    BY DEF Stages
  <2> QED
    BY <1>0, <2>1, NothingWaits DEF Applied
<1>2. ASSUME NEW x
      PROVE /\ <<"resources", "update", x>> \in Plan
                  <=> /\ x \in (DOMAIN snap.resources \ TempIds) \cap LinkedBy(live)
                      /\ snap.resources[x].text # live.resources[x].text
            /\ <<"resources", "unlink", x>> \in Plan
                  <=> x \in LinkedBy(live) \ (DOMAIN snap.resources \ TempIds)
  BY PlanIsWhole, WholeIs
<1>3. \A x : /\ x \in Shows("resources", "changed")
                  <=> /\ x \in (DOMAIN snap.resources \ TempIds) \cap LinkedBy(live)
                      /\ snap.resources[x].text # live.resources[x].text
             /\ x \in LinkedBy(live) \ DOMAIN snap.resources => x \in Shows("resources", "removed")
  BY <1>2, ShownIds DEF Buckets
<1>4. LinkedBy(live) \subseteq DOMAIN live.resources
  BY LiveIs DEF Applied
<1>5. \A x \in DOMAIN live.resources \ DOMAIN rows.resources : x \in LinkedBy(live) \ DOMAIN snap.resources
  BY DEF Applied, Halfway, ResourcesHalfway
<1>6. \A x \in DOMAIN live.resources \cap DOMAIN rows.resources :
         rows.resources[x] = IF /\ x \in (DOMAIN snap.resources \ TempIds) \cap LinkedBy(live)
                                /\ snap.resources[x].text # live.resources[x].text
                             THEN snap.resources[x] ELSE live.resources[x]
  BY <1>1 DEF Applied, Halfway, ResourcesHalfway
<1>7. ASSUME NEW x
      PROVE x \in Shows("resources", "changed") <=> x \in Changed(live.resources, rows.resources)
  BY <1>3, <1>4, <1>5, <1>6 DEF Changed
<1>8. \A x \in Shows("resources", "changed") : rows.resources[x] = snap.resources[x]
  BY <1>3, <1>6, <1>7 DEF Changed
<1> QED
  BY <1>3, <1>5, <1>7, <1>8 DEF New

LEMMA StepsShown ==
    ASSUME Applied
    PROVE LET stays == DOMAIN live.steps \cap DOMAIN rows.steps IN
          /\ Shows("steps", "removed") = New(rows.steps, live.steps)
          /\ Shows("steps", "added")
                = {ref \in DOMAIN snap.steps : ResolveStep(ref) \in New(live.steps, rows.steps)}
          /\ Shows("steps", "changed") = {p \in stays : live.steps[p].text # rows.steps[p].text}
          /\ Shows("steps", "moved") = {p \in stays : live.steps[p].order # rows.steps[p].order}
          /\ \A p \in stays : rows.steps[p] = snap.steps[p]
<1>1. /\ DOMAIN rows.steps = {ResolveStep(ref) : ref \in DOMAIN snap.steps}
      /\ \A ref \in DOMAIN snap.steps : rows.steps[ResolveStep(ref)] = snap.steps[ref]
      /\ \A p \in DOMAIN live.steps : p \in DOMAIN rows.steps <=> p \in DOMAIN snap.steps
  BY StepsPublished DEF Applied
<1>2. \A p \in DOMAIN live.steps : p \in input.completed => p \in DOMAIN snap.steps
  BY Unblocked DEF Applied
<1>3. ASSUME NEW p
      PROVE /\ <<"steps", "move", p>> \in Plan <=> p \in Moves(live, snap)
            /\ <<"steps", "update", p>> \in Plan
                  <=> p \in Kept(live, snap) /\ live.steps[p].text # snap.steps[p].text
            /\ <<"steps", "create", p>> \in Plan <=> p \in StepCreates(live, snap)
            /\ <<"steps", "delete", p>> \in Plan
                  <=> p \in DOMAIN live.steps \ (Kept(live, snap) \cup input.completed)
            /\ <<"steps", "link", p>> \notin Plan /\ <<"steps", "unlink", p>> \notin Plan
  <2>1. <<"steps", "link", p>> \notin Whole /\ <<"steps", "unlink", p>> \notin Whole
    BY DEF Whole, BuildPlan, PlanCareerFields, PlanPathway, PlanSkills, PlanResources,
       PlanOutlook, PlanSteps, PlanStepLinks, Op
  <2> QED
    BY <2>1, PlanIsWhole, WholeIs
<1>4. \A p : /\ p \in Shows("steps", "removed")
                   <=> p \in DOMAIN live.steps \ (Kept(live, snap) \cup input.completed)
             /\ p \in Shows("steps", "added") <=> p \in StepCreates(live, snap)
             /\ p \in Shows("steps", "moved") <=> p \in Moves(live, snap)
             /\ p \in Shows("steps", "changed")
                   <=> p \in Kept(live, snap) /\ live.steps[p].text # snap.steps[p].text
  BY <1>3, ShownIds DEF Buckets
<1>5. /\ \A ref \in StepCreates(live, snap) :
            ref \in DOMAIN snap.steps /\ Fresh(ref) \notin DOMAIN live.steps
            /\ ResolveStep(ref) = Fresh(ref)
      /\ \A ref \in DOMAIN snap.steps \ StepCreates(live, snap) :
            ref \in DOMAIN live.steps /\ ResolveStep(ref) = ref
  BY FreshIds DEF Applied, StepCreates, Kept, ResolveStep
<1>6. Shows("steps", "removed") = New(rows.steps, live.steps)
  BY <1>1, <1>2, <1>4 DEF New, Kept
<1>7. Shows("steps", "added")
         = {ref \in DOMAIN snap.steps : ResolveStep(ref) \in New(live.steps, rows.steps)}
  BY <1>1, <1>4, <1>5 DEF New
<1>8. \A p : p \in DOMAIN live.steps \cap DOMAIN rows.steps <=> p \in Kept(live, snap)
  BY <1>1 DEF Kept
<1>9. ASSUME NEW p \in Kept(live, snap)
      PROVE rows.steps[p] = snap.steps[p]
  <2>1. p \in DOMAIN live.steps /\ p \in DOMAIN snap.steps /\ p \notin StepCreates(live, snap)
    BY DEF Kept, StepCreates
  <2> QED
    BY <1>1, <1>5, <2>1
<1>10. ASSUME NEW p
       PROVE /\ p \in Shows("steps", "changed") <=> /\ p \in DOMAIN live.steps \cap DOMAIN rows.steps
                                                    /\ live.steps[p].text # rows.steps[p].text
             /\ p \in Shows("steps", "moved") <=> /\ p \in DOMAIN live.steps \cap DOMAIN rows.steps
                                                  /\ live.steps[p].order # rows.steps[p].order
  BY <1>4, <1>8, <1>9 DEF Moves
<1> QED
  BY <1>6, <1>7, <1>8, <1>9, <1>10

\* The links that are made are apart from the live ones and from each other.
LEMMA MadeLinks ==
    ASSUME Applied
    PROVE /\ \A p, q \in DOMAIN snap.steps : ResolveStep(p) = ResolveStep(q) => p = q
          /\ \A link, k \in snap.stepResources :
                ResolveResource(link[2]) = ResolveResource(k[2]) => link[2] = k[2]
          /\ \A p \in DOMAIN snap.steps :
                p \in DOMAIN live.steps \/ ResolveStep(p) \in DOMAIN live.steps => ResolveStep(p) = p
          /\ \A link \in snap.stepResources :
                link[2] \in DOMAIN live.resources \/ ResolveResource(link[2]) \in DOMAIN live.resources
                   => ResolveResource(link[2]) = link[2]
<1>1. /\ \A ref \in StepCreates(live, snap) :
            ref \notin DOMAIN live.steps /\ Fresh(ref) \notin DOMAIN live.steps
            /\ ResolveStep(ref) = Fresh(ref)
      /\ \A ref \in DOMAIN snap.steps \ StepCreates(live, snap) :
            ref \in DOMAIN live.steps /\ ResolveStep(ref) = ref
  BY FreshIds DEF Applied, StepCreates, Kept, ResolveStep
<1>2. /\ \A ref \in TempIds : /\ Fresh(ref) \notin DOMAIN live.resources
                              /\ ref \notin DOMAIN live.resources
      /\ \A ref \in TempIds, link \in snap.stepResources : Fresh(ref) # link[2]
  BY FreshIds, LiveIs DEF Applied, Sound
<1>3. \A ref, x : Fresh(ref) = Fresh(x) => ref = x
  BY FreshIds DEF Applied
<1>4. \A p, q \in DOMAIN snap.steps : ResolveStep(p) = ResolveStep(q) => p = q
  BY <1>1, <1>3
<1>5. \A link, k \in snap.stepResources :
         ResolveResource(link[2]) = ResolveResource(k[2]) => link[2] = k[2]
  BY <1>2, <1>3 DEF ResolveResource
<1>6. \A p \in DOMAIN snap.steps :
         p \in DOMAIN live.steps \/ ResolveStep(p) \in DOMAIN live.steps => ResolveStep(p) = p
  BY <1>1
<1>7. \A link \in snap.stepResources :
         link[2] \in DOMAIN live.resources \/ ResolveResource(link[2]) \in DOMAIN live.resources
            => ResolveResource(link[2]) = link[2]
  BY <1>2 DEF ResolveResource
<1> QED
  BY <1>4, <1>5, <1>6, <1>7

LEMMA LinksShown ==
    ASSUME Applied, NEW section \in {"stepSkills", "stepResources"}
    PROVE LET Row(link) == IF section = "stepSkills" THEN <<ResolveStep(link[1]), link[2]>>
                           ELSE <<ResolveStep(link[1]), ResolveResource(link[2])>> IN
          /\ Shows(section, "removed")
                = {link \in live[section] : link[1] \in DOMAIN rows.steps} \ rows[section]
          /\ Shows(section, "added")
                = {link \in snap[section] : Row(link) \in rows[section] \ live[section]}
<1> DEFINE here == {k \in snap[section] : k[1] \in Kept(live, snap) \cup TempIds}
           Row(link) == IF section = "stepSkills" THEN <<ResolveStep(link[1]), link[2]>>
                        ELSE <<ResolveStep(link[1]), ResolveResource(link[2])>>
           f == [link \in snap[section] |-> Row(link)]
<1>1. rows[section] = {f[link] : link \in here}
  <2>1. CASE section = "stepSkills"
    BY <2>1, LinksPublished DEF Applied
  <2>2. CASE section = "stepResources"
    BY <2>2, LinksPublished DEF Applied
  <2> QED
    BY <2>1, <2>2
<1>2. /\ \A link \in snap[section] : link = <<link[1], link[2]>> /\ link[1] \in DOMAIN snap.steps
      /\ \A link \in live[section] :
            /\ link = <<link[1], link[2]>> /\ link[1] \in DOMAIN live.steps /\ link[1] \notin TempIds
            /\ section = "stepResources" => link[2] \in DOMAIN live.resources
  <2>1. /\ IsRows(live) /\ SatisfiesSchema(live)
        /\ TempIds \cap DOMAIN live.steps = {}
    BY LiveIs DEF Applied
  <2> QED
    BY <2>1 DEF Applied, Sound, IsRows, SatisfiesSchema
<1>3. ASSUME NEW link \in snap[section], NEW k \in snap[section], f[link] = f[k] PROVE link = k
  <2>1. link \in snap[section] /\ k \in snap[section]
    OBVIOUS
  <2>2. ResolveStep(link[1]) = ResolveStep(k[1])
    BY <1>3
  <2>3. link[1] = k[1]
    BY <1>2, <2>1, <2>2, MadeLinks
  <2>4. link[2] = k[2]
    <3>1. CASE section = "stepSkills"
      BY <1>3, <3>1
    <3>2. CASE section = "stepResources"
      <4>1. ResolveResource(link[2]) = ResolveResource(k[2])
        BY <1>3, <3>2
      <4> QED
        BY <2>1, <3>2, <4>1, MadeLinks
    <3> QED
      BY <3>1, <3>2
  <2> QED
    BY <1>2, <2>1, <2>3, <2>4
<1>4. ASSUME NEW link \in snap[section]
      PROVE link \in live[section] \/ f[link] \in live[section] => f[link] = link
  <2>1. link \in snap[section] /\ link = <<link[1], link[2]>> /\ link[1] \in DOMAIN snap.steps
    BY <1>2
  <2>2. f[link][1] = ResolveStep(link[1])
    OBVIOUS
  <2>3. SUFFICES ASSUME link \in live[section] \/ f[link] \in live[section]
                 PROVE f[link] = link
    OBVIOUS
  <2>4. link[1] \in DOMAIN live.steps \/ ResolveStep(link[1]) \in DOMAIN live.steps
    BY <1>2, <2>2, <2>3
  <2>5. ResolveStep(link[1]) = link[1]
    BY <2>1, <2>4, MadeLinks
  <2>6. CASE section = "stepSkills"
    BY <2>1, <2>5, <2>6
  <2>7. CASE section = "stepResources"
    <3>1. f[link] = <<ResolveStep(link[1]), ResolveResource(link[2])>>
      BY <2>7
    <3>2. link[2] \in DOMAIN live.resources \/ ResolveResource(link[2]) \in DOMAIN live.resources
      BY <1>2, <2>3, <2>7, <3>1
    <3>3. ResolveResource(link[2]) = link[2]
      BY <2>1, <2>7, <3>2, MadeLinks
    <3> QED
      BY <2>1, <2>5, <3>1, <3>3
  <2> QED
    BY <2>6, <2>7
<1>5. ASSUME NEW link
      PROVE /\ <<section, "link", link>> \in Plan
                  <=> link \in snap[section] \ live[section] /\ link[1] \in Kept(live, snap) \cup TempIds
            /\ <<section, "unlink", link>> \in Plan
                  <=> link \in live[section] \ snap[section] /\ link[1] \in Kept(live, snap)
            /\ <<section, "create", link>> \notin Plan /\ <<section, "delete", link>> \notin Plan
  <2>1. <<section, "create", link>> \notin Whole /\ <<section, "delete", link>> \notin Whole
    BY DEF Whole, BuildPlan, PlanCareerFields, PlanPathway, PlanSkills, PlanResources,
       PlanOutlook, PlanSteps, PlanStepLinks, Op
  <2>2. CASE section = "stepSkills"
    BY <2>1, <2>2, PlanIsWhole, WholeIs
  <2>3. CASE section = "stepResources"
    BY <2>1, <2>3, PlanIsWhole, WholeIs
  <2> QED
    BY <2>2, <2>3
<1>6. \A link : /\ link \in Shows(section, "added") <=> link \in here \ live[section]
                /\ link \in Shows(section, "removed")
                      <=> link \in live[section] \ snap[section] /\ link[1] \in Kept(live, snap)
  BY <1>5, ShownIds DEF Buckets
<1>7. \A p \in DOMAIN live.steps : p \in DOMAIN rows.steps <=> p \in Kept(live, snap)
  BY StepsPublished DEF Applied, Kept
<1>8. Shows(section, "removed") = {link \in live[section] : link[1] \in DOMAIN rows.steps} \ rows[section]
  <2>1. ASSUME NEW link \in live[section], link[1] \in Kept(live, snap)
        PROVE link \in rows[section] <=> link \in snap[section]
    <3>1. ASSUME link \in snap[section] PROVE link \in rows[section]
      <4>1. link \in here
        BY <2>1, <3>1
      <4>2. f[link] = link
        BY <1>4, <4>1
      <4> HIDE DEF f, here
      <4> QED
        BY <1>1, <4>1, <4>2
    <3>2. ASSUME NEW k \in here, link = f[k] PROVE link \in snap[section]
      <4>1. link = k
        BY <1>4, <3>2
      <4> QED
        BY <4>1
    <3> HIDE DEF f, here
    <3> QED
      BY <1>1, <3>1, <3>2
  <2> HIDE DEF f, here
  <2> QED
    BY <1>2, <1>6, <1>7, <2>1
<1>9. ASSUME NEW link \in snap[section]
      PROVE link \in Shows(section, "added") <=> f[link] \in rows[section] \ live[section]
  <2>1. link \in live[section] <=> f[link] \in live[section]
    BY <1>4
  <2>2. f[link] \in rows[section] <=> link \in here
    <3>1. \A k \in here : k \in snap[section]
      OBVIOUS
    <3> HIDE DEF f, here
    <3> QED
      BY <1>1, <1>3, <3>1
  <2> QED
    BY <1>6, <2>1, <2>2
<1>10. Shows(section, "added") = {link \in snap[section] : f[link] \in rows[section] \ live[section]}
  <2>1. \A link \in Shows(section, "added") : link \in snap[section]
    BY <1>6
  <2> HIDE DEF f, here
  <2> QED
    BY <1>9, <2>1
<1>11. \A link \in snap[section] : f[link] = Row(link)
  OBVIOUS
<1> HIDE DEF f, here
<1> QED
  BY <1>8, <1>10, <1>11

\* What the reviewer is shown of a plan, with the values and as often as it is shown, is what its
\* publication changes of every section (groupOperations, applyPlan).
THEOREM DiffIsWhatChanges == Spec => []DiffShowsEveryChange
<1>1. ASSUME Applied PROVE DiffShowsEveryChange
  <2> DEFINE stays == DOMAIN live.steps \cap DOMAIN rows.steps
  <2>1. ASSUME NEW section \in {"career", "skills", "outlook", "resources"}
        PROVE Listed(section, "changed")
                 = Counted({<<id, Change(live, rows, section, id)>> :
                               id \in Changed(live[section], rows[section])})
    <3>1. Shows(section, "changed") = Changed(live[section], rows[section])
      BY <1>1, CareerShown, SkillsShown, OutlookShown, ResourcesShown
    <3>2. \A id \in Shows(section, "changed") : rows[section][id] = snap[section][id]
      BY <1>1, CareerShown, SkillsShown, OutlookShown, ResourcesShown
    <3>3. ASSUME NEW id \in Shows(section, "changed")
          PROVE Change(live, snap, section, id) = Change(live, rows, section, id)
      BY <3>2 DEF Change
    <3> QED
      BY <3>1, <3>3, ChangesListed
  <2>2. Listed("steps", "changed")
           = Counted({<<p, Change(live, rows, "steps", p)>> :
                         p \in {q \in stays : live.steps[q].text # rows.steps[q].text}})
    <3>1. /\ Shows("steps", "changed") = {q \in stays : live.steps[q].text # rows.steps[q].text}
          /\ \A p \in stays : rows.steps[p] = snap.steps[p]
      BY <1>1, StepsShown
    <3>2. ASSUME NEW p \in Shows("steps", "changed")
          PROVE Change(live, snap, "steps", p) = Change(live, rows, "steps", p)
      BY <3>1 DEF Change
    <3> QED
      BY <3>1, <3>2, ChangesListed
  <2>3. Listed("steps", "moved")
           = Counted({<<p, Move(live, rows, p)>> :
                         p \in {q \in stays : live.steps[q].order # rows.steps[q].order}})
    <3>1. /\ Shows("steps", "moved") = {q \in stays : live.steps[q].order # rows.steps[q].order}
          /\ \A p \in stays : rows.steps[p] = snap.steps[p]
      BY <1>1, StepsShown
    <3>2. \A p \in Shows("steps", "moved") : Entry(live, snap, "steps", "moved", p) = Move(live, rows, p)
      BY <3>1 DEF Entry, Move
    <3>3. {<<p, Entry(live, snap, "steps", "moved", p)>> : p \in Shows("steps", "moved")}
             = {<<p, Move(live, rows, p)>> : p \in Shows("steps", "moved")}
      BY <3>2
    <3> QED
      BY <3>1, <3>3, ListedIs
  <2>4. \A section \in {"skills", "outlook", "steps"} :
           Listed(section, "removed") = Counted({<<id, id>> : id \in New(rows[section], live[section])})
    BY <1>1, RowsListed, SkillsShown, OutlookShown, StepsShown
  <2>5. \A section \in {"skills", "outlook"} :
           Listed(section, "added") = Counted({<<id, id>> : id \in New(live[section], rows[section])})
    BY <1>1, RowsListed, SkillsShown, OutlookShown
  <2>6. Listed("steps", "added")
           = Counted({<<id, id>> : id \in {ref \in DOMAIN snap.steps :
                                               ResolveStep(ref) \in New(live.steps, rows.steps)}})
    BY <1>1, RowsListed, StepsShown
  <2>7. \A section \in {"stepSkills", "stepResources"} :
           Listed(section, "removed")
              = Counted({<<link, link[2]>> :
                            link \in {k \in live[section] : k[1] \in DOMAIN rows.steps} \ rows[section]})
    BY <1>1, LinksListed, LinksShown
  <2>8. Listed("stepSkills", "added")
           = Counted({<<link, link[2]>> :
                         link \in {k \in snap.stepSkills :
                                      <<ResolveStep(k[1]), k[2]>> \in rows.stepSkills \ live.stepSkills}})
    BY <1>1, LinksListed, LinksShown
  <2>9. Listed("stepResources", "added")
           = Counted({<<link, link[2]>> :
                         link \in {k \in snap.stepResources :
                                      <<ResolveStep(k[1]), ResolveResource(k[2])>>
                                          \in rows.stepResources \ live.stepResources}})
    BY <1>1, LinksListed, LinksShown
  <2>10. New(rows.resources, live.resources) \subseteq DOMAIN Listed("resources", "removed")
    <3>1. New(rows.resources, live.resources) \subseteq Shows("resources", "removed")
      BY <1>1, ResourcesShown
    <3>2. ASSUME NEW S PROVE S \subseteq DOMAIN Counted({<<id, id>> : id \in S})
      <4>1. ASSUME NEW id \in S PROVE id \in {pair[2] : pair \in {<<x, x>> : x \in S}}
        <5>1. <<id, id>> \in {<<x, x>> : x \in S} /\ <<id, id>>[2] = id
          OBVIOUS
        <5> QED
          BY <5>1
      <4> QED
        BY <4>1 DEF Counted
    <3> QED
      BY <3>1, <3>2, RowsListed
  <2>11. (rows.pathway # live.pathway) = ("pathway" \in DOMAIN Diff)
    BY <1>1, PathwayShown
  <2> QED
    BY <2>1, <2>2, <2>3, <2>4, <2>5, <2>6, <2>7, <2>8, <2>9, <2>10, <2>11, Zenon
       DEF DiffShowsEveryChange, Listed, Diff, Plan
<1>2. PublicationInv => DiffShowsEveryChange
  <2>1. CASE result = "applied"
    BY <1>1, <2>1 DEF PublicationInv, Typed, SnapshotSound, Applied
  <2>2. CASE result # "applied"
    BY <2>2, Zenon DEF DiffShowsEveryChange
  <2> QED
    BY <2>1, <2>2
<1> QED
  BY <1>2, PublicationInvHolds, PTL

=============================================================================
