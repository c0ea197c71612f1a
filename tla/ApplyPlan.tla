------------------------------ MODULE ApplyPlan ------------------------------
(***************************************************************************)
(* How a draft becomes the live rows of its career: it is saved if it has  *)
(* no problems, planned, and published if the plan has no blockers, by     *)
(* applyPlan, which runs one statement per operation inside the publishing *)
(* transaction.  A statement that breaks a constraint rolls that back.     *)
(* Meanwhile publications of other careers, which lock other careers,      *)
(* link, unlink and delete the same resources and take the same keys.      *)
(***************************************************************************)
EXTENDS Snapshots

CONSTANTS
    Offset,         \* REORDER_OFFSET
    Inputs,         \* live rows to start from, a draft of them, the steps learners
                    \* have completed, and what the other publications touch
    OtherLinked,    \* resources that steps of other careers link to start with
    OtherKeys,      \* slugs, titles and outlook ids of other careers to start with
    AllSkills,      \* rows of the Skill table,
    AllFields,      \* of the Field table,
    AllSources,     \* and of the Source table: nothing deletes one
    Refused,        \* texts and dates the DTOs accept and a column does not
    MaxOrder        \* the largest INTEGER

VARIABLES
    input,    \* the one chosen of Inputs
    snap,     \* the saved snapshot
    rows,     \* the rows now
    todo,     \* operations not yet applied
    doomed,   \* a resource nobody was found to link, about to be deleted, or Null
    others,   \* the resources that other careers link now,
    joining,  \* and those they are about to, in transactions not committed yet
    gone,     \* resources that others have deleted meanwhile
    taken,    \* the slugs, titles and outlook ids that other careers have now
    result    \* "editing", "invalid", "saved", "blocked", "applying", and at the end
              \* "applied", "failed" or "interrupted"

publication == <<input, snap, rows, todo, doomed, result>>
elsewhere == <<others, joining, gone, taken>>
vars == <<publication, elsewhere>>

live == input.live

\* The id the database gives to a row created for a reference.
Fresh(ref) == <<"row", ref>>

-----------------------------------------------------------------------------
(***************************************************************************)
(* What there is to start from.                                            *)
(***************************************************************************)
\* What must be unique among all careers: slugs, titles and ids of outlook rows.
Keys(r) ==
    {<<"slug", r.career.slug>>, <<"title", r.career.title>>} \cup ({"outlook"} \X DOMAIN r.outlook)

\* A date such as "2026-10-01" is ISO 8601 and no DateTime of Prisma; a year or a price may be
\* a number and too large for its column.
ResourceFits(row) == row.text \notin Refused /\ row.checked \notin Refused

OutlookFits(row) == row.text \notin Refused /\ row.source \in AllSources \cup {Null}

\* What the columns hold: foreign keys to rows that exist, and values that fit.
ColumnsFit(r) ==
    /\ r.career.field \in AllFields
    /\ \A p \in DOMAIN r.steps : r.steps[p].order <= MaxOrder
    /\ DOMAIN r.skills \subseteq AllSkills
    /\ \A link \in r.stepSkills : link[2] \in AllSkills
    /\ \A x \in DOMAIN r.resources : ResourceFits(r.resources[x])
    /\ \A o \in DOMAIN r.outlook : OutlookFits(r.outlook[o])

\* The constraints of the schema: no two steps of the pathway share an order, steps
\* have a pathway, and a link joins a step and a resource that exist.
SatisfiesSchema(r) ==
    /\ ColumnsFit(r)
    /\ \A p, q \in DOMAIN r.steps : r.steps[p].order = r.steps[q].order => p = q
    /\ DOMAIN r.steps # {} => r.pathway # Null
    /\ \A link \in r.stepSkills : link[1] \in DOMAIN r.steps
    /\ \A link \in r.stepResources :
          link[1] \in DOMAIN r.steps /\ link[2] \in DOMAIN r.resources

IsTable(f) == f = [id \in DOMAIN f |-> f[id]]

IsCareer(c) == c = [slug |-> c.slug, title |-> c.title, field |-> c.field, text |-> c.text]

\* Rows by section, the columns of a step and of a career, and links as pairs.
IsRows(r) ==
    /\ r = [career |-> r.career, pathway |-> r.pathway, steps |-> r.steps,
            stepSkills |-> r.stepSkills, stepResources |-> r.stepResources,
            skills |-> r.skills, resources |-> r.resources, outlook |-> r.outlook]
    /\ IsCareer(r.career)
    /\ IsTable(r.steps) /\ IsTable(r.skills) /\ IsTable(r.resources) /\ IsTable(r.outlook)
    /\ \A p \in DOMAIN r.steps :
          /\ r.steps[p] = [order |-> r.steps[p].order, text |-> r.steps[p].text]
          /\ r.steps[p].order \in Int
    /\ \A link \in r.stepSkills \cup r.stepResources : link = <<link[1], link[2]>>

IsFinite(r) ==
    /\ \A part \in {"steps", "skills", "resources", "outlook"} : IsFiniteSet(DOMAIN r[part])
    /\ IsFiniteSet(r.stepSkills) /\ IsFiniteSet(r.stepResources)

IsList(list) == Len(list) \in Nat /\ DOMAIN list = 1..Len(list)

\* What a draft links its steps to.
DraftLinks(draft) == UNION {Range(draft.steps[i].resourceIds) : i \in DOMAIN draft.steps}

\* The database has no id that the editor invents, and gives no id that there is.
ASSUME InputsAssumption ==
    /\ Offset \in Nat \ {0} /\ MaxOrder \in Int
    /\ \A given \in Inputs : LET l == given.live draft == given.draft IN
          /\ IsRows(l) /\ IsFinite(l) /\ SatisfiesSchema(l) /\ Keys(l) \cap OtherKeys = {}
          /\ \A part \in {"steps", "skills", "resources", "outlook"} : IsList(draft[part])
          /\ \A i \in DOMAIN draft.steps :
                /\ draft.steps[i].order \in Int
                /\ IsList(draft.steps[i].skillIds) /\ IsList(draft.steps[i].resourceIds)
          /\ IsCareer(draft.career)
          /\ TempIds \cap (DOMAIN l.steps \cup DOMAIN l.resources) = {}
          /\ \A ref \in Ids(draft.steps) \cup TempIds :
                Fresh(ref) \notin DOMAIN l.steps \cup DOMAIN l.resources \cup DraftLinks(draft) \cup OtherLinked

-----------------------------------------------------------------------------
Init ==
    /\ input \in Inputs
    /\ snap = Null
    /\ rows = live
    /\ todo = {}
    /\ doomed = Null
    /\ others = OtherLinked
    /\ joining = {}
    /\ gone = {}
    /\ taken = OtherKeys
    /\ result = "editing"

SaveDraft ==
    /\ result = "editing"
    /\ IF FindSnapshotProblems(input.draft) = {}
       THEN snap' = Snapshot(input.draft) /\ result' = "saved"
       ELSE result' = "invalid" /\ UNCHANGED snap
    /\ UNCHANGED <<input, rows, todo, doomed, elsewhere>>

\* The moved steps are first offset, by one updateMany.
StartApplying ==
    /\ result = "saved"
    /\ IF Blockers(live, snap, input.completed) = {}
       THEN /\ todo' = BuildPlan(live, snap, input.completed)
                       \cup Op("steps", "offset", Moves(live, snap))
            /\ result' = "applying"
       ELSE result' = "blocked" /\ UNCHANGED todo
    /\ UNCHANGED <<input, snap, rows, doomed, elsewhere>>

-----------------------------------------------------------------------------
(***************************************************************************)
(* applyPlan, a statement at a time.                                       *)
(***************************************************************************)
\* The order of the sections.  Nothing applies a "link" of section "resources".
Stages ==
    <<<<"resources", "create">>, <<"resources", "update">>, <<"career", "update">>,
      <<"pathway", "create">>, <<"pathway", "update">>,
      <<"steps", "offset">>, <<"steps", "move">>, <<"steps", "update">>,
      <<"steps", "create">>, <<"steps", "delete">>,
      <<"stepSkills", "link">>, <<"stepSkills", "unlink">>,
      <<"stepResources", "link">>, <<"stepResources", "unlink">>,
      <<"resources", "unlink">>, <<"pathway", "delete">>,
      <<"skills", "link">>, <<"skills", "update">>, <<"skills", "unlink">>,
      <<"outlook", "create">>, <<"outlook", "update">>, <<"outlook", "delete">>>>

By(section, kind) == {op \in todo : op[1] = section /\ op[2] = kind}

\* These operations, of one section and kind, are next.
Take(section, kind, ops) ==
    /\ result = "applying"
    /\ doomed = Null
    /\ ops # {} /\ ops \subseteq By(section, kind)
    /\ \E n \in DOMAIN Stages :
           /\ Stages[n] = <<section, kind>>
           /\ \A m \in 1..(n - 1) : By(Stages[m][1], Stages[m][2]) = {}
    /\ todo' = todo \ ops
    /\ UNCHANGED <<input, snap>>

Write(newRows) == rows' = newRows /\ UNCHANGED <<doomed, result>>

Rollback == rows' = live /\ result' = "failed" /\ UNCHANGED doomed

WriteIf(allowed, newRows) == IF allowed THEN Write(newRows) ELSE Rollback

\* The function with the value at id, and the function without ids.
With(f, id, value) == [i \in DOMAIN f \cup {id} |-> IF i = id THEN value ELSE f[i]]
Without(f, ids) == [i \in DOMAIN f \ ids |-> f[i]]

OrderFree(order) == \A p \in DOMAIN rows.steps : rows.steps[p].order # order

\* Mutant: the pathway has no unique index.
SetOrder_NotUnique(p, order) == Write([rows EXCEPT !.steps[p].order = order])

\* The unique index on (pathwayId, order) is checked row by row.
SetOrder(p, order) ==
    WriteIf(order <= MaxOrder /\ OrderFree(order), [rows EXCEPT !.steps[p].order = order])

CreateResource(op) ==
    LET row == snap.resources[op[3]] IN
    /\ Take("resources", "create", {op})
    /\ WriteIf(ResourceFits(row),
               [rows EXCEPT !.resources = With(rows.resources, Fresh(op[3]), row)])

\* The whole row is written, with the date that was not compared.
UpdateResource(op) ==
    LET row == snap.resources[op[3]] IN
    /\ Take("resources", "update", {op})
    /\ WriteIf(ResourceFits(row), [rows EXCEPT !.resources[op[3]] = row])

\* One statement for all columns; slugs and titles are unique, and the field must exist.
UpdateCareer ==
    LET new == [rows EXCEPT !.career = snap.career] IN
    /\ Take("career", "update", By("career", "update"))
    /\ WriteIf(Keys(new) \cap taken = {} /\ snap.career.field \in AllFields, new)

\* A "delete" never comes so far: without a pathway there are no steps, which blocks.
WritePathway ==
    /\ \E kind \in {"create", "update", "delete"} : Take("pathway", kind, By("pathway", kind))
    /\ Write([rows EXCEPT !.pathway = snap.pathway])

\* updateMany adds the offset to the moved rows in an order of its own.
OffsetStep(op) ==
    /\ Take("steps", "offset", {op})
    /\ SetOrder(op[3], rows.steps[op[3]].order + Offset)

MoveStep(op) ==
    /\ Take("steps", "move", {op})
    /\ SetOrder(op[3], snap.steps[op[3]].order)

UpdateStep(op) ==
    /\ Take("steps", "update", {op})
    /\ Write([rows EXCEPT !.steps[op[3]].text = snap.steps[op[3]].text])

CreateStep(op) ==
    LET step == snap.steps[op[3]] IN
    /\ Take("steps", "create", {op})
    /\ WriteIf(rows.pathway # Null /\ step.order <= MaxOrder /\ OrderFree(step.order),
               [rows EXCEPT !.steps = With(rows.steps, Fresh(op[3]), step)])

\* The links of the step go with it.
DeleteStep(op) ==
    LET Left(links) == {link \in links : link[1] # op[3]} IN
    /\ Take("steps", "delete", {op})
    /\ Write([rows EXCEPT !.steps = Without(rows.steps, {op[3]}),
                          !.stepSkills = Left(rows.stepSkills),
                          !.stepResources = Left(rows.stepResources)])

\* resolveStepId and resolveResourceId: ids of rows created for a reference.
ResolveStep(ref) == IF ref \in StepCreates(live, snap) THEN Fresh(ref) ELSE ref

ResolveResource(ref) == IF ref \in DOMAIN snap.resources \cap TempIds THEN Fresh(ref) ELSE ref

\* Foreign keys refuse links to a skill or a resource there is not.
LinkStep(op) ==
    \/ LET row == <<ResolveStep(op[3][1]), op[3][2]>> IN
       /\ Take("stepSkills", "link", {op})
       /\ WriteIf(row[2] \in AllSkills,
                  [rows EXCEPT !.stepSkills = rows.stepSkills \cup {row}])
    \/ LET row == <<ResolveStep(op[3][1]), ResolveResource(op[3][2])>> IN
       /\ Take("stepResources", "link", {op})
       /\ WriteIf(row[2] \in DOMAIN rows.resources \ gone,
                  [rows EXCEPT !.stepResources = rows.stepResources \cup {row}])

UnlinkStep(op) ==
    \/ /\ Take("stepSkills", "unlink", {op})
       /\ Write([rows EXCEPT !.stepSkills = rows.stepSkills \ {op[3]}])
    \/ /\ Take("stepResources", "unlink", {op})
       /\ Write([rows EXCEPT !.stepResources = rows.stepResources \ {op[3]}])

\* Mutant: references of other careers are not counted.
StillReferenced_Here(x) == x \in LinkedBy(rows)

\* Links other publications have not committed yet are not seen.
StillReferenced(x) == x \in LinkedBy(rows) \cup others

CountReferences(op) ==
    /\ Take("resources", "unlink", {op})
    /\ doomed' = IF StillReferenced(op[3]) THEN Null ELSE op[3]
    /\ UNCHANGED <<rows, result>>

\* The DELETE waits for whoever has locked the row to link it.
DeleteResource ==
    /\ result = "applying"
    /\ doomed # Null
    /\ doomed \notin joining
    /\ rows' = [rows EXCEPT !.resources = Without(rows.resources, {doomed})]
    /\ doomed' = Null
    /\ UNCHANGED <<input, snap, todo, result>>

LinkSkill(op) ==
    /\ Take("skills", "link", {op})
    /\ WriteIf(op[3] \in AllSkills,
               [rows EXCEPT !.skills = With(rows.skills, op[3], snap.skills[op[3]])])

UpdateSkill(op) ==
    /\ Take("skills", "update", {op})
    /\ Write([rows EXCEPT !.skills[op[3]] = snap.skills[op[3]]])

UnlinkSkill(op) ==
    /\ Take("skills", "unlink", {op})
    /\ Write([rows EXCEPT !.skills = Without(rows.skills, {op[3]})])

\* The row is created with the id in the snapshot, a temporary one as well.
CreateOutlook(op) ==
    LET row == snap.outlook[op[3]] IN
    /\ Take("outlook", "create", {op})
    /\ WriteIf(op[3] \notin DOMAIN rows.outlook /\ <<"outlook", op[3]>> \notin taken /\ OutlookFits(row),
               [rows EXCEPT !.outlook = With(rows.outlook, op[3], row)])

UpdateOutlook(op) ==
    LET row == snap.outlook[op[3]] IN
    /\ Take("outlook", "update", {op})
    /\ WriteIf(OutlookFits(row), [rows EXCEPT !.outlook[op[3]] = row])

DeleteOutlook(op) ==
    /\ Take("outlook", "delete", {op})
    /\ Write([rows EXCEPT !.outlook = Without(rows.outlook, {op[3]})])

Commit ==
    /\ result = "applying"
    /\ doomed = Null
    /\ \A n \in DOMAIN Stages : By(Stages[n][1], Stages[n][2]) = {}
    /\ result' = "applied"
    /\ UNCHANGED <<input, snap, rows, todo, doomed>>

\* The transaction ends although no constraint refused a statement: it takes longer than
\* Prisma's five seconds, is the victim of a deadlock with learners or other publications,
\* or loses the connection.
Interrupt ==
    /\ result = "applying"
    /\ rows' = live /\ result' = "interrupted"
    /\ todo' = {} /\ doomed' = Null
    /\ UNCHANGED <<input, snap>>

Statement(op) ==
    \/ CreateResource(op) \/ UpdateResource(op) \/ CountReferences(op)
    \/ OffsetStep(op) \/ MoveStep(op) \/ UpdateStep(op) \/ CreateStep(op) \/ DeleteStep(op)
    \/ LinkStep(op) \/ UnlinkStep(op)
    \/ LinkSkill(op) \/ UpdateSkill(op) \/ UnlinkSkill(op)
    \/ CreateOutlook(op) \/ UpdateOutlook(op) \/ DeleteOutlook(op)

Publication ==
    \/ UpdateCareer \/ WritePathway \/ DeleteResource \/ Commit \/ Interrupt
    \/ \E op \in todo : Statement(op)

-----------------------------------------------------------------------------
(***************************************************************************)
(* Publications of other careers, of the same code.                        *)
(***************************************************************************)
\* An insert of a link locks the resource, and waits for one that deletes it.  What this
\* publication has created is not seen before it commits.
OtherLinks(x) ==
    /\ x \notin others \cup joining
    /\ x \in (DOMAIN live.resources \cap DOMAIN rows.resources) \ gone
    /\ joining' = joining \cup {x}
    /\ UNCHANGED <<others, gone, taken>>

OtherCommits(x) ==
    /\ x \in joining
    /\ joining' = joining \ {x}
    /\ others' = others \cup {x}
    /\ UNCHANGED <<gone, taken>>

OtherRollsBack(x) ==
    /\ x \in joining
    /\ joining' = joining \ {x}
    /\ UNCHANGED <<others, gone, taken>>

OtherUnlinks(x) ==
    /\ x \in others
    /\ others' = others \ {x}
    /\ UNCHANGED <<joining, gone, taken>>

\* One that takes the last link back and deletes the resource.  Its count finds the links
\* this career has, and its DELETE waits for one that inserts a link.
OtherDeletes(x) ==
    /\ x \in others \ joining
    /\ x \notin LinkedBy(live) \cup LinkedBy(rows)
    /\ others' = others \ {x}
    /\ gone' = gone \cup {x}
    /\ UNCHANGED <<joining, taken>>

\* A career elsewhere gets a slug, a title or an outlook row; what this publication has
\* or had is locked until it ends.
OtherTakes(key) ==
    /\ key \notin taken \cup Keys(live) \cup Keys(rows)
    /\ taken' = taken \cup {key}
    /\ UNCHANGED <<others, joining, gone>>

OtherDrops(key) ==
    /\ key \in taken
    /\ taken' = taken \ {key}
    /\ UNCHANGED <<others, joining, gone>>

OtherPublication ==
    /\ result = "applying"
    /\ \/ \E x \in input.contended :
             \/ OtherLinks(x) \/ OtherCommits(x) \/ OtherRollsBack(x)
             \/ OtherUnlinks(x) \/ OtherDeletes(x)
       \/ \E key \in input.rivalled : OtherTakes(key) \/ OtherDrops(key)
    /\ UNCHANGED publication

Next ==
    \/ SaveDraft \/ StartApplying
    \/ Publication /\ UNCHANGED elsewhere
    \/ OtherPublication

Spec == Init /\ [][Next]_vars

-----------------------------------------------------------------------------
(***************************************************************************)
(* Properties.                                                             *)
(***************************************************************************)
\* After every statement the rows satisfy the constraints of the schema, those that other
\* careers' rows are part of included: no slug, title or outlook id of theirs, and no link
\* to a resource they have deleted.
ConstraintsHold ==
    /\ SatisfiesSchema(rows)
    /\ Keys(rows) \cap taken = {}
    /\ LinkedBy(rows) \cap gone = {}

\* The links of the snapshot that a publication makes: all but those of a saved step
\* that had left the live pathway.
Made(links, Resolve(_)) ==
    {<<ResolveStep(link[1]), Resolve(link[2])>> :
        link \in {k \in links : k[1] \in Kept(live, snap) \cup TempIds}}

\* A publication that commits has made the live rows those of the snapshot, each
\* created row under its own id; it leaves a resource that is not its own, or of which
\* only the date of the last check is new.
AppliedMatchesSnapshot ==
    result = "applied" =>
        LET Self(id) == id
            OfCareer(x) == x \in TempIds \cup LinkedBy(live) IN
        /\ rows.career = snap.career /\ rows.pathway = snap.pathway
        /\ rows.skills = snap.skills /\ rows.outlook = snap.outlook
        /\ DOMAIN rows.steps = {ResolveStep(ref) : ref \in DOMAIN snap.steps}
        /\ \A ref \in DOMAIN snap.steps : rows.steps[ResolveStep(ref)] = snap.steps[ref]
        /\ rows.stepSkills = Made(snap.stepSkills, Self)
        /\ rows.stepResources = Made(snap.stepResources, ResolveResource)
        /\ \A x \in DOMAIN snap.resources :
              OfCareer(x) => rows.resources[ResolveResource(x)].text = snap.resources[x].text

\* "Postgres allows a career with no skills, a career with no steps, and deleting a step
\* learners completed. The product doesn't": nothing of that is published.
ProductRulesHold ==
    result = "applied" =>
        /\ DOMAIN rows.skills # {} /\ DOMAIN rows.steps # {}
        /\ ~Lacking(rows.career)
        /\ input.completed \cap DOMAIN live.steps \subseteq DOMAIN rows.steps

\* A resource another career has linked all along is not deleted by this one.
SharedResourcesSurvive ==
    (OtherLinked \ input.contended) \cap DOMAIN live.resources \subseteq DOMAIN rows.resources

\* Why a publication fails: a moved or created step takes the order of a step that is
\* still to be deleted, or one too large; what is linked does not exist, or was deleted
\* meanwhile; another career has the slug, the title or an outlook id, or this one
\* the outlook id; a value does not fit its column, or its field or source does not exist.
Conflict ==
    LET plan == BuildPlan(live, snap, input.completed)
        ordered == Moves(live, snap) \cup StepCreates(live, snap)
        there == (DOMAIN live.resources \ gone) \cup TempIds IN
    \/ \E p \in DOMAIN live.steps \ Kept(live, snap), ref \in ordered :
          live.steps[p].order = snap.steps[ref].order
    \/ \E ref \in ordered : snap.steps[ref].order > MaxOrder
    \/ \E link \in RowsOf(plan, "stepResources", {"link"}) : link[2] \notin there
    \/ \E link \in RowsOf(plan, "stepSkills", {"link"}) : link[2] \notin AllSkills
    \/ \E k \in RowsOf(plan, "skills", {"link"}) : k \notin AllSkills
    \/ Keys(snap) \cap taken # {}
    \/ \E o \in RowsOf(plan, "outlook", {"create"}) : o \in DOMAIN live.outlook
    \/ \E o \in DOMAIN snap.outlook : ~OutlookFits(snap.outlook[o])
    \/ \E x \in RowsOf(plan, "resources", {"create", "update"}) : ~ResourceFits(snap.resources[x])
    \/ snap.career.field \notin AllFields

\* Orders so far apart, or so large, that a moved step may not have its offset order.
OffsetReached ==
    \E p \in Moves(live, snap) : LET offset == live.steps[p].order + Offset IN
        \/ offset > MaxOrder
        \/ \E q \in DOMAIN live.steps : live.steps[q].order = offset
        \/ \E q \in Moves(live, snap) : snap.steps[q].order = offset

\* Whether a statement of a publication is refused does not depend on the order in which
\* those of a section run, nor on when others do what they do: unless orders reach the
\* offset, one is refused exactly when, by the time the publication ends, there is a conflict.
FailsOnConflict ==
    /\ result = "failed" => Conflict \/ OffsetReached
    /\ result = "applied" => ~Conflict

\* What the reviewer is shown, with the values before and after, and as often as it is
\* shown, is what the publication changes of each row.  New rows and links are shown by the
\* ids of the snapshot.  A resource another step or career links stays though it is shown
\* as removed.  Which row an update is of, and which step a link is of, the entries do not say.
DiffShowsEveryChange ==
    result = "applied" =>
        LET diff == GroupOperations(live, snap, BuildPlan(live, snap, input.completed))
            Shown(section, bucket) ==
                IF section \in DOMAIN diff THEN diff[section][bucket] ELSE Counted({})
            ShowsChanges(section) ==
                Shown(section, "changed")
                    = Counted({<<id, Change(live, rows, section, id)>> :
                                  id \in Changed(live[section], rows[section])})
            ShowsIds(section, bucket, ids) ==
                Shown(section, bucket) = Counted({<<id, id>> : id \in ids})
            ShowsLinked(section, bucket, links) ==
                Shown(section, bucket) = Counted({<<link, link[2]>> : link \in links})
            Links(section) == {link \in live[section] : link[1] \in DOMAIN rows.steps}
            stays == DOMAIN live.steps \cap DOMAIN rows.steps IN
        /\ \A section \in {"career", "skills", "outlook", "resources"} : ShowsChanges(section)
        /\ Shown("steps", "changed")
              = Counted({<<p, Change(live, rows, "steps", p)>> :
                            p \in {q \in stays : live.steps[q].text # rows.steps[q].text}})
        /\ Shown("steps", "moved")
              = Counted({<<p, Move(live, rows, p)>> :
                            p \in {q \in stays : live.steps[q].order # rows.steps[q].order}})
        /\ \A section \in {"skills", "outlook", "steps"} :
              ShowsIds(section, "removed", New(rows[section], live[section]))
        /\ \A section \in {"skills", "outlook"} :
              ShowsIds(section, "added", New(live[section], rows[section]))
        /\ ShowsIds("steps", "added",
                    {ref \in DOMAIN snap.steps : ResolveStep(ref) \in New(live.steps, rows.steps)})
        /\ \A section \in {"stepSkills", "stepResources"} :
              ShowsLinked(section, "removed", Links(section) \ rows[section])
        /\ ShowsLinked("stepSkills", "added",
                    {link \in snap.stepSkills :
                        <<ResolveStep(link[1]), link[2]>> \in rows.stepSkills \ live.stepSkills})
        /\ ShowsLinked("stepResources", "added",
                    {link \in snap.stepResources :
                        <<ResolveStep(link[1]), ResolveResource(link[2])>>
                            \in rows.stepResources \ live.stepResources})
        /\ New(rows.resources, live.resources) \subseteq DOMAIN Shown("resources", "removed")
        /\ (rows.pathway # live.pathway) = ("pathway" \in DOMAIN diff)

-----------------------------------------------------------------------------
(***************************************************************************)
(* What the documents say of a publication.                                *)
(***************************************************************************)
\* "Pre-checks make failure deterministic: refused before any write": what the
\* pre-checks let through is applied.
NeverRefusedMidway == result # "failed"

\* "Revision published; live career now reflects the snapshot": so do the links.
LinksReflectSnapshot ==
    result = "applied" =>
        \A link \in snap.stepResources :
            <<ResolveStep(link[1]), ResolveResource(link[2])>> \in rows.stepResources

\* "Resources are shared across careers, so `unlink` removes the join row only": what
\* another career links is there.
LinkedResourcesExist == others \cap DOMAIN live.resources \subseteq DOMAIN rows.resources

=============================================================================
