----------------------------- MODULE MCApplyPlan -----------------------------
(* Instances of ApplyPlan, each part of a career with the inputs that matter to it. *)
EXTENDS ApplyPlan, SequencesExt

CONSTANTS sa, sb, sc, ka, kb, kx, rx, ry, rz, oa, ob, n1, n2, fa, fb, ua, ub, t1, t2, blank, bad

Row(text) == [text |-> text, checked |-> 1]

Career(slug, title, field, text) == [slug |-> slug, title |-> title, field |-> field, text |-> text]

\* Live rows with a skill and the given steps.
Live(steps) ==
    [career |-> Career("one", "One", fa, t1), pathway |-> t1, steps |-> steps,
     stepSkills |-> {}, stepResources |-> {}, skills |-> (ka :> 1),
     resources |-> (rx :> Row(t1)) @@ (ry :> Row(t1)), outlook |-> <<>>]

\* The draft that lists them as they are, or the rows of a snapshot like them.
Listed(f, Item(_)) == SetToSeq({Item(id) : id \in DOMAIN f})

Draft(l) ==
    LET Linked(links, p) == SetToSeq({link[2] : link \in {k \in links : k[1] = p}})
        Step(p) == [id |-> p, order |-> l.steps[p].order, text |-> l.steps[p].text,
                    skillIds |-> Linked(l.stepSkills, p),
                    resourceIds |-> Linked(l.stepResources, p)]
        Skill(k) == [id |-> k, importance |-> l.skills[k]]
        Resource(x) == [id |-> x, text |-> l.resources[x].text, checked |-> l.resources[x].checked]
        Outlook(o) == [id |-> o, text |-> l.outlook[o].text, source |-> l.outlook[o].source] IN
    [career |-> l.career, pathway |-> l.pathway, steps |-> Listed(l.steps, Step),
     skills |-> Listed(l.skills, Skill), resources |-> Listed(l.resources, Resource),
     outlook |-> Listed(l.outlook, Outlook)]

Input(l, draft, completed) ==
    [live |-> l, draft |-> draft, completed |-> completed, contended |-> {}, rivalled |-> {}]

Ordered(orders) == [p \in DOMAIN orders |-> [order |-> orders[p], text |-> t1]]

\* Distinct orders for some of the given steps.
Numberings(ids, orders) == UNION {{f \in [some -> orders] : IsInjective(f)} : some \in SUBSET ids}

\* Up to three live steps against snapshots that keep, move, drop, create and
\* resurrect steps, or have none.
StepInputs ==
    {Input(Live(Ordered(f)), Draft(Live(Ordered(g))), {}) :
        f \in Numberings({sa, sb, sc}, 1..3), g \in Numberings({sa, sb, sc, n1}, 1..3)}

\* Two steps whose orders reach the offset, or with it the largest INTEGER, moved or replaced.
OffsetInputs ==
    {Input(Live(Ordered(f)), Draft(Live(Ordered(g))), {}) :
        f \in {h \in [{sa, sb} -> {1, 2, 4}] : IsInjective(h)},
        g \in {h \in [{sa, sb} -> {1, 2, 4, 7}] \cup [{sa, n1} -> {1, 4, 7}] : IsInjective(h)}}

\* One live step with any links to rx and to ry, which another career links too,
\* against the step itself, or it and a new one, or it and one that is no longer
\* live, with any links to rx, to a new resource and to rz, which is gone.
LinkInputs ==
    LET Orders(some) == [p \in some |-> CASE p = sa -> 1 [] p = sb -> 2 [] p = n1 -> 3]
        Links(linked) == [Live(Ordered(sa :> 1)) EXCEPT !.stepResources = {sa} \X linked]
        Drafted(some, links, listed) ==
            Draft([Live(Ordered(Orders(some))) EXCEPT
                      !.stepResources = links, !.resources = [x \in listed |-> Row(t1)]])
    IN {Input(Links(linked), Drafted(some, links, listed), {}) :
          linked \in SUBSET {rx, ry}, some \in {{sa, sb}, {sa, n1}},
          links \in SUBSET ({sa, sb, n1} \X {rx, n2, rz}), listed \in {{n2}, {rx, ry, n2}}}

\* Skills of the career and of its step, kx being the id of none.
SkillInputs ==
    LET Skilled(skills, links) ==
            [Live(Ordered(sa :> 1)) EXCEPT !.skills = skills, !.stepSkills = {sa} \X links]
        Some == UNION {[some -> {1, 2}] : some \in SUBSET {ka, kb}} IN
    {Input(Skilled(f, links), Draft(Skilled(g, new)), {}) :
        f \in Some, g \in Some \cup {(kx :> 1)}, links \in SUBSET {ka}, new \in SUBSET {ka, kx}}

\* Outlook rows, one of them from a temporary id of an earlier publication, ob being
\* another career's; ub is the id of no source, and bad a number too large.
OutlookInputs ==
    LET Shown(f) == [Live(Ordered(sa :> 1)) EXCEPT !.outlook = f]
        Outlook(text, source) == [text |-> text, source |-> source]
        Stored == {Outlook(t1, ua), Outlook(t2, Null)}
        Sent == Stored \cup {Outlook(t1, Null), Outlook(t1, ub), Outlook(bad, ua)}
        Some(ids, outlooks) == UNION {[some -> outlooks] : some \in SUBSET ids} IN
    {Input(Shown(f), Draft(Shown(g)), {}) :
        f \in Some({oa, n1}, Stored),
        g \in Some({oa, n1}, Sent) \cup Some({oa, ob}, {Outlook(t1, ua)})}

\* The career, whose slug or title another one may have, whose field may not exist or not be
\* given and whose text may be incomplete, with a step.
CareerInputs ==
    LET Named(career) == [Live(Ordered(sa :> 1)) EXCEPT !.career = career] IN
    {Input(Live(Ordered(sa :> 1)), Draft(Named(Career(slug, title, field, text))), {}) :
        slug \in {"one", "two", "taken"}, title \in {"One", "Two", "Taken"},
        field \in {fa, fb, Null}, text \in {t1, t2, blank}}

\* Texts of the career, of its pathway, if there is one, of a step, which somebody may
\* have completed, and of a resource, or only the date of its check, which may be no DateTime,
\* and of a new resource.
TextInputs ==
    LET Written(career, pathway, steps, row) ==
            [Live(steps) EXCEPT
                !.career.text = career, !.pathway = pathway,
                !.stepResources = IF sa \in DOMAIN steps THEN {<<sa, rx>>} ELSE {},
                !.resources[rx] = row]
        Resource(text, checked) == [text |-> text, checked |-> checked]
        Steps == {<<>>, (sa :> [order |-> 1, text |-> t1]), (sa :> [order |-> 1, text |-> t2]),
                  (sb :> [order |-> 2, text |-> t1])}
        Lives == {Written(t1, t1, f, Row(t1)) : f \in Steps}
                 \cup {Written(t1, Null, <<>>, Row(t1))} IN
    {Input(l, Draft(Written(career, pathway, g, row)), completed) :
        l \in Lives, career \in {t1, t2}, pathway \in {t1, t2, Null}, g \in Steps,
        row \in {Row(t2), Resource(t1, 2), Resource(t1, bad), Resource(t2, bad)},
        completed \in {{}, {sa}}}
    \cup {Input(Live(Ordered(sa :> 1)),
                Draft([Live(Ordered(sa :> 1)) EXCEPT !.resources = (n1 :> row)]), {}) :
              row \in {Row(t1), Resource(t1, bad)}}

\* A draft with a row twice, an order twice, a link twice, or a resource it does not list.
FaultyInputs ==
    LET f == Ordered((sa :> 1) @@ (sb :> 2))
        good == Draft([Live(f) EXCEPT !.outlook = (oa :> [text |-> t1, source |-> Null])])
        step == good.steps[1] IN
    {Input(Live(f), draft, {}) : draft \in
        {[good EXCEPT ![part] = Append(good[part], good[part][1])] :
            part \in {"steps", "skills", "outlook", "resources"}}
        \cup {[good EXCEPT !.steps = Append(good.steps, [step EXCEPT !.id = id])] : id \in {sc, n1}}
        \cup {[good EXCEPT !.steps[1].skillIds = <<ka, ka>>],
              [good EXCEPT !.steps[1].resourceIds = <<rx, rx>>],
              [good EXCEPT !.steps[1].resourceIds = <<rx, n2>>],
              [good EXCEPT !.pathway = Null]}}

\* A publication that takes its last link to rx back, and perhaps links it anew, while
\* others link, unlink and delete rx.
Contended(steps) ==
    LET l == [Live(Ordered((sa :> 1) @@ (sb :> 2))) EXCEPT !.stepResources = {<<sa, rx>>}] IN
    {[Input(l, Draft([l EXCEPT !.stepResources = links, !.resources = <<>>]), {})
        EXCEPT !.contended = {rx}] : links \in SUBSET (steps \X {rx})}

\* A publication that links rx, which nobody links, and ry, which another career links,
\* while others link, unlink and delete both.
LinkedMeanwhile ==
    LET l == Live(Ordered(sa :> 1)) IN
    {[Input(l, Draft([l EXCEPT !.stepResources = {sa} \X linked]), {})
        EXCEPT !.contended = {rx, ry}] : linked \in SUBSET {rx, ry}}

\* A publication with another slug or title, or a new outlook row, which others may take before.
Rivalled ==
    LET l == Live(Ordered(sa :> 1))
        new == [l EXCEPT !.career = Career("two", "Two", fa, t1),
                         !.outlook = (n1 :> [text |-> t1, source |-> ua])] IN
    {[Input(l, Draft([new EXCEPT !.career.title = title]), {})
        EXCEPT !.rivalled = {<<"slug", "two">>, <<"slug", "one">>, <<"title", "Taken">>, <<"outlook", n1>>}] :
        title \in {"Two", "Taken"}}

MCInputs ==
    StepInputs \cup OffsetInputs \cup LinkInputs \cup SkillInputs \cup OutlookInputs
    \cup CareerInputs \cup TextInputs \cup FaultyInputs \cup Contended({sb})
    \cup LinkedMeanwhile \cup Rivalled

\* The publication that takes its last link back.
UnlinkInputs == Contended({})

MCOtherKeys == {<<"slug", "taken">>, <<"title", "Taken">>, <<"outlook", ob>>}

=============================================================================
