CONSTANTS
    c1 = c1
    r1 = r1
    r2 = r2
    q1 = q1
    q2 = q2
    ada = ada
    cy = cy
    blank = blank
    one = one
    two = two
    s1 = s1
    s2 = s2
    Careers = {c1}
    RevisionIds = {r1, r2}
    Staff = {ada, cy}
    Actors <- MCActors
    Contents = {blank, one, two}
    Steps = {s1, s2}
    StepsOf <- MCStepsOf
    Complete = {one, two}
    Blank = blank
    Seeded = {c1}
    SeedContent = two
    Openers <- MCOpeners
    Requests = {q1, q2}
    Learning = {s2}
    FirstTables <- MCFirstTables
SPECIFICATION TxSpec
PROPERTIES
    ProgressSurvivesPublish
CHECK_DEADLOCK FALSE
