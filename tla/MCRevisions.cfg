CONSTANTS
    c1 = c1
    c2 = c2
    r1 = r1
    r2 = r2
    ada = ada
    ben = ben
    cy = cy
    blank = blank
    one = one
    two = two
    s1 = s1
    s2 = s2
    Careers = {c1, c2}
    RevisionIds = {r1, r2}
    Staff = {ada, ben, cy}
    Actors <- MCTwoActors
    Contents = {blank, one, two}
    Steps = {s1, s2}
    StepsOf <- MCStepsOf
    Complete = {one, two}
    Blank = blank
    Seeded = {c1}
    SeedContent = one
    Openers <- MCOpeners
SPECIFICATION Spec
INVARIANTS
    TypeOK
    DecisionIsFinal
    ApprovalCoversPublication
    FourEyes
    EachVersionOnce
PROPERTIES
    ReviewedPublication
    FrozenUnderReview
    RetiredChangesByAdmin
    HistoryKept
    KeepsLedger
CHECK_DEADLOCK FALSE
