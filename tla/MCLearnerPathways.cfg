CONSTANTS
    ann = ann
    c1 = c1
    c2 = c2
    s1 = s1
    s2 = s2
    s3 = s3
    q1 = q1
    q2 = q2
    Learners = {ann}
    Careers = {c1, c2}
    Steps = {s1, s2, s3}
    CareerOf <- MCCareerOf
    OrderOf <- MCOrderOf
    FirstSteps = {s1, s3}
    Requests = {q1, q2}
    FirstPathways <- MCFirstPathways
SPECIFICATION Spec
INVARIANTS
    TypeOK
    AtMostOneActive
    CapturesRealChanges
    NextStepLeadsOn
PROPERTIES
    NeverLeftWithout
    EveryCallAnswered
CHECK_DEADLOCK FALSE
