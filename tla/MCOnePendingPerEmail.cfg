CONSTANTS
    ann = ann
    j1 = j1
    j2 = j2
    v0 = v0
    r0 = r0
    l0 = l0
    Null = Null
    Users = {ann}
    Roles = {"EDITOR", "ADMIN"}
    Requests = {1, 2, 3}
    SentInvites = {j1, j2}
    SentCodes = {v0, r0, l0}
    Starts <- TwoInvites
    MaxAttempts = 1
    InviteTtl = 1
    CodeTtl = 1
    MaxClock = 2
SPECIFICATION Spec
INVARIANT OnePendingPerEmail
CHECK_DEADLOCK FALSE
