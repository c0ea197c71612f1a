CONSTANTS
    sa = sa
    sb = sb
    sc = sc
    ka = ka
    kb = kb
    kx = kx
    rx = rx
    ry = ry
    rz = rz
    oa = oa
    ob = ob
    n1 = n1
    n2 = n2
    t1 = t1
    t2 = t2
    blank = blank
    bad = bad
    fa = fa
    fb = fb
    ua = ua
    ub = ub
    Null = Null
    TempIds = {n1, n2}
    Incomplete = {blank}
    Offset = 3
    Inputs <- UnlinkInputs
    OtherLinked = {ry}
    OtherKeys <- MCOtherKeys
    AllSkills = {ka, kb}
    AllFields = {fa}
    AllSources = {ua}
    Refused = {bad}
    MaxOrder = 6
SPECIFICATION Spec
INVARIANT LinkedResourcesExist
CHECK_DEADLOCK FALSE
