\* The name and the description of one policy are changed at once.
SYMMETRY ThreadSymmetry
SPECIFICATION Spec
CONSTANTS
    t1 = t1
    t2 = t2
    t3 = t3
    Threads = {t1, t2}
    u1 = u1
    u2 = u2
    u3 = u3
    Uids = {u1}
    nA = nA
    nPad = nPad
    nBlank = nBlank
    nLong = nLong
    Names = {nA, nPad}
    dNone = dNone
    dOne = dOne
    dLong = dLong
    Descs = {dNone, dOne}
    EmptyDesc = dNone
    NoName = NoName
    Long = {}
    Blank <- MCBlank
    Trim <- MCTrim
    g1 = g1
    g2 = g2
    gLong = gLong
    Groups = {g1}
    s1 = s1
    s2 = s2
    r1 = r1
    r2 = r2
    RuleSets = {s1, s2}
    Rules = {r1, r2}
    SetsOf <- MCNoSet
    RulesIn <- MCRulesIn
    SeedPolicies <- MCOneSeed
    SeedGroups <- MCNoGroup
    Ops = {"update"}
    Absent = Absent
    Same = Same
PROPERTIES
    UpdateTouchesOneField
