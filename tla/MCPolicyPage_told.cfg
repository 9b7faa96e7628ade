\* Is every refusal told?  One field, no group, one call.
SPECIFICATION Spec
CONSTANTS
    name = name
    description = description
    v0 = v0
    v1 = v1
    gA = gA
    gDot = gDot
    Fields = {name}
    Values = {v0, v1}
    Seed <- MCSeed
    Groups = {}
    SeedGroups = {}
    PathGroup <- MCPathGroup
    MaxCalls = 1
    MaxEdits = 1
    MaxOthers = 1
PROPERTIES
    RefusalsAreTold
CHECK_DEADLOCK FALSE
