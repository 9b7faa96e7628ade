\* Two fields and two groups, two calls, two edits, and one thing that other
\* administrators or the session do.
SPECIFICATION Spec
CONSTANTS
    name = name
    description = description
    v0 = v0
    v1 = v1
    gA = gA
    gDot = gDot
    Fields = {name, description}
    Values = {v0, v1}
    Seed <- MCSeed
    Groups = {gA, gDot}
    SeedGroups = {gA}
    PathGroup <- MCPathGroup
    MaxCalls = 2
    MaxEdits = 2
    MaxOthers = 1
INVARIANTS
    TypeOK
    ClockMeansCall
    OldValueWasStored
    PageTellsTheStore
PROPERTIES
    EveryWaitEnds
CHECK_DEADLOCK FALSE
