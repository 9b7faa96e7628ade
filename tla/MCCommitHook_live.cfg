\* One commit, with every fault; the issues are looked up in the database.
SPECIFICATION HookSpec
CONSTANTS
    r1 = r1
    r2 = r2
    Requests = {r1}
    Null = Null
    Blank = Blank
    Garbage = Garbage
    Absent = Absent
    None = None
    admin = admin
    dev = dev
    Authors = {admin, dev}
    team = team
    atTeam = atTeam
    Groups = {team}
    At <- MCAt
    short = short
    long = long
    keyed = keyed
    strange = strange
    Messages = {empty, short, padded, keyed}
    Length <- MCHookLength
    KeysIn <- MCKeysIn
    CORE1 = CORE1
    CORE2 = CORE2
    Issues = {CORE1}
    ID0 = ID0
    ID1 = ID1
    ID2 = ID2
    Configs <- MCConfigs
    readme = readme
    doc = doc
    root = root
    everything = everything
    Paths = {readme, doc}
    Matches <- MCMatches
    DefaultPath = everything
    Commits <- MCHookCommits
    empty = empty
    padded = padded
    NoMessage = empty
    Transactions <- MCTransactions
    Strip <- MCStrip
    Faults = {"network", "svnlook", "usage"}
    Profile = "TEST"
    Speechless = {"authenticated"}
    Policies <- MCPolicies
PROPERTIES
    EveryHookExits
    EveryRequestIsAnswered
