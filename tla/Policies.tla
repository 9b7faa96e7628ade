-------------------------------- MODULE Policies --------------------------------
(* The rows of the policy database of cipol and the requests PolicyCore      *)
(* serves.                                                                   *)
EXTENDS Sequences

CONSTANTS
    Uids,           \* policy uids a run may use (bound on the creations)
    Names,          \* policy names
    Descs,          \* policy descriptions
    EmptyDesc,      \* '', the description POLICY_CREATE inserts
    NoName,         \* a null name
    Long,           \* the names, descriptions and groups too long for their column
    Blank,          \* the names StringUtils.isNotBlank refuses, null included
    Trim,           \* Trim[n]: StringUtils.trim of the name n
    Groups,         \* names of policy groups
    RuleSets,       \* ids of RULESET
    Rules,          \* ids of RULEDEF
    SetsOf,         \* SetsOf[u]: the rulesets of policy u, by id
    RulesIn,        \* RulesIn[s]: the rule definitions of ruleset s, by id
    SeedPolicies,   \* SeedPolicies[u]: the row of POLICY at start, or Absent
    SeedGroups,     \* the rows of GROUPS at start, as <<uid, group>>
    Ops,            \* the operations the clients call in this run
    Absent          \* no row

Rows == [name : Names, description : Descs]

HasName(row, n) == row \in Rows /\ row.name = n

Elements(s) == {s[i] : i \in DOMAIN s}
SetIds(u)   == Elements(SetsOf[u])
RuleIds(u)  == UNION {Elements(RulesIn[s]) : s \in SetIds(u)}

--------------------------------------------------------------------------------
(* Requests.                                                                 *)

Fields == {"name", "description"}

CreateRequests == [op : {"create"}, uid : Uids, name : Names]
ImportRequests == [op : {"import"}, uid : Uids, proposed : Names \cup {NoName},
                   name : Names \cup {NoName}, description : Descs]
UpdateRequests == [op : {"update"}, uid : Uids, field : {"name"}, value : Names]
                  \cup [op : {"update"}, uid : Uids, field : {"description"},
                        value : Descs]
GroupRequests  == [op : {"groupCreate", "groupDelete"}, uid : Uids, group : Groups]
UidRequests    == [op : {"delete", "load"}, uid : Uids]
ListRequests   == [op : {"list"}]

Requests == CreateRequests \cup ImportRequests \cup UpdateRequests
            \cup GroupRequests \cup UidRequests \cup ListRequests

NoRequest == [op |-> "none"]

--------------------------------------------------------------------------------
(* What a request writes.                                                    *)

(* createPolicy inserts the name it is given, importPolicy the proposed     *)
(* name trimmed, or the name in the file when no name is proposed.          *)
InsertedName(r) ==
    IF r.op = "import" /\ r.proposed \notin Blank THEN Trim[r.proposed] ELSE r.name

(* Wrong, and used by nothing: renaming writes a new Policy object.          *)
WrittenRowFromNew(r, row) ==
    IF r.op = "update" /\ r.field = "name"
    THEN [name |-> r.value, description |-> EmptyDesc]
    ELSE [row EXCEPT !.description = IF r.op = "import" THEN r.description ELSE r.value]

(* POLICY_CREATE inserts an empty description.                              *)
InsertedRow(r) == [name |-> InsertedName(r), description |-> EmptyDesc]

(* The row a creation leaves behind.                                        *)
CreatedRow(r) ==
    [name        |-> InsertedName(r),
     description |-> IF r.op = "import" THEN r.description ELSE EmptyDesc]

(* POLICY takes the row: NAME is VARCHAR(200) NOT NULL, DESCRIPTION is      *)
(* VARCHAR(3000).                                                           *)
Fits(row) == row.name \notin Long \cup {NoName} /\ row.description \notin Long

(* updatePolicy writes back the whole row it read, with one field replaced; *)
(* importPolicy calls it for the description.                               *)
WrittenRow(r, row) ==
    IF r.op = "update" /\ r.field = "name"
    THEN [row EXCEPT !.name = r.value]
    ELSE [row EXCEPT !.description = IF r.op = "import" THEN r.description ELSE r.value]

================================================================================
