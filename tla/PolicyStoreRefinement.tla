------------------------- MODULE PolicyStoreRefinement -------------------------
(* PolicyStore implements PolicyRegistry, for any number of threads,         *)
(* policies, names, groups and rules: every statement is a step of the       *)
(* registry or one it does not see.                                          *)
EXTENDS PolicyStoreAnswers

--------------------------------------------------------------------------------
(* What an operation is about to commit is what the registry would do.       *)

(* Only groupCreate adds a group, one nobody stored or is about to; only     *)
(* deletePolicy and groupDelete remove some.                                 *)
GroupWrites(t) ==
    /\ work[t].added # {} => req[t].op = "groupCreate" /\ pc[t] = "commit"
    /\ work[t].removed # {} => req[t].op \in {"delete", "groupDelete"}
    /\ req[t].op = "groupCreate" /\ pc[t] = "commit" =>
          /\ work[t].added = {req[t].group} /\ req[t].group \notin Long
          /\ <<req[t].uid, req[t].group>> \notin groups

GroupsLocked ==
    \A s, t \in Threads :
        /\ s # t
        /\ req[s].op = "groupCreate" /\ pc[s] = "commit"
        /\ req[t].op = "groupCreate" /\ pc[t] = "commit"
        => <<req[s].uid, req[s].group>> # <<req[t].uid, req[t].group>>

(* An update is about to write its row, unless the policy is gone for good.  *)
UpdateWrites(t) ==
    req[t].op = "update" /\ pc[t] = "commit" =>
        \/ work[t].row = Same /\ policies[req[t].uid] = Absent
        \/ work[t].row = WrittenRow(req[t], read[t].row) /\ work[t].row \in Rows

(* No transaction writes a row that does not fit into the table.             *)
WritesFit(t) == work[t].row \in Rows => Fits(work[t].row)

(* A load finds, and looks for, nothing but what belongs to its policy.      *)
PartSoFar(u, p) ==
    /\ p.rulesets \subseteq SetIds(u)
    /\ p.rules \subseteq RuleIds(u) /\ p.params \subseteq RuleIds(u)
    /\ \A q \in Elements(p.todo) :
          /\ q[1] = "rules" => q[2] \in SetIds(u)
          /\ q[1] = "params" => q[2] \in RuleIds(u)

LoadsPart(t) ==
    req[t].op = "load" /\ pc[t] \in {"details", "commit"}
        => PartSoFar(req[t].uid, read[t])

RefineInv ==
    /\ AnswersInv
    /\ \A t \in Threads :
          GroupWrites(t) /\ UpdateWrites(t) /\ WritesFit(t) /\ LoadsPart(t)
    /\ GroupsLocked

--------------------------------------------------------------------------------
(* The invariant after a step of the thread itself.                          *)

LEMMA GroupWritesStep ==
    ASSUME TypeOK, NEW t \in Threads, StepOf(t), WrittenWhere(t), GroupWrites(t)
    PROVE  GroupWrites(t)'
  <1>0. /\ work[t] \in Works /\ t \in DOMAIN work /\ t \in DOMAIN pc
        /\ req[t] \in Requests \cup {NoRequest}
    BY DEF TypeOK
  <1>1. CASE \E r \in Requests : Begin(t, r)
    BY <1>1, Begun DEF GroupWrites
  <1>2. CASE Ending(t)
    BY <1>2, EndingEnds, Ended DEF GroupWrites
  <1>3. CASE Reading(t)
    <2>1. /\ req'[t] = req[t] /\ work'[t] = work[t] /\ groups' = groups
          /\ pc'[t] = "commit" => req[t].op = "load"
          /\ pc[t] # "commit"
      BY <1>3, ReadingGoesOn DEF database
    <2> QED BY <2>1 DEF GroupWrites
  <1>4. CASE InsertPolicy(t)
    <2>1. req[t].op \in {"create", "import"} /\ pc[t] = "insert"
      BY <1>4, OperationAt DEF InsertPolicy
    <2>2. req'[t] = req[t] /\ \E x : work'[t] = [work[t] EXCEPT !.row = x]
      BY <1>0, <1>4 DEF InsertPolicy, Write, Advance
    <2> QED BY <1>0, <2>1, <2>2, AddedParts DEF GroupWrites
  <1>5. CASE UpdatePolicy(t)
    <2>1. /\ req'[t] = req[t] /\ pc[t] = "update"
          /\ work'[t] = work[t] \/ \E x : work'[t] = [work[t] EXCEPT !.row = x]
      BY <1>0, <1>5 DEF UpdatePolicy, Write, Advance
    <2>2. req[t].op \in {"import", "update"}
      BY <2>1, OperationAt
    <2>3. \A x : /\ [work[t] EXCEPT !.row = x].added = work[t].added
                 /\ [work[t] EXCEPT !.row = x].removed = work[t].removed
      BY <1>0, AddedParts
    <2>4. work'[t].added = work[t].added /\ work'[t].removed = work[t].removed
      BY <2>1, <2>3
    <2> QED BY <2>1, <2>2, <2>4 DEF GroupWrites
  <1>6. CASE RemoveParams(t) \/ RemoveGroups(t) \/ DeletePolicy(t)
    <2>1. /\ req'[t] = req[t]
          /\ pc[t] \in {"removeParams", "removeGroups", "deletePolicy"}
      BY <1>6 DEF RemoveParams, RemoveGroups, DeletePolicy, Advance
    <2>2. req[t].op = "delete"
      BY <2>1, OperationAt
    <2>3. CASE RemoveParams(t)
      <3>1. PICK x : work'[t] = [work[t] EXCEPT !.params = x]
        BY <1>0, <2>3 DEF RemoveParams, Write
      <3>2. work'[t].added = work[t].added
        BY <1>0, <3>1, AddedParts
      <3> QED BY <2>1, <2>2, <3>2 DEF GroupWrites
    <2>4. CASE RemoveGroups(t)
      <3>1. PICK x : work'[t] = [work[t] EXCEPT !.removed = x]
        BY <1>0, <2>4 DEF RemoveGroups, Write
      <3>2. work'[t].added = work[t].added
        BY <1>0, <3>1, AddedParts
      <3> QED BY <2>1, <2>2, <3>2 DEF GroupWrites
    <2>5. CASE DeletePolicy(t)
      <3>1. work'[t] = work[t] \/ work'[t] = [work[t] EXCEPT !.row = Absent]
        BY <1>0, <2>5 DEF DeletePolicy, Write
      <3>2. [work[t] EXCEPT !.row = Absent].added = work[t].added
        BY <1>0, AddedParts
      <3>3. work'[t].added = work[t].added
        BY <3>1, <3>2
      <3> QED BY <2>1, <2>2, <3>3 DEF GroupWrites
    <2> QED BY <1>6, <2>3, <2>4, <2>5
  <1>7. CASE InsertGroup(t)
    <2>1. /\ req'[t] = req[t] /\ pc[t] = "insertGroup" /\ pc'[t] = "commit"
          /\ work'[t] = [work[t] EXCEPT !.added = {req[t].group}]
          /\ req[t].group \notin VisibleGroups(t) \cup Long /\ groups' = groups
      BY <1>0, <1>7 DEF InsertGroup, Write, Advance, database
    <2>2. req[t].op = "groupCreate" /\ req[t].group \in Groups
      BY <2>1, OperationAt, RequestFields
    <2>3. work'[t].added = {req[t].group} /\ work'[t].removed = work[t].removed
      BY <1>0, <2>1, AddedParts
    <2> QED BY <2>1, <2>2, <2>3 DEF GroupWrites, VisibleGroups
  <1>8. CASE DeleteGroup(t)
    <2>1. /\ req'[t] = req[t] /\ pc[t] = "deleteGroup"
          /\ \E x : work'[t] = [work[t] EXCEPT !.removed = x]
      BY <1>0, <1>8 DEF DeleteGroup, Write, Advance
    <2>2. req[t].op = "groupDelete" /\ work'[t].added = work[t].added
      BY <1>0, <2>1, OperationAt, AddedParts
    <2> QED BY <2>1, <2>2 DEF GroupWrites
  <1> QED BY <1>1, <1>2, <1>3, <1>4, <1>5, <1>6, <1>7, <1>8, StepKinds

LEMMA WritesFitStep ==
    ASSUME TypeOK, NEW t \in Threads, StepOf(t), WritesFit(t)
    PROVE  WritesFit(t)'
  <1>0. /\ work[t] \in Works /\ t \in DOMAIN work
        /\ Absent \notin Rows /\ Same \notin Rows
    BY StoreAssumption DEF TypeOK
  <1>1. CASE \E r \in Requests : Begin(t, r)
    <2>1. work'[t].row = Same
      BY <1>1, Begun
    <2> QED BY <1>0, <2>1 DEF WritesFit
  <1>2. CASE Ending(t)
    <2>1. work'[t].row = Same
      BY <1>2, EndingEnds, Ended
    <2> QED BY <1>0, <2>1 DEF WritesFit
  <1>3. CASE Reading(t)
    BY <1>3, ReadingGoesOn DEF WritesFit
  <1>4. CASE InsertPolicy(t)
    <2>1. /\ Fits(InsertedRow(req[t]))
          /\ work'[t] = [work[t] EXCEPT !.row = InsertedRow(req[t])]
      BY <1>0, <1>4 DEF InsertPolicy, Write
    <2>2. work'[t].row = InsertedRow(req[t])
      BY <1>0, <2>1, WorkParts
    <2> QED BY <2>1, <2>2 DEF WritesFit
  <1>5. CASE UpdatePolicy(t)
    <2> DEFINE row == WrittenRow(req[t], read[t].row)
    <2>1. CASE work' = work
      BY <2>1 DEF WritesFit
    <2>2. CASE Fits(row) /\ work'[t] = [work[t] EXCEPT !.row = row]
      <3> HIDE DEF row
      <3>1. work'[t].row = row
        BY <1>0, <2>2, WorkParts
      <3> QED BY <2>2, <3>1 DEF WritesFit
    <2> QED BY <1>0, <1>5, <2>1, <2>2 DEF UpdatePolicy, Write
  <1>6. CASE RemoveParams(t)
    <2>1. PICK x : work'[t] = [work[t] EXCEPT !.params = x]
      BY <1>0, <1>6 DEF RemoveParams, Write
    <2>2. work'[t].row = work[t].row
      BY <1>0, <2>1, WorkParts
    <2> QED BY <2>2 DEF WritesFit
  <1>7. CASE RemoveGroups(t) \/ DeleteGroup(t)
    <2>1. PICK x : work'[t] = [work[t] EXCEPT !.removed = x]
      BY <1>0, <1>7 DEF RemoveGroups, DeleteGroup, Write
    <2>2. work'[t].row = work[t].row
      BY <1>0, <2>1, WorkParts
    <2> QED BY <2>2 DEF WritesFit
  <1>8. CASE DeletePolicy(t)
    <2>1. work'[t] = work[t] \/ work'[t] = [work[t] EXCEPT !.row = Absent]
      BY <1>0, <1>8 DEF DeletePolicy, Write
    <2>2. [work[t] EXCEPT !.row = Absent].row = Absent
      BY <1>0, WorkParts
    <2> QED BY <1>0, <2>1, <2>2 DEF WritesFit
  <1>9. CASE InsertGroup(t)
    <2>1. PICK x : work'[t] = [work[t] EXCEPT !.added = x]
      BY <1>0, <1>9 DEF InsertGroup, Write
    <2>2. work'[t].row = work[t].row
      BY <1>0, <2>1, WorkParts
    <2> QED BY <2>2 DEF WritesFit
  <1> QED BY <1>1, <1>2, <1>3, <1>4, <1>5, <1>6, <1>7, <1>8, <1>9, StepKinds

LEMMA UpdateWritesStep ==
    ASSUME TypeInv, NEW t \in Threads, StepOf(t), WrittenWhere(t)
    PROVE  UpdateWrites(t)'
  <1>0. /\ TypeOK /\ work[t] \in Works /\ t \in DOMAIN work /\ t \in DOMAIN pc
    BY DEF TypeInv, TypeOK
  <1>1. CASE \E r \in Requests : Begin(t, r)
    BY <1>0, <1>1, Begun DEF UpdateWrites
  <1>2. CASE Ending(t)
    BY <1>0, <1>2, EndingEnds, Ended DEF UpdateWrites
  <1>3. CASE Reading(t)
    <2>1. req'[t] = req[t] /\ (pc'[t] = "commit" => req[t].op = "load")
      BY <1>0, <1>3, ReadingGoesOn
    <2> QED BY <2>1 DEF UpdateWrites
  <1>4. CASE UpdatePolicy(t)
    <2> SUFFICES ASSUME req[t].op = "update" PROVE UpdateWrites(t)'
      BY <1>4 DEF UpdatePolicy, Advance, UpdateWrites
    <2>1. /\ pc[t] = "update" /\ req' = req /\ policies' = policies /\ read' = read
          /\ IF VisibleRow(t) = Absent THEN work' = work
             ELSE work'[t] = [work[t] EXCEPT !.row = WrittenRow(req[t], read[t].row)]
      BY <1>0, <1>4 DEF UpdatePolicy, Write, Advance, database
    <2>2. work[t].row = Same /\ VisibleRow(t) = policies[req[t].uid]
      BY <2>1 DEF WrittenWhere, VisibleRow
    <2>3. WrittenRow(req[t], read[t].row) \in Rows
      <3>1. read[t].row \in Rows
        BY <1>0, <2>1 DEF TypeInv, RowReadFirst
      <3>2. req[t] \in Requests
        BY <1>0, <2>1, OperationAt
      <3> QED BY <3>1, <3>2, WrittenRowType
    <2>4. [work[t] EXCEPT !.row = WrittenRow(req[t], read[t].row)].row
             = WrittenRow(req[t], read[t].row)
      BY <1>0, WorkParts
    <2> QED BY <2>1, <2>2, <2>3, <2>4 DEF UpdateWrites
  <1>5. CASE \/ InsertPolicy(t) \/ RemoveParams(t) \/ RemoveGroups(t) \/ DeletePolicy(t)
             \/ InsertGroup(t) \/ DeleteGroup(t)
    <2>1. /\ req' = req
          /\ pc[t] \in {"insert", "removeParams", "removeGroups", "deletePolicy",
                        "insertGroup", "deleteGroup"}
      BY <1>5 DEF InsertPolicy, RemoveParams, RemoveGroups, DeletePolicy,
                  InsertGroup, DeleteGroup, Advance
    <2>2. req'[t].op # "update"
      BY <1>0, <2>1, OperationAt
    <2> QED BY <2>2 DEF UpdateWrites
  <1> QED BY <1>1, <1>2, <1>3, <1>4, <1>5, StepKinds

(* The rows and groups a load has read are not touched by what follows.      *)
LEMMA SeenParts ==
    ASSUME NEW p \in Reads, NEW x, NEW y
    PROVE  /\ [p EXCEPT !.row = x].groups = p.groups
           /\ [p EXCEPT !.groups = x].groups = x
           /\ [p EXCEPT !.rulesets = x, !.todo = y].groups = p.groups
           /\ [p EXCEPT !.rules = x, !.todo = y].groups = p.groups
           /\ [p EXCEPT !.params = x, !.todo = y].groups = p.groups
  BY DEF Reads

LEMMA RuleSetsPart ==
    ASSUME Inv, NEW t \in Threads, ReadRuleSets(t), LoadsWhole(t), req[t].op = "load"
    PROVE  PartSoFar(req[t].uid, read'[t])
  <1> DEFINE u == req[t].uid
             found == IF u \in ruled THEN SetsOf[u] ELSE <<>>
             todo == [i \in DOMAIN found |-> <<"rules", found[i]>>]
             p == [read[t] EXCEPT !.rulesets = Elements(found), !.todo = todo]
  <1>1. TypeOK /\ read[t] \in Reads /\ t \in DOMAIN read
    BY DEF Inv, TypeInv, TypeOK
  <1>2. pc[t] = "rulesets" /\ read'[t] = p
    BY <1>1 DEF ReadRuleSets, Read
  <1>3. u \in Uids
    BY <1>1, <1>2, OperationAt
  <1>4. found \in Seq(RuleSets)
    BY <1>3, StoreAssumption
  <1>5. read[t].rules = {} /\ read[t].params = {}
    BY <1>2 DEF LoadsWhole
  <1>6. /\ p.rulesets = Elements(found) /\ p.todo = todo
        /\ p.rules = {} /\ p.params = {}
    <2> HIDE DEF found, todo
    <2> QED BY <1>1, <1>5, ReadParts
  <1>7. Elements(found) \subseteq SetIds(u)
    <2>1. Elements(<<>>) = {}
      BY DEF Elements
    <2> QED BY <2>1 DEF SetIds
  <1> HIDE DEF found, p
  <1>8. \A e \in Elements(todo) : e[1] = "rules" /\ e[2] \in Elements(found)
    BY <1>4, DueOfRuleSets
  <1> HIDE DEF todo, u
  <1> QED BY <1>2, <1>6, <1>7, <1>8 DEF PartSoFar, u

LEMMA RulesPart ==
    ASSUME Inv, NEW t \in Threads, ReadRules(t), LoadsPart(t), req[t].op = "load"
    PROVE  PartSoFar(req[t].uid, read'[t])
  <1> DEFINE u == req[t].uid
             s == Head(read[t].todo)[2]
             rest == Tail(read[t].todo)
             found == IF u \in ruled THEN RulesIn[s] ELSE <<>>
             first == [i \in DOMAIN found |-> <<"params", found[i]>>]
             todo == first \o rest
             p == [read[t] EXCEPT !.rules = read[t].rules \cup Elements(found), !.todo = todo]
  <1>1. /\ TypeOK /\ read[t] \in Reads /\ t \in DOMAIN read
        /\ read[t].todo \in Seq(Queries)
    BY DEF Inv, TypeInv, TypeOK, Reads
  <1>2. /\ pc[t] = "details" /\ read[t].todo # <<>> /\ Head(read[t].todo)[1] = "rules"
        /\ read'[t] = p
    BY <1>1 DEF ReadRules, Read
  <1>3. rest \in Seq(Queries) /\ Head(read[t].todo) \in Queries
    BY <1>1, <1>2
  <1>4. found \in Seq(Rules)
    <2>1. s \in RuleSets
      BY <1>2, <1>3 DEF Queries
    <2> QED BY <2>1, StoreAssumption
  <1>5. /\ p.rulesets = read[t].rulesets /\ p.todo = todo
        /\ p.rules = read[t].rules \cup Elements(found) /\ p.params = read[t].params
    <2> HIDE DEF found, todo
    <2> QED BY <1>1, ReadParts
  <1> HIDE DEF p
  <1>6. Elements(todo) = Elements(first) \cup Elements(rest)
    <2>1. first \in Seq(Queries)
      <3> HIDE DEF found
      <3> QED BY <1>4 DEF Queries
    <2> HIDE DEF first, rest
    <2> QED BY <1>3, <2>1, JoinedElements
  <1>7. \A e \in Elements(first) : e[1] = "params" /\ e[2] \in Elements(found)
    <2> HIDE DEF found
    <2> QED BY DEF Elements
  <1>8. Elements(read[t].todo) = {Head(read[t].todo)} \cup Elements(rest)
    BY <1>1, <1>2, FirstElement
  <1>9. PartSoFar(u, read[t])
    BY <1>2 DEF LoadsPart
  <1>10. s \in SetIds(u)
    BY <1>2, <1>8, <1>9 DEF PartSoFar
  <1>11. Elements(found) \subseteq RuleIds(u)
    <2>1. Elements(<<>>) = {} /\ Elements(RulesIn[s]) \subseteq RuleIds(u)
      <3>1. Elements(<<>>) = {}
        BY DEF Elements
      <3>2. Elements(RulesIn[s]) \subseteq RuleIds(u)
        BY <1>10 DEF RuleIds
      <3> QED BY <3>1, <3>2
    <2> QED BY <2>1
  <1> HIDE DEF found, first, rest, todo, u, s
  <1> QED BY <1>2, <1>5, <1>6, <1>7, <1>8, <1>9, <1>11 DEF PartSoFar, u

LEMMA ParamsPart ==
    ASSUME Inv, NEW t \in Threads, ReadParams(t), LoadsPart(t), req[t].op = "load"
    PROVE  PartSoFar(req[t].uid, read'[t])
  <1> DEFINE u == req[t].uid
             r == Head(read[t].todo)[2]
             rest == Tail(read[t].todo)
             found == IF u \in params THEN {r} ELSE {}
             p == [read[t] EXCEPT !.params = read[t].params \cup found, !.todo = rest]
  <1>1. /\ TypeOK /\ read[t] \in Reads /\ t \in DOMAIN read
        /\ read[t].todo \in Seq(Queries)
    BY DEF Inv, TypeInv, TypeOK, Reads
  <1>2. /\ pc[t] = "details" /\ read[t].todo # <<>> /\ Head(read[t].todo)[1] = "params"
        /\ read'[t] = p
    BY <1>1 DEF ReadParams, Read
  <1>3. /\ p.rulesets = read[t].rulesets /\ p.todo = rest
        /\ p.rules = read[t].rules /\ p.params = read[t].params \cup found
    <2> HIDE DEF found, rest
    <2> QED BY <1>1, ReadParts
  <1> HIDE DEF p
  <1>4. Elements(read[t].todo) = {Head(read[t].todo)} \cup Elements(rest)
    BY <1>1, <1>2, FirstElement
  <1>5. PartSoFar(u, read[t])
    BY <1>2 DEF LoadsPart
  <1>6. found \subseteq RuleIds(u)
    BY <1>2, <1>4, <1>5 DEF PartSoFar
  <1> HIDE DEF found, rest, u, r
  <1> QED BY <1>2, <1>3, <1>4, <1>5, <1>6 DEF PartSoFar, u

LEMMA LoadsPartStep ==
    ASSUME Inv, NEW t \in Threads, StepOf(t), LoadsWhole(t), LoadsPart(t)
    PROVE  LoadsPart(t)'
  <1>0. TypeOK /\ t \in DOMAIN read /\ t \in DOMAIN pc
    BY DEF Inv, TypeInv, TypeOK
  <1>1. CASE \E r \in Requests : Begin(t, r)
    BY <1>0, <1>1, Begun DEF LoadsPart
  <1>2. CASE Ending(t)
    BY <1>0, <1>2, EndingEnds, Ended DEF LoadsPart
  <1>3. CASE Reading(t) /\ req'[t].op = "load"
    <2>1. req'[t] = req[t] /\ req[t].op = "load"
      BY <1>0, <1>3, ReadingGoesOn
    <2>2. CASE FindPolicy(t) \/ ReadGroups(t) \/ CheckPolicy(t)
      <3>1. pc'[t] \notin {"details", "commit"}
        BY <1>0, <2>2 DEF FindPolicy, ReadGroups, CheckPolicy, Advance
      <3> QED BY <3>1 DEF LoadsPart
    <2>3. CASE ReadRuleSets(t) \/ ReadRules(t) \/ ReadParams(t)
      <3>1. PartSoFar(req[t].uid, read'[t])
        BY <2>1, <2>3, RuleSetsPart, RulesPart, ParamsPart
      <3> QED BY <2>1, <3>1 DEF LoadsPart, PartSoFar
    <2> QED BY <1>3, <2>2, <2>3 DEF Reading
  <1>4. CASE req'[t].op # "load"
    BY <1>4 DEF LoadsPart
  <1>5. CASE \/ InsertPolicy(t) \/ UpdatePolicy(t) \/ RemoveParams(t) \/ RemoveGroups(t)
             \/ DeletePolicy(t) \/ InsertGroup(t) \/ DeleteGroup(t)
    <2>1. /\ req' = req /\ pc[t] # "idle"
          /\ pc[t] \in {"insert", "update", "removeParams", "removeGroups",
                        "deletePolicy", "insertGroup", "deleteGroup"}
      BY <1>5 DEF InsertPolicy, UpdatePolicy, RemoveParams, RemoveGroups, DeletePolicy,
                  InsertGroup, DeleteGroup, Advance
    <2> QED BY <1>0, <2>1, OperationAt DEF LoadsPart
  <1> QED BY <1>1, <1>2, <1>3, <1>4, <1>5, StepKinds

--------------------------------------------------------------------------------
(* The invariant after a step of another thread.                             *)

(* Only a commit touches the groups stored.                                  *)
LEMMA GroupsChange ==
    ASSUME NEW t \in Threads, StepOf(t), ~ Commit(t)
    PROVE  groups' = groups
  BY DEF StepOf, Begin, LockTimeout, Step, InsertPolicy, RefuseName,
         RefuseValue, FindPolicy, ReadGroups, ReadRuleSets, ReadRules, ReadParams,
         PolicyNotFound, UpdatePolicy, RefuseRename, RemoveParams, RemoveGroups,
         DeletePolicy, CheckPolicy, InsertGroup, RefuseGroup, DeleteGroup,
         ListPolicies, Advance, Fail, database

(* A thread about to commit a new group has just inserted it, and no other   *)
(* open transaction has inserted the same.                                   *)
LEMMA GroupInserted ==
    ASSUME TypeOK, NEW t \in Threads, StepOf(t), GroupWrites(t),
           req'[t].op = "groupCreate", pc'[t] = "commit"
    PROVE  InsertGroup(t) /\ req'[t] = req[t]
  <1>0. t \in DOMAIN pc
    BY DEF TypeOK
  <1>1. CASE \E r \in Requests : Begin(t, r)
    BY <1>1, Begun
  <1>2. CASE Ending(t)
    BY <1>2, EndingEnds, Ended
  <1>3. CASE Reading(t)
    BY <1>3, ReadingGoesOn
  <1>4. CASE \/ InsertPolicy(t) \/ UpdatePolicy(t) \/ RemoveParams(t) \/ RemoveGroups(t)
             \/ DeletePolicy(t) \/ DeleteGroup(t)
    <2>1. /\ req' = req
          /\ pc[t] \in {"insert", "update", "removeParams", "removeGroups",
                        "deletePolicy", "deleteGroup"}
      BY <1>4 DEF InsertPolicy, UpdatePolicy, RemoveParams, RemoveGroups, DeletePolicy,
                  DeleteGroup, Advance
    <2> QED BY <2>1, OperationAt
  <1>5. CASE InsertGroup(t)
    BY <1>5 DEF InsertGroup, Advance
  <1> QED BY <1>1, <1>2, <1>3, <1>4, <1>5, StepKinds

LEMMA GroupsLockedStep ==
    ASSUME TypeOK, NEW t \in Threads, StepOf(t), GroupsLocked,
           \A s \in Threads : GroupWrites(s)
    PROVE  GroupsLocked'
  <1> DEFINE Adds(s) == req[s].op = "groupCreate" /\ pc[s] = "commit"
  <1>1. ASSUME NEW s \in Threads, s # t, Adds(s), Adds(t)'
        PROVE  <<req[s].uid, req[s].group>> # <<req'[t].uid, req'[t].group>>
    <2>1. InsertGroup(t) /\ req'[t] = req[t]
      BY <1>1, GroupInserted
    <2>2. pc[t] = "insertGroup" /\ ~ WaitsFor(t, s)
      BY <1>1, <2>1 DEF InsertGroup, Holders
    <2>3. work[s].added = {req[s].group}
      BY <1>1 DEF GroupWrites
    <2>4. ~ GroupConflict(t, s, {req[t].group})
      BY <2>2 DEF WaitsFor
    <2> QED BY <2>1, <2>3, <2>4 DEF GroupConflict
  <1>2. \A s \in Threads : s # t => pc'[s] = pc[s] /\ req'[s] = req[s]
    BY OthersKeep
  <1>3. ASSUME NEW r \in Threads, NEW s \in Threads, r # s, Adds(r)', Adds(s)'
        PROVE  <<req'[r].uid, req'[r].group>> # <<req'[s].uid, req'[s].group>>
    <2>1. CASE r # t /\ s # t
      BY <1>2, <1>3, <2>1 DEF GroupsLocked
    <2>2. CASE r = t
      BY <1>1, <1>2, <1>3, <2>2
    <2>3. CASE s = t
      BY <1>1, <1>2, <1>3, <2>3
    <2> QED BY <2>1, <2>2, <2>3
  <1> QED BY <1>3 DEF GroupsLocked

LEMMA RefineInit == Init => RefineInv
  <1> SUFFICES ASSUME Init PROVE RefineInv
    OBVIOUS
  <1>1. AnswersInv
    BY AnswersInit
  <1>2. ASSUME NEW t \in Threads
        PROVE  /\ req[t].op = "none" /\ pc[t] = "idle"
               /\ work[t].added = {} /\ work[t].removed = {} /\ work[t].row = Same
    BY DEF Init, NoRequest, NoWork
  <1> QED BY <1>1, <1>2, StoreAssumption
          DEF RefineInv, GroupWrites, UpdateWrites, WritesFit, LoadsPart, GroupsLocked

LEMMA RefineStep == RefineInv /\ [Next]_vars => RefineInv'
  <1> SUFFICES ASSUME RefineInv, [Next]_vars PROVE RefineInv'
    OBVIOUS
  <1>0. AnswersInv /\ Inv /\ TypeInv /\ TypeOK
    BY DEF RefineInv, AnswersInv, Inv, TypeInv
  <1>1. AnswersInv'
    BY <1>0, AnswersStep
  <1>2. ASSUME NEW t \in Threads, StepOf(t)
        PROVE  RefineInv'
    <2>1. ASSUME NEW s \in Threads, s # t
          PROVE  (GroupWrites(s) /\ UpdateWrites(s) /\ WritesFit(s) /\ LoadsPart(s))'
      <3>1. /\ pc'[s] = pc[s] /\ req'[s] = req[s] /\ work'[s] = work[s]
            /\ read'[s] = read[s]
        BY <1>0, <1>2, <2>1, OthersKeep
      <3>2. GroupWrites(s) /\ UpdateWrites(s) /\ WritesFit(s) /\ LoadsPart(s)
        BY DEF RefineInv
      <3>3. GroupWrites(s)'
        <4>1. CASE ~ Commit(t)
          BY <1>2, <3>1, <3>2, <4>1, GroupsChange DEF GroupWrites
        <4>2. CASE Commit(t)
          <5>1. /\ pc[t] = "commit"
                /\ groups' = (groups \ ({req[t].uid} \X work[t].removed))
                               \cup ({req[t].uid} \X work[t].added)
            BY <4>2 DEF Commit
          <5>2. SUFFICES ASSUME req[s].op = "groupCreate", pc[s] = "commit",
                                <<req[s].uid, req[s].group>> \in groups'
                         PROVE  FALSE
            BY <3>1, <3>2 DEF GroupWrites
          <5>3. <<req[s].uid, req[s].group>> \notin groups
            BY <3>2, <5>2 DEF GroupWrites
          <5>4. req[s].uid = req[t].uid /\ req[s].group \in work[t].added
            BY <5>1, <5>2, <5>3
          <5>5. GroupWrites(t)
            BY DEF RefineInv
          <5>6. req[t].op = "groupCreate" /\ work[t].added = {req[t].group}
            BY <5>1, <5>4, <5>5 DEF GroupWrites
          <5> QED BY <2>1, <5>1, <5>2, <5>4, <5>6 DEF RefineInv, GroupsLocked
        <4> QED BY <4>1, <4>2
      <3>4. UpdateWrites(s)'
        <4>1. req[s].op = "update" => req[s].uid \in known
          BY <1>0 DEF Inv, UidsApart, Acting, Creating
        <4>2. /\ req[s].op = "update" /\ policies[req[s].uid] = Absent
              => policies'[req[s].uid] = Absent
          BY <1>0, <4>1, StaysDeleted
        <4> QED BY <3>1, <3>2, <4>2 DEF UpdateWrites
      <3>5. LoadsPart(s)'
        BY <3>1, <3>2 DEF LoadsPart
      <3>6. WritesFit(s)'
        BY <3>1, <3>2 DEF WritesFit
      <3> QED BY <3>3, <3>4, <3>5, <3>6
    <2>2. /\ WrittenWhere(t) /\ GroupWrites(t) /\ LoadsWhole(t) /\ LoadsPart(t)
          /\ WritesFit(t)
      BY <1>0 DEF RefineInv, AnswersInv
    <2>3. (GroupWrites(t) /\ UpdateWrites(t) /\ WritesFit(t) /\ LoadsPart(t))'
      BY <1>0, <1>2, <2>2, GroupWritesStep, UpdateWritesStep, WritesFitStep,
         LoadsPartStep
    <2>4. GroupsLocked'
      BY <1>0, <1>2, GroupsLockedStep DEF RefineInv
    <2> QED BY <1>1, <2>1, <2>3, <2>4 DEF RefineInv
  <1>3. CASE Crash
    <2>1. ASSUME NEW s \in Threads
          PROVE  /\ req'[s].op = "none" /\ work'[s].added = {}
                 /\ work'[s].removed = {} /\ work'[s].row = Same
      BY <1>3 DEF Crash, NoRequest, NoWork
    <2> QED BY <1>1, <2>1, StoreAssumption
            DEF RefineInv, GroupWrites, UpdateWrites, WritesFit, LoadsPart, GroupsLocked
  <1>4. CASE UNCHANGED vars
    BY <1>1, <1>4 DEF RefineInv, GroupWrites, UpdateWrites, WritesFit, LoadsPart,
                      GroupsLocked, vars
  <1> QED BY <1>2, <1>3, <1>4 DEF Next, StepOf

--------------------------------------------------------------------------------
(* The registry speaks of requests and rows with the words of PolicyStore.   *)
LEMMA SameWords ==
    /\ Reg!NoRequest = NoRequest /\ Reg!Requests = Requests
    /\ \A row, n : Reg!HasName(row, n) <=> HasName(row, n)
    /\ \A r : Reg!InsertedName(r) = InsertedName(r) /\ Reg!CreatedRow(r) = CreatedRow(r)
    /\ \A row : Reg!Fits(row) <=> Fits(row)
    /\ \A r, row : Reg!WrittenRow(r, row) = WrittenRow(r, row)
    /\ \A u : Reg!SetIds(u) = SetIds(u) /\ Reg!RuleIds(u) = RuleIds(u)
  <1>1. Reg!NoRequest = NoRequest
    BY DEF Reg!NoRequest, NoRequest
  <1>2. Reg!Requests = Requests
    BY DEF Reg!Requests, Requests, Reg!CreateRequests, CreateRequests,
           Reg!ImportRequests, ImportRequests, Reg!UpdateRequests, UpdateRequests,
           Reg!GroupRequests, GroupRequests, Reg!UidRequests, UidRequests,
           Reg!ListRequests, ListRequests
  <1>3. \A row, n : Reg!HasName(row, n) <=> HasName(row, n)
    BY DEF Reg!HasName, HasName, Reg!Rows, Rows
  <1>4. /\ \A r : Reg!InsertedName(r) = InsertedName(r) /\ Reg!CreatedRow(r) = CreatedRow(r)
        /\ \A row : Reg!Fits(row) <=> Fits(row)
    BY DEF Reg!InsertedName, InsertedName, Reg!CreatedRow, CreatedRow, Reg!Fits, Fits
  <1>5. \A r, row : Reg!WrittenRow(r, row) = WrittenRow(r, row)
    BY DEF Reg!WrittenRow, WrittenRow
  <1>6. \A u : Reg!SetIds(u) = SetIds(u) /\ Reg!RuleIds(u) = RuleIds(u)
    BY DEF Reg!SetIds, SetIds, Reg!RuleIds, RuleIds, Reg!Elements, Elements
  <1> QED BY <1>1, <1>2, <1>3, <1>4, <1>5, <1>6

(* How far a request has come, by the statement it is at.                    *)
LEMMA Stages ==
    ASSUME TypeOK, NEW t \in Threads
    PROVE  /\ pc[t] = "idle" <=> StageOf(t) = "free"
           /\ pc[t] \in {"insert", "find", "check", "list", "removeParams", "removeGroups"}
                 => StageOf(t) = "asked"
           /\ pc[t] # "idle" /\ req[t].op \in {"create", "import"} => StageOf(t) = "asked"
           /\ pc[t] \notin {"idle", "find"} /\ req[t].op = "update" => StageOf(t) = "found"
           /\ pc[t] = "groups" /\ req[t].op = "load" => StageOf(t) = "found"
           /\ pc[t] \in {"rulesets", "details", "commit"} /\ req[t].op = "load"
                 => StageOf(t) = "looked"
           /\ pc[t] \in {"insertGroup", "deleteGroup"} => StageOf(t) = "found"
           /\ pc[t] = "commit" /\ req[t].op = "groupCreate" => StageOf(t) = "found"
           /\ pc[t] = "deletePolicy" => StageOf(t) = "looked"
           /\ pc[t] = "commit" /\ req[t].op \in {"delete", "groupDelete"}
                 => StageOf(t) = "looked"
  <1>1. CASE pc[t] = "idle"
    BY <1>1 DEF StageOf
  <1>2. CASE pc[t] # "idle"
    BY <1>2, OperationAt DEF StageOf, Looked, Found
  <1> QED BY <1>1, <1>2

(* What the registry sees of a step of t.                                    *)
LEMMA Mapped ==
    ASSUME TypeOK, NEW t \in Threads, StepOf(t), NEW x, NEW y,
           StageOf(t)' = x, SeenOf(t)' = y
    PROVE  /\ [s \in Threads |-> StageOf(s)]'
                 = [[s \in Threads |-> StageOf(s)] EXCEPT ![t] = x]
           /\ [s \in Threads |-> SeenOf(s)]'
                 = [[s \in Threads |-> SeenOf(s)] EXCEPT ![t] = y]
  <1>1. ASSUME NEW s \in Threads, s # t
        PROVE  StageOf(s)' = StageOf(s) /\ SeenOf(s)' = SeenOf(s)
    <2>1. /\ pc'[s] = pc[s] /\ req'[s] = req[s] /\ work'[s] = work[s]
          /\ read'[s] = read[s]
      BY <1>1, OthersKeep
    <2> QED BY <2>1 DEF StageOf, SeenOf, Looked, Found
  <1> QED BY <1>1

(* A step the registry does not see.                                         *)
LEMMA Unseen ==
    ASSUME TypeOK, NEW t \in Threads, StepOf(t), req' = req, answer' = answer,
           UNCHANGED database, StageOf(t)' = StageOf(t), SeenOf(t)' = SeenOf(t)
    PROVE  UNCHANGED Reg!rvars
  <1>1. /\ [s \in Threads |-> StageOf(s)]' = [s \in Threads |-> StageOf(s)]
        /\ [s \in Threads |-> SeenOf(s)]' = [s \in Threads |-> SeenOf(s)]
    BY Mapped
  <1> QED BY <1>1 DEF Reg!rvars, database

(* An answer is the registry's answer.                                       *)
LEMMA Replies ==
    ASSUME TypeOK, NEW t \in Threads, StepOf(t), NEW a, Finish(t, a)
    PROVE  Reg!Release(t) /\ Reg!Reply(t, a)
  <1>1. /\ pc'[t] = "idle" /\ req'[t] = NoRequest /\ work'[t] = NoWork
        /\ NoRequest.op = "none" /\ NoWork.removed = {}
    BY Ended
  <1>2. StageOf(t)' = "free"
    BY <1>1 DEF StageOf
  <1>3. SeenOf(t)' = Reg!Unseen
    BY <1>1 DEF SeenOf, Reg!Unseen
  <1>4. /\ [s \in Threads |-> StageOf(s)]'
              = [[s \in Threads |-> StageOf(s)] EXCEPT ![t] = "free"]
        /\ [s \in Threads |-> SeenOf(s)]'
              = [[s \in Threads |-> SeenOf(s)] EXCEPT ![t] = Reg!Unseen]
    BY <1>2, <1>3, Mapped
  <1> QED BY <1>4, SameWords DEF Reg!Release, Reg!Reply, Finish

(* Begin: the registry is asked.                                             *)
LEMMA AskStep ==
    ASSUME RefineInv, NEW t \in Threads, NEW r \in Requests, Begin(t, r)
    PROVE  Reg!RNext
  <1>0. TypeOK /\ StepOf(t)
    BY DEF RefineInv, AnswersInv, Inv, TypeInv, StepOf
  <1>1. /\ pc'[t] = FirstStatement(r.op) /\ req'[t] = r
        /\ work'[t] = NoWork /\ read'[t] = NoRead /\ UNCHANGED database
    BY <1>0, Begun
  <1>2. pc[t] = "idle" /\ work[t] = NoWork /\ read[t] = NoRead /\ req[t].op = "none"
    <2>1. pc[t] = "idle"
      BY DEF Begin
    <2>2. StatementOf(req[t].op, "idle")
      BY <1>0, <2>1 DEF TypeOK
    <2> QED BY <1>0, <2>1, <2>2 DEF TypeOK, StatementOf
  <1>3. StageOf(t)' = "asked"
    BY <1>1, RequestFields DEF StageOf, Looked, Found, FirstStatement
  <1>4. SeenOf(t)' = SeenOf(t)
    <2>1. NoRead.row = Absent /\ NoRead.groups = {} /\ NoWork.removed = {}
      BY DEF NoRead, NoWork
    <2>2. SeenOf(t) = [row |-> Absent, groups |-> {}]
      BY <1>2, <2>1 DEF SeenOf
    <2>3. SeenOf(t)' = [row |-> Absent, groups |-> {}]
      BY <1>1, <2>1 DEF SeenOf
    <2> QED BY <2>2, <2>3
  <1>5. /\ [s \in Threads |-> StageOf(s)]'
              = [[s \in Threads |-> StageOf(s)] EXCEPT ![t] = "asked"]
        /\ [s \in Threads |-> SeenOf(s)]' = [s \in Threads |-> SeenOf(s)]
    BY <1>0, <1>3, <1>4, Mapped
  <1>6. Reg!Ask(t, r)
    <2>1. r.op \in {"create", "import"} =>
             r.uid \notin known \cup
                      {req[d].uid : d \in {e \in Threads : req[e].op \in {"create", "import"}}}
      BY DEF Begin, Fresh
    <2> QED BY <1>1, <1>5, <2>1 DEF Reg!Ask, Begin, database
  <1>7. StageOf(t) = "free"
    BY <1>2 DEF StageOf
  <1> QED BY <1>6, <1>7, SameWords DEF Reg!RNext

--------------------------------------------------------------------------------
(* The statements before the commit.                                         *)

(* What is known of a thread that goes on.                                   *)
LEMMA GoingOn ==
    ASSUME RefineInv, NEW t \in Threads
    PROVE  /\ TypeOK /\ t \in DOMAIN pc /\ t \in DOMAIN work /\ t \in DOMAIN read
           /\ work[t] \in Works /\ read[t] \in Reads
           /\ WrittenWhere(t) /\ NewRow(t) /\ GroupWrites(t) /\ WritesFit(t)
           /\ pc[t] \in {"find", "check", "insertGroup", "deleteGroup", "removeParams",
                         "removeGroups", "deletePolicy", "insert"}
              /\ req[t].op # "import"
                 => work[t].row = Same /\ VisibleRow(t) = policies[req[t].uid]
  <1>1. TypeOK /\ WrittenWhere(t) /\ NewRow(t) /\ GroupWrites(t) /\ WritesFit(t)
    BY DEF RefineInv, AnswersInv, Inv, TypeInv
  <1> QED BY <1>1 DEF TypeOK, WrittenWhere, VisibleRow

(* A step of a busy thread, to a stage the registry sees as another.         *)
LEMMA Served ==
    ASSUME NEW t \in Threads, StageOf(t) # "free", Reg!Serve(t)
    PROVE  Reg!RNext
  BY DEF Reg!RNext

LEMMA FindPolicyRefines ==
    ASSUME RefineInv, NEW t \in Threads, FindPolicy(t)
    PROVE  Reg!RNext \/ UNCHANGED Reg!rvars
  <1>0. TypeOK /\ StepOf(t) /\ read[t] \in Reads /\ t \in DOMAIN pc /\ t \in DOMAIN read
    BY GoingOn DEF StepOf, Step
  <1>1. /\ pc[t] = "find" /\ pc'[t] = "groups" /\ VisibleRow(t) # Absent
        /\ req' = req /\ answer' = answer /\ work' = work /\ UNCHANGED database
        /\ read'[t] = [read[t] EXCEPT !.row = VisibleRow(t)]
    BY <1>0 DEF FindPolicy, Read, Advance
  <1>2. /\ req[t].op \in {"import", "update", "load"} /\ StageOf(t) = "asked"
    BY <1>0, <1>1, OperationAt, Stages
  <1>3. read'[t].row = VisibleRow(t) /\ read'[t].groups = read[t].groups
    BY <1>0, <1>1, ReadParts, SeenParts
  <1>4. CASE req[t].op = "import"
    <2>1. StageOf(t)' = "asked" /\ SeenOf(t)' = SeenOf(t)
      BY <1>1, <1>4 DEF StageOf, Looked, Found, SeenOf
    <2> QED BY <1>0, <1>1, <1>2, <2>1, Unseen
  <1>5. CASE req[t].op # "import"
    <2>1. VisibleRow(t) = policies[req[t].uid]
      BY <1>1, <1>5, GoingOn
    <2>2. StageOf(t)' = "found"
      BY <1>1, <1>2, <1>5 DEF StageOf, Looked, Found
    <2>3. SeenOf(t)' = [SeenOf(t) EXCEPT !.row = policies[req[t].uid]]
      BY <1>1, <1>2, <1>3, <1>5, <2>1 DEF SeenOf
    <2>4. /\ [s \in Threads |-> StageOf(s)]'
                = [[s \in Threads |-> StageOf(s)] EXCEPT ![t] = "found"]
          /\ [s \in Threads |-> SeenOf(s)]'
                = [[s \in Threads |-> SeenOf(s)] EXCEPT
                      ![t] = [SeenOf(t) EXCEPT !.row = policies[req[t].uid]]]
      BY <1>0, <2>2, <2>3, Mapped
    <2>5. Reg!Find(t)
      BY <1>1, <1>2, <1>5, <2>1, <2>4 DEF Reg!Find, Reg!Stored, database
    <2> QED BY <1>2, <2>5, Served DEF Reg!Serve
  <1> QED BY <1>4, <1>5

LEMMA CheckPolicyRefines ==
    ASSUME RefineInv, NEW t \in Threads, CheckPolicy(t)
    PROVE  Reg!RNext
  <1>0. TypeOK /\ StepOf(t) /\ t \in DOMAIN pc
    BY GoingOn DEF StepOf, Step
  <1>1. /\ pc[t] = "check" /\ pc'[t] \in {"insertGroup", "deleteGroup"}
        /\ pc'[t] = "insertGroup" <=> req[t].op = "groupCreate"
        /\ VisibleRow(t) # Absent /\ req' = req /\ answer' = answer
        /\ work' = work /\ read' = read /\ UNCHANGED database
    BY <1>0 DEF CheckPolicy, Advance
  <1>2. req[t].op \in {"groupCreate", "groupDelete"} /\ StageOf(t) = "asked"
    BY <1>0, <1>1, OperationAt, Stages
  <1>3. VisibleRow(t) = policies[req[t].uid]
    BY <1>1, <1>2, GoingOn
  <1>4. StageOf(t)' = "found" /\ SeenOf(t)' = SeenOf(t)
    BY <1>1, <1>2 DEF StageOf, Looked, Found, SeenOf
  <1>5. /\ [s \in Threads |-> StageOf(s)]'
              = [[s \in Threads |-> StageOf(s)] EXCEPT ![t] = "found"]
        /\ [s \in Threads |-> SeenOf(s)]' = [s \in Threads |-> SeenOf(s)]
    BY <1>0, <1>4, Mapped
  <1>6. Reg!Find(t)
    BY <1>1, <1>2, <1>3, <1>5 DEF Reg!Find, Reg!Stored, database
  <1> QED BY <1>2, <1>6, Served DEF Reg!Serve

(* The groups a request has looked at.                                       *)
LEMMA LookStep ==
    ASSUME TypeOK, NEW t \in Threads, StepOf(t), NEW G,
           \/ req[t].op = "delete" /\ StageOf(t) = "asked"
           \/ req[t].op \in {"load", "groupDelete"} /\ StageOf(t) = "found",
           StageOf(t)' = "looked", SeenOf(t)' = [SeenOf(t) EXCEPT !.groups = G],
           G = IF req[t].op = "groupDelete" THEN {req[t].group} \cap VisibleGroups(t)
               ELSE VisibleGroups(t),
           req' = req, answer' = answer, UNCHANGED database
    PROVE  Reg!RNext
  <1>1. /\ [s \in Threads |-> StageOf(s)]'
              = [[s \in Threads |-> StageOf(s)] EXCEPT ![t] = "looked"]
        /\ [s \in Threads |-> SeenOf(s)]'
              = [[s \in Threads |-> SeenOf(s)] EXCEPT ![t] = [SeenOf(t) EXCEPT !.groups = G]]
    BY Mapped
  <1>2. Reg!GroupsOf(req[t].uid) = VisibleGroups(t)
    BY DEF Reg!GroupsOf, VisibleGroups
  <1>3. Reg!Look(t)
    BY <1>1, <1>2 DEF Reg!Look, database
  <1>4. StageOf(t) # "free"
    OBVIOUS
  <1> QED BY <1>3, <1>4, Served DEF Reg!Serve

LEMMA ReadGroupsRefines ==
    ASSUME RefineInv, NEW t \in Threads, ReadGroups(t)
    PROVE  Reg!RNext \/ UNCHANGED Reg!rvars
  <1>0. TypeOK /\ StepOf(t) /\ read[t] \in Reads /\ t \in DOMAIN pc /\ t \in DOMAIN read
    BY GoingOn DEF StepOf, Step
  <1>1. /\ pc[t] = "groups" /\ pc'[t] = "rulesets"
        /\ req' = req /\ answer' = answer /\ work' = work /\ UNCHANGED database
        /\ read'[t] = [read[t] EXCEPT !.groups = VisibleGroups(t)]
    BY <1>0 DEF ReadGroups, Read, Advance
  <1>2. req[t].op \in {"import", "update", "load"}
    BY <1>0, <1>1, OperationAt
  <1>3. read'[t].row = read[t].row /\ read'[t].groups = VisibleGroups(t)
    BY <1>0, <1>1, ReadParts, SeenParts
  <1>4. CASE req[t].op # "load"
    <2>1. StageOf(t)' = StageOf(t)
      BY <1>1, <1>2, <1>4 DEF StageOf, Looked, Found
    <2>2. SeenOf(t)' = SeenOf(t)
      BY <1>1, <1>3, <1>4 DEF SeenOf
    <2> QED BY <1>0, <1>1, <2>1, <2>2, Unseen
  <1>5. CASE req[t].op = "load"
    <2>1. StageOf(t) = "found"
      BY <1>0, <1>1, <1>5, Stages
    <2>2. StageOf(t)' = "looked"
      BY <1>1, <1>5 DEF StageOf, Looked
    <2>3. SeenOf(t)' = [SeenOf(t) EXCEPT !.groups = VisibleGroups(t)]
      BY <1>1, <1>3, <1>5 DEF SeenOf
    <2> QED BY <1>0, <1>1, <1>5, <2>1, <2>2, <2>3, LookStep
  <1> QED BY <1>4, <1>5

(* The rulesets, rules and parameters are read after all the registry sees.  *)
LEMMA ReadRulesRefines ==
    ASSUME RefineInv, NEW t \in Threads, ReadRuleSets(t) \/ ReadRules(t) \/ ReadParams(t)
    PROVE  UNCHANGED Reg!rvars
  <1>0. TypeOK /\ StepOf(t) /\ read[t] \in Reads /\ t \in DOMAIN pc /\ t \in DOMAIN read
    BY GoingOn DEF StepOf, Step
  <1>1. /\ pc[t] \in {"rulesets", "details"}
        /\ pc'[t] = "details" \/ pc'[t] = AfterLoad(req[t].op)
        /\ req' = req /\ answer' = answer /\ work' = work /\ UNCHANGED database
    BY <1>0 DEF ReadRuleSets, ReadRules, ReadParams, Read, Advance
  <1>2. req[t].op \in {"import", "update", "load"}
    BY <1>0, <1>1, OperationAt
  <1>3. StageOf(t)' = StageOf(t)
    BY <1>1, <1>2 DEF StageOf, Looked, Found, AfterLoad
  <1>4. read'[t].row = read[t].row /\ read'[t].groups = read[t].groups
    <2>1. CASE ReadRuleSets(t)
      <3>1. PICK x, y : read'[t] = [read[t] EXCEPT !.rulesets = x, !.todo = y]
        BY <1>0, <2>1 DEF ReadRuleSets, Read
      <3> QED BY <1>0, <3>1, ReadParts, SeenParts
    <2>2. CASE ReadRules(t)
      <3>1. PICK x, y : read'[t] = [read[t] EXCEPT !.rules = x, !.todo = y]
        BY <1>0, <2>2 DEF ReadRules, Read
      <3> QED BY <1>0, <3>1, ReadParts, SeenParts
    <2>3. CASE ReadParams(t)
      <3>1. PICK x, y : read'[t] = [read[t] EXCEPT !.params = x, !.todo = y]
        BY <1>0, <2>3 DEF ReadParams, Read
      <3> QED BY <1>0, <3>1, ReadParts, SeenParts
    <2> QED BY <2>1, <2>2, <2>3
  <1>5. SeenOf(t)' = SeenOf(t)
    BY <1>1, <1>4 DEF SeenOf
  <1> QED BY <1>0, <1>1, <1>3, <1>5, Unseen

(* Nor is a statement that writes the row of the policy or its parameters.   *)
LEMMA WriteRefines ==
    ASSUME RefineInv, NEW t \in Threads,
           InsertPolicy(t) \/ UpdatePolicy(t) \/ RemoveParams(t) \/ DeletePolicy(t)
    PROVE  UNCHANGED Reg!rvars
  <1>0. /\ TypeOK /\ StepOf(t) /\ work[t] \in Works
        /\ t \in DOMAIN pc /\ t \in DOMAIN work
    BY GoingOn DEF StepOf, Step
  <1>1. /\ pc[t] \in {"insert", "update", "removeParams", "deletePolicy"}
        /\ pc[t] = "insert" =>
              pc'[t] = IF req[t].op = "create" THEN "commit" ELSE "find"
        /\ pc[t] \in {"update", "deletePolicy"} => pc'[t] = "commit"
        /\ pc[t] = "removeParams" => pc'[t] = "removeGroups"
        /\ req' = req /\ answer' = answer /\ UNCHANGED database /\ read' = read
    BY <1>0 DEF InsertPolicy, UpdatePolicy, RemoveParams, DeletePolicy, Write, Advance
  <1>2. /\ pc[t] = "insert" => req[t].op \in {"create", "import"}
        /\ pc[t] = "update" => req[t].op \in {"import", "update"}
        /\ pc[t] \in {"removeParams", "deletePolicy"} => req[t].op = "delete"
    BY <1>0, <1>1, OperationAt
  <1>3. StageOf(t)' = StageOf(t)
    BY <1>1, <1>2 DEF StageOf, Looked, Found
  <1>4. work'[t].removed = work[t].removed
    <2>1. CASE InsertPolicy(t)
      <3>1. PICK x : work'[t] = [work[t] EXCEPT !.row = x]
        BY <1>0, <2>1 DEF InsertPolicy, Write
      <3> QED BY <1>0, <3>1, AddedParts
    <2>2. CASE UpdatePolicy(t)
      <3>1. \/ work' = work
            \/ work'[t] = [work[t] EXCEPT !.row = WrittenRow(req[t], read[t].row)]
        BY <1>0, <2>2 DEF UpdatePolicy, Write
      <3>2. [work[t] EXCEPT !.row = WrittenRow(req[t], read[t].row)].removed
               = work[t].removed
        BY <1>0, AddedParts
      <3> QED BY <3>1, <3>2
    <2>3. CASE RemoveParams(t)
      <3>1. PICK x : work'[t] = [work[t] EXCEPT !.params = x]
        BY <1>0, <2>3 DEF RemoveParams, Write
      <3> QED BY <1>0, <3>1, AddedParts
    <2>4. CASE DeletePolicy(t)
      <3>1. work'[t] = work[t] \/ work'[t] = [work[t] EXCEPT !.row = Absent]
        BY <1>0, <2>4 DEF DeletePolicy, Write
      <3>2. [work[t] EXCEPT !.row = Absent].removed = work[t].removed
        BY <1>0, AddedParts
      <3> QED BY <3>1, <3>2
    <2> QED BY <2>1, <2>2, <2>3, <2>4
  <1>5. SeenOf(t)' = SeenOf(t)
    BY <1>1, <1>4 DEF SeenOf
  <1> QED BY <1>0, <1>1, <1>3, <1>5, Unseen

LEMMA InsertGroupRefines ==
    ASSUME RefineInv, NEW t \in Threads, InsertGroup(t)
    PROVE  UNCHANGED Reg!rvars
  <1>0. /\ TypeOK /\ StepOf(t) /\ work[t] \in Works
        /\ t \in DOMAIN pc /\ t \in DOMAIN work
    BY GoingOn DEF StepOf, Step
  <1>1. /\ pc[t] = "insertGroup" /\ pc'[t] = "commit"
        /\ req' = req /\ answer' = answer /\ UNCHANGED database /\ read' = read
        /\ work'[t] = [work[t] EXCEPT !.added = {req[t].group}]
    BY <1>0 DEF InsertGroup, Write, Advance
  <1>2. req[t].op = "groupCreate"
    BY <1>0, <1>1, OperationAt
  <1>3. StageOf(t)' = StageOf(t)
    BY <1>1, <1>2 DEF StageOf, Looked, Found
  <1>4. work'[t].removed = work[t].removed
    BY <1>0, <1>1, AddedParts
  <1>5. SeenOf(t)' = SeenOf(t)
    BY <1>1, <1>2, <1>4 DEF SeenOf
  <1> QED BY <1>0, <1>1, <1>3, <1>5, Unseen

(* The groups a deletion removes are those it sees at this statement.        *)
LEMMA RemoveGroupsRefines ==
    ASSUME RefineInv, NEW t \in Threads, RemoveGroups(t) \/ DeleteGroup(t)
    PROVE  Reg!RNext
  <1> DEFINE G == IF req[t].op = "groupDelete" THEN {req[t].group} \cap VisibleGroups(t)
                  ELSE VisibleGroups(t)
  <1>0. /\ TypeOK /\ StepOf(t) /\ work[t] \in Works
        /\ t \in DOMAIN pc /\ t \in DOMAIN work
    BY GoingOn DEF StepOf, Step
  <1>1. /\ \/ pc[t] = "removeGroups" /\ pc'[t] = "deletePolicy"
           \/ pc[t] = "deleteGroup" /\ pc'[t] = "commit"
        /\ req' = req /\ answer' = answer /\ UNCHANGED database /\ read' = read
    BY <1>0 DEF RemoveGroups, DeleteGroup, Write, Advance
  <1>2. /\ pc[t] = "removeGroups" => req[t].op = "delete"
        /\ pc[t] = "deleteGroup" => req[t].op = "groupDelete"
    BY <1>0, <1>1, OperationAt
  <1>3. work'[t] = [work[t] EXCEPT !.removed = G]
    <2>1. CASE RemoveGroups(t)
      BY <1>0, <1>2, <2>1 DEF RemoveGroups, Write
    <2>2. CASE DeleteGroup(t)
      BY <1>0, <1>2, <2>2 DEF DeleteGroup, Write
    <2> QED BY <2>1, <2>2
  <1> HIDE DEF G
  <1>4. work'[t].removed = G
    BY <1>0, <1>3, AddedParts
  <1>5. StageOf(t)' = "looked"
    BY <1>1, <1>2 DEF StageOf, Looked
  <1>6. \/ req[t].op = "delete" /\ StageOf(t) = "asked"
        \/ req[t].op = "groupDelete" /\ StageOf(t) = "found"
    BY <1>0, <1>1, <1>2, Stages
  <1>7. SeenOf(t)' = [SeenOf(t) EXCEPT !.groups = G]
    BY <1>1, <1>2, <1>4 DEF SeenOf
  <1> QED BY <1>0, <1>1, <1>5, <1>6, <1>7, LookStep DEF G
--------------------------------------------------------------------------------
(* The refusals and the failures.                                            *)

LEMMA NamesFree ==
    ASSUME NEW t \in Threads, NEW n
    PROVE  Reg!NameFree(req[t].uid, n) <=> ~NameTaken(t, n)
  BY SameWords DEF Reg!NameFree, NameTaken

LEMMA RefuseNameRefines ==
    ASSUME RefineInv, NEW t \in Threads, RefuseName(t) \/ RefuseRename(t)
    PROVE  Reg!RNext
  <1>0. TypeOK /\ StepOf(t) /\ WrittenWhere(t) /\ NewRow(t)
    BY GoingOn DEF StepOf, Step
  <1>1. Finish(t, [kind |-> "duplicate"]) /\ UNCHANGED database
    BY DEF RefuseName, RefuseRename, Fail
  <1>2. Reg!Reply(t, [kind |-> "duplicate"])
    BY <1>0, <1>1, Replies
  <1>3. CASE RefuseName(t)
    <2>1. pc[t] = "insert" /\ NameTaken(t, InsertedName(req[t]))
      BY <1>3 DEF RefuseName
    <2>2. req[t].op \in {"create", "import"} /\ StageOf(t) = "asked"
      BY <1>0, <2>1, OperationAt, Stages
    <2>3. Reg!RefuseName(t)
      BY <1>1, <1>2, <2>1, <2>2, NamesFree, SameWords DEF Reg!RefuseName, database
    <2> QED BY <2>2, <2>3, Served DEF Reg!Serve
  <1>4. CASE RefuseRename(t)
    <2> DEFINE n == WrittenRow(req[t], read[t].row).name
    <2>1. pc[t] = "update" /\ NameTaken(t, n)
      BY <1>4 DEF RefuseRename
    <2>2. req[t].op \in {"import", "update"}
      BY <1>0, <2>1, OperationAt
    <2>3. CASE req[t].op = "update"
      <3>1. StageOf(t) = "found" /\ SeenOf(t).row = read[t].row
        BY <1>0, <2>1, <2>3, Stages DEF SeenOf
      <3>2. Reg!RefuseName(t)
        BY <1>1, <1>2, <2>1, <2>3, <3>1, NamesFree, SameWords
        DEF Reg!RefuseName, database
      <3> QED BY <3>1, <3>2, Served DEF Reg!Serve
    <2>4. CASE req[t].op = "import"
      <3>1. StageOf(t) = "asked"
        BY <1>0, <2>1, <2>4, Stages
      <3>2. n = InsertedName(req[t])
        <4>1. read[t].row = InsertedRow(req[t])
          BY <1>0, <2>1, <2>4 DEF NewRow
        <4> QED BY <2>4, <4>1 DEF WrittenRow, InsertedRow
      <3>3. NameTaken(t, InsertedName(req[t]))
        BY <2>1, <3>2
      <3>4. Reg!RefuseName(t)
        BY <1>1, <1>2, <2>4, <3>1, <3>3, NamesFree, SameWords
        DEF Reg!RefuseName, database
      <3> QED BY <3>1, <3>4, Served DEF Reg!Serve
    <2> QED BY <2>2, <2>3, <2>4
  <1> QED BY <1>3, <1>4

LEMMA PolicyNotFoundRefines ==
    ASSUME RefineInv, NEW t \in Threads, PolicyNotFound(t)
    PROVE  Reg!RNext
  <1>0. TypeOK /\ StepOf(t) /\ NewRow(t)
    BY GoingOn DEF StepOf, Step
  <1>1. /\ pc[t] \in {"find", "check"} /\ VisibleRow(t) = Absent
        /\ Finish(t, [kind |-> "notFound"]) /\ UNCHANGED database
    BY DEF PolicyNotFound, Fail
  <1>2. Reg!Reply(t, [kind |-> "notFound"])
    BY <1>0, <1>1, Replies
  <1>3. StageOf(t) = "asked"
    BY <1>0, <1>1, Stages
  <1>4. req[t].op # "import"
    <2>1. SUFFICES ASSUME req[t].op = "import"
                   PROVE  FALSE
      OBVIOUS
    <2>2. pc[t] = "find"
      BY <1>0, <1>1, <2>1, OperationAt
    <2>3. work[t].row \in Rows
      BY <1>0, <2>1, <2>2 DEF NewRow
    <2> QED BY <1>1, <2>3, StoreAssumption DEF VisibleRow
  <1>5. req[t].op \in {"update", "load", "groupCreate", "groupDelete"}
    BY <1>0, <1>1, <1>4, OperationAt
  <1>6. policies[req[t].uid] = Absent
    BY <1>1, <1>4, GoingOn
  <1>7. Reg!RefuseUnknown(t)
    BY <1>1, <1>2, <1>3, <1>5, <1>6 DEF Reg!RefuseUnknown, Reg!Stored, database
  <1> QED BY <1>3, <1>7, Served DEF Reg!Serve

LEMMA RefuseGroupRefines ==
    ASSUME RefineInv, NEW t \in Threads, RefuseGroup(t)
    PROVE  Reg!RNext
  <1>0. TypeOK /\ StepOf(t)
    BY GoingOn DEF StepOf, Step
  <1>1. /\ pc[t] = "insertGroup" /\ req[t].group \in VisibleGroups(t)
        /\ Finish(t, [kind |-> "groupExists"]) /\ UNCHANGED database
    BY DEF RefuseGroup, Fail
  <1>2. Reg!Reply(t, [kind |-> "groupExists"])
    BY <1>0, <1>1, Replies
  <1>3. req[t].op = "groupCreate" /\ StageOf(t) = "found"
    BY <1>0, <1>1, OperationAt, Stages
  <1>4. Reg!RefuseGroup(t)
    BY <1>1, <1>2, <1>3 DEF Reg!RefuseGroup, VisibleGroups, database
  <1> QED BY <1>3, <1>4, Served DEF Reg!Serve

(* A request fails for a value of its own ...                                *)
LEMMA ValuesUnfit ==
    ASSUME RefineInv, NEW t \in Threads, RefuseValue(t)
    PROVE  StageOf(t) # "free" /\ Reg!Unfit(t)
  <1>0. TypeOK /\ WrittenWhere(t) /\ NewRow(t)
    BY GoingOn
  <1>1. CASE pc[t] = "insert" /\ ~Fits(InsertedRow(req[t]))
    <2>1. req[t].op \in {"create", "import"} /\ StageOf(t) = "asked"
      BY <1>0, <1>1, OperationAt, Stages
    <2>2. ~Fits(CreatedRow(req[t]))
      BY <1>1, StoreAssumption DEF Fits, InsertedRow, CreatedRow
    <2> QED BY <2>1, <2>2, SameWords DEF Reg!Unfit
  <1>2. CASE /\ pc[t] = "update" /\ VisibleRow(t) # Absent
             /\ ~Fits(WrittenRow(req[t], read[t].row))
    <2>1. req[t].op \in {"import", "update"}
      BY <1>0, <1>2, OperationAt
    <2>2. CASE req[t].op = "import"
      <3>1. StageOf(t) = "asked" /\ read[t].row = InsertedRow(req[t])
        BY <1>0, <1>2, <2>2, Stages DEF NewRow
      <3>2. WrittenRow(req[t], read[t].row) = CreatedRow(req[t])
        BY <2>2, <3>1 DEF WrittenRow, InsertedRow, CreatedRow
      <3> QED BY <1>2, <2>2, <3>1, <3>2, SameWords DEF Reg!Unfit
    <2>3. CASE req[t].op = "update"
      <3>1. StageOf(t) = "found" /\ SeenOf(t).row = read[t].row
        BY <1>0, <1>2, <2>3, Stages DEF SeenOf
      <3>2. policies[req[t].uid] # Absent
        BY <1>0, <1>2, <2>3 DEF WrittenWhere, VisibleRow
      <3> QED BY <1>2, <2>3, <3>1, <3>2, SameWords DEF Reg!Unfit, Reg!Stored
    <2> QED BY <2>1, <2>2, <2>3
  <1>3. CASE pc[t] = "insertGroup" /\ req[t].group \in Long
    <2>1. req[t].op = "groupCreate" /\ StageOf(t) = "found"
      BY <1>0, <1>3, OperationAt, Stages
    <2> QED BY <1>3, <2>1 DEF Reg!Unfit
  <1> QED BY <1>1, <1>2, <1>3 DEF RefuseValue

(* ... or for a lock, and then because another request is there.             *)
LEMMA FailRefines ==
    ASSUME RefineInv, NEW t \in Threads, RefuseValue(t) \/ LockTimeout(t)
    PROVE  Reg!RNext
  <1>0. TypeOK /\ StepOf(t)
    BY GoingOn DEF StepOf, Step
  <1>1. Finish(t, [kind |-> "error"]) /\ UNCHANGED database
    BY DEF RefuseValue, LockTimeout, Fail
  <1>2. Reg!Reply(t, [kind |-> "error"])
    BY <1>0, <1>1, Replies
  <1>3. CASE RefuseValue(t)
    <2>1. StageOf(t) # "free" /\ Reg!Unfit(t)
      BY <1>3, ValuesUnfit
    <2>2. Reg!Fail(t)
      BY <1>1, <1>2, <2>1 DEF Reg!Fail, database
    <2> QED BY <2>1, <2>2, Served DEF Reg!Serve
  <1>4. CASE LockTimeout(t)
    <2>1. PICK s \in Threads \ {t} : WaitsFor(t, s)
      BY <1>4 DEF LockTimeout, Holders
    <2>2. pc[t] # "idle"
      BY <2>1 DEF WaitsFor
    <2>3. pc[s] # "idle"
      <3>1. SUFFICES ASSUME pc[s] = "idle"
                     PROVE  FALSE
        OBVIOUS
      <3>2. /\ work[s].row = Same /\ work[s].added = {} /\ work[s].removed = {}
            /\ work[s].params = FALSE
        BY <1>0, <3>1 DEF TypeOK, NoWork
      <3> QED BY <2>1, <3>2
          DEF WaitsFor, RowConflict, NameConflict, GroupConflict
    <2>4. StageOf(s) # "free" /\ StageOf(t) # "free"
      BY <1>0, <2>2, <2>3, Stages
    <2>5. Reg!Fail(t)
      BY <1>1, <1>2, <2>1, <2>4 DEF Reg!Fail, database
    <2> QED BY <2>4, <2>5, Served DEF Reg!Serve
  <1> QED BY <1>3, <1>4

LEMMA ListRefines ==
    ASSUME RefineInv, NEW t \in Threads, ListPolicies(t)
    PROVE  Reg!RNext
  <1> DEFINE a == [kind |-> "ok", listed |-> {u \in Uids : policies[u] # Absent}]
  <1>0. TypeOK /\ StepOf(t)
    BY GoingOn DEF StepOf, Step
  <1>1. pc[t] = "list" /\ Finish(t, a) /\ UNCHANGED database
    BY DEF ListPolicies
  <1>2. Reg!Reply(t, a)
    BY <1>0, <1>1, Replies
  <1>3. req[t].op = "list" /\ StageOf(t) = "asked"
    BY <1>0, <1>1, OperationAt, Stages
  <1>4. Reg!List(t)
    BY <1>1, <1>2, <1>3 DEF Reg!List, Reg!Stored, database
  <1> QED BY <1>3, <1>4, Served DEF Reg!Serve
--------------------------------------------------------------------------------
(* The commit: the one step in which the registry changes.                   *)

(* What every commit does.                                                   *)
LEMMA Commits ==
    ASSUME RefineInv, NEW t \in Threads, Commit(t)
    PROVE  /\ TypeOK /\ Inv /\ StepOf(t) /\ pc[t] = "commit" /\ StageOf(t) # "free"
           /\ req[t] \in Requests /\ req[t].uid \in Uids
           /\ work[t] \in Works /\ work[t].row \in Rows \cup {Absent, Same}
           /\ req[t].op \in {"create", "import", "update", "delete", "load",
                             "groupCreate", "groupDelete"}
           /\ policies' = IF work[t].row = Same THEN policies
                          ELSE [policies EXCEPT ![req[t].uid] = work[t].row]
           /\ groups' = (groups \ ({req[t].uid} \X work[t].removed))
                           \cup ({req[t].uid} \X work[t].added)
           /\ known' = known \cup {req[t].uid}
           /\ req[t].op \notin {"create", "import"} => known' = known
           /\ req[t].op # "load" => Reg!Reply(t, [kind |-> "ok"])
           /\ req[t].op = "load" =>
                 /\ Reg!Release(t)
                 /\ answer' = [answer EXCEPT ![t] =
                                 [kind |-> "ok", uid |-> req[t].uid, policy |-> read[t]]]
  <1>1. TypeOK /\ Inv /\ StepOf(t) /\ pc[t] = "commit"
    BY DEF RefineInv, AnswersInv, Inv, TypeInv, StepOf, Step, Commit
  <1>2. /\ req[t] \in Requests /\ req[t].uid \in Uids /\ req[t].op # "list"
        /\ StageOf(t) # "free" /\ work[t] \in Works
    BY <1>1, OperationAt, Stages, ActingUid
  <1>3. req[t].op \in {"create", "import", "update", "delete", "load",
                       "groupCreate", "groupDelete"}
    BY <1>2, RequestFields
  <1>4. req[t].op \notin {"create", "import"} => req[t].uid \in known
    BY <1>1, <1>3 DEF Inv, UidsApart, Acting, Creating
  <1>5. known' = known \cup {req[t].uid}
    BY DEF Commit
  <1>6. req[t].op # "load" => Reg!Reply(t, [kind |-> "ok"])
    BY <1>1, Replies DEF Commit
  <1>7. req[t].op = "load" =>
           Finish(t, [kind |-> "ok", uid |-> req[t].uid, policy |-> read[t]])
    BY DEF Commit
  <1>8. req[t].op = "load" => Reg!Release(t)
    BY <1>1, <1>7, Replies
  <1>9. work[t].row \in Rows \cup {Absent, Same}
    BY <1>2 DEF Works
  <1>10. /\ policies' = IF work[t].row = Same THEN policies
                        ELSE [policies EXCEPT ![req[t].uid] = work[t].row]
         /\ groups' = (groups \ ({req[t].uid} \X work[t].removed))
                         \cup ({req[t].uid} \X work[t].added)
    BY DEF Commit
  <1> QED BY <1>1, <1>2, <1>3, <1>4, <1>5, <1>6, <1>7, <1>8, <1>9, <1>10 DEF Finish

(* A transaction that has written no group changes none.                     *)
LEMMA NoGroups ==
    ASSUME RefineInv, NEW t \in Threads, Commit(t)
    PROVE  /\ req[t].op # "groupCreate" =>
                groups' = groups \ ({req[t].uid} \X work[t].removed)
           /\ req[t].op \notin {"groupCreate", "delete", "groupDelete"} =>
                groups' = groups
           /\ req[t].op = "groupCreate" =>
                groups' = groups \cup {<<req[t].uid, req[t].group>>}
  <1>1. /\ groups' = (groups \ ({req[t].uid} \X work[t].removed))
                         \cup ({req[t].uid} \X work[t].added)
        /\ pc[t] = "commit"
    BY Commits
  <1>2. /\ req[t].op # "groupCreate" => work[t].added = {}
        /\ req[t].op \notin {"delete", "groupDelete"} => work[t].removed = {}
        /\ req[t].op = "groupCreate" => work[t].added = {req[t].group}
    BY <1>1, GoingOn DEF GroupWrites
  <1>3. {req[t].uid} \X {} = {}
    OBVIOUS
  <1>4. {req[t].uid} \X {req[t].group} = {<<req[t].uid, req[t].group>>}
    OBVIOUS
  <1> QED BY <1>1, <1>2, <1>3, <1>4

LEMMA CreateRefines ==
    ASSUME RefineInv, NEW t \in Threads, Commit(t), req[t].op \in {"create", "import"}
    PROVE  Reg!RNext
  <1> DEFINE row == CreatedRow(req[t])
  <1>0. TypeOK /\ Inv /\ pc[t] = "commit" /\ req[t].uid \in Uids /\ Acting(t) /\ Creating(t)
    BY Commits DEF Acting, Creating
  <1>1. work[t].row \in Rows /\ work[t].row # Same
    BY <1>0, GoingOn, StoreAssumption DEF NewRow
  <1>2. work[t].row = row
    BY <1>0, GoingOn DEF NewRow, InsertedRow, ImportedRow, CreatedRow
  <1> HIDE DEF row
  <1>3. Fits(row)
    BY <1>1, <1>2, GoingOn DEF WritesFit
  <1>4. policies[req[t].uid] = Absent
    BY <1>0 DEF Inv, UidsApart
  <1>5. Reg!NameFree(req[t].uid, row.name)
    <2>1. ASSUME NEW u \in Uids \ {req[t].uid}
          PROVE  ~HasName(policies[u], row.name)
      BY <1>0, <1>1, <1>2, StoreAssumption DEF Inv, NamesLocked, HasName
    <2> QED BY <2>1, SameWords DEF Reg!NameFree
  <1>6. policies' = [policies EXCEPT ![req[t].uid] = row]
    BY <1>1, <1>2, Commits
  <1>7. /\ Reg!Reply(t, [kind |-> "ok"]) /\ groups' = groups
        /\ known' = known \cup {req[t].uid}
    BY Commits, NoGroups
  <1>8. StageOf(t) = "asked"
    BY <1>0, Stages
  <1>9. Reg!Create(t)
    BY <1>3, <1>4, <1>5, <1>6, <1>7, <1>8, SameWords DEF Reg!Create, Reg!Stored, row
  <1> QED BY <1>8, <1>9, Served DEF Reg!Serve

LEMMA UpdateRefines ==
    ASSUME RefineInv, NEW t \in Threads, Commit(t), req[t].op = "update"
    PROVE  Reg!RNext
  <1> DEFINE row == WrittenRow(req[t], read[t].row)
  <1>0. TypeOK /\ Inv /\ pc[t] = "commit" /\ req[t].uid \in Uids
    BY Commits
  <1>1. /\ Reg!Reply(t, [kind |-> "ok"]) /\ groups' = groups /\ known' = known
        /\ policies' = IF work[t].row = Same THEN policies
                       ELSE [policies EXCEPT ![req[t].uid] = work[t].row]
    BY Commits, NoGroups
  <1>2. StageOf(t) = "found"
    BY <1>0, Stages
  <1>3. SeenOf(t).row = read[t].row
    BY DEF SeenOf
  <1>4. \/ work[t].row = Same /\ policies[req[t].uid] = Absent
        \/ work[t].row = row /\ work[t].row \in Rows
    BY <1>0 DEF RefineInv, UpdateWrites
  <1>5. CASE work[t].row = Same /\ policies[req[t].uid] = Absent
    <2>1. Reg!Update(t)
      BY <1>1, <1>2, <1>5 DEF Reg!Update, Reg!Stored
    <2> QED BY <1>2, <2>1, Served DEF Reg!Serve
  <1>6. CASE work[t].row = row /\ work[t].row \in Rows
    <2>1. work[t].row # Same /\ policies[req[t].uid] # Absent
      BY <1>0, <1>6, StoreAssumption DEF Inv, RowsLocked, Creating
    <2>2. Reg!NameFree(req[t].uid, row.name)
      BY <1>0, <1>6, SameWords, StoreAssumption
      DEF Inv, NamesLocked, Reg!NameFree, HasName
    <2>3. policies' = [policies EXCEPT ![req[t].uid] = row]
      BY <1>1, <1>6, <2>1
    <2>4. Fits(row)
      BY <1>6, GoingOn DEF WritesFit
    <2>5. Reg!Update(t)
      BY <1>1, <1>2, <1>3, <2>1, <2>2, <2>3, <2>4, SameWords DEF Reg!Update, Reg!Stored
    <2> QED BY <1>2, <2>5, Served DEF Reg!Serve
  <1> QED BY <1>4, <1>5, <1>6

LEMMA DeleteRefines ==
    ASSUME RefineInv, NEW t \in Threads, Commit(t), req[t].op = "delete"
    PROVE  Reg!RNext
  <1>0. TypeOK /\ Inv /\ pc[t] = "commit" /\ req[t].uid \in Uids
    BY Commits
  <1>1. /\ Reg!Reply(t, [kind |-> "ok"]) /\ known' = known
        /\ groups' = groups \ ({req[t].uid} \X work[t].removed)
        /\ policies' = IF work[t].row = Same THEN policies
                       ELSE [policies EXCEPT ![req[t].uid] = work[t].row]
    BY Commits, NoGroups
  <1>2. StageOf(t) = "looked" /\ SeenOf(t).groups = work[t].removed
    BY <1>0, Stages DEF SeenOf
  <1>3. policies' = [policies EXCEPT ![req[t].uid] = Absent]
    <2>1. work[t].row \notin Rows
      BY <1>0 DEF Inv, RowsLocked, Creating
    <2>2. \/ work[t].row = Absent
          \/ work[t].row = Same /\ policies[req[t].uid] = Absent
      BY <1>0, <2>1, Commits DEF Inv, ParamsLocked
    <2>3. policies = [policies EXCEPT ![req[t].uid] = policies[req[t].uid]]
      BY <1>0 DEF TypeOK
    <2>4. CASE work[t].row = Absent
      BY <1>1, <2>4, StoreAssumption
    <2>5. CASE work[t].row = Same /\ policies[req[t].uid] = Absent
      BY ONLY <1>1, <2>3, <2>5
    <2> QED BY <2>2, <2>4, <2>5
  <1>4. Reg!Delete(t)
    BY <1>1, <1>2, <1>3 DEF Reg!Delete
  <1> QED BY <1>2, <1>4, Served DEF Reg!Serve

LEMMA GroupRefines ==
    ASSUME RefineInv, NEW t \in Threads, Commit(t),
           req[t].op \in {"groupCreate", "groupDelete"}
    PROVE  Reg!RNext
  <1>0. TypeOK /\ Inv /\ pc[t] = "commit"
    BY Commits
  <1>1. work[t].row = Same
    BY <1>0, Commits DEF Inv, RowsLocked, Creating
  <1>2. Reg!Reply(t, [kind |-> "ok"]) /\ known' = known /\ policies' = policies
    BY <1>1, Commits
  <1>3. CASE req[t].op = "groupCreate"
    <2>1. /\ StageOf(t) = "found" /\ <<req[t].uid, req[t].group>> \notin groups
          /\ req[t].group \notin Long
      BY <1>0, <1>3, Stages, GoingOn DEF GroupWrites
    <2>2. groups' = groups \cup {<<req[t].uid, req[t].group>>}
      BY <1>3, NoGroups
    <2>3. Reg!AddGroup(t)
      BY <1>2, <1>3, <2>1, <2>2 DEF Reg!AddGroup
    <2> QED BY <2>1, <2>3, Served DEF Reg!Serve
  <1>4. CASE req[t].op = "groupDelete"
    <2>1. StageOf(t) = "looked" /\ SeenOf(t).groups = work[t].removed
      BY <1>0, <1>4, Stages DEF SeenOf
    <2>2. groups' = groups \ ({req[t].uid} \X work[t].removed)
      BY <1>4, NoGroups
    <2>3. Reg!RemoveGroup(t)
      BY <1>2, <1>4, <2>1, <2>2 DEF Reg!RemoveGroup
    <2> QED BY <2>1, <2>3, Served DEF Reg!Serve
  <1> QED BY <1>3, <1>4

LEMMA LoadRefines ==
    ASSUME RefineInv, NEW t \in Threads, Commit(t), req[t].op = "load"
    PROVE  Reg!RNext
  <1> DEFINE u == req[t].uid
             p == read[t]
  <1>0. TypeOK /\ Inv /\ pc[t] = "commit" /\ p \in Reads
    BY Commits, GoingOn
  <1>1. work[t].row = Same
    BY <1>0, Commits DEF Inv, RowsLocked, Creating
  <1>2. /\ Reg!Release(t) /\ known' = known /\ policies' = policies /\ groups' = groups
        /\ answer' = [answer EXCEPT ![t] = [kind |-> "ok", uid |-> u, policy |-> p]]
    BY <1>1, Commits, NoGroups
  <1>3. StageOf(t) = "looked" /\ SeenOf(t).row = p.row /\ SeenOf(t).groups = p.groups
    BY <1>0, Stages DEF SeenOf
  <1>4. p.todo = <<>>
    BY <1>0 DEF RefineInv, AnswersInv, LoadsWhole
  <1>5. p.rulesets \subseteq SetIds(u) /\ p.rules \subseteq RuleIds(u)
        /\ p.params \subseteq RuleIds(u)
    BY <1>0 DEF RefineInv, LoadsPart, PartSoFar
  <1>6. policies[u] # Absent =>
          p.rulesets = SetIds(u) /\ p.rules = RuleIds(u) /\ p.params = RuleIds(u)
    <2>1. policies[u] # Absent => WholeSoFar(u, p)
      BY <1>0 DEF RefineInv, AnswersInv, LoadsWhole
    <2>2. RulesDue(p.todo) = {} /\ ParamsDue(p.todo) = {}
      BY <1>4, NothingDue
    <2> QED BY <2>1, <2>2 DEF WholeSoFar
  <1>7. /\ p.rulesets \in Reg!Readable(u, SetIds(u))
        /\ p.rules \in Reg!Readable(u, RuleIds(u))
        /\ p.params \in Reg!Readable(u, RuleIds(u))
    BY <1>5, <1>6 DEF Reg!Readable, Reg!Stored
  <1>8. p = [row |-> SeenOf(t).row, groups |-> SeenOf(t).groups,
             rulesets |-> p.rulesets, rules |-> p.rules, params |-> p.params,
             todo |-> <<>>]
    BY <1>0, <1>3, <1>4 DEF Reads
  <1> HIDE DEF p
  <1>9. \E rulesets \in Reg!Readable(u, Reg!SetIds(u)) :
        \E rules, ps \in Reg!Readable(u, Reg!RuleIds(u)) :
           answer' = [answer EXCEPT ![t] =
                        [kind |-> "ok", uid |-> u, policy |->
                            [row |-> SeenOf(t).row, groups |-> SeenOf(t).groups,
                             rulesets |-> rulesets, rules |-> rules, params |-> ps,
                             todo |-> <<>>]]]
    BY <1>2, <1>7, <1>8, SameWords
  <1>10. req[t].op = "load" /\ StageOf(t) = "looked"
    BY <1>3
  <1>11. Reg!Load(t)
    BY <1>2, <1>9, <1>10 DEF Reg!Load
  <1> QED BY <1>10, <1>11, Served DEF Reg!Serve

(* Crash: whoever was served is lost, the database is not.                   *)
LEMMA CrashRefines ==
    ASSUME RefineInv, Crash
    PROVE  Reg!RNext
  <1>0. TypeOK
    BY DEF RefineInv, AnswersInv, Inv, TypeInv
  <1>1. /\ \E t \in Threads : pc[t] # "idle"
        /\ pc' = [t \in Threads |-> "idle"] /\ req' = [t \in Threads |-> NoRequest]
        /\ work' = [t \in Threads |-> NoWork] /\ UNCHANGED database
        /\ answer' = [t \in Threads |-> IF pc[t] = "idle" THEN answer[t]
                                        ELSE [kind |-> "lost"]]
    BY DEF Crash
  <1>2. \A t \in Threads : pc[t] = "idle" <=> StageOf(t) = "free"
    BY <1>0, Stages
  <1>3. \A t \in Threads : StageOf(t)' = "free" /\ SeenOf(t)' = Reg!Unseen
    BY <1>1 DEF StageOf, SeenOf, NoRequest, NoWork, Reg!Unseen
  <1>4. /\ [t \in Threads |-> StageOf(t)]' = [t \in Threads |-> "free"]
        /\ [t \in Threads |-> SeenOf(t)]' = [t \in Threads |-> Reg!Unseen]
    BY <1>3
  <1>5. answer' = [t \in Threads |-> IF StageOf(t) = "free" THEN answer[t]
                                     ELSE [kind |-> "lost"]]
    BY <1>1, <1>2
  <1>6. Reg!Stop
    BY <1>1, <1>2, <1>4, <1>5, SameWords DEF Reg!Stop, database
  <1> QED BY <1>6 DEF Reg!RNext

--------------------------------------------------------------------------------
(* Every behaviour of PolicyStore is one of the registry.                    *)

LEMMA RegistryInit == Init => Reg!RInit
  <1> SUFFICES ASSUME Init PROVE Reg!RInit
    OBVIOUS
  <1>1. ASSUME NEW t \in Threads
        PROVE  StageOf(t) = "free" /\ SeenOf(t) = Reg!Unseen
    BY DEF Init, StageOf, SeenOf, NoRequest, NoWork, Reg!Unseen
  <1>2. /\ [t \in Threads |-> StageOf(t)] = [t \in Threads |-> "free"]
        /\ [t \in Threads |-> SeenOf(t)] = [t \in Threads |-> Reg!Unseen]
    BY <1>1
  <1> QED BY <1>2, SameWords DEF Init, Reg!RInit

LEMMA RegistryStep ==
    RefineInv /\ [Next]_vars => Reg!RNext \/ UNCHANGED Reg!rvars
  <1> SUFFICES ASSUME RefineInv, [Next]_vars
               PROVE  Reg!RNext \/ UNCHANGED Reg!rvars
    OBVIOUS
  <1>1. ASSUME NEW t \in Threads, StepOf(t)
        PROVE  Reg!RNext \/ UNCHANGED Reg!rvars
    <2>1. CASE \E r \in Requests : Begin(t, r)
      BY <2>1, AskStep
    <2>2. CASE Reading(t)
      BY <2>2, FindPolicyRefines, CheckPolicyRefines, ReadGroupsRefines, ReadRulesRefines
      DEF Reading
    <2>3. CASE \/ InsertPolicy(t) \/ UpdatePolicy(t) \/ RemoveParams(t)
               \/ DeletePolicy(t) \/ InsertGroup(t)
      BY <2>3, WriteRefines, InsertGroupRefines
    <2>4. CASE RemoveGroups(t) \/ DeleteGroup(t)
      BY <2>4, RemoveGroupsRefines
    <2>5. CASE Commit(t)
      BY <2>5, Commits, CreateRefines, UpdateRefines, DeleteRefines, GroupRefines,
         LoadRefines
    <2>6. CASE Ending(t) /\ ~Commit(t)
      BY <2>6, RefuseNameRefines, PolicyNotFoundRefines, RefuseGroupRefines,
         FailRefines, ListRefines DEF Ending
    <2> QED BY <1>1, <2>1, <2>2, <2>3, <2>4, <2>5, <2>6, StepKinds
  <1>2. CASE Crash
    BY <1>2, CrashRefines
  <1>3. CASE UNCHANGED vars
    <2>1. /\ [t \in Threads |-> StageOf(t)]' = [t \in Threads |-> StageOf(t)]
          /\ [t \in Threads |-> SeenOf(t)]' = [t \in Threads |-> SeenOf(t)]
      BY <1>3 DEF vars, StageOf, SeenOf, Looked, Found
    <2> QED BY <1>3, <2>1 DEF vars, Reg!rvars
  <1> QED BY <1>1, <1>2, <1>3 DEF Next, StepOf

(* The operations of PolicyCore take effect one at a time, in the step their *)
(* transaction commits, and are refused only for what is stored              *)
(* (PolicyCore.java:63-292), for any number of requests in any order.        *)
THEOREM ImplementsTheRegistry == Spec => ImplementsRegistry
  <1>1. RefineInv /\ [Next]_vars => [Reg!RNext]_(Reg!rvars)
    BY RegistryStep
  <1> QED BY <1>1, RefineInit, RefineStep, RegistryInit, PTL
          DEF Spec, ImplementsRegistry, Reg!RSpec

================================================================================
