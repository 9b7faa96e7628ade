-------------------------- MODULE PolicyStoreAnswers --------------------------
(* What the requests of PolicyStore come to, for any number of threads,      *)
(* policies, names and groups: locks, imports, refusals and loads; and what  *)
(* holds only with one client at a time.                                     *)
EXTENDS PolicyStoreSafety, Naturals

--------------------------------------------------------------------------------
(* What a request has written and read at each of its statements.            *)

(* The row of a policy is the last thing its transaction writes, but for an  *)
(* import, which goes on to the description.                                 *)
WrittenWhere(t) ==
    /\ work[t].row # Same =>
          \/ pc[t] = "commit"
          \/ /\ req[t].op = "import"
             /\ pc[t] \in {"find", "groups", "rulesets", "details", "update"}
    /\ work[t].added \cup work[t].removed # {} => pc[t] \in {"deletePolicy", "commit"}
    /\ work[t].params => pc[t] \in {"removeGroups", "deletePolicy", "commit"}

ImportedRow(r) == [name |-> InsertedName(r), description |-> r.description]

(* An import reads back the row it has inserted and completes that one.      *)
NewRow(t) ==
    /\ req[t].op = "import" /\ pc[t] \in {"find", "groups", "rulesets", "details", "update"}
          => work[t].row = InsertedRow(req[t]) /\ work[t].row \in Rows
    /\ req[t].op = "import" /\ pc[t] \in {"groups", "rulesets", "details", "update"}
          => read[t].row = InsertedRow(req[t])
    /\ req[t].op = "create" /\ pc[t] = "commit"
          => work[t].row = InsertedRow(req[t]) /\ work[t].row \in Rows
    /\ req[t].op = "import" /\ pc[t] = "commit"
          => work[t].row = ImportedRow(req[t]) /\ work[t].row \in Rows

(* The rules the queries in todo have still to find.                         *)
RulesDue(todo)  == UNION {Elements(RulesIn[q[2]]) : q \in {e \in Elements(todo) : e[1] = "rules"}}
ParamsDue(todo) == {q[2] : q \in {e \in Elements(todo) : e[1] = "params"}}

(* While its policy is there, what a load has found and what it is about to  *)
(* look for make the whole policy.                                           *)
WholeSoFar(u, p) ==
    /\ p.rulesets = SetIds(u)
    /\ p.rules \cup RulesDue(p.todo) = RuleIds(u)
    /\ p.params \cup RulesDue(p.todo) \cup ParamsDue(p.todo) = RuleIds(u)
    /\ \A q \in Elements(p.todo) : q[1] = "rules" => q[2] \in SetIds(u)

LoadsWhole(t) ==
    req[t].op = "load" =>
        /\ pc[t] \in {"find", "groups", "rulesets"} => read[t].rules = {} /\ read[t].params = {}
        /\ pc[t] = "commit" => read[t].todo = <<>>
        /\ pc[t] \in {"details", "commit"} /\ policies[req[t].uid] # Absent
              => WholeSoFar(req[t].uid, read[t])

(* A policy that was answered was known.                                     *)
AnsweredKnown(t) == "policy" \in DOMAIN answer[t] => answer[t].uid \in known

AnswersInv ==
    /\ Inv
    /\ \A t \in Threads : WrittenWhere(t) /\ NewRow(t) /\ LoadsWhole(t) /\ AnsweredKnown(t)
    /\ LoadedWhole

--------------------------------------------------------------------------------
(* One step of a thread.                                                     *)

StepOf(t) == (\E r \in Requests : Begin(t, r)) \/ Step(t) \/ LockTimeout(t)

LEMMA OthersKeep ==
    ASSUME TypeOK, NEW t \in Threads, NEW s \in Threads, s # t, StepOf(t)
    PROVE  /\ pc'[s] = pc[s] /\ req'[s] = req[s] /\ work'[s] = work[s]
           /\ read'[s] = read[s] /\ answer'[s] = answer[s]
  BY DEF TypeOK, StepOf, Begin, LockTimeout, Step, InsertPolicy, RefuseName,
         RefuseValue, FindPolicy, ReadGroups, ReadRuleSets, ReadRules, ReadParams,
         PolicyNotFound, UpdatePolicy, RefuseRename, RemoveParams, RemoveGroups,
         DeletePolicy, CheckPolicy, InsertGroup, RefuseGroup, DeleteGroup,
         ListPolicies, Commit, Advance, Write, Read, Fail, Finish

LEMMA AddedParts ==
    ASSUME NEW w \in Works, NEW x
    PROVE  /\ [w EXCEPT !.row = x].added = w.added
           /\ [w EXCEPT !.row = x].removed = w.removed
           /\ [w EXCEPT !.params = x].added = w.added
           /\ [w EXCEPT !.params = x].removed = w.removed
           /\ [w EXCEPT !.added = x].added = x
           /\ [w EXCEPT !.added = x].removed = w.removed
           /\ [w EXCEPT !.removed = x].added = w.added
           /\ [w EXCEPT !.removed = x].removed = x
  BY DEF Works

LEMMA ReadParts ==
    ASSUME NEW p \in Reads, NEW x, NEW y
    PROVE  /\ [p EXCEPT !.row = x].row = x
           /\ [p EXCEPT !.row = x].rules = p.rules
           /\ [p EXCEPT !.row = x].params = p.params
           /\ [p EXCEPT !.groups = x].row = p.row
           /\ [p EXCEPT !.groups = x].rules = p.rules
           /\ [p EXCEPT !.groups = x].params = p.params
           /\ [p EXCEPT !.rulesets = x, !.todo = y].row = p.row
           /\ [p EXCEPT !.rulesets = x, !.todo = y].rulesets = x
           /\ [p EXCEPT !.rulesets = x, !.todo = y].rules = p.rules
           /\ [p EXCEPT !.rulesets = x, !.todo = y].params = p.params
           /\ [p EXCEPT !.rulesets = x, !.todo = y].todo = y
           /\ [p EXCEPT !.rules = x, !.todo = y].row = p.row
           /\ [p EXCEPT !.rules = x, !.todo = y].rulesets = p.rulesets
           /\ [p EXCEPT !.rules = x, !.todo = y].rules = x
           /\ [p EXCEPT !.rules = x, !.todo = y].params = p.params
           /\ [p EXCEPT !.rules = x, !.todo = y].todo = y
           /\ [p EXCEPT !.params = x, !.todo = y].row = p.row
           /\ [p EXCEPT !.params = x, !.todo = y].rulesets = p.rulesets
           /\ [p EXCEPT !.params = x, !.todo = y].rules = p.rules
           /\ [p EXCEPT !.params = x, !.todo = y].params = x
           /\ [p EXCEPT !.params = x, !.todo = y].todo = y
  BY DEF Reads

(* A thread whose request has ended has written nothing and serves nothing.  *)
LEMMA Ended ==
    ASSUME TypeOK, NEW t \in Threads, NEW a, Finish(t, a)
    PROVE  /\ pc'[t] = "idle" /\ req'[t] = NoRequest /\ work'[t] = NoWork
           /\ read'[t] = NoRead /\ answer'[t] = a
           /\ NoRequest.op = "none"
           /\ NoWork.row = Same /\ NoWork.params = FALSE
           /\ NoWork.added = {} /\ NoWork.removed = {}
  BY DEF TypeOK, Finish, NoRequest, NoWork

(* The steps that end a request.                                             *)
Ending(t) ==
    \/ RefuseName(t) \/ RefuseValue(t) \/ PolicyNotFound(t) \/ RefuseRename(t)
    \/ RefuseGroup(t) \/ ListPolicies(t) \/ Commit(t) \/ LockTimeout(t)

LEMMA EndingEnds ==
    ASSUME NEW t \in Threads, Ending(t)
    PROVE  \E a : Finish(t, a)
  BY DEF Ending, RefuseName, RefuseValue, PolicyNotFound, RefuseRename, RefuseGroup,
         ListPolicies, Commit, LockTimeout, Fail

(* The steps that read.                                                      *)
Reading(t) ==
    \/ FindPolicy(t) \/ ReadGroups(t) \/ ReadRuleSets(t) \/ ReadRules(t) \/ ReadParams(t)
    \/ CheckPolicy(t)

(* A step that reads goes on, to the end only when it has read everything.   *)
LEMMA ReadingGoesOn ==
    ASSUME TypeOK, NEW t \in Threads, Reading(t)
    PROVE  /\ req'[t] = req[t] /\ work'[t] = work[t] /\ UNCHANGED <<work, database>>
           /\ pc[t] \in {"find", "groups", "rulesets", "details", "check"}
           /\ pc'[t] \in {"groups", "rulesets", "details", "update", "commit",
                          "insertGroup", "deleteGroup"}
           /\ pc'[t] = "commit" => req[t].op = "load"
           /\ pc'[t] = "groups" => FindPolicy(t)
           /\ pc[t] = "check" <=> pc'[t] \in {"insertGroup", "deleteGroup"}
           /\ ~ FindPolicy(t) => read'[t].row = read[t].row /\ pc[t] # "find"
  <1>1. pc[t] \in {"find", "groups", "rulesets", "details", "check"} /\ pc[t] # "idle"
    BY DEF Reading, FindPolicy, ReadGroups, ReadRuleSets, ReadRules, ReadParams, CheckPolicy
  <1>2. /\ req' = req /\ UNCHANGED <<work, database>>
        /\ \E l : Advance(t, l)
    BY DEF Reading, FindPolicy, ReadGroups, ReadRuleSets, ReadRules, ReadParams,
           CheckPolicy, Read, Advance, database
  <1>3. t \in DOMAIN pc /\ t \in DOMAIN read /\ read[t] \in Reads
    BY DEF TypeOK
  <1>4. /\ pc'[t] \in {"groups", "rulesets", "details", "update", "commit",
                       "insertGroup", "deleteGroup"}
        /\ pc'[t] = "commit" => req[t].op = "load"
        /\ pc'[t] = "groups" => FindPolicy(t)
        /\ pc[t] = "check" <=> pc'[t] \in {"insertGroup", "deleteGroup"}
    BY <1>3 DEF Reading, FindPolicy, ReadGroups, ReadRuleSets, ReadRules, ReadParams,
                CheckPolicy, Advance, AfterLoad
  <1>5. ~ FindPolicy(t) => read'[t].row = read[t].row
    <2> SUFFICES ASSUME ~ FindPolicy(t) PROVE read'[t].row = read[t].row
      OBVIOUS
    <2>1. CASE ReadGroups(t)
      <3>1. PICK x : read'[t] = [read[t] EXCEPT !.groups = x]
        BY <1>3, <2>1 DEF ReadGroups, Read
      <3>2. [read[t] EXCEPT !.groups = x].row = read[t].row
        BY <1>3 DEF Reads
      <3> QED BY <3>1, <3>2
    <2>2. CASE ReadRuleSets(t)
      <3>1. PICK x, y : read'[t] = [read[t] EXCEPT !.rulesets = x, !.todo = y]
        BY <1>3, <2>2 DEF ReadRuleSets, Read
      <3>2. [read[t] EXCEPT !.rulesets = x, !.todo = y].row = read[t].row
        BY <1>3 DEF Reads
      <3> QED BY <3>1, <3>2
    <2>3. CASE ReadRules(t)
      <3>1. PICK x, y : read'[t] = [read[t] EXCEPT !.rules = x, !.todo = y]
        BY <1>3, <2>3 DEF ReadRules, Read
      <3>2. [read[t] EXCEPT !.rules = x, !.todo = y].row = read[t].row
        BY <1>3 DEF Reads
      <3> QED BY <3>1, <3>2
    <2>4. CASE ReadParams(t)
      <3>1. PICK x, y : read'[t] = [read[t] EXCEPT !.params = x, !.todo = y]
        BY <1>3, <2>4 DEF ReadParams, Read
      <3>2. [read[t] EXCEPT !.params = x, !.todo = y].row = read[t].row
        BY <1>3 DEF Reads
      <3> QED BY <3>1, <3>2
    <2>5. CASE CheckPolicy(t)
      BY <2>5 DEF CheckPolicy
    <2> QED BY <2>1, <2>2, <2>3, <2>4, <2>5 DEF Reading
  <1>6. ~ FindPolicy(t) => pc[t] # "find"
    BY DEF Reading, ReadGroups, ReadRuleSets, ReadRules, ReadParams, CheckPolicy
  <1> QED BY <1>1, <1>2, <1>4, <1>5, <1>6 DEF TypeOK

--------------------------------------------------------------------------------
(* Where a thread may have written what.                                     *)

(* The steps of a request by what they do to its session.                    *)
LEMMA StepKinds ==
    ASSUME NEW t \in Threads, StepOf(t)
    PROVE  \/ \E r \in Requests : Begin(t, r)
           \/ Ending(t) \/ Reading(t)
           \/ InsertPolicy(t) \/ UpdatePolicy(t)
           \/ RemoveParams(t) \/ RemoveGroups(t) \/ DeletePolicy(t)
           \/ InsertGroup(t) \/ DeleteGroup(t)
  BY DEF StepOf, Step, Ending, Reading

LEMMA Begun ==
    ASSUME TypeOK, NEW t \in Threads, NEW r \in Requests, Begin(t, r)
    PROVE  /\ pc'[t] = FirstStatement(r.op) /\ req'[t] = r
           /\ work'[t] = NoWork /\ read'[t] = NoRead
           /\ answer'[t] = [kind |-> "none"]
           /\ UNCHANGED database
           /\ NoWork.row = Same /\ NoWork.params = FALSE
           /\ NoWork.added = {} /\ NoWork.removed = {}
           /\ FirstStatement(r.op) \in {"insert", "removeParams", "find", "check", "list"}
           /\ FirstStatement(r.op) = "find" => r.op \in {"update", "load"}
  BY RequestFields DEF TypeOK, Begin, NoWork, FirstStatement

LEMMA WrittenWhereStep ==
    ASSUME TypeOK, NEW t \in Threads, StepOf(t), WrittenWhere(t)
    PROVE  WrittenWhere(t)'
  <1>0. /\ work[t] \in Works /\ t \in DOMAIN work /\ t \in DOMAIN pc
    BY DEF TypeOK
  <1>1. CASE \E r \in Requests : Begin(t, r)
    BY <1>1, Begun DEF WrittenWhere
  <1>2. CASE Ending(t)
    BY <1>2, EndingEnds, Ended DEF WrittenWhere
  <1>3. CASE Reading(t)
    BY <1>3, ReadingGoesOn DEF WrittenWhere
  <1>4. CASE InsertPolicy(t)
    <2>1. req[t].op \in {"create", "import"}
      BY <1>4, OperationAt DEF InsertPolicy
    <2>2. /\ pc[t] = "insert" /\ req'[t] = req[t]
          /\ pc'[t] = IF req[t].op = "create" THEN "commit" ELSE "find"
          /\ \E x : work'[t] = [work[t] EXCEPT !.row = x]
      BY <1>0, <1>4 DEF InsertPolicy, Write, Advance
    <2> QED BY <1>0, <2>1, <2>2, WorkParts, AddedParts DEF WrittenWhere
  <1>5. CASE UpdatePolicy(t)
    <2>1. /\ pc[t] = "update" /\ pc'[t] = "commit"
          /\ work'[t] = work[t] \/ \E x : work'[t] = [work[t] EXCEPT !.row = x]
      BY <1>0, <1>5 DEF UpdatePolicy, Write, Advance
    <2> QED BY <1>0, <2>1, WorkParts, AddedParts DEF WrittenWhere
  <1>6. CASE RemoveParams(t)
    <2>1. /\ pc[t] = "removeParams" /\ pc'[t] = "removeGroups"
          /\ \E x : work'[t] = [work[t] EXCEPT !.params = x]
      BY <1>0, <1>6 DEF RemoveParams, Write, Advance
    <2> QED BY <1>0, <2>1, WorkParts, AddedParts DEF WrittenWhere
  <1>7. CASE RemoveGroups(t)
    <2>1. /\ pc[t] = "removeGroups" /\ pc'[t] = "deletePolicy"
          /\ \E x : work'[t] = [work[t] EXCEPT !.removed = x]
      BY <1>0, <1>7 DEF RemoveGroups, Write, Advance
    <2> QED BY <1>0, <2>1, WorkParts, AddedParts DEF WrittenWhere
  <1>8. CASE DeletePolicy(t)
    <2>1. pc'[t] = "commit"
      BY <1>0, <1>8 DEF DeletePolicy, Advance
    <2> QED BY <2>1 DEF WrittenWhere
  <1>9. CASE InsertGroup(t) \/ DeleteGroup(t)
    <2>1. pc'[t] = "commit"
      BY <1>0, <1>9 DEF InsertGroup, DeleteGroup, Advance
    <2> QED BY <2>1 DEF WrittenWhere
  <1> QED BY <1>1, <1>2, <1>3, <1>4, <1>5, <1>6, <1>7, <1>8, <1>9, StepKinds

(* Nobody waits for a thread that waits at an earlier statement: parameters  *)
(* are written before groups, and groups before the row, which is the last.  *)
LEMMA WaitsForLater ==
    ASSUME Inv, NEW t \in Threads, NEW s \in Threads, s # t, WaitsFor(t, s),
           WrittenWhere(s), NewRow(s)
    PROVE  /\ pc[t] = "removeParams" => pc[s] \in {"removeGroups", "deletePolicy", "commit"}
           /\ pc[t] \in {"removeGroups", "insertGroup", "deleteGroup"}
                 => pc[s] \in {"deletePolicy", "commit"}
           /\ pc[t] \in {"insert", "update", "deletePolicy"} => Holders(s) = {}
           /\ pc[t] \in {"removeParams", "removeGroups", "insertGroup", "deleteGroup",
                         "insert", "update", "deletePolicy"}
  <1>1. pc[t] \in {"removeParams", "removeGroups", "insertGroup", "deleteGroup",
                  "insert", "update", "deletePolicy"}
    BY DEF WaitsFor
  <1>2. CASE pc[t] = "removeParams"
    BY <1>2 DEF WaitsFor, WrittenWhere
  <1>3. CASE pc[t] \in {"removeGroups", "insertGroup", "deleteGroup"}
    <2>1. work[s].added \cup work[s].removed # {}
      BY <1>3 DEF WaitsFor, GroupConflict
    <2> QED BY <1>3, <2>1 DEF WrittenWhere
  <1>4. CASE pc[t] \in {"insert", "update", "deletePolicy"}
    <2>1. work[s].row # Same
      BY <1>4 DEF WaitsFor, RowConflict, NameConflict
    <2>2. \/ pc[s] = "commit"
          \/ req[s].op = "import" /\ pc[s] \in {"find", "groups", "rulesets", "details", "update"}
      BY <2>1 DEF WrittenWhere
    <2>3. ASSUME NEW r \in Threads \ {s}, WaitsFor(s, r)
          PROVE  FALSE
      <3>1. pc[s] = "update" /\ req[s].op = "import"
        BY <2>2, <2>3 DEF WaitsFor
      <3>2. /\ work[s].row = InsertedRow(req[s]) /\ read[s].row = work[s].row
            /\ work[s].row \in Rows
        BY <3>1 DEF NewRow
      <3>3. work[r].row # Same
        BY <2>3, <3>1 DEF WaitsFor, RowConflict, NameConflict
      <3>4. req[r].uid # req[s].uid
        BY <2>1, <3>3 DEF Inv, RowsLocked
      <3>5. WrittenRow(req[s], read[s].row).name = work[s].row.name
        BY <3>1, <3>2 DEF WrittenRow, Rows
      <3>6. HasName(work[r].row, work[s].row.name) \/ HasName(policies[req[r].uid], work[s].row.name)
        BY <2>3, <3>1, <3>4, <3>5 DEF WaitsFor, RowConflict, NameConflict
      <3>7. ~ HasName(work[r].row, work[s].row.name)
        BY <3>2 DEF HasName, Inv, NamesLocked
      <3>8. Acting(r) /\ req[r].uid \in Uids
        <4>1. work[r].row \in Rows \cup {Absent}
          BY <3>3, ActingUid DEF Inv, TypeInv, Works
        <4>2. Acting(r)
          BY <4>1 DEF Inv, RowsLocked, Acting, Creating
        <4> QED BY <4>2, ActingUid DEF Inv, TypeInv
      <3>9. ~ HasName(policies[req[r].uid], work[s].row.name)
        BY <3>2, <3>4, <3>8, StoreAssumption DEF HasName, Inv, NamesLocked
      <3> QED BY <3>6, <3>7, <3>9
    <2>4. Holders(s) = {}
      BY <2>3 DEF Holders
    <2> QED BY <1>4, <2>4
  <1> QED BY <1>1, <1>2, <1>3, <1>4

(* An import reads back the row it inserted and goes on to its description.  *)
LEMMA NewRowStep ==
    ASSUME TypeInv, NEW t \in Threads, StepOf(t), NewRow(t)
    PROVE  NewRow(t)'
  <1>0. /\ TypeOK /\ work[t] \in Works /\ read[t] \in Reads
        /\ t \in DOMAIN work /\ t \in DOMAIN read /\ t \in DOMAIN pc
        /\ Same \notin Rows /\ Absent \notin Rows
    BY StoreAssumption DEF TypeInv, TypeOK
  <1>1. CASE \E r \in Requests : Begin(t, r)
    BY <1>0, <1>1, Begun DEF NewRow
  <1>2. CASE Ending(t)
    BY <1>0, <1>2, EndingEnds, Ended DEF NewRow
  <1>3. CASE FindPolicy(t)
    <2>1. /\ pc[t] = "find" /\ pc'[t] = "groups" /\ req' = req /\ work' = work
          /\ read'[t] = [read[t] EXCEPT !.row = VisibleRow(t)]
      BY <1>0, <1>3 DEF FindPolicy, Read, Advance
    <2>2. [read[t] EXCEPT !.row = VisibleRow(t)].row = VisibleRow(t)
      BY <1>0 DEF Reads
    <2>3. work[t].row \in Rows => VisibleRow(t) = work[t].row
      BY <1>0 DEF VisibleRow
    <2> QED BY <2>1, <2>2, <2>3 DEF NewRow
  <1>4. CASE Reading(t) /\ ~ FindPolicy(t)
    <2>1. /\ req'[t] = req[t] /\ work'[t] = work[t] /\ read'[t].row = read[t].row
          /\ pc[t] \in {"groups", "rulesets", "details", "check"}
          /\ pc'[t] = "commit" => req[t].op = "load"
          /\ pc[t] = "check" => pc'[t] \in {"insertGroup", "deleteGroup"}
      BY <1>0, <1>4, ReadingGoesOn
    <2>2. pc[t] # "check" => pc'[t] # "find"
      BY <1>0, <1>4, ReadingGoesOn
    <2> QED BY <2>1, <2>2 DEF NewRow
  <1>5. CASE InsertPolicy(t)
    <2>1. req[t] \in Requests /\ req[t].op \in {"create", "import"}
      BY <1>0, <1>5, OperationAt DEF InsertPolicy
    <2>2. /\ pc'[t] = IF req[t].op = "create" THEN "commit" ELSE "find"
          /\ req' = req /\ Fits(InsertedRow(req[t]))
          /\ work'[t] = [work[t] EXCEPT !.row = InsertedRow(req[t])]
      BY <1>0, <1>5 DEF InsertPolicy, Write, Advance
    <2>3. work'[t].row = InsertedRow(req[t])
      BY <1>0, <2>2, WorkParts
    <2>4. InsertedRow(req[t]) \in Rows
      BY <2>1, <2>2, InsertedNameType, StoreAssumption DEF InsertedRow, Fits, Rows
    <2> QED BY <2>1, <2>2, <2>3, <2>4 DEF NewRow
  <1>6. CASE UpdatePolicy(t)
    <2>1. pc[t] = "update" /\ pc'[t] = "commit" /\ req' = req
      BY <1>0, <1>6 DEF UpdatePolicy, Advance
    <2>2. req[t].op \in {"import", "update"}
      BY <1>0, <2>1, OperationAt
    <2>3. ASSUME req[t].op = "import"
          PROVE  work'[t].row = ImportedRow(req[t]) /\ work'[t].row \in Rows
      <3>1. /\ work[t].row = InsertedRow(req[t]) /\ work[t].row \in Rows
            /\ read[t].row = InsertedRow(req[t])
        BY <2>1, <2>3 DEF NewRow
      <3>2. VisibleRow(t) # Absent
        BY <1>0, <3>1 DEF VisibleRow
      <3>3. work'[t] = [work[t] EXCEPT !.row = WrittenRow(req[t], read[t].row)]
        BY <1>0, <1>6, <3>2 DEF UpdatePolicy, Write
      <3>4. WrittenRow(req[t], read[t].row) = ImportedRow(req[t])
        BY <2>3, <3>1 DEF WrittenRow, InsertedRow, ImportedRow
      <3>5. ImportedRow(req[t]) \in Rows
        BY <1>0, <2>1, <2>3, <3>1, <3>4, OperationAt, WrittenRowType
      <3> QED BY <1>0, <3>3, <3>4, <3>5, WorkParts
    <2> QED BY <2>1, <2>2, <2>3 DEF NewRow
  <1>7. CASE RemoveParams(t) \/ RemoveGroups(t) \/ DeletePolicy(t) \/ InsertGroup(t)
             \/ DeleteGroup(t)
    <2>1. req' = req /\ pc[t] # "idle" /\ pc[t] \in {"removeParams", "removeGroups",
             "deletePolicy", "insertGroup", "deleteGroup"}
      BY <1>7 DEF RemoveParams, RemoveGroups, DeletePolicy, InsertGroup, DeleteGroup, Advance
    <2>2. req'[t].op \notin {"create", "import"}
      BY <1>0, <2>1, OperationAt
    <2> QED BY <2>2 DEF NewRow
  <1> QED BY <1>1, <1>2, <1>3, <1>4, <1>5, <1>6, <1>7, StepKinds

--------------------------------------------------------------------------------
(* The queries a load has still to run, and what they will find.             *)

LEMMA FirstElement ==
    ASSUME NEW T, NEW q \in Seq(T), q # <<>>
    PROVE  Elements(q) = {Head(q)} \cup Elements(Tail(q))
  <1>1. /\ Len(q) \in Nat \ {0} /\ DOMAIN q = 1 .. Len(q) /\ Head(q) = q[1]
        /\ DOMAIN Tail(q) = 1 .. (Len(q) - 1)
        /\ \A i \in 1 .. (Len(q) - 1) : Tail(q)[i] = q[i + 1]
    OBVIOUS
  <1>2. ASSUME NEW x \in Elements(q)
        PROVE  x = Head(q) \/ x \in Elements(Tail(q))
    <2>1. PICK i \in 1 .. Len(q) : x = q[i]
      BY <1>1, <1>2 DEF Elements
    <2>2. CASE i = 1
      BY <1>1, <2>1, <2>2
    <2>3. CASE i # 1
      <3>1. i - 1 \in 1 .. (Len(q) - 1) /\ (i - 1) + 1 = i
        BY <1>1, <2>1, <2>3
      <3> QED BY <1>1, <2>1, <3>1 DEF Elements
    <2> QED BY <2>2, <2>3
  <1>3. ASSUME NEW x \in Elements(Tail(q))
        PROVE  x \in Elements(q)
    <2>1. PICK i \in 1 .. (Len(q) - 1) : x = q[i + 1]
      BY <1>1, <1>3 DEF Elements
    <2>2. i + 1 \in 1 .. Len(q)
      BY <1>1
    <2> QED BY <1>1, <2>1, <2>2 DEF Elements
  <1>4. Head(q) \in Elements(q)
    BY <1>1 DEF Elements
  <1> QED BY <1>2, <1>3, <1>4

LEMMA JoinedElements ==
    ASSUME NEW T, NEW p \in Seq(T), NEW q \in Seq(T)
    PROVE  Elements(p \o q) = Elements(p) \cup Elements(q)
  <1>1. /\ Len(p) \in Nat /\ Len(q) \in Nat
        /\ DOMAIN p = 1 .. Len(p) /\ DOMAIN q = 1 .. Len(q)
        /\ DOMAIN (p \o q) = 1 .. (Len(p) + Len(q))
        /\ \A i \in 1 .. Len(p) : (p \o q)[i] = p[i]
        /\ \A i \in 1 .. Len(q) : (p \o q)[Len(p) + i] = q[i]
    OBVIOUS
  <1>2. ASSUME NEW x \in Elements(p \o q)
        PROVE  x \in Elements(p) \cup Elements(q)
    <2>1. PICK i \in 1 .. (Len(p) + Len(q)) : x = (p \o q)[i]
      BY <1>1, <1>2 DEF Elements
    <2>2. CASE i <= Len(p)
      <3>1. i \in 1 .. Len(p)
        BY <1>1, <2>2
      <3> QED BY <1>1, <2>1, <3>1 DEF Elements
    <2>3. CASE ~ (i <= Len(p))
      <3>1. i - Len(p) \in 1 .. Len(q) /\ Len(p) + (i - Len(p)) = i
        BY <1>1, <2>3
      <3>2. x = q[i - Len(p)]
        BY <1>1, <2>1, <3>1
      <3> QED BY <1>1, <3>1, <3>2 DEF Elements
    <2> QED BY <2>2, <2>3
  <1>3. ASSUME NEW x \in Elements(p)
        PROVE  x \in Elements(p \o q)
    <2>1. PICK i \in 1 .. Len(p) : x = p[i]
      BY <1>1, <1>3 DEF Elements
    <2>2. i \in 1 .. (Len(p) + Len(q))
      BY <1>1
    <2> QED BY <1>1, <2>1, <2>2 DEF Elements
  <1>4. ASSUME NEW x \in Elements(q)
        PROVE  x \in Elements(p \o q)
    <2>1. PICK i \in 1 .. Len(q) : x = q[i]
      BY <1>1, <1>4 DEF Elements
    <2>2. Len(p) + i \in 1 .. (Len(p) + Len(q))
      BY <1>1
    <2> QED BY <1>1, <2>1, <2>2 DEF Elements
  <1> QED BY <1>2, <1>3, <1>4

LEMMA DueParts ==
    ASSUME NEW p, NEW q, NEW r, Elements(p) = Elements(q) \cup Elements(r)
    PROVE  /\ RulesDue(p) = RulesDue(q) \cup RulesDue(r)
           /\ ParamsDue(p) = ParamsDue(q) \cup ParamsDue(r)
  BY DEF RulesDue, ParamsDue

LEMMA DueMembers ==
    ASSUME NEW todo, NEW v
    PROVE  /\ v \in RulesDue(todo) <=>
                 \E e \in Elements(todo) : e[1] = "rules" /\ v \in Elements(RulesIn[e[2]])
           /\ v \in ParamsDue(todo) <=>
                 \E e \in Elements(todo) : e[1] = "params" /\ v = e[2]
  BY DEF RulesDue, ParamsDue

(* The queries of the rules of the rulesets found.                           *)
LEMMA DueOfRuleSets ==
    ASSUME NEW s \in Seq(RuleSets), NEW todo,
           todo = [i \in DOMAIN s |-> <<"rules", s[i]>>]
    PROVE  /\ RulesDue(todo) = UNION {Elements(RulesIn[x]) : x \in Elements(s)}
           /\ ParamsDue(todo) = {}
           /\ \A e \in Elements(todo) : e[1] = "rules" /\ e[2] \in Elements(s)
  <1>1. \A e \in Elements(todo) : e[1] = "rules" /\ e[2] \in Elements(s)
    BY DEF Elements
  <1>2. \A x \in Elements(s) : \E e \in Elements(todo) : e[1] = "rules" /\ e[2] = x
    BY DEF Elements
  <1>3. ASSUME NEW v
        PROVE  v \in RulesDue(todo) <=> \E x \in Elements(s) : v \in Elements(RulesIn[x])
    <2>1. ASSUME v \in RulesDue(todo)
          PROVE  \E x \in Elements(s) : v \in Elements(RulesIn[x])
      BY <1>1, <2>1, DueMembers
    <2>2. ASSUME NEW x \in Elements(s), v \in Elements(RulesIn[x])
          PROVE  v \in RulesDue(todo)
      <3>1. PICK e \in Elements(todo) : e[1] = "rules" /\ e[2] = x
        BY <1>2
      <3>2. v \in Elements(RulesIn[e[2]])
        BY <2>2, <3>1
      <3> QED BY <3>1, <3>2, DueMembers
    <2> QED BY <2>1, <2>2
  <1>4. RulesDue(todo) = UNION {Elements(RulesIn[x]) : x \in Elements(s)}
    BY <1>3
  <1>5. ASSUME NEW v
        PROVE  v \notin ParamsDue(todo)
    <2>1. \A e \in Elements(todo) : e[1] # "params"
      BY <1>1
    <2> QED BY <2>1, DueMembers
  <1>6. ParamsDue(todo) = {}
    BY <1>5
  <1> QED BY <1>1, <1>4, <1>6

(* The queries of the parameters of the rules found.                         *)
LEMMA DueOfRules ==
    ASSUME NEW s \in Seq(Rules), NEW todo,
           todo = [i \in DOMAIN s |-> <<"params", s[i]>>]
    PROVE  /\ RulesDue(todo) = {}
           /\ ParamsDue(todo) = Elements(s)
           /\ \A e \in Elements(todo) : e[1] # "rules"
  <1>1. \A e \in Elements(todo) : e[1] = "params" /\ e[2] \in Elements(s)
    BY DEF Elements
  <1>2. \A x \in Elements(s) : \E e \in Elements(todo) : e[1] = "params" /\ e[2] = x
    BY DEF Elements
  <1>3. \A e \in Elements(todo) : e[1] # "rules"
    BY <1>1
  <1>4. ASSUME NEW v
        PROVE  v \notin RulesDue(todo)
    BY <1>3, DueMembers
  <1>5. RulesDue(todo) = {}
    BY <1>4
  <1>6. ASSUME NEW v
        PROVE  v \in ParamsDue(todo) <=> v \in Elements(s)
    BY <1>1, <1>2, DueMembers
  <1>7. ParamsDue(todo) = Elements(s)
    BY <1>6
  <1> QED BY <1>3, <1>5, <1>7

(* As long as a policy is stored its rules and their parameters are.         *)
LEMMA RulesStored ==
    ASSUME Inv, NEW u \in Uids, policies[u] # Absent
    PROVE  /\ (IF u \in ruled THEN SetsOf[u] ELSE <<>>) = SetsOf[u]
           /\ SetIds(u) # {} => u \in ruled /\ u \in params
  <1>1. u \in ruled \/ SetsOf[u] = <<>>
    BY StoreAssumption DEF Inv, RulesFollowPolicy
  <1>2. params = ruled
    BY DEF Inv, RulesFollowPolicy
  <1>3. SetsOf[u] = <<>> => SetIds(u) = {}
    BY DEF SetIds, Elements
  <1> QED BY <1>1, <1>2, <1>3

(* RULESET_FIND_BY_POLICY: every ruleset is found, and every rule due.       *)
LEMMA RuleSetsWhole ==
    ASSUME Inv, NEW t \in Threads, ReadRuleSets(t), LoadsWhole(t), req[t].op = "load"
    PROVE  LoadsWhole(t)'
  <1> DEFINE u == req[t].uid
             found == IF u \in ruled THEN SetsOf[u] ELSE <<>>
             todo == [i \in DOMAIN found |-> <<"rules", found[i]>>]
             p == [read[t] EXCEPT !.rulesets = Elements(found), !.todo = todo]
  <1>1. TypeOK /\ read[t] \in Reads /\ t \in DOMAIN read /\ t \in DOMAIN pc
    BY DEF Inv, TypeInv, TypeOK
  <1>2. /\ pc[t] = "rulesets" /\ req' = req /\ policies' = policies
        /\ read'[t] = p
        /\ pc'[t] = IF todo = <<>> THEN "commit" ELSE "details"
    BY <1>1 DEF ReadRuleSets, Read, Advance, AfterLoad, database
  <1>3. u \in Uids
    BY <1>1, <1>2, OperationAt
  <1>4. found \in Seq(RuleSets)
    BY <1>3, StoreAssumption
  <1>5. read[t].rules = {} /\ read[t].params = {}
    BY <1>2 DEF LoadsWhole
  <1>6. /\ p.rulesets = Elements(found) /\ p.todo = todo
        /\ p.rules = {} /\ p.params = {}
    <2> HIDE DEF found, todo
    <2> QED BY <1>1, <1>5, ReadParts
  <1>7. policies[u] # Absent => found = SetsOf[u]
    BY <1>3, RulesStored
  <1> HIDE DEF found, p
  <1>8. /\ RulesDue(todo) = UNION {Elements(RulesIn[x]) : x \in Elements(found)}
        /\ ParamsDue(todo) = {}
        /\ \A e \in Elements(todo) : e[1] = "rules" /\ e[2] \in Elements(found)
    BY <1>4, DueOfRuleSets
  <1> HIDE DEF todo, u
  <1>9. policies[u] # Absent => WholeSoFar(u, p)
    <2>1. ASSUME policies[u] # Absent
          PROVE  /\ Elements(found) = SetIds(u)
                 /\ RulesDue(todo) = RuleIds(u)
      BY <1>7, <1>8, <2>1 DEF SetIds, RuleIds
    <2> QED BY <1>6, <1>8, <2>1 DEF WholeSoFar
  <1> QED BY <1>2, <1>6, <1>9 DEF LoadsWhole, u

(* RULEDEF_FIND_BY_RULESET: the rules found were due, their parameters are   *)
(* now.                                                                      *)
LEMMA RulesWhole ==
    ASSUME Inv, NEW t \in Threads, ReadRules(t), LoadsWhole(t), req[t].op = "load"
    PROVE  LoadsWhole(t)'
  <1> DEFINE u == req[t].uid
             s == Head(read[t].todo)[2]
             rest == Tail(read[t].todo)
             found == IF u \in ruled THEN RulesIn[s] ELSE <<>>
             first == [i \in DOMAIN found |-> <<"params", found[i]>>]
             todo == first \o rest
             p == [read[t] EXCEPT !.rules = read[t].rules \cup Elements(found), !.todo = todo]
  <1>1. /\ TypeOK /\ read[t] \in Reads /\ t \in DOMAIN read /\ t \in DOMAIN pc
        /\ read[t].todo \in Seq(Queries)
    BY DEF Inv, TypeInv, TypeOK, Reads
  <1>2. /\ pc[t] = "details" /\ req' = req /\ policies' = policies
        /\ read[t].todo # <<>> /\ Head(read[t].todo)[1] = "rules"
        /\ read'[t] = p
        /\ pc'[t] = IF todo = <<>> THEN "commit" ELSE "details"
    BY <1>1 DEF ReadRules, Read, Advance, AfterLoad, database
  <1>3. u \in Uids
    BY <1>1, <1>2, OperationAt
  <1>4. rest \in Seq(Queries) /\ Head(read[t].todo) \in Queries
    BY <1>1, <1>2
  <1>5. s \in RuleSets
    BY <1>2, <1>4 DEF Queries
  <1>6. found \in Seq(Rules)
    BY <1>5, StoreAssumption
  <1>7. /\ p.rulesets = read[t].rulesets /\ p.todo = todo
        /\ p.rules = read[t].rules \cup Elements(found) /\ p.params = read[t].params
    <2> HIDE DEF found, todo
    <2> QED BY <1>1, ReadParts
  <1> HIDE DEF p
  <1>8. /\ RulesDue(first) = {} /\ ParamsDue(first) = Elements(found)
        /\ \A e \in Elements(first) : e[1] # "rules"
    <2> HIDE DEF found
    <2> QED BY <1>6, DueOfRules
  <1>9. Elements(todo) = Elements(first) \cup Elements(rest)
    <2>1. first \in Seq(Queries)
      <3> HIDE DEF found
      <3> QED BY <1>6 DEF Queries
    <2> HIDE DEF first, rest
    <2> QED BY <1>4, <2>1, JoinedElements
  <1>10. Elements(read[t].todo) = {Head(read[t].todo)} \cup Elements(rest)
    BY <1>1, <1>2, FirstElement
  <1>11. /\ RulesDue(todo) = RulesDue(rest)
         /\ ParamsDue(todo) = Elements(found) \cup ParamsDue(rest)
         /\ \A e \in Elements(todo) : e[1] = "rules" => e \in Elements(rest)
    <2> HIDE DEF first, rest, todo, found
    <2>1. /\ RulesDue(todo) = RulesDue(first) \cup RulesDue(rest)
          /\ ParamsDue(todo) = ParamsDue(first) \cup ParamsDue(rest)
      BY ONLY <1>9, DueParts
    <2>2. \A e \in Elements(todo) : e[1] = "rules" => e \in Elements(rest)
      BY ONLY <1>8, <1>9
    <2> QED BY ONLY <1>8, <2>1, <2>2
  <1>12. /\ RulesDue(read[t].todo) = Elements(RulesIn[s]) \cup RulesDue(rest)
         /\ ParamsDue(read[t].todo) = ParamsDue(rest)
    <2> HIDE DEF rest
    <2>1. ASSUME NEW v
          PROVE  /\ v \in RulesDue(read[t].todo) <=>
                       v \in Elements(RulesIn[s]) \/ v \in RulesDue(rest)
                 /\ v \in ParamsDue(read[t].todo) <=> v \in ParamsDue(rest)
      BY <1>2, <1>10, DueMembers
    <2> QED BY <2>1
  <1>13. policies[u] # Absent => WholeSoFar(u, p)
    <2> SUFFICES ASSUME policies[u] # Absent
                 PROVE  WholeSoFar(u, p)
      OBVIOUS
    <2>1. WholeSoFar(u, read[t])
      BY <1>2 DEF LoadsWhole
    <2>2. s \in SetIds(u)
      BY <1>2, <1>10, <2>1 DEF WholeSoFar
    <2>3. found = RulesIn[s]
      BY <1>3, <2>2, RulesStored
    <2> HIDE DEF found, rest, todo, first, u, s
    <2>4. p.rules \cup RulesDue(p.todo) = RuleIds(u)
      BY <1>7, <1>11, <1>12, <2>1, <2>3 DEF WholeSoFar
    <2>5. p.params \cup RulesDue(p.todo) \cup ParamsDue(p.todo) = RuleIds(u)
      BY <1>7, <1>11, <1>12, <2>1, <2>3 DEF WholeSoFar
    <2>6. \A q \in Elements(p.todo) : q[1] = "rules" => q[2] \in SetIds(u)
      BY <1>7, <1>10, <1>11, <2>1 DEF WholeSoFar
    <2>7. p.rulesets = SetIds(u)
      BY <1>7, <2>1 DEF WholeSoFar
    <2> QED BY <2>4, <2>5, <2>6, <2>7 DEF WholeSoFar
  <1> HIDE DEF todo, u
  <1> QED BY <1>2, <1>7, <1>13 DEF LoadsWhole, u

(* PARAM_FIND_BY_CATEGORY_AND_REFERENCE: the parameters found were due.      *)
LEMMA ParamsWhole ==
    ASSUME Inv, NEW t \in Threads, ReadParams(t), LoadsWhole(t), req[t].op = "load"
    PROVE  LoadsWhole(t)'
  <1> DEFINE u == req[t].uid
             r == Head(read[t].todo)[2]
             rest == Tail(read[t].todo)
             found == IF u \in params THEN {r} ELSE {}
             p == [read[t] EXCEPT !.params = read[t].params \cup found, !.todo = rest]
  <1>1. /\ TypeOK /\ read[t] \in Reads /\ t \in DOMAIN read /\ t \in DOMAIN pc
        /\ read[t].todo \in Seq(Queries)
    BY DEF Inv, TypeInv, TypeOK, Reads
  <1>2. /\ pc[t] = "details" /\ req' = req /\ policies' = policies
        /\ read[t].todo # <<>> /\ Head(read[t].todo)[1] = "params"
        /\ read'[t] = p
        /\ pc'[t] = IF rest = <<>> THEN "commit" ELSE "details"
    BY <1>1 DEF ReadParams, Read, Advance, AfterLoad, database
  <1>3. u \in Uids
    BY <1>1, <1>2, OperationAt
  <1>4. /\ p.rulesets = read[t].rulesets /\ p.todo = rest
        /\ p.rules = read[t].rules /\ p.params = read[t].params \cup found
    <2> HIDE DEF found, rest
    <2> QED BY <1>1, ReadParts
  <1> HIDE DEF p
  <1>5. Elements(read[t].todo) = {Head(read[t].todo)} \cup Elements(rest)
    BY <1>1, <1>2, FirstElement
  <1>6. /\ RulesDue(read[t].todo) = RulesDue(rest)
        /\ ParamsDue(read[t].todo) = {r} \cup ParamsDue(rest)
    <2> HIDE DEF rest
    <2>1. ASSUME NEW v
          PROVE  /\ v \in RulesDue(read[t].todo) <=> v \in RulesDue(rest)
                 /\ v \in ParamsDue(read[t].todo) <=> v = r \/ v \in ParamsDue(rest)
      BY <1>2, <1>5, DueMembers
    <2> QED BY <2>1
  <1>7. policies[u] # Absent => WholeSoFar(u, p)
    <2> SUFFICES ASSUME policies[u] # Absent
                 PROVE  WholeSoFar(u, p)
      OBVIOUS
    <2>1. WholeSoFar(u, read[t])
      BY <1>2 DEF LoadsWhole
    <2>2. r \in RuleIds(u)
      BY <1>6, <2>1 DEF WholeSoFar
    <2>3. SetIds(u) # {}
      BY <2>2 DEF RuleIds
    <2>4. found = {r}
      BY <1>3, <2>3, RulesStored
    <2> HIDE DEF found, rest, u, r
    <2> QED BY <1>4, <1>5, <1>6, <2>1, <2>4 DEF WholeSoFar
  <1> HIDE DEF rest, u
  <1> QED BY <1>2, <1>4, <1>7 DEF LoadsWhole, u

LEMMA LoadsWholeStep ==
    ASSUME Inv, NEW t \in Threads, StepOf(t), LoadsWhole(t)
    PROVE  LoadsWhole(t)'
  <1>0. TypeOK /\ read[t] \in Reads /\ t \in DOMAIN read /\ t \in DOMAIN pc
    BY DEF Inv, TypeInv, TypeOK
  <1>1. CASE \E r \in Requests : Begin(t, r)
    <2>1. NoRead.rules = {} /\ NoRead.params = {}
      BY DEF NoRead
    <2> QED BY <1>0, <1>1, <2>1, Begun DEF LoadsWhole
  <1>2. CASE Ending(t)
    BY <1>0, <1>2, EndingEnds, Ended DEF LoadsWhole
  <1>3. CASE req'[t].op # "load"
    BY <1>3 DEF LoadsWhole
  <1>4. CASE Reading(t) /\ req'[t].op = "load"
    <2>1. req[t].op = "load"
      BY <1>0, <1>4, ReadingGoesOn
    <2>2. CASE FindPolicy(t)
      <3>1. /\ pc[t] = "find" /\ pc'[t] = "groups"
            /\ read'[t] = [read[t] EXCEPT !.row = VisibleRow(t)]
        BY <1>0, <2>2 DEF FindPolicy, Read, Advance
      <3>2. read'[t].rules = read[t].rules /\ read'[t].params = read[t].params
        BY <1>0, <3>1, ReadParts
      <3> QED BY <2>1, <3>1, <3>2 DEF LoadsWhole
    <2>3. CASE ReadGroups(t)
      <3>1. /\ pc[t] = "groups" /\ pc'[t] = "rulesets"
            /\ read'[t] = [read[t] EXCEPT !.groups = VisibleGroups(t)]
        BY <1>0, <2>3 DEF ReadGroups, Read, Advance
      <3>2. read'[t].rules = read[t].rules /\ read'[t].params = read[t].params
        BY <1>0, <3>1, ReadParts
      <3> QED BY <2>1, <3>1, <3>2 DEF LoadsWhole
    <2>4. CASE CheckPolicy(t)
      BY <1>0, <2>1, <2>4, OperationAt DEF CheckPolicy
    <2> QED BY <1>4, <2>1, <2>2, <2>3, <2>4, RuleSetsWhole, RulesWhole, ParamsWhole
            DEF Reading
  <1>5. CASE \/ InsertPolicy(t) \/ UpdatePolicy(t) \/ RemoveParams(t) \/ RemoveGroups(t)
             \/ DeletePolicy(t) \/ InsertGroup(t) \/ DeleteGroup(t)
    <2>1. /\ req' = req /\ pc[t] # "idle"
          /\ pc[t] \in {"insert", "update", "removeParams", "removeGroups",
                        "deletePolicy", "insertGroup", "deleteGroup"}
      BY <1>5 DEF InsertPolicy, UpdatePolicy, RemoveParams, RemoveGroups, DeletePolicy,
                  InsertGroup, DeleteGroup, Advance
    <2> QED BY <1>0, <2>1, OperationAt DEF LoadsWhole
  <1> QED BY <1>1, <1>2, <1>3, <1>4, <1>5, StepKinds

(* What a load answers is what it has read by the end.                       *)
LEMMA AnswerStep ==
    ASSUME Inv, NEW t \in Threads, StepOf(t)
    PROVE  \/ answer'[t] = answer[t] /\ known' = known
           \/ "policy" \notin DOMAIN answer'[t]
           \/ /\ req[t].op = "load" /\ pc[t] = "commit" /\ work[t].row = Same
              /\ answer'[t] = [kind |-> "ok", uid |-> req[t].uid, policy |-> read[t]]
              /\ req[t].uid \in known'
  <1>0. TypeOK /\ t \in DOMAIN answer
    BY DEF Inv, TypeInv, TypeOK
  <1>1. CASE \E r \in Requests : Begin(t, r)
    <2>1. answer'[t] = [kind |-> "none"]
      BY <1>0, <1>1, Begun
    <2> QED BY <2>1
  <1>2. CASE Commit(t)
    <2>1. CASE req[t].op = "load"
      <3>1. work[t].row = Same
        <4>1. work[t].row \in Rows \cup {Absent, Same}
          BY <1>0, ActingUid DEF Works
        <4> QED BY <2>1, <4>1 DEF Inv, RowsLocked, Creating
      <3> QED BY <1>0, <1>2, <2>1, <3>1 DEF Commit, Finish
    <2>2. CASE req[t].op # "load"
      <3>1. answer'[t] = [kind |-> "ok"]
        BY <1>0, <1>2, <2>2 DEF Commit, Finish
      <3> QED BY <3>1
    <2> QED BY <2>1, <2>2
  <1>3. CASE ListPolicies(t)
    <2>1. PICK L : answer'[t] = [kind |-> "ok", listed |-> L]
      BY <1>0, <1>3 DEF ListPolicies, Finish
    <2> QED BY <2>1
  <1>4. CASE \/ RefuseName(t) \/ RefuseValue(t) \/ PolicyNotFound(t)
             \/ RefuseRename(t) \/ RefuseGroup(t) \/ LockTimeout(t)
    <2>1. PICK o : answer'[t] = [kind |-> o]
      BY <1>0, <1>4 DEF RefuseName, RefuseValue, PolicyNotFound, RefuseRename,
                        RefuseGroup, LockTimeout, Fail, Finish
    <2> QED BY <2>1
  <1>5. CASE Reading(t)
    BY <1>5 DEF Reading, FindPolicy, ReadGroups, ReadRuleSets, ReadRules, ReadParams,
                CheckPolicy, Advance, database
  <1>6. CASE \/ InsertPolicy(t) \/ UpdatePolicy(t) \/ RemoveParams(t) \/ RemoveGroups(t)
             \/ DeletePolicy(t) \/ InsertGroup(t) \/ DeleteGroup(t)
    BY <1>6 DEF InsertPolicy, UpdatePolicy, RemoveParams, RemoveGroups, DeletePolicy,
                InsertGroup, DeleteGroup, Advance, database
  <1> QED BY <1>1, <1>2, <1>3, <1>4, <1>5, <1>6, StepKinds DEF Ending

LEMMA NothingDue ==
    ASSUME NEW q, q = <<>>
    PROVE  RulesDue(q) = {} /\ ParamsDue(q) = {}
  <1>1. Elements(q) = {}
    BY DEF Elements
  <1> QED BY <1>1 DEF RulesDue, ParamsDue

LEMMA KnownGrows ==
    ASSUME NEW t \in Threads, StepOf(t)
    PROVE  known \subseteq known'
  BY DEF StepOf, Begin, LockTimeout, Step, InsertPolicy, RefuseName,
         RefuseValue, FindPolicy, ReadGroups, ReadRuleSets, ReadRules, ReadParams,
         PolicyNotFound, UpdatePolicy, RefuseRename, RemoveParams, RemoveGroups,
         DeletePolicy, CheckPolicy, InsertGroup, RefuseGroup, DeleteGroup,
         ListPolicies, Commit, Advance, Fail, database

(* What is still whole after a step was before.                              *)
LEMMA LoadedStep ==
    ASSUME AnswersInv, NEW t \in Threads, StepOf(t), [Next]_vars, NEW s \in Threads,
           "policy" \in DOMAIN answer'[s]
    PROVE  LET u == answer'[s].uid
               p == answer'[s].policy
           IN  /\ u \in known'
               /\ policies'[u] # Absent =>
                    p.rulesets = SetIds(u) /\ p.rules = RuleIds(u) /\ p.params = RuleIds(u)
  <1>0. Inv /\ TypeOK
    BY DEF AnswersInv, Inv, TypeInv
  <1>1. CASE answer'[s] = answer[s]
    <2>1. answer[s].uid \in known
      BY <1>1 DEF AnswersInv, AnsweredKnown
    <2>2. policies'[answer[s].uid] # Absent => policies[answer[s].uid] # Absent
      BY <1>0, <2>1, StaysDeleted
    <2>3. LoadedWhole
      BY DEF AnswersInv
    <2> QED BY <1>1, <2>1, <2>2, <2>3, KnownGrows DEF LoadedWhole
  <1>2. CASE answer'[s] # answer[s]
    <2>1. s = t
      BY <1>0, <1>2, OthersKeep
    <2>2. /\ req[t].op = "load" /\ pc[t] = "commit" /\ work[t].row = Same
          /\ answer'[t] = [kind |-> "ok", uid |-> req[t].uid, policy |-> read[t]]
          /\ req[t].uid \in known'
      BY <1>0, <1>2, <2>1, AnswerStep
    <2>3. req[t].uid \in Uids /\ req[t].uid \in known
      <3>1. Acting(t) /\ ~ Creating(t)
        BY <2>2 DEF Acting, Creating
      <3> QED BY <1>0, <3>1, ActingUid DEF Inv, UidsApart
    <2>4. policies'[req[t].uid] # Absent => policies[req[t].uid] # Absent
      BY <1>0, <2>3, StaysDeleted
    <2>5. ASSUME policies[req[t].uid] # Absent
          PROVE  /\ read[t].rulesets = SetIds(req[t].uid)
                 /\ read[t].rules = RuleIds(req[t].uid)
                 /\ read[t].params = RuleIds(req[t].uid)
      <3>1. read[t].todo = <<>> /\ WholeSoFar(req[t].uid, read[t])
        BY <2>2, <2>5 DEF AnswersInv, LoadsWhole
      <3> QED BY <3>1, NothingDue DEF WholeSoFar
    <2>6. answer'[t].uid = req[t].uid /\ answer'[t].policy = read[t]
      BY <2>2
    <2> QED BY <2>1, <2>2, <2>4, <2>5, <2>6
  <1> QED BY <1>1, <1>2

--------------------------------------------------------------------------------
LEMMA AnswersInit == Init => AnswersInv
  <1> SUFFICES ASSUME Init PROVE AnswersInv
    OBVIOUS
  <1>1. Inv
    BY InvInit
  <1>2. ASSUME NEW t \in Threads
        PROVE  /\ req[t].op = "none" /\ work[t].row = Same /\ work[t].added = {}
               /\ work[t].removed = {} /\ work[t].params = FALSE
               /\ "policy" \notin DOMAIN answer[t]
    BY DEF Init, NoRequest, NoWork
  <1>3. \A t \in Threads : WrittenWhere(t) /\ NewRow(t) /\ LoadsWhole(t) /\ AnsweredKnown(t)
    BY <1>2 DEF WrittenWhere, NewRow, LoadsWhole, AnsweredKnown
  <1>4. LoadedWhole
    BY <1>2 DEF LoadedWhole
  <1> QED BY <1>1, <1>3, <1>4 DEF AnswersInv

LEMMA AnswersStep == AnswersInv /\ [Next]_vars => AnswersInv'
  <1> SUFFICES ASSUME AnswersInv, [Next]_vars PROVE AnswersInv'
    OBVIOUS
  <1>0. Inv /\ TypeInv /\ TypeOK
    BY DEF AnswersInv, Inv, TypeInv
  <1>1. Inv'
    BY <1>0, InvStep
  <1>2. ASSUME NEW t \in Threads, StepOf(t)
        PROVE  AnswersInv'
    <2>1. ASSUME NEW s \in Threads, s # t
          PROVE  (WrittenWhere(s) /\ NewRow(s) /\ LoadsWhole(s))'
      <3>1. /\ pc'[s] = pc[s] /\ req'[s] = req[s] /\ work'[s] = work[s]
            /\ read'[s] = read[s]
        BY <1>0, <1>2, <2>1, OthersKeep
      <3>2. WrittenWhere(s) /\ NewRow(s) /\ LoadsWhole(s)
        BY DEF AnswersInv
      <3>3. req[s].op = "load" =>
               (policies'[req[s].uid] # Absent => policies[req[s].uid] # Absent)
        <4>1. req[s].op = "load" => Acting(s) /\ ~ Creating(s)
          BY DEF Acting, Creating
        <4>2. req[s].op = "load" => req[s].uid \in known
          BY <1>0, <4>1 DEF Inv, UidsApart
        <4> QED BY <1>0, <4>2, StaysDeleted
      <3>4. WrittenWhere(s)'
        BY <3>1, <3>2 DEF WrittenWhere
      <3>5. NewRow(s)'
        BY <3>1, <3>2 DEF NewRow
      <3>6. LoadsWhole(s)'
        BY <3>1, <3>2, <3>3 DEF LoadsWhole
      <3> QED BY <3>4, <3>5, <3>6
    <2>2. (WrittenWhere(t) /\ NewRow(t) /\ LoadsWhole(t))'
      BY <1>0, <1>2, WrittenWhereStep, NewRowStep, LoadsWholeStep DEF AnswersInv
    <2>3. (\A s \in Threads : AnsweredKnown(s))' /\ LoadedWhole'
      BY <1>2, LoadedStep DEF AnsweredKnown, LoadedWhole
    <2> QED BY <1>1, <2>1, <2>2, <2>3 DEF AnswersInv
  <1>3. CASE Crash
    <2>1. /\ NoRequest.op = "none" /\ NoWork.row = Same /\ NoWork.params = FALSE
          /\ NoWork.added = {} /\ NoWork.removed = {}
      BY DEF NoRequest, NoWork
    <2>2. ASSUME NEW s \in Threads
          PROVE  /\ req'[s] = NoRequest /\ work'[s] = NoWork
                 /\ answer'[s] = answer[s] \/ "policy" \notin DOMAIN answer'[s]
      BY <1>3 DEF Crash
    <2>3. (\A s \in Threads : WrittenWhere(s) /\ NewRow(s) /\ LoadsWhole(s))'
      BY <2>1, <2>2 DEF WrittenWhere, NewRow, LoadsWhole
    <2>4. policies' = policies /\ known' = known
      BY <1>3 DEF Crash, database
    <2>5. (\A s \in Threads : AnsweredKnown(s))' /\ LoadedWhole'
      BY <2>2, <2>4 DEF AnswersInv, AnsweredKnown, LoadedWhole
    <2> QED BY <1>1, <2>3, <2>5 DEF AnswersInv
  <1>4. CASE UNCHANGED vars
    BY <1>1, <1>4 DEF AnswersInv, WrittenWhere, NewRow, LoadsWhole, AnsweredKnown,
                      LoadedWhole, vars
  <1> QED BY <1>2, <1>3, <1>4 DEF Next, StepOf

--------------------------------------------------------------------------------
(* In a set of requests that all wait, one at the latest statement waits for *)
(* nobody of the set.                                                        *)
LEMMA AnswersDeadlock == AnswersInv => NoDeadlock
  <1> SUFFICES ASSUME AnswersInv,
                      NEW S \in SUBSET {t \in Threads : Holders(t) # {}}, S # {}
               PROVE  \E t \in S : Holders(t) \cap S = {}
    BY DEF NoDeadlock
  <1>1. ASSUME NEW t \in S, NEW s \in Holders(t) \cap S
        PROVE  /\ pc[t] = "removeParams" => pc[s] \in {"removeGroups", "deletePolicy", "commit"}
               /\ pc[t] \in {"removeGroups", "insertGroup", "deleteGroup"}
                     => pc[s] \in {"deletePolicy", "commit"}
               /\ pc[t] \notin {"insert", "update", "deletePolicy"}
    <2>1. /\ t \in Threads /\ s \in Threads /\ s # t /\ WaitsFor(t, s)
          /\ Inv /\ WrittenWhere(s) /\ NewRow(s) /\ Holders(s) # {}
      BY DEF Holders, AnswersInv
    <2> QED BY <2>1, WaitsForLater
  <1>2. ASSUME NEW t \in S
        PROVE  pc[t] \in {"removeParams", "removeGroups", "insertGroup", "deleteGroup",
                          "insert", "update", "deletePolicy"}
    BY DEF Holders, WaitsFor
  <1>3. CASE \E t \in S : pc[t] \in {"insert", "update", "deletePolicy"}
    BY <1>1, <1>3
  <1>4. CASE /\ \A t \in S : pc[t] \notin {"insert", "update", "deletePolicy"}
             /\ \E t \in S : pc[t] \in {"removeGroups", "insertGroup", "deleteGroup"}
    BY <1>1, <1>2, <1>4
  <1>5. CASE \A t \in S : pc[t] = "removeParams"
    BY <1>1, <1>5
  <1> QED BY <1>2, <1>3, <1>4, <1>5

(* Lock waits never form a circle, however many requests there are: the      *)
(* parameters are written before the groups and the groups before the row,   *)
(* and an import that waits for a second row lock holds only a row nobody    *)
(* else can see (PolicyCore.java:63-77, 98-130, 138-150).                    *)
THEOREM LocksNeverCircle == Spec => []NoDeadlock
  <1> QED BY AnswersInit, AnswersStep, AnswersDeadlock, PTL DEF Spec

(* A load of a policy that is still there answers every ruleset, every rule  *)
(* and every parameter of it, whatever is committed between its queries      *)
(* (PolicyCore.java:178-275).                                                *)
THEOREM LoadsAreWhole == Spec => []LoadedWhole
  <1>1. AnswersInv => LoadedWhole
    BY DEF AnswersInv
  <1> QED BY <1>1, AnswersInit, AnswersStep, PTL DEF Spec

--------------------------------------------------------------------------------
(* Only a commit changes a policy, and only its own.                         *)
LEMMA PolicyChange ==
    ASSUME Inv, Next, NEW u \in Uids, policies'[u] # policies[u]
    PROVE  \E t \in Threads : /\ Commit(t) /\ req[t].uid = u
                              /\ work[t].row # Same /\ policies'[u] = work[t].row
  <1>1. PICK t \in Threads : Commit(t)
    <2>1. SUFFICES ASSUME \A t \in Threads : ~ Commit(t)
                   PROVE  policies' = policies
      BY <2>1
    <2> QED BY <2>1 DEF Next, Step, Begin, InsertPolicy, RefuseName, RefuseValue,
             FindPolicy, ReadGroups, ReadRuleSets, ReadRules, ReadParams,
             PolicyNotFound, UpdatePolicy, RefuseRename, RemoveParams, RemoveGroups,
             DeletePolicy, CheckPolicy, InsertGroup, RefuseGroup, DeleteGroup,
             ListPolicies, LockTimeout, Crash, Advance, Write, Read, Fail, database
  <1>2. /\ policies' = IF work[t].row = Same THEN policies
                       ELSE [policies EXCEPT ![req[t].uid] = work[t].row]
        /\ policies \in [Uids -> Rows \cup {Absent}]
    BY <1>1 DEF Commit, Inv, TypeInv, TypeOK
  <1> QED BY <1>1, <1>2

(* However an import interleaves with other requests, fails or is cut short  *)
(* by a crash, its policy appears with its final name and its description at *)
(* once, or not at all (PolicyCore.java:63-92).                              *)
THEOREM ImportsAppearWhole == Spec => ImportIsWhole
  <1> DEFINE Whole ==
        \A u \in Uids : policies[u] = Absent /\ policies'[u] # Absent =>
          \E t \in Threads :
            /\ req[t].op \in {"create", "import"} /\ req[t].uid = u
            /\ policies'[u] = CreatedRow(req[t])
  <1>1. AnswersInv /\ [Next]_vars => [Whole]_vars
    <2> SUFFICES ASSUME AnswersInv, Next, NEW u \in Uids,
                        policies[u] = Absent, policies'[u] # Absent
                 PROVE  \E t \in Threads :
                          /\ req[t].op \in {"create", "import"} /\ req[t].uid = u
                          /\ policies'[u] = CreatedRow(req[t])
      OBVIOUS
    <2>0. Inv /\ TypeOK
      BY DEF AnswersInv, Inv, TypeInv
    <2>1. PICK t \in Threads : /\ Commit(t) /\ req[t].uid = u
                               /\ work[t].row # Same /\ policies'[u] = work[t].row
      BY <2>0, PolicyChange
    <2>2. pc[t] = "commit" /\ work[t].row \in Rows
      BY <2>0, <2>1, ActingUid DEF Commit, Works
    <2>3. req[t].op \in {"create", "import"}
      BY <2>0, <2>1, <2>2 DEF Inv, RowsLocked, Creating
    <2>4. /\ req[t].op = "create" => work[t].row = InsertedRow(req[t])
          /\ req[t].op = "import" => work[t].row = ImportedRow(req[t])
      BY <2>2 DEF AnswersInv, NewRow
    <2> QED BY <2>1, <2>3, <2>4 DEF InsertedRow, ImportedRow, CreatedRow
  <1> QED BY <1>1, AnswersInit, AnswersStep, PTL DEF Spec, ImportIsWhole

--------------------------------------------------------------------------------
(* One client at a time.  With two, a group can outlive its policy and an    *)
(* update can undo another one.                                              *)

Alone == \A s, t \in Threads : s = t

(* The policy a group is added to is still there, and a deletion removes all *)
(* the groups there are.                                                     *)
GroupsKept(t) ==
    /\ pc[t] = "insertGroup" \/ work[t].added # {}
          => req[t].op = "groupCreate" /\ policies[req[t].uid] # Absent
    /\ req[t].op = "delete" /\ pc[t] \in {"deletePolicy", "commit"}
          => work[t].removed = VisibleGroups(t)

(* The row an update completes is the one that is stored.                    *)
FieldKept(t) ==
    req[t].op = "update" =>
        /\ pc[t] \in {"groups", "rulesets", "details", "update"}
              => read[t].row = policies[req[t].uid]
        /\ pc[t] = "commit" => work[t].row = WrittenRow(req[t], policies[req[t].uid])

AloneInv ==
    /\ AnswersInv
    /\ NoOrphanGroups
    /\ \A t \in Threads : GroupsKept(t) /\ FieldKept(t)

(* Whatever is not a commit leaves the database as it is.                    *)
LEMMA DatabaseKept ==
    ASSUME NEW t \in Threads, StepOf(t), ~ Commit(t)
    PROVE  UNCHANGED database
  BY DEF StepOf, Begin, LockTimeout, Step, InsertPolicy, RefuseName,
         RefuseValue, FindPolicy, ReadGroups, ReadRuleSets, ReadRules, ReadParams,
         PolicyNotFound, UpdatePolicy, RefuseRename, RemoveParams, RemoveGroups,
         DeletePolicy, CheckPolicy, InsertGroup, RefuseGroup, DeleteGroup,
         ListPolicies, Advance, Fail

LEMMA GroupsKeptStep ==
    ASSUME AnswersInv, NEW t \in Threads, StepOf(t), GroupsKept(t)
    PROVE  GroupsKept(t)'
  <1>0. /\ TypeOK /\ t \in DOMAIN pc /\ t \in DOMAIN work /\ work[t] \in Works
        /\ WrittenWhere(t)
    BY DEF AnswersInv, Inv, TypeInv, TypeOK
  <1>1. CASE \E r \in Requests : Begin(t, r)
    BY <1>0, <1>1, Begun DEF GroupsKept
  <1>2. CASE Ending(t)
    BY <1>0, <1>2, EndingEnds, Ended DEF GroupsKept
  <1>3. CASE CheckPolicy(t)
    <2>1. /\ pc[t] = "check" /\ VisibleRow(t) # Absent /\ req' = req /\ work' = work
          /\ policies' = policies
          /\ pc'[t] = IF req[t].op = "groupCreate" THEN "insertGroup" ELSE "deleteGroup"
      BY <1>0, <1>3 DEF CheckPolicy, Advance, database
    <2>2. work[t].row = Same /\ work[t].added = {}
      BY <1>0, <2>1 DEF WrittenWhere
    <2> QED BY <2>1, <2>2 DEF GroupsKept, VisibleRow
  <1>4. CASE Reading(t) /\ ~ CheckPolicy(t)
    <2>1. /\ req'[t] = req[t] /\ work'[t] = work[t] /\ pc[t] # "check"
          /\ pc'[t] \notin {"insertGroup", "deletePolicy"}
          /\ pc'[t] = "commit" => req[t].op = "load"
          /\ pc[t] \in {"find", "groups", "rulesets", "details"}
      <3>1. pc[t] # "check"
        BY <1>4 DEF Reading, FindPolicy, ReadGroups, ReadRuleSets, ReadRules, ReadParams
      <3> QED BY <1>0, <1>4, <3>1, ReadingGoesOn
    <2>2. work[t].added = {}
      BY <1>0, <2>1 DEF WrittenWhere
    <2> QED BY <2>1, <2>2 DEF GroupsKept
  <1>5. CASE InsertGroup(t)
    <2>1. /\ pc[t] = "insertGroup" /\ pc'[t] = "commit" /\ req' = req /\ policies' = policies
      BY <1>0, <1>5 DEF InsertGroup, Advance, database
    <2> QED BY <2>1 DEF GroupsKept
  <1>6. CASE RemoveGroups(t)
    <2>1. /\ pc[t] = "removeGroups" /\ pc'[t] = "deletePolicy" /\ req' = req
          /\ groups' = groups
          /\ work'[t] = [work[t] EXCEPT !.removed = VisibleGroups(t)]
      BY <1>0, <1>6 DEF RemoveGroups, Write, Advance, database
    <2>2. work'[t].added = {} /\ work'[t].removed = VisibleGroups(t)
      BY <1>0, <2>1, AddedParts DEF WrittenWhere
    <2>3. VisibleGroups(t)' = VisibleGroups(t)
      BY <2>1 DEF VisibleGroups
    <2> QED BY <2>1, <2>2, <2>3 DEF GroupsKept
  <1>7. CASE DeletePolicy(t)
    <2>1. /\ pc[t] = "deletePolicy" /\ pc'[t] = "commit" /\ req' = req
          /\ groups' = groups /\ policies' = policies
          /\ work'[t] = work[t] \/ work'[t] = [work[t] EXCEPT !.row = Absent]
      BY <1>0, <1>7 DEF DeletePolicy, Write, Advance, database
    <2>2. work'[t].added = work[t].added /\ work'[t].removed = work[t].removed
      <3>1. /\ [work[t] EXCEPT !.row = Absent].added = work[t].added
            /\ [work[t] EXCEPT !.row = Absent].removed = work[t].removed
        BY <1>0, AddedParts
      <3> QED BY <2>1, <3>1
    <2>3. VisibleGroups(t)' = VisibleGroups(t)
      BY <2>1 DEF VisibleGroups
    <2>4. req[t].op = "delete"
      BY <1>0, <2>1, OperationAt
    <2> QED BY <2>1, <2>2, <2>3, <2>4 DEF GroupsKept
  <1>8. CASE InsertPolicy(t) \/ UpdatePolicy(t) \/ RemoveParams(t) \/ DeleteGroup(t)
    <2>1. /\ pc[t] \in {"insert", "update", "removeParams", "deleteGroup"}
          /\ pc'[t] \in {"find", "commit", "removeGroups"} /\ req' = req
          /\ pc[t] = "removeParams" => pc'[t] = "removeGroups"
      BY <1>0, <1>8 DEF InsertPolicy, UpdatePolicy, RemoveParams, DeleteGroup, Advance
    <2>2. work'[t].added = work[t].added
      <3>1. \/ work'[t] = work[t]
            \/ \E x : work'[t] = [work[t] EXCEPT !.row = x]
            \/ \E x : work'[t] = [work[t] EXCEPT !.params = x]
            \/ \E x : work'[t] = [work[t] EXCEPT !.removed = x]
        BY <1>0, <1>8 DEF InsertPolicy, UpdatePolicy, RemoveParams, DeleteGroup, Write
      <3>2. CASE \E x : work'[t] = [work[t] EXCEPT !.row = x]
        BY <1>0, <3>2, AddedParts
      <3>3. CASE \E x : work'[t] = [work[t] EXCEPT !.params = x]
        BY <1>0, <3>3, AddedParts
      <3>4. CASE \E x : work'[t] = [work[t] EXCEPT !.removed = x]
        BY <1>0, <3>4, AddedParts
      <3> QED BY <3>1, <3>2, <3>3, <3>4
    <2>3. work[t].added = {} /\ pc[t] # "idle"
      BY <1>0, <2>1 DEF WrittenWhere
    <2>4. req[t].op = "delete" => pc[t] = "removeParams"
      BY <1>0, <2>1, <2>3, OperationAt
    <2> QED BY <2>1, <2>2, <2>3, <2>4 DEF GroupsKept
  <1> QED BY <1>1, <1>2, <1>3, <1>4, <1>5, <1>6, <1>7, <1>8, StepKinds

LEMMA FieldKeptStep ==
    ASSUME AnswersInv, NEW t \in Threads, StepOf(t), FieldKept(t)
    PROVE  FieldKept(t)'
  <1>0. /\ TypeOK /\ t \in DOMAIN pc /\ t \in DOMAIN work /\ work[t] \in Works
        /\ t \in DOMAIN read /\ read[t] \in Reads
        /\ WrittenWhere(t) /\ TypeInv
    BY DEF AnswersInv, Inv, TypeInv, TypeOK
  <1>1. CASE \E r \in Requests : Begin(t, r)
    BY <1>0, <1>1, Begun DEF FieldKept
  <1>2. CASE Ending(t)
    BY <1>0, <1>2, EndingEnds, Ended DEF FieldKept
  <1>3. CASE FindPolicy(t)
    <2>1. /\ pc[t] = "find" /\ pc'[t] = "groups" /\ req' = req /\ policies' = policies
          /\ read'[t] = [read[t] EXCEPT !.row = VisibleRow(t)]
      BY <1>0, <1>3 DEF FindPolicy, Read, Advance, database
    <2>2. read'[t].row = VisibleRow(t)
      BY <1>0, <2>1, ReadParts
    <2>3. req[t].op = "update" => VisibleRow(t) = policies[req[t].uid]
      BY <1>0, <2>1 DEF WrittenWhere, VisibleRow
    <2> QED BY <2>1, <2>2, <2>3 DEF FieldKept
  <1>4. CASE Reading(t) /\ ~ FindPolicy(t)
    <2>1. /\ req'[t] = req[t] /\ read'[t].row = read[t].row /\ policies' = policies
          /\ pc[t] \in {"groups", "rulesets", "details", "check"}
          /\ pc'[t] = "commit" => req[t].op = "load"
          /\ pc[t] = "check" => pc'[t] \in {"insertGroup", "deleteGroup"}
      BY <1>0, <1>4, ReadingGoesOn DEF database
    <2> QED BY <2>1 DEF FieldKept
  <1>5. CASE UpdatePolicy(t) /\ req[t].op = "update"
    <2>1. /\ pc[t] = "update" /\ pc'[t] = "commit" /\ req' = req /\ policies' = policies
      BY <1>0, <1>5 DEF UpdatePolicy, Advance, database
    <2>2. read[t].row = policies[req[t].uid] /\ read[t].row \in Rows
      BY <1>0, <1>5, <2>1 DEF FieldKept, TypeInv, RowReadFirst
    <2>3. VisibleRow(t) # Absent
      BY <1>0, <1>5, <2>1, <2>2, StoreAssumption DEF WrittenWhere, VisibleRow
    <2>4. work'[t] = [work[t] EXCEPT !.row = WrittenRow(req[t], read[t].row)]
      BY <1>0, <1>5, <2>3 DEF UpdatePolicy, Write
    <2>5. work'[t].row = WrittenRow(req[t], policies[req[t].uid])
      BY <1>0, <2>2, <2>4, WorkParts
    <2> QED BY <2>1, <2>5 DEF FieldKept
  <1>6. CASE /\ req[t].op # "update"
             /\ \/ InsertPolicy(t) \/ UpdatePolicy(t) \/ RemoveParams(t) \/ RemoveGroups(t)
                \/ DeletePolicy(t) \/ InsertGroup(t) \/ DeleteGroup(t)
    <2>1. req' = req
      BY <1>6 DEF InsertPolicy, UpdatePolicy, RemoveParams, RemoveGroups, DeletePolicy,
                  InsertGroup, DeleteGroup, Advance
    <2> QED BY <1>6, <2>1 DEF FieldKept
  <1>7. CASE /\ req[t].op = "update"
             /\ \/ InsertPolicy(t) \/ RemoveParams(t) \/ RemoveGroups(t)
                \/ DeletePolicy(t) \/ InsertGroup(t) \/ DeleteGroup(t)
    <2>1. pc[t] \in {"insert", "removeParams", "removeGroups", "deletePolicy",
                    "insertGroup", "deleteGroup"} /\ pc[t] # "idle"
      BY <1>7 DEF InsertPolicy, RemoveParams, RemoveGroups, DeletePolicy,
                  InsertGroup, DeleteGroup
    <2> QED BY <1>0, <1>7, <2>1, OperationAt
  <1> QED BY <1>1, <1>2, <1>3, <1>4, <1>5, <1>6, <1>7, StepKinds

(* The groups of a policy go with it, and none comes after it.               *)
LEMMA NoOrphanStep ==
    ASSUME AnswersInv, NoOrphanGroups, NEW t \in Threads, GroupsKept(t), StepOf(t)
    PROVE  NoOrphanGroups'
  <1>0. TypeOK /\ Inv /\ groups \in SUBSET (Uids \X Groups)
    BY DEF AnswersInv, Inv, TypeInv, TypeOK
  <1>1. CASE ~ Commit(t)
    BY <1>1, DatabaseKept DEF NoOrphanGroups, database
  <1>2. CASE Commit(t)
    <2> DEFINE u == req[t].uid
               w == work[t]
    <2>1. /\ pc[t] = "commit"
          /\ policies' = IF w.row = Same THEN policies ELSE [policies EXCEPT ![u] = w.row]
          /\ groups' = (groups \ ({u} \X w.removed)) \cup ({u} \X w.added)
          /\ policies \in [Uids -> Rows \cup {Absent}]
      BY <1>0, <1>2 DEF Commit, TypeOK
    <2>2. /\ w.added # {} => req[t].op = "groupCreate" /\ policies[u] # Absent
          /\ w.row = Absent => req[t].op = "delete" /\ w.removed = VisibleGroups(t)
      BY <1>0, <2>1 DEF GroupsKept, Inv, RowsLocked
    <2> HIDE DEF u, w
    <2>3. ASSUME NEW row \in groups', policies'[row[1]] = Absent
          PROVE  FALSE
      <3>1. CASE row \in {u} \X w.added
        <4>1. w.added # {} /\ row[1] = u
          BY <3>1
        <4> QED BY <2>1, <2>2, <2>3, <4>1
      <3>2. CASE row \in groups /\ row \notin {u} \X w.removed
        <4>1. policies[row[1]] # Absent /\ row \in Uids \X Groups
          BY <1>0, <3>2 DEF NoOrphanGroups
        <4>2. row[1] = u /\ w.row = Absent
          BY <2>1, <2>3, <4>1
        <4>3. row = <<u, row[2]>> /\ row[2] \in Groups
          BY <4>1, <4>2
        <4>4. row[2] \in VisibleGroups(t)
          BY <3>2, <4>3 DEF VisibleGroups, u
        <4>5. row[2] \in w.removed
          BY <2>2, <4>2, <4>4
        <4> QED BY <3>2, <4>3, <4>5
      <3> QED BY <2>1, <3>1, <3>2
    <2> QED BY <2>3 DEF NoOrphanGroups
  <1> QED BY <1>1, <1>2

LEMMA AloneInit == Init => AloneInv
  <1> SUFFICES ASSUME Init PROVE AloneInv
    OBVIOUS
  <1>1. \A t \in Threads : req[t].op = "none" /\ work[t].added = {} /\ pc[t] = "idle"
    BY DEF Init, NoRequest, NoWork
  <1>2. \A t \in Threads : GroupsKept(t) /\ FieldKept(t)
    BY <1>1 DEF GroupsKept, FieldKept
  <1>3. NoOrphanGroups
    <2>1. ASSUME NEW row \in groups
          PROVE  policies[row[1]] # Absent
      BY <2>1, StoreAssumption DEF Init
    <2> QED BY <2>1 DEF NoOrphanGroups
  <1> QED BY <1>2, <1>3, AnswersInit DEF AloneInv

LEMMA AloneStep ==
    ASSUME Alone, AloneInv, [Next]_vars
    PROVE  AloneInv'
  <1>0. AnswersInv /\ NoOrphanGroups /\ \A t \in Threads : GroupsKept(t) /\ FieldKept(t)
    BY DEF AloneInv
  <1>1. AnswersInv'
    BY <1>0, AnswersStep
  <1>2. ASSUME NEW t \in Threads, StepOf(t)
        PROVE  AloneInv'
    <2>1. (GroupsKept(t) /\ FieldKept(t))' /\ NoOrphanGroups'
      BY <1>0, <1>2, GroupsKeptStep, FieldKeptStep, NoOrphanStep
    <2>2. \A s \in Threads : s = t
      BY DEF Alone
    <2>3. (\A s \in Threads : GroupsKept(s) /\ FieldKept(s))'
      BY <2>1, <2>2
    <2> QED BY <1>1, <2>1, <2>3 DEF AloneInv
  <1>3. CASE Crash
    <2>1. \A t \in Threads : (GroupsKept(t) /\ FieldKept(t))'
      BY <1>3 DEF Crash, GroupsKept, FieldKept, NoRequest, NoWork
    <2>2. NoOrphanGroups'
      BY <1>0, <1>3 DEF Crash, NoOrphanGroups, database
    <2> QED BY <1>1, <2>1, <2>2 DEF AloneInv
  <1>4. CASE UNCHANGED vars
    BY <1>0, <1>1, <1>4 DEF AloneInv, NoOrphanGroups, GroupsKept, FieldKept, VisibleGroups, vars
  <1> QED BY <1>2, <1>3, <1>4 DEF Next, StepOf

(* With one client at a time every stored group belongs to a policy that     *)
(* exists: groupCreate checks the policy and deletePolicy removes its groups *)
(* (PolicyCore.java:98-110, 138-150).                                        *)
THEOREM GroupsHavePolicies ==
    ASSUME \A s, t \in Threads : s = t
    PROVE  Spec => []NoOrphanGroups
  <1>1. AloneInv /\ [Next]_vars => AloneInv'
    BY AloneStep DEF Alone
  <1>2. AloneInv => NoOrphanGroups
    BY DEF AloneInv
  <1> QED BY <1>1, <1>2, AloneInit, PTL DEF Spec

(* With one client at a time an update changes the field it names and leaves *)
(* the other one as it is (PolicyCore.java:116-130).                         *)
THEOREM UpdatesTouchOneField ==
    ASSUME \A s, t \in Threads : s = t
    PROVE  Spec => UpdateTouchesOneField
  <1> DEFINE OneField ==
        \A t \in Threads :
          LET u == req[t].uid IN
            /\ req[t].op = "update" /\ pc[t] = "commit"
            /\ pc'[t] = "idle" /\ answer'[t].kind = "ok"
            /\ policies[u] # Absent
            => policies'[u] = [policies[u] EXCEPT ![req[t].field] = req[t].value]
  <1>1. AloneInv /\ [Next]_vars => AloneInv'
    BY AloneStep DEF Alone
  <1>2. AloneInv /\ [Next]_vars => [OneField]_vars
    <2> SUFFICES ASSUME AloneInv, Next, NEW t \in Threads,
                        req[t].op = "update", pc[t] = "commit", pc'[t] = "idle",
                        answer'[t].kind = "ok", policies[req[t].uid] # Absent
                 PROVE  policies'[req[t].uid] =
                           [policies[req[t].uid] EXCEPT ![req[t].field] = req[t].value]
      BY DEF OneField
    <2>0. /\ TypeOK /\ FieldKept(t) /\ t \in DOMAIN pc /\ t \in DOMAIN answer
          /\ policies \in [Uids -> Rows \cup {Absent}]
      BY DEF AloneInv, AnswersInv, Inv, TypeInv, TypeOK
    <2>1. Commit(t)
      <3>1. CASE Crash
        BY <3>1 DEF Crash
      <3>2. CASE LockTimeout(t)
        BY <2>0, <3>2 DEF LockTimeout, Fail, Finish
      <3>3. CASE Step(t)
        BY <3>3 DEF Step, InsertPolicy, RefuseName, RefuseValue, FindPolicy,
             ReadGroups, ReadRuleSets, ReadRules, ReadParams, PolicyNotFound,
             UpdatePolicy, RefuseRename, RemoveParams, RemoveGroups, DeletePolicy,
             CheckPolicy, InsertGroup, RefuseGroup, DeleteGroup, ListPolicies
      <3>4. CASE \E r \in Requests : Begin(t, r)
        BY <3>4 DEF Begin
      <3> QED BY <3>1, <3>2, <3>3, <3>4 DEF Next
    <2>2. req[t] \in Requests /\ req[t].uid \in Uids
      BY <2>0, OperationAt
    <2>3. \/ req[t].field = "name" /\ req[t].value \in Names
          \/ req[t].field = "description" /\ req[t].value \in Descs
      BY <2>2, RequestFields
    <2>4. policies[req[t].uid] \in Rows
      BY <2>0, <2>2
    <2>5. work[t].row = WrittenRow(req[t], policies[req[t].uid])
      BY <2>0 DEF FieldKept
    <2>6. work[t].row # Same
      BY <2>2, <2>4, <2>5, WrittenRowType, StoreAssumption
    <2>7. policies'[req[t].uid] = work[t].row
      BY <2>0, <2>1, <2>2, <2>6 DEF Commit
    <2>8. WrittenRow(req[t], policies[req[t].uid]) =
             [policies[req[t].uid] EXCEPT ![req[t].field] = req[t].value]
      BY <2>3 DEF WrittenRow
    <2> QED BY <2>5, <2>7, <2>8
  <1> QED BY <1>1, <1>2, AloneInit, PTL DEF Spec, UpdateTouchesOneField
================================================================================
