--------------------------- MODULE PolicyStoreProofs ---------------------------
(* Theorems about PolicyStore, for any number of threads, policies, names    *)
(* and groups.                                                               *)
EXTENDS PolicyStore, TLAPS

--------------------------------------------------------------------------------
(* What a request is made of.                                                *)

LEMMA RequestFields ==
    ASSUME NEW r \in Requests
    PROVE  /\ r.op \in {"create", "import", "update", "groupCreate", "groupDelete",
                        "delete", "load", "list"}
           /\ r.op # "list" => r.uid \in Uids
           /\ r.op = "create" => r.name \in Names
           /\ r.op = "import" => /\ r.proposed \in Names \cup {NoName}
                                 /\ r.name \in Names \cup {NoName}
                                 /\ r.description \in Descs
           /\ r.op = "update" => \/ r.field = "name" /\ r.value \in Names
                                 \/ r.field = "description" /\ r.value \in Descs
           /\ r.op \in {"groupCreate", "groupDelete"} => r.group \in Groups
  BY DEF Requests, CreateRequests, ImportRequests, UpdateRequests, GroupRequests,
         UidRequests, ListRequests

(* Which operation the thread serves can be read off the statement it is at. *)
LEMMA OperationAt ==
    ASSUME TypeOK, NEW t \in Threads, pc[t] # "idle"
    PROVE  /\ req[t] \in Requests
           /\ pc[t] = "insert" => req[t].op \in {"create", "import"}
           /\ pc[t] \in {"find", "groups", "rulesets", "details"}
                 => req[t].op \in {"import", "update", "load"}
           /\ pc[t] = "update" => req[t].op \in {"import", "update"}
           /\ pc[t] \in {"removeParams", "removeGroups", "deletePolicy"}
                 => req[t].op = "delete"
           /\ pc[t] = "check" => req[t].op \in {"groupCreate", "groupDelete"}
           /\ pc[t] = "insertGroup" => req[t].op = "groupCreate"
           /\ pc[t] = "deleteGroup" => req[t].op = "groupDelete"
           /\ pc[t] = "list" => req[t].op = "list"
           /\ pc[t] # "list" => req[t].op # "list"
           /\ pc[t] # "list" => req[t].uid \in Uids
  <1>1. req[t] \in Requests \cup {NoRequest} /\ StatementOf(req[t].op, pc[t])
    BY DEF TypeOK
  <1>2. req[t] \in Requests
    BY <1>1 DEF StatementOf, NoRequest
  <1> QED BY <1>1, <1>2, RequestFields DEF StatementOf

(* Replacing one part of what a transaction wrote or read.                   *)
LEMMA WorkUpdates ==
    ASSUME NEW w \in Works
    PROVE  /\ \A row \in Rows \cup {Absent, Same} : [w EXCEPT !.row = row] \in Works
           /\ \A G \in SUBSET Groups : [w EXCEPT !.added = G] \in Works
           /\ \A G \in SUBSET Groups : [w EXCEPT !.removed = G] \in Works
           /\ \A b \in BOOLEAN : [w EXCEPT !.params = b] \in Works
  BY DEF Works

LEMMA ReadUpdates ==
    ASSUME NEW p \in Reads
    PROVE  /\ \A row \in Rows \cup {Absent} : [p EXCEPT !.row = row] \in Reads
           /\ \A G \in SUBSET Groups : [p EXCEPT !.groups = G] \in Reads
           /\ \A S \in SUBSET RuleSets, todo \in Seq(Queries) :
                 [p EXCEPT !.rulesets = S, !.todo = todo] \in Reads
           /\ \A R \in SUBSET Rules, todo \in Seq(Queries) :
                 [p EXCEPT !.rules = p.rules \cup R, !.todo = todo] \in Reads
           /\ \A R \in SUBSET Rules, todo \in Seq(Queries) :
                 [p EXCEPT !.params = p.params \cup R, !.todo = todo] \in Reads
  BY DEF Reads

LEMMA InsertedNameType ==
    ASSUME NEW r \in Requests, r.op \in {"create", "import"}
    PROVE  InsertedName(r) \in Names \cup {NoName}
  BY RequestFields, StoreAssumption DEF InsertedName

LEMMA WrittenRowType ==
    ASSUME NEW r \in Requests, r.op \in {"import", "update"}, NEW row \in Rows
    PROVE  WrittenRow(r, row) \in Rows
  BY RequestFields DEF WrittenRow, Rows

--------------------------------------------------------------------------------
(* TypeOK after the two ways a step ends: on to the next statement, or with  *)
(* an answer.                                                                *)

LEMMA AdvanceTypeOK ==
    ASSUME TypeOK, NEW t \in Threads, NEW l,
           StatementOf(req[t].op, l), l \in Labels \ {"idle"},
           Advance(t, l),
           NEW w \in Works, work' = [work EXCEPT ![t] = w],
           NEW r \in Reads, read' = [read EXCEPT ![t] = r]
    PROVE  TypeOK'
  BY DEF TypeOK, Advance, database

LEMMA FinishTypeOK ==
    ASSUME TypeOK, NEW t \in Threads, NEW a \in Answers, Finish(t, a),
           policies' \in [Uids -> Rows \cup {Absent}],
           groups' \in SUBSET (Uids \X Groups),
           ruled' \in SUBSET Uids, params' \in SUBSET Uids, known' \in SUBSET Uids
    PROVE  TypeOK'
  <1>1. NoWork \in Works BY DEF NoWork, Works
  <1>2. NoRead \in Reads BY DEF NoRead, Reads
  <1>3. StatementOf(NoRequest.op, "idle") BY DEF StatementOf, NoRequest
  <1>4. /\ req' \in [Threads -> Requests \cup {NoRequest}]
        /\ pc' \in [Threads -> Labels]
        /\ work' \in [Threads -> Works]
        /\ read' \in [Threads -> Reads]
        /\ answer' \in [Threads -> Answers]
    BY <1>1, <1>2 DEF TypeOK, Finish, Labels
  <1>5. ASSUME NEW s \in Threads
        PROVE  /\ StatementOf(req'[s].op, pc'[s])
               /\ pc'[s] = "idle" => work'[s] = NoWork /\ read'[s] = NoRead
    BY <1>3 DEF TypeOK, Finish
  <1> QED BY <1>4, <1>5 DEF TypeOK

LEMMA FailTypeOK ==
    ASSUME TypeOK, NEW t \in Threads, NEW o \in Outcomes, Fail(t, o)
    PROVE  TypeOK'
  <1>1. [kind |-> o] \in Answers BY DEF Answers
  <1>2. Finish(t, [kind |-> o]) /\ UNCHANGED database BY DEF Fail
  <1> QED BY <1>1, <1>2, FinishTypeOK DEF TypeOK, database

(* The sequences of queries loadPolicy keeps are sequences of queries.       *)
LEMMA RuleTodo ==
    ASSUME NEW s \in Seq(RuleSets)
    PROVE  /\ [i \in DOMAIN s |-> <<"rules", s[i]>>] \in Seq(Queries)
           /\ Elements(s) \in SUBSET RuleSets
  BY DEF Queries, Elements

LEMMA ParamTodo ==
    ASSUME NEW q \in Seq(Rules), NEW rest \in Seq(Queries)
    PROVE  /\ [i \in DOMAIN q |-> <<"params", q[i]>>] \o rest \in Seq(Queries)
           /\ Elements(q) \in SUBSET Rules
  <1>1. [i \in DOMAIN q |-> <<"params", q[i]>>] \in Seq(Queries)
    BY DEF Queries
  <1>2. [i \in DOMAIN q |-> <<"params", q[i]>>] \o rest \in Seq(Queries)
    BY <1>1
  <1> QED BY <1>2 DEF Elements

LEMMA VisibleRowType ==
    ASSUME TypeOK, NEW t \in Threads, req[t].uid \in Uids
    PROVE  VisibleRow(t) \in Rows \cup {Absent}
  BY DEF VisibleRow, TypeOK, Works

(* A step that does not write and a step that does not read, as updates.     *)
LEMMA Unwritten ==
    ASSUME TypeOK, NEW t \in Threads
    PROVE  /\ work = [work EXCEPT ![t] = work[t]] /\ work[t] \in Works
           /\ read = [read EXCEPT ![t] = read[t]] /\ read[t] \in Reads
  BY DEF TypeOK

--------------------------------------------------------------------------------
(* TypeOK is preserved by every step of a request.                           *)

(* updatePolicy and importPolicy write a row they have read.                 *)
RowReadFirst ==
    \A t \in Threads :
        pc[t] \in {"groups", "rulesets", "details", "update"} => read[t].row \in Rows

LEMMA BeginTypeOK ==
    ASSUME TypeOK, NEW t \in Threads, NEW r \in Requests, Begin(t, r)
    PROVE  TypeOK'
  <1>1. /\ FirstStatement(r.op) \in Labels \ {"idle"}
        /\ StatementOf(r.op, FirstStatement(r.op))
    BY RequestFields DEF FirstStatement, StatementOf, Labels
  <1>2. [kind |-> "none"] \in Answers BY DEF Answers, Outcomes
  <1> QED BY <1>1, <1>2 DEF TypeOK, Begin, database

LEMMA CreateTypeOK ==
    ASSUME TypeOK, NEW t \in Threads,
           InsertPolicy(t) \/ RefuseName(t) \/ RefuseValue(t)
    PROVE  TypeOK'
  <1>1. CASE InsertPolicy(t)
    <2> DEFINE row == InsertedRow(req[t])
               l == IF req[t].op = "create" THEN "commit" ELSE "find"
    <2>1. req[t] \in Requests /\ req[t].op \in {"create", "import"}
      BY <1>1, OperationAt DEF InsertPolicy
    <2>2. row \in Rows
      BY <1>1, <2>1, InsertedNameType, StoreAssumption
      DEF InsertPolicy, InsertedRow, Fits, Rows
    <2>3. [work[t] EXCEPT !.row = row] \in Works
      BY <2>2, Unwritten, WorkUpdates
    <2>4. StatementOf(req[t].op, l) /\ l \in Labels \ {"idle"}
      BY <2>1 DEF StatementOf, Labels
    <2>5. /\ work' = [work EXCEPT ![t] = [work[t] EXCEPT !.row = row]]
          /\ read' = read /\ Advance(t, l)
      BY <1>1 DEF InsertPolicy, Write
    <2> QED BY <2>3, <2>4, <2>5, Unwritten, AdvanceTypeOK
  <1>2. CASE RefuseName(t)
    BY <1>2, FailTypeOK DEF RefuseName, Outcomes
  <1>3. CASE RefuseValue(t)
    BY <1>3, FailTypeOK DEF RefuseValue, Outcomes
  <1> QED BY <1>1, <1>2, <1>3

LEMMA LoadTypeOK ==
    ASSUME TypeOK, NEW t \in Threads,
           \/ FindPolicy(t) \/ ReadGroups(t) \/ ReadRuleSets(t) \/ ReadRules(t)
           \/ ReadParams(t) \/ PolicyNotFound(t)
    PROVE  TypeOK'
  <1>1. CASE FindPolicy(t)
    <2>1. req[t].op \in {"import", "update", "load"} /\ req[t].uid \in Uids
      BY <1>1, OperationAt DEF FindPolicy
    <2>2. VisibleRow(t) \in Rows \cup {Absent}
      BY <2>1, VisibleRowType
    <2>4. [read[t] EXCEPT !.row = VisibleRow(t)] \in Reads
      BY <2>2, Unwritten, ReadUpdates
    <2>3. StatementOf(req[t].op, "groups") /\ "groups" \in Labels \ {"idle"}
      BY <2>1 DEF StatementOf, Labels
    <2> QED BY <1>1, <2>3, <2>4, Unwritten, AdvanceTypeOK DEF FindPolicy, Read
  <1>2. CASE ReadGroups(t)
    <2>1. req[t].op \in {"import", "update", "load"}
      BY <1>2, OperationAt DEF ReadGroups
    <2>2. [read[t] EXCEPT !.groups = VisibleGroups(t)] \in Reads
      BY Unwritten, ReadUpdates DEF VisibleGroups
    <2>3. StatementOf(req[t].op, "rulesets") /\ "rulesets" \in Labels \ {"idle"}
      BY <2>1 DEF StatementOf, Labels
    <2> QED BY <1>2, <2>2, <2>3, Unwritten, AdvanceTypeOK DEF ReadGroups, Read
  <1>3. CASE ReadRuleSets(t)
    <2> DEFINE found == IF req[t].uid \in ruled THEN SetsOf[req[t].uid] ELSE <<>>
               todo  == [i \in DOMAIN found |-> <<"rules", found[i]>>]
               l     == IF todo = <<>> THEN AfterLoad(req[t].op) ELSE "details"
               r     == [read[t] EXCEPT !.rulesets = Elements(found), !.todo = todo]
    <2>1. req[t].op \in {"import", "update", "load"} /\ req[t].uid \in Uids
      BY <1>3, OperationAt DEF ReadRuleSets
    <2>2. found \in Seq(RuleSets)
      BY <2>1, StoreAssumption
    <2>3. todo \in Seq(Queries) /\ Elements(found) \in SUBSET RuleSets
      BY <2>2, RuleTodo
    <2>4. r \in Reads
      BY <2>3, Unwritten, ReadUpdates
    <2>5. StatementOf(req[t].op, l) /\ l \in Labels \ {"idle"}
      BY <2>1 DEF StatementOf, Labels, AfterLoad
    <2>6. read' = [read EXCEPT ![t] = r] /\ work' = work /\ Advance(t, l)
      BY <1>3 DEF ReadRuleSets, Read
    <2> QED BY <2>4, <2>5, <2>6, Unwritten, AdvanceTypeOK
  <1>4. CASE ReadRules(t)
    <2> DEFINE s     == Head(read[t].todo)[2]
               found == IF req[t].uid \in ruled THEN RulesIn[s] ELSE <<>>
               todo  == [i \in DOMAIN found |-> <<"params", found[i]>>]
                        \o Tail(read[t].todo)
               l     == IF todo = <<>> THEN AfterLoad(req[t].op) ELSE "details"
               r     == [read[t] EXCEPT !.rules = @ \cup Elements(found), !.todo = todo]
    <2>0. read[t].todo # <<>>
      BY <1>4 DEF ReadRules
    <2>1. req[t].op \in {"import", "update", "load"}
      BY <1>4, OperationAt DEF ReadRules
    <2>2. read[t] \in Reads /\ read[t].todo \in Seq(Queries)
      BY Unwritten DEF Reads
    <2>3. Head(read[t].todo) \in Queries /\ Tail(read[t].todo) \in Seq(Queries)
      BY <2>2, <2>0
    <2>4. s \in RuleSets
      BY <1>4, <2>3 DEF Queries, ReadRules
    <2>5. found \in Seq(Rules)
      BY <2>4, StoreAssumption
    <2>6. todo \in Seq(Queries) /\ Elements(found) \in SUBSET Rules
      BY <2>3, <2>5, ParamTodo
    <2>7. r \in Reads
      BY <2>2, <2>6, ReadUpdates
    <2>8. StatementOf(req[t].op, l) /\ l \in Labels \ {"idle"}
      BY <2>1 DEF StatementOf, Labels, AfterLoad
    <2>9. read' = [read EXCEPT ![t] = r] /\ work' = work /\ Advance(t, l)
      BY <1>4 DEF ReadRules, Read
    <2> QED BY <2>7, <2>8, <2>9, Unwritten, AdvanceTypeOK
  <1>5. CASE ReadParams(t)
    <2> DEFINE q     == Head(read[t].todo)[2]
               found == IF req[t].uid \in params THEN {q} ELSE {}
               todo  == Tail(read[t].todo)
               l     == IF todo = <<>> THEN AfterLoad(req[t].op) ELSE "details"
               r     == [read[t] EXCEPT !.params = @ \cup found, !.todo = todo]
    <2>0. read[t].todo # <<>>
      BY <1>5 DEF ReadParams
    <2>1. req[t].op \in {"import", "update", "load"}
      BY <1>5, OperationAt DEF ReadParams
    <2>2. read[t] \in Reads /\ read[t].todo \in Seq(Queries)
      BY Unwritten DEF Reads
    <2>3. Head(read[t].todo) \in Queries /\ todo \in Seq(Queries)
      BY <2>2, <2>0
    <2>4. found \in SUBSET Rules
      BY <1>5, <2>3 DEF Queries, ReadParams
    <2>5. r \in Reads
      BY <2>2, <2>3, <2>4, ReadUpdates
    <2>6. StatementOf(req[t].op, l) /\ l \in Labels \ {"idle"}
      BY <2>1 DEF StatementOf, Labels, AfterLoad
    <2>7. read' = [read EXCEPT ![t] = r] /\ work' = work /\ Advance(t, l)
      BY <1>5 DEF ReadParams, Read
    <2> QED BY <2>5, <2>6, <2>7, Unwritten, AdvanceTypeOK
  <1>6. CASE PolicyNotFound(t)
    BY <1>6, FailTypeOK DEF PolicyNotFound, Outcomes
  <1> QED BY <1>1, <1>2, <1>3, <1>4, <1>5, <1>6

LEMMA UpdateTypeOK ==
    ASSUME TypeOK, NEW t \in Threads, RowReadFirst, UpdatePolicy(t) \/ RefuseRename(t)
    PROVE  TypeOK'
  <1>1. CASE UpdatePolicy(t)
    <2> DEFINE row == WrittenRow(req[t], read[t].row)
    <2>1. pc[t] = "update" /\ pc[t] # "idle"
      BY <1>1 DEF UpdatePolicy
    <2>2. req[t] \in Requests /\ req[t].op \in {"import", "update"}
      BY <2>1, OperationAt
    <2>3. read[t].row \in Rows
      BY <2>1 DEF RowReadFirst
    <2>4. row \in Rows
      BY <2>2, <2>3, WrittenRowType
    <2>5. [work[t] EXCEPT !.row = row] \in Works
      BY <2>4, Unwritten, WorkUpdates
    <2>6. StatementOf(req[t].op, "commit") /\ "commit" \in Labels \ {"idle"}
      BY <2>2 DEF StatementOf, Labels
    <2>7. /\ \/ work' = work
             \/ work' = [work EXCEPT ![t] = [work[t] EXCEPT !.row = row]]
          /\ read' = read /\ Advance(t, "commit")
      BY <1>1 DEF UpdatePolicy, Write
    <2> QED BY <2>5, <2>6, <2>7, Unwritten, AdvanceTypeOK
  <1>2. CASE RefuseRename(t)
    BY <1>2, FailTypeOK DEF RefuseRename, Outcomes
  <1> QED BY <1>1, <1>2

LEMMA DeleteTypeOK ==
    ASSUME TypeOK, NEW t \in Threads,
           RemoveParams(t) \/ RemoveGroups(t) \/ DeletePolicy(t)
    PROVE  TypeOK'
  <1>1. pc[t] \in {"removeParams", "removeGroups", "deletePolicy"} /\ pc[t] # "idle"
    BY DEF RemoveParams, RemoveGroups, DeletePolicy
  <1>2. req[t].op = "delete"
    BY <1>1, OperationAt
  <1>3. \A l \in {"removeGroups", "deletePolicy", "commit"} :
           StatementOf(req[t].op, l) /\ l \in Labels \ {"idle"}
    BY <1>2 DEF StatementOf, Labels
  <1>4. \E w \in Works, l \in {"removeGroups", "deletePolicy", "commit"} :
           work' = [work EXCEPT ![t] = w] /\ read' = read /\ Advance(t, l)
    <2>1. CASE RemoveParams(t)
      <3> DEFINE b == ParamsFound(t, work[t])
                 w == [work[t] EXCEPT !.params = b]
      <3>0. b \in BOOLEAN
        BY DEF ParamsFound
      <3>1. w \in Works
        <4> HIDE DEF b
        <4> QED BY <3>0, Unwritten, WorkUpdates
      <3> QED BY <2>1, <3>1 DEF RemoveParams, Write
    <2>2. CASE RemoveGroups(t)
      <3> DEFINE w == [work[t] EXCEPT !.removed = VisibleGroups(t)]
      <3>1. w \in Works
        BY Unwritten, WorkUpdates DEF VisibleGroups
      <3> QED BY <2>2, <3>1 DEF RemoveGroups, Write
    <2>3. CASE DeletePolicy(t)
      <3>1. work[t] \in Works /\ [work[t] EXCEPT !.row = Absent] \in Works
        BY Unwritten, WorkUpdates
      <3> QED BY <2>3, <3>1 DEF DeletePolicy, Write
    <2> QED BY <2>1, <2>2, <2>3
  <1> QED BY <1>3, <1>4, Unwritten, AdvanceTypeOK

LEMMA GroupTypeOK ==
    ASSUME TypeOK, NEW t \in Threads,
           CheckPolicy(t) \/ InsertGroup(t) \/ RefuseGroup(t) \/ DeleteGroup(t)
    PROVE  TypeOK'
  <1>1. pc[t] \in {"check", "insertGroup", "deleteGroup"} /\ pc[t] # "idle"
    BY DEF CheckPolicy, InsertGroup, RefuseGroup, DeleteGroup
  <1>2. req[t].op \in {"groupCreate", "groupDelete"} /\ req[t].group \in Groups
    BY <1>1, OperationAt, RequestFields
  <1>3. CASE CheckPolicy(t)
    <2> DEFINE l == IF req[t].op = "groupCreate" THEN "insertGroup" ELSE "deleteGroup"
    <2>1. StatementOf(req[t].op, l) /\ l \in Labels \ {"idle"}
      BY <1>2 DEF StatementOf, Labels
    <2>2. work' = work /\ read' = read /\ Advance(t, l)
      BY <1>3 DEF CheckPolicy
    <2> QED BY <2>1, <2>2, Unwritten, AdvanceTypeOK
  <1>4. StatementOf(req[t].op, "commit") /\ "commit" \in Labels \ {"idle"}
    BY <1>2 DEF StatementOf, Labels
  <1>5. CASE InsertGroup(t)
    <2> DEFINE w == [work[t] EXCEPT !.added = {req[t].group}]
    <2>1. w \in Works
      BY <1>2, Unwritten, WorkUpdates
    <2>2. work' = [work EXCEPT ![t] = w] /\ read' = read /\ Advance(t, "commit")
      BY <1>5 DEF InsertGroup, Write
    <2> QED BY <1>4, <2>1, <2>2, Unwritten, AdvanceTypeOK
  <1>6. CASE DeleteGroup(t)
    <2> DEFINE w == [work[t] EXCEPT !.removed = {req[t].group} \cap VisibleGroups(t)]
    <2>1. w \in Works
      BY <1>2, Unwritten, WorkUpdates DEF VisibleGroups
    <2>2. work' = [work EXCEPT ![t] = w] /\ read' = read /\ Advance(t, "commit")
      BY <1>6 DEF DeleteGroup, Write
    <2> QED BY <1>4, <2>1, <2>2, Unwritten, AdvanceTypeOK
  <1>7. CASE RefuseGroup(t)
    BY <1>7, FailTypeOK DEF RefuseGroup, Outcomes
  <1> QED BY <1>3, <1>5, <1>6, <1>7

LEMMA CommitTypeOK ==
    ASSUME TypeOK, NEW t \in Threads, ListPolicies(t) \/ Commit(t)
    PROVE  TypeOK'
  <1>1. CASE ListPolicies(t)
    <2> DEFINE a == [kind |-> "ok", listed |-> {u \in Uids : policies[u] # Absent}]
    <2>1. a \in Answers
      BY DEF Answers
    <2>2. Finish(t, a) /\ UNCHANGED database
      BY <1>1 DEF ListPolicies
    <2> QED BY <2>1, <2>2, FinishTypeOK DEF TypeOK, database
  <1>2. CASE Commit(t)
    <2> DEFINE u == req[t].uid
               w == work[t]
               a == IF req[t].op = "load"
                    THEN [kind |-> "ok", uid |-> u, policy |-> read[t]]
                    ELSE [kind |-> "ok"]
    <2>1. pc[t] = "commit" /\ Finish(t, a)
      BY <1>2 DEF Commit
    <2>2. u \in Uids
      BY <2>1, OperationAt
    <2>3. w \in Works /\ read[t] \in Reads
      BY Unwritten
    <2>4. a \in Answers
      BY <2>2, <2>3 DEF Answers, Outcomes
    <2>5. policies' \in [Uids -> Rows \cup {Absent}]
      BY <1>2, <2>2, <2>3 DEF Commit, TypeOK, Works
    <2>6. groups' \in SUBSET (Uids \X Groups)
      <3>1. w.added \in SUBSET Groups
        BY <2>3 DEF Works
      <3>2. groups' = (groups \ ({u} \X w.removed)) \cup ({u} \X w.added)
        BY <1>2 DEF Commit
      <3>3. groups \in SUBSET (Uids \X Groups)
        BY DEF TypeOK
      <3> QED BY <2>2, <3>1, <3>2, <3>3
    <2>7. /\ ruled' \in SUBSET Uids /\ params' \in SUBSET Uids
          /\ known' \in SUBSET Uids
      BY <1>2, <2>2 DEF Commit, TypeOK
    <2> QED BY <2>1, <2>4, <2>5, <2>6, <2>7, FinishTypeOK
  <1> QED BY <1>1, <1>2

LEMMA CrashTypeOK ==
    ASSUME TypeOK, Crash
    PROVE  TypeOK'
  <1>1. NoWork \in Works /\ NoRead \in Reads /\ StatementOf(NoRequest.op, "idle")
    BY DEF NoWork, Works, NoRead, Reads, StatementOf, NoRequest
  <1>2. [kind |-> "lost"] \in Answers
    BY DEF Answers, Outcomes
  <1>3. answer' \in [Threads -> Answers]
    BY <1>2 DEF TypeOK, Crash
  <1> QED BY <1>1, <1>3 DEF TypeOK, Crash, database, Labels

--------------------------------------------------------------------------------
(* The rows that were read.                                                  *)

LEMMA RowReadFirstStep ==
    ASSUME TypeOK, RowReadFirst, NEW t \in Threads, Step(t)
    PROVE  RowReadFirst'
  <1> DEFINE Reading(l) == l \in {"groups", "rulesets", "details", "update"}
  <1>1. ASSUME NEW s \in Threads \ {t}
        PROVE  pc'[s] = pc[s] /\ read'[s] = read[s]
    BY DEF TypeOK, Step, InsertPolicy, RefuseName, RefuseValue, FindPolicy,
           ReadGroups, ReadRuleSets, ReadRules, ReadParams, PolicyNotFound,
           UpdatePolicy, RefuseRename, RemoveParams, RemoveGroups, DeletePolicy,
           CheckPolicy, InsertGroup, RefuseGroup, DeleteGroup, ListPolicies, Commit,
           Advance, Write, Read, Fail, Finish
  <1>2. ASSUME Reading(pc'[t]) PROVE read'[t].row \in Rows
    <2>1. CASE FindPolicy(t)
      <3>1. req[t].uid \in Uids
        BY <2>1, OperationAt DEF FindPolicy
      <3>2. VisibleRow(t) \in Rows
        BY <2>1, <3>1, VisibleRowType DEF FindPolicy
      <3>3. read[t] \in Reads /\ read'[t] = [read[t] EXCEPT !.row = VisibleRow(t)]
        BY <2>1 DEF FindPolicy, Read, TypeOK
      <3>4. read'[t].row = VisibleRow(t)
        BY <3>3 DEF Reads
      <3> QED BY <3>2, <3>4
    <2>2. CASE ReadGroups(t) \/ ReadRuleSets(t) \/ ReadRules(t) \/ ReadParams(t)
      <3>1. Reading(pc[t])
        BY <2>2 DEF ReadGroups, ReadRuleSets, ReadRules, ReadParams
      <3>2. read[t] \in Reads /\ t \in DOMAIN read
        BY DEF TypeOK
      <3>3. \A G, S, R, q :
               /\ [read[t] EXCEPT !.groups = G].row = read[t].row
               /\ [read[t] EXCEPT !.rulesets = S, !.todo = q].row = read[t].row
               /\ [read[t] EXCEPT !.rules = R, !.todo = q].row = read[t].row
               /\ [read[t] EXCEPT !.params = R, !.todo = q].row = read[t].row
        BY <3>2 DEF Reads
      <3>4. CASE ReadGroups(t)
        <4>1. PICK G : read' = [read EXCEPT ![t] = [read[t] EXCEPT !.groups = G]]
          BY <3>4 DEF ReadGroups, Read
        <4> QED BY <3>1, <3>2, <3>3, <4>1 DEF RowReadFirst
      <3>5. CASE ReadRuleSets(t)
        <4>1. PICK S, q :
                 read' = [read EXCEPT ![t] = [read[t] EXCEPT !.rulesets = S, !.todo = q]]
          BY <3>5 DEF ReadRuleSets, Read
        <4> QED BY <3>1, <3>2, <3>3, <4>1 DEF RowReadFirst
      <3>6. CASE ReadRules(t)
        <4>1. PICK R, q :
                 read' = [read EXCEPT ![t] = [read[t] EXCEPT !.rules = R, !.todo = q]]
          BY <3>6 DEF ReadRules, Read
        <4> QED BY <3>1, <3>2, <3>3, <4>1 DEF RowReadFirst
      <3>7. CASE ReadParams(t)
        <4>1. PICK R, q :
                 read' = [read EXCEPT ![t] = [read[t] EXCEPT !.params = R, !.todo = q]]
          BY <3>7 DEF ReadParams, Read
        <4> QED BY <3>1, <3>2, <3>3, <4>1 DEF RowReadFirst
      <3> QED BY <2>2, <3>4, <3>5, <3>6, <3>7
    <2>3. CASE ~(FindPolicy(t) \/ ReadGroups(t) \/ ReadRuleSets(t) \/ ReadRules(t)
                 \/ ReadParams(t))
      <3>1. pc'[t] \in {"idle", "commit", "find", "removeGroups", "deletePolicy",
                        "insertGroup", "deleteGroup"}
        BY <2>3 DEF TypeOK, Step, InsertPolicy, RefuseName, RefuseValue,
               PolicyNotFound, UpdatePolicy, RefuseRename, RemoveParams, RemoveGroups,
               DeletePolicy, CheckPolicy, InsertGroup, RefuseGroup, DeleteGroup,
               ListPolicies, Commit, Advance, Write, Fail, Finish
      <3> QED BY <1>2, <3>1
    <2> QED BY <2>1, <2>2, <2>3
  <1> QED BY <1>1, <1>2 DEF RowReadFirst

(* The type invariant with what it needs to be inductive.                    *)
TypeInv == TypeOK /\ RowReadFirst

LEMMA TypeInvInit == Init => TypeInv
  <1> SUFFICES ASSUME Init PROVE TypeInv
    OBVIOUS
  <1>1. /\ NoWork \in Works /\ NoRead \in Reads /\ StatementOf(NoRequest.op, "idle")
        /\ [kind |-> "none"] \in Answers
    BY DEF NoWork, Works, NoRead, Reads, StatementOf, NoRequest, Answers, Outcomes
  <1>2. TypeOK
    BY <1>1, StoreAssumption DEF Init, TypeOK, Labels
  <1>3. RowReadFirst
    BY DEF Init, RowReadFirst
  <1> QED BY <1>2, <1>3 DEF TypeInv

LEMMA TypeInvStep == TypeInv /\ [Next]_vars => TypeInv'
  <1> SUFFICES ASSUME TypeInv, [Next]_vars PROVE TypeInv'
    OBVIOUS
  <1>0. TypeOK /\ RowReadFirst
    BY DEF TypeInv
  <1>1. ASSUME NEW t \in Threads, NEW r \in Requests, Begin(t, r)
        PROVE  TypeInv'
    <2>1. RowReadFirst'
      BY <1>0, <1>1, RequestFields
      DEF RowReadFirst, Begin, FirstStatement, TypeOK, database
    <2> QED BY <1>0, <1>1, <2>1, BeginTypeOK DEF TypeInv
  <1>2. ASSUME NEW t \in Threads, Step(t)
        PROVE  TypeInv'
    <2>1. TypeOK'
      BY <1>0, <1>2, CreateTypeOK, LoadTypeOK, UpdateTypeOK, DeleteTypeOK, GroupTypeOK,
         CommitTypeOK DEF Step
    <2> QED BY <1>0, <1>2, <2>1, RowReadFirstStep DEF TypeInv
  <1>3. ASSUME NEW t \in Threads, LockTimeout(t)
        PROVE  TypeInv'
    <2>1. Fail(t, "error") /\ "error" \in Outcomes
      BY <1>3 DEF LockTimeout, Outcomes
    <2>2. RowReadFirst'
      BY <1>0, <2>1 DEF RowReadFirst, Fail, Finish, TypeOK
    <2> QED BY <1>0, <2>1, <2>2, FailTypeOK DEF TypeInv
  <1>4. CASE Crash
    <2>1. RowReadFirst'
      BY <1>4 DEF RowReadFirst, Crash
    <2> QED BY <1>0, <1>4, <2>1, CrashTypeOK DEF TypeInv
  <1>5. CASE UNCHANGED vars
    BY <1>0, <1>5 DEF TypeInv, TypeOK, RowReadFirst, vars
  <1> QED BY <1>1, <1>2, <1>3, <1>4, <1>5 DEF Next

(* Whatever requests come and however their transactions interleave, fail or *)
(* are cut short, the tables and the sessions keep their types, and a thread *)
(* that serves nothing holds no uncommitted write (PolicyCore.java).         *)
THEOREM TypeCorrect == Spec => []TypeOK
  <1>1. TypeInv => TypeOK
    BY DEF TypeInv
  <1> QED BY <1>1, TypeInvInit, TypeInvStep, PTL DEF Spec
================================================================================
