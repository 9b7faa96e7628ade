------------------------------ MODULE PolicyStore ------------------------------
(***************************************************************************)
(* The policy service of cipol (PolicyCore.java) over its H2 database.     *)
(*                                                                         *)
(* Every public operation of PolicyCore is one transaction: a sequence of  *)
(* SQL statements (SQL.java) on the connection of the servlet thread that  *)
(* serves the request, then a commit, or a rollback when the operation     *)
(* throws.  Threads interleave between any two statements.  The database   *)
(* is H2 with MVCC=true (DataSourceConfig.java:27): a statement sees what  *)
(* was committed when it starts and what its own transaction wrote; a      *)
(* statement that would touch a row or a unique key another open           *)
(* transaction has written waits for that transaction to end, or fails     *)
(* when the lock times out.                                                *)
(*                                                                         *)
(* The rulesets, rule definitions and rule parameters of a policy are only *)
(* ever read, or deleted together with it, by PolicyCore: the tables       *)
(* RULESET and RULEDEF are one set of uids and PARAM another.              *)
(***************************************************************************)
EXTENDS Policies, FiniteSets

CONSTANTS
    Threads,        \* servlet threads
    Same            \* the transaction has not written the row

ASSUME StoreAssumption ==
    /\ EmptyDesc \in Descs \ Long
    /\ NoName \notin Names
    /\ NoName \in Blank
    /\ Trim \in [Names -> Names]
    /\ Absent \notin Rows /\ Same \notin Rows /\ Absent # Same
    /\ SetsOf \in [Uids -> Seq(RuleSets)]
    /\ \A u \in Uids : SeedPolicies[u] = Absent => SetsOf[u] = <<>>
    /\ RulesIn \in [RuleSets -> Seq(Rules)]
    /\ SeedPolicies \in [Uids -> Rows \cup {Absent}]
    /\ \A u \in Uids : SeedPolicies[u] # Absent => Fits(SeedPolicies[u])
    /\ SeedGroups \subseteq {u \in Uids : SeedPolicies[u] # Absent} \X (Groups \ Long)
    /\ \A u, v \in Uids :
          /\ u # v
          /\ SeedPolicies[u] # Absent
          /\ SeedPolicies[v] # Absent
          => SeedPolicies[u].name # SeedPolicies[v].name

VARIABLES
    policies,       \* POLICY: [Uids -> Rows or Absent]
    groups,         \* GROUPS: set of <<uid, group>>
    ruled,          \* RULESET, RULEDEF: the uids whose rules are stored
    params,         \* PARAM: the uids whose rule parameters are stored
    known,          \* the uids a client can have been given (history)
    req,            \* the request each thread serves
    pc,             \* the next statement of each thread
    work,           \* what the transaction of each thread wrote
    read,           \* the Policy object loadPolicy is building
    answer          \* the outcome of the thread's last request

database == <<policies, groups, ruled, params, known>>
session  == <<req, pc, work, read, answer>>
vars     == <<policies, groups, ruled, params, known,
              req, pc, work, read, answer>>

--------------------------------------------------------------------------------
(* The writes of a transaction and the object being loaded.                 *)

(* row: the row of POLICY it wrote (Absent: deleted); added, removed: its   *)
(* rows of GROUPS; params: it deleted the parameters of the rules.          *)
Works  == [row : Rows \cup {Absent, Same}, added : SUBSET Groups,
           removed : SUBSET Groups, params : BOOLEAN]
NoWork == [row |-> Same, added |-> {}, removed |-> {}, params |-> FALSE]

(* todo: the nested queries loadPolicy has still to run, depth first.       *)
Queries == ({"rules"} \X RuleSets) \cup ({"params"} \X Rules)
Reads   == [row : Rows \cup {Absent}, groups : SUBSET Groups,
            rulesets : SUBSET RuleSets, rules : SUBSET Rules,
            params : SUBSET Rules, todo : Seq(Queries)]
NoRead  == [row |-> Absent, groups |-> {}, rulesets |-> {}, rules |-> {},
            params |-> {}, todo |-> <<>>]

Outcomes == {"none", "ok", "notFound", "duplicate", "groupExists", "error", "lost"}
Labels   == {"idle", "insert", "find", "groups", "rulesets", "details", "update",
             "removeParams", "removeGroups", "deletePolicy", "check",
             "insertGroup", "deleteGroup", "list", "commit"}

(* The operators marked "Wrong:" are what the code must not do.  Next uses   *)
(* none of them: each shows that a property below can fail.                 *)

(* The first statement of each operation.                                   *)
FirstStatement(op) ==
    IF op \in {"create", "import"} THEN "insert"
    ELSE IF op = "delete" THEN "removeParams"
    ELSE IF op \in {"update", "load"} THEN "find"
    ELSE IF op \in {"groupCreate", "groupDelete"} THEN "check"
    ELSE "list"

--------------------------------------------------------------------------------
(* What a statement sees, and whom it waits for.                            *)

VisibleRow(t) == IF work[t].row = Same THEN policies[req[t].uid] ELSE work[t].row

VisibleGroups(t) == {g \in Groups : <<req[t].uid, g>> \in groups}

(* PARAM_REMOVE_ALL_FOR_POLICY, of a transaction that wrote w, finds rules   *)
(* and parameters: its subquery joins RULESET and RULEDEF, whose rows are   *)
(* gone once POLICY_DELETE has cascaded in the same transaction.            *)
ParamsFound(t, w) ==
    req[t].uid \in params /\ req[t].uid \in ruled /\ w.row # Absent

(* Another policy, as this transaction sees the table, has the name n.      *)
NameTaken(t, n) == \E u \in Uids \ {req[t].uid} : HasName(policies[u], n)

(* Wrong: a statement does not wait for the writer of the row.              *)
RowConflictIgnored(t, s) == FALSE

(* The open transaction of s has written the row of t's policy.             *)
RowConflict(t, s) == work[s].row # Same /\ req[s].uid = req[t].uid

(* Wrong: the name is only checked against what is committed.               *)
NameConflictIgnored(t, s, n) == FALSE

(* The open transaction of s takes the name n or gives it up.               *)
NameConflict(t, s, n) ==
    /\ work[s].row # Same
    /\ req[s].uid # req[t].uid
    /\ HasName(work[s].row, n) \/ HasName(policies[req[s].uid], n)

(* The open transaction of s has added or removed one of the groups G.      *)
GroupConflict(t, s, G) ==
    G \cap (work[s].added \cup work[s].removed) # {} /\ req[s].uid = req[t].uid

(* The statement t is about to run must wait for the transaction of s.      *)
WaitsFor(t, s) ==
    \/ /\ pc[t] = "insert"
       /\ NameConflict(t, s, InsertedName(req[t]))
    \/ /\ pc[t] = "update" /\ VisibleRow(t) # Absent
       /\ Fits(WrittenRow(req[t], read[t].row))
       /\ \/ RowConflict(t, s)
          \/ NameConflict(t, s, WrittenRow(req[t], read[t].row).name)
    \/ /\ pc[t] = "removeParams" /\ ParamsFound(t, work[t])
       /\ work[s].params /\ req[s].uid = req[t].uid
    \/ /\ pc[t] = "removeGroups"
       /\ GroupConflict(t, s, VisibleGroups(t))
    \/ /\ pc[t] = "deletePolicy" /\ VisibleRow(t) # Absent
       /\ RowConflict(t, s)
    \/ /\ pc[t] = "insertGroup"
       /\ GroupConflict(t, s, {req[t].group})
    \/ /\ pc[t] = "deleteGroup"
       /\ GroupConflict(t, s, {req[t].group} \cap VisibleGroups(t))

Holders(t) == {s \in Threads \ {t} : WaitsFor(t, s)}

--------------------------------------------------------------------------------
(* The end of a request.                                                    *)

(* The thread answers and is free; it keeps nothing of the request.         *)
Finish(t, a) ==
    /\ pc'     = [pc EXCEPT ![t] = "idle"]
    /\ req'    = [req EXCEPT ![t] = NoRequest]
    /\ work'   = [work EXCEPT ![t] = NoWork]
    /\ read'   = [read EXCEPT ![t] = NoRead]
    /\ answer' = [answer EXCEPT ![t] = a]

(* Wrong: the exception reaches the client and the transaction stays open.  *)
FailWithoutRollback(t, outcome) ==
    /\ pc'     = [pc EXCEPT ![t] = "idle"]
    /\ req'    = [req EXCEPT ![t] = NoRequest]
    /\ read'   = [read EXCEPT ![t] = NoRead]
    /\ answer' = [answer EXCEPT ![t] = [kind |-> outcome]]
    /\ UNCHANGED <<work, database>>

(* The operation throws: the transaction is rolled back.                    *)
Fail(t, outcome) == Finish(t, [kind |-> outcome]) /\ UNCHANGED database

(* The statement is done; l is the next one.                                *)
Advance(t, l) == pc' = [pc EXCEPT ![t] = l] /\ UNCHANGED <<req, answer, database>>

Write(t, w) == work' = [work EXCEPT ![t] = w] /\ UNCHANGED read
Read(t, r)  == read' = [read EXCEPT ![t] = r] /\ UNCHANGED work

--------------------------------------------------------------------------------
(* A request arrives.                                                       *)

(* UUID.randomUUID: a uid nobody has, nor is about to get.                  *)
Fresh == {u \in Uids \ known :
             \A t \in Threads : req[t].op \in {"create", "import"} => req[t].uid # u}

Begin(t, r) ==
    /\ pc[t] = "idle"
    /\ r.op \in Ops
    /\ r.op \in {"create", "import"} => r.uid \in Fresh
    /\ r.op \notin {"create", "import", "list"} => r.uid \in known
    /\ req'    = [req EXCEPT ![t] = r]
    /\ pc'     = [pc EXCEPT ![t] = FirstStatement(r.op)]
    /\ answer' = [answer EXCEPT ![t] = [kind |-> "none"]]
    /\ UNCHANGED <<work, read, database>>

--------------------------------------------------------------------------------
(* createPolicy, importPolicy: POLICY_CREATE.                               *)

(* Wrong: createPolicy commits by itself within importPolicy.               *)
InsertPolicyAutocommit(t) ==
    /\ pc[t] = "insert" /\ Holders(t) = {}
    /\ Fits(InsertedRow(req[t])) /\ ~NameTaken(t, InsertedRow(req[t]).name)
    /\ policies' = [policies EXCEPT ![req[t].uid] = InsertedRow(req[t])]
    /\ pc' = [pc EXCEPT ![t] = IF req[t].op = "create" THEN "commit" ELSE "find"]
    /\ UNCHANGED <<groups, ruled, params, known, req, work, read, answer>>

InsertPolicy(t) ==
    /\ pc[t] = "insert" /\ Holders(t) = {}
    /\ Fits(InsertedRow(req[t])) /\ ~NameTaken(t, InsertedRow(req[t]).name)
    /\ Write(t, [work[t] EXCEPT !.row = InsertedRow(req[t])])
    /\ Advance(t, IF req[t].op = "create" THEN "commit" ELSE "find")

(* Wrong: a name another transaction is about to take is refused at once.   *)
RefuseNameDirty(t) ==
    /\ pc[t] = "insert"
    /\ LET n == InsertedName(req[t]) IN
          \/ NameTaken(t, n)
          \/ \E s \in Threads \ {t} : HasName(work[s].row, n)
    /\ Fail(t, "duplicate")

(* UQ_POLICY_NAME: the DuplicateKeyException is not caught.                 *)
RefuseName(t) ==
    /\ pc[t] = "insert" /\ Holders(t) = {}
    /\ NameTaken(t, InsertedName(req[t]))
    /\ Fail(t, "duplicate")

--------------------------------------------------------------------------------
(* loadPolicy, also called by updatePolicy within its own transaction:      *)
(* POLICY_FIND_BY_UID, then the nested queries of the row mapper.           *)

AfterLoad(op) == IF op = "load" THEN "commit" ELSE "update"

(* Wrong: the query locks the row (SELECT FOR UPDATE).                      *)
FindPolicyForUpdate(t) ==
    /\ pc[t] = "find"
    /\ VisibleRow(t) # Absent
    /\ \A s \in Threads \ {t} : ~RowConflict(t, s)
    /\ read' = [read EXCEPT ![t].row = VisibleRow(t)]
    /\ work' = [work EXCEPT ![t].row = VisibleRow(t)]
    /\ Advance(t, "groups")

FindPolicy(t) ==
    /\ pc[t] = "find"
    /\ VisibleRow(t) # Absent
    /\ Read(t, [read[t] EXCEPT !.row = VisibleRow(t)])
    /\ Advance(t, "groups")

ReadGroups(t) ==
    /\ pc[t] = "groups"
    /\ Read(t, [read[t] EXCEPT !.groups = VisibleGroups(t)])
    /\ Advance(t, "rulesets")

ReadRuleSets(t) ==
    LET found == IF req[t].uid \in ruled THEN SetsOf[req[t].uid] ELSE <<>>
        todo  == [i \in DOMAIN found |-> <<"rules", found[i]>>]
    IN  /\ pc[t] = "rulesets"
        /\ Read(t, [read[t] EXCEPT !.rulesets = Elements(found), !.todo = todo])
        /\ Advance(t, IF todo = <<>> THEN AfterLoad(req[t].op) ELSE "details")

(* RULEDEF_FIND_BY_RULESET: the parameters of each rule come next.          *)
ReadRules(t) ==
    LET s     == Head(read[t].todo)[2]
        found == IF req[t].uid \in ruled THEN RulesIn[s] ELSE <<>>
        todo  == [i \in DOMAIN found |-> <<"params", found[i]>>] \o Tail(read[t].todo)
    IN  /\ pc[t] = "details" /\ read[t].todo # <<>>
        /\ Head(read[t].todo)[1] = "rules"
        /\ Read(t, [read[t] EXCEPT !.rules = @ \cup Elements(found), !.todo = todo])
        /\ Advance(t, IF todo = <<>> THEN AfterLoad(req[t].op) ELSE "details")

(* PARAM_FIND_BY_CATEGORY_AND_REFERENCE.                                    *)
ReadParams(t) ==
    LET r     == Head(read[t].todo)[2]
        found == IF req[t].uid \in params THEN {r} ELSE {}
        todo  == Tail(read[t].todo)
    IN  /\ pc[t] = "details" /\ read[t].todo # <<>>
        /\ Head(read[t].todo)[1] = "params"
        /\ Read(t, [read[t] EXCEPT !.params = @ \cup found, !.todo = todo])
        /\ Advance(t, IF todo = <<>> THEN AfterLoad(req[t].op) ELSE "details")

(* PolicyNotFoundException, from loadPolicy or from checkPolicyExists.      *)
PolicyNotFound(t) ==
    /\ pc[t] \in {"find", "check"}
    /\ VisibleRow(t) = Absent
    /\ Fail(t, "notFound")

--------------------------------------------------------------------------------
(* updatePolicy: POLICY_UPDATE; no row updated is not an error.             *)

(* Wrong: nothing is answered when no row is updated.                       *)
UpdatePolicyMustExist(t) ==
    LET row == WrittenRow(req[t], read[t].row)
    IN  /\ pc[t] = "update" /\ Holders(t) = {}
        /\ VisibleRow(t) # Absent
        /\ Fits(row) /\ ~NameTaken(t, row.name)
        /\ Write(t, [work[t] EXCEPT !.row = row])
        /\ Advance(t, "commit")

UpdatePolicy(t) ==
    LET row == WrittenRow(req[t], read[t].row)
    IN  /\ pc[t] = "update" /\ Holders(t) = {}
        /\ IF VisibleRow(t) = Absent
           THEN UNCHANGED <<work, read>>
           ELSE /\ Fits(row) /\ ~NameTaken(t, row.name)
                /\ Write(t, [work[t] EXCEPT !.row = row])
        /\ Advance(t, "commit")

RefuseRename(t) ==
    LET row == WrittenRow(req[t], read[t].row)
    IN  /\ pc[t] = "update" /\ Holders(t) = {}
        /\ VisibleRow(t) # Absent
        /\ Fits(row) /\ NameTaken(t, row.name)
        /\ Fail(t, "duplicate")

--------------------------------------------------------------------------------
(* deletePolicy: parameters, groups, then the policy, whose rulesets and    *)
(* rule definitions follow by the ON DELETE CASCADE of their foreign keys.  *)

(* Wrong: the parameters are deleted in a transaction of their own.         *)
RemoveParamsAutocommit(t) ==
    /\ pc[t] = "removeParams" /\ Holders(t) = {}
    /\ params' = params \ {req[t].uid}
    /\ pc' = [pc EXCEPT ![t] = "removeGroups"]
    /\ UNCHANGED <<policies, groups, ruled, known, req, work, read, answer>>

(* Wrong: deletePolicy forgets GROUP_REMOVE_ALL.                            *)
RemoveParamsOnly(t) ==
    /\ pc[t] = "removeParams" /\ Holders(t) = {}
    /\ Write(t, [work[t] EXCEPT !.params = ParamsFound(t, work[t])])
    /\ Advance(t, "deletePolicy")

(* Wrong: POLICY_DELETE comes first, and the cascade takes the rules that   *)
(* PARAM_REMOVE_ALL_FOR_POLICY looks for.                                   *)
RemoveParamsLast(t) ==
    LET w == IF VisibleRow(t) = Absent THEN work[t] ELSE [work[t] EXCEPT !.row = Absent]
    IN  /\ pc[t] = "removeParams" /\ Holders(t) = {}
        /\ Write(t, [w EXCEPT !.params = ParamsFound(t, w)])
        /\ Advance(t, "removeGroups")

RemoveParams(t) ==
    /\ pc[t] = "removeParams" /\ Holders(t) = {}
    /\ Write(t, [work[t] EXCEPT !.params = ParamsFound(t, work[t])])
    /\ Advance(t, "removeGroups")

RemoveGroups(t) ==
    /\ pc[t] = "removeGroups" /\ Holders(t) = {}
    /\ Write(t, [work[t] EXCEPT !.removed = VisibleGroups(t)])
    /\ Advance(t, "deletePolicy")

DeletePolicy(t) ==
    /\ pc[t] = "deletePolicy" /\ Holders(t) = {}
    /\ Write(t, IF VisibleRow(t) = Absent THEN work[t]
                ELSE [work[t] EXCEPT !.row = Absent])
    /\ Advance(t, "commit")

--------------------------------------------------------------------------------
(* groupCreate, groupDelete.                                                *)

(* Wrong: the check locks the policy (SELECT FOR UPDATE).                   *)
CheckPolicyForUpdate(t) ==
    /\ pc[t] = "check"
    /\ VisibleRow(t) # Absent
    /\ \A s \in Threads \ {t} : ~RowConflict(t, s)
    /\ Write(t, [work[t] EXCEPT !.row = VisibleRow(t)])
    /\ Advance(t, IF req[t].op = "groupCreate" THEN "insertGroup" ELSE "deleteGroup")

CheckPolicy(t) ==
    /\ pc[t] = "check"
    /\ VisibleRow(t) # Absent
    /\ UNCHANGED <<work, read>>
    /\ Advance(t, IF req[t].op = "groupCreate" THEN "insertGroup" ELSE "deleteGroup")

InsertGroup(t) ==
    /\ pc[t] = "insertGroup" /\ Holders(t) = {}
    /\ req[t].group \notin VisibleGroups(t) /\ req[t].group \notin Long
    /\ Write(t, [work[t] EXCEPT !.added = {req[t].group}])
    /\ Advance(t, "commit")

(* Wrong: a group another transaction is about to create exists already.    *)
RefuseGroupDirty(t) ==
    /\ pc[t] = "insertGroup"
    /\ \/ req[t].group \in VisibleGroups(t)
       \/ \E s \in Threads \ {t} : req[t].group \in work[s].added
    /\ Fail(t, "groupExists")

(* PolicyGroupAlreadyExistsException.                                       *)
RefuseGroup(t) ==
    /\ pc[t] = "insertGroup" /\ Holders(t) = {}
    /\ req[t].group \in VisibleGroups(t)
    /\ Fail(t, "groupExists")

DeleteGroup(t) ==
    /\ pc[t] = "deleteGroup" /\ Holders(t) = {}
    /\ Write(t, [work[t] EXCEPT !.removed = {req[t].group} \cap VisibleGroups(t)])
    /\ Advance(t, "commit")

--------------------------------------------------------------------------------
(* listPolicies: one query, nothing to commit.                              *)

ListPolicies(t) ==
    /\ pc[t] = "list"
    /\ Finish(t, [kind |-> "ok", listed |-> {u \in Uids : policies[u] # Absent}])
    /\ UNCHANGED database

(* A null name or a value longer than its column (init.sql:8-9, 18): H2     *)
(* refuses it before it looks at indexes or locks.                          *)
RefuseValue(t) ==
    /\ \/ pc[t] = "insert" /\ ~Fits(InsertedRow(req[t]))
       \/ /\ pc[t] = "update" /\ VisibleRow(t) # Absent
          /\ ~Fits(WrittenRow(req[t], read[t].row))
       \/ pc[t] = "insertGroup" /\ req[t].group \in Long
    /\ Fail(t, "error")

(* The transaction manager commits and the answer goes out.                 *)
Commit(t) ==
    LET u == req[t].uid
        w == work[t]
    IN  /\ pc[t] = "commit"
        /\ policies' = IF w.row = Same THEN policies ELSE [policies EXCEPT ![u] = w.row]
        /\ groups'   = (groups \ ({u} \X w.removed)) \cup ({u} \X w.added)
        /\ ruled'    = IF w.row = Absent THEN ruled \ {u} ELSE ruled
        /\ params'   = IF w.params THEN params \ {u} ELSE params
        /\ known'    = known \cup {u}
        /\ Finish(t, IF req[t].op = "load"
                     THEN [kind |-> "ok", uid |-> u, policy |-> read[t]]
                     ELSE [kind |-> "ok"])

(* H2 gives up waiting for a lock: the statement throws.                    *)
LockTimeout(t) == Holders(t) # {} /\ Fail(t, "error")

(* The server stops: what was not committed is gone when it starts again.   *)
Crash ==
    /\ \E t \in Threads : pc[t] # "idle"
    /\ pc'     = [t \in Threads |-> "idle"]
    /\ req'    = [t \in Threads |-> NoRequest]
    /\ work'   = [t \in Threads |-> NoWork]
    /\ read'   = [t \in Threads |-> NoRead]
    /\ answer' = [t \in Threads |-> IF pc[t] = "idle" THEN answer[t]
                                    ELSE [kind |-> "lost"]]
    /\ UNCHANGED database

--------------------------------------------------------------------------------
Init ==
    /\ policies = SeedPolicies
    /\ groups   = SeedGroups
    /\ ruled    = {u \in Uids : SeedPolicies[u] # Absent}
    /\ params   = {u \in Uids : SeedPolicies[u] # Absent}
    /\ known    = {u \in Uids : SeedPolicies[u] # Absent}
    /\ pc       = [t \in Threads |-> "idle"]
    /\ req      = [t \in Threads |-> NoRequest]
    /\ work     = [t \in Threads |-> NoWork]
    /\ read     = [t \in Threads |-> NoRead]
    /\ answer   = [t \in Threads |-> [kind |-> "none"]]

(* One statement of the request thread t is serving.                        *)
Step(t) ==
    \/ InsertPolicy(t) \/ RefuseName(t) \/ RefuseValue(t)
    \/ FindPolicy(t) \/ ReadGroups(t) \/ ReadRuleSets(t) \/ ReadRules(t)
    \/ ReadParams(t) \/ PolicyNotFound(t)
    \/ UpdatePolicy(t) \/ RefuseRename(t)
    \/ RemoveParams(t) \/ RemoveGroups(t) \/ DeletePolicy(t)
    \/ CheckPolicy(t) \/ InsertGroup(t) \/ RefuseGroup(t) \/ DeleteGroup(t)
    \/ ListPolicies(t)
    \/ Commit(t)

Next ==
    \/ \E t \in Threads : (\E r \in Requests : Begin(t, r)) \/ Step(t) \/ LockTimeout(t)
    \/ Crash

(* A thread that serves a request goes on until it has answered: the server *)
(* schedules it, and while its statement waits the lock timer of H2 runs.   *)
(* No request need ever come, and the server need never stop.               *)
Fairness == \A t \in Threads : WF_vars(Step(t) \/ LockTimeout(t))

Spec == Init /\ [][Next]_vars /\ Fairness

--------------------------------------------------------------------------------
(* Properties.                                                              *)

(* The statements the operation op goes through.                            *)
StatementOf(op, l) ==
    \/ op \in {"create", "import"} /\ l = "insert"
    \/ op \in {"import", "update", "load"} /\ l \in {"find", "groups", "rulesets", "details"}
    \/ op \in {"import", "update"} /\ l = "update"
    \/ op = "delete" /\ l \in {"removeParams", "removeGroups", "deletePolicy"}
    \/ op \in {"groupCreate", "groupDelete"} /\ l = "check"
    \/ op = "groupCreate" /\ l = "insertGroup"
    \/ op = "groupDelete" /\ l = "deleteGroup"
    \/ op = "list" /\ l = "list"
    \/ op \notin {"list", "none"} /\ l = "commit"
    \/ op = "none" /\ l = "idle"

Answers == [kind : Outcomes]
           \cup [kind : {"ok"}, listed : SUBSET Uids]
           \cup [kind : {"ok"}, uid : Uids, policy : Reads]

(* Type invariant.  Each thread is at a statement of the request it serves, *)
(* and a thread that serves none holds no uncommitted write (a rollback or  *)
(* a commit released them all) and no half-read policy.                     *)
TypeOK ==
    /\ policies \in [Uids -> Rows \cup {Absent}]
    /\ groups \in SUBSET (Uids \X Groups)
    /\ ruled \in SUBSET Uids /\ params \in SUBSET Uids /\ known \in SUBSET Uids
    /\ req \in [Threads -> Requests \cup {NoRequest}]
    /\ pc \in [Threads -> Labels]
    /\ work \in [Threads -> Works]
    /\ read \in [Threads -> Reads]
    /\ answer \in [Threads -> Answers]
    /\ \A t \in Threads :
          /\ StatementOf(req[t].op, pc[t])
          /\ pc[t] = "idle" => work[t] = NoWork /\ read[t] = NoRead

(* No two policies ever have the same name (UQ_POLICY_NAME, init.sql:11),   *)
(* however creations, imports, renamings and deletions overlap.             *)
UniqueNames ==
    \A u, v \in Uids : u # v /\ policies[u] # Absent /\ policies[v] # Absent
                        => policies[u].name # policies[v].name

(* The rulesets, the rules and the parameters of a policy are there exactly *)
(* as long as the policy: deletePolicy (PolicyCore.java:98-110) removes the *)
(* parameters, which no foreign key protects, with the rules, and no delete *)
(* that is rolled back removes any of them.                                 *)
RulesFollowPolicy ==
    /\ ruled = {u \in Uids : SeedPolicies[u] # Absent /\ policies[u] # Absent}
    /\ params = ruled

(* A policy that was deleted never comes back: an update (PolicyCore.java:  *)
(* 124) that read the policy before the deletion finds no row to write.     *)
DeletedStaysDeleted ==
    [][\A u \in known : policies[u] = Absent => policies'[u] = Absent]_vars

(* Nobody sees half an import (PolicyCore.java:63-77): a policy appears     *)
(* with its final name and its description, both at once.                   *)
ImportIsWhole ==
    [][\A u \in Uids : policies[u] = Absent /\ policies'[u] # Absent =>
         \E t \in Threads :
            /\ req[t].op \in {"create", "import"} /\ req[t].uid = u
            /\ policies'[u] = CreatedRow(req[t])
      ]_vars

(* loadPolicy (PolicyCore.java:178-275) reads a policy with many queries of *)
(* one read-committed transaction.  What it returned has every ruleset,     *)
(* every rule and every parameter of the policy, unless the policy has been *)
(* deleted since the first query.                                           *)
LoadedWhole ==
    \A t \in Threads : "policy" \in DOMAIN answer[t] =>
        LET u == answer[t].uid
            p == answer[t].policy
        IN  policies[u] # Absent =>
               p.rulesets = SetIds(u) /\ p.rules = RuleIds(u) /\ p.params = RuleIds(u)

(* Lock waits never form a circle: in any set of requests one waits for     *)
(* nobody in the set, so that no lock has to time out for the others to go  *)
(* on.  All operations take their locks in the same order.                  *)
NoDeadlock ==
    \A S \in SUBSET {t \in Threads : Holders(t) # {}} :
        S # {} => \E t \in S : Holders(t) \cap S = {}

(* Every stored group belongs to a policy that exists: deletePolicy removes *)
(* the groups and groupCreate first checks the policy (PolicyCore.java:     *)
(* 104-107, 139-140).  GROUPS has no foreign key that would say so.         *)
NoOrphanGroups == \A row \in groups : policies[row[1]] # Absent

(* updatePolicy(uid, field, value) (PolicyCore.java:116-130) changes that   *)
(* field and leaves the other one as it is when the change takes effect.    *)
UpdateTouchesOneField ==
    [][\A t \in Threads :
         LET u == req[t].uid IN
            /\ req[t].op = "update" /\ pc[t] = "commit"
            /\ pc'[t] = "idle" /\ answer'[t].kind = "ok"
            /\ policies[u] # Absent
            => policies'[u] = [policies[u] EXCEPT ![req[t].field] = req[t].value]
      ]_vars

(* The registry PolicyStore implements: an operation has found its policy    *)
(* once the first query is done, and has looked once it knows the groups.   *)
Looked(t) ==
    \/ req[t].op = "load" /\ pc[t] \in {"rulesets", "details", "commit"}
    \/ req[t].op = "delete" /\ pc[t] \in {"deletePolicy", "commit"}
    \/ req[t].op = "groupDelete" /\ pc[t] = "commit"

Found(t) ==
    \/ req[t].op = "update" /\ pc[t] # "find"
    \/ req[t].op = "load" /\ pc[t] = "groups"
    \/ req[t].op = "groupCreate" /\ pc[t] # "check"
    \/ pc[t] = "deleteGroup"

StageOf(t) == IF pc[t] = "idle" THEN "free"
              ELSE IF Looked(t) THEN "looked"
              ELSE IF Found(t) THEN "found"
              ELSE "asked"

SeenOf(t) == [row    |-> IF req[t].op \in {"update", "load"} THEN read[t].row ELSE Absent,
              groups |-> IF req[t].op = "load" THEN read[t].groups ELSE work[t].removed]

Reg == INSTANCE PolicyRegistry
           WITH Clients <- Threads,
                stage   <- [t \in Threads |-> StageOf(t)],
                seen    <- [t \in Threads |-> SeenOf(t)]

(* The operations of PolicyCore take effect one at a time, each in the step *)
(* its transaction commits (PolicyCore.java:63-292), and are refused only   *)
(* for what is stored: the statements before and the locks show in nothing  *)
(* but the age of what an operation has read.                               *)
ImplementsRegistry == Reg!RSpec

(* Every request is answered, whatever the others do.                       *)
EveryRequestEnds == \A t \in Threads : pc[t] # "idle" ~> pc[t] = "idle"
================================================================================
