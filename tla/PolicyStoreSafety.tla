--------------------------- MODULE PolicyStoreSafety ---------------------------
(* The safety of PolicyStore, for any number of threads, policies, names and *)
(* groups: the inductive invariant and the theorems that follow from it.     *)
EXTENDS PolicyStoreProofs

--------------------------------------------------------------------------------
(* The inductive invariant.                                                  *)

Creating(t) == req[t].op \in {"create", "import"}
Acting(t)   == req[t].op \notin {"none", "list"}

(* A uid being created is nobody else's; every other request names a uid     *)
(* that was created before.                                                  *)
UidsApart ==
    /\ \A u \in Uids : policies[u] # Absent \/ SeedPolicies[u] # Absent => u \in known
    /\ \A t \in Threads :
          Acting(t) => (req[t].uid \in known <=> ~Creating(t))
    /\ \A s, t \in Threads :
          s # t /\ Creating(t) /\ Acting(s) => req[s].uid # req[t].uid

(* One transaction at a time writes the row of a policy; only deletePolicy   *)
(* deletes it, and last; only a policy that is stored is updated.            *)
RowsLocked ==
    /\ \A s, t \in Threads :
          s # t /\ work[s].row # Same /\ work[t].row # Same => req[s].uid # req[t].uid
    /\ \A t \in Threads :
          /\ work[t].row = Absent => req[t].op = "delete" /\ pc[t] = "commit"
          /\ work[t].row \in Rows =>
                \/ Creating(t)
                \/ req[t].op = "update" /\ policies[req[t].uid] # Absent

(* The name a transaction is about to give is nobody else's, neither in the  *)
(* table nor among those the other transactions are about to give.           *)
NamesLocked ==
    /\ \A t \in Threads, u \in Uids :
          work[t].row \in Rows /\ u # req[t].uid /\ policies[u] # Absent
          => policies[u].name # work[t].row.name
    /\ \A s, t \in Threads :
          s # t /\ work[s].row \in Rows /\ work[t].row \in Rows
          => work[s].row.name # work[t].row.name

(* A deletion past its first statement has removed the parameters, and is    *)
(* the only one to; at its end it has deleted the policy, unless another did.*)
ParamsLocked ==
    /\ \A t \in Threads :
          /\ work[t].params => req[t].op = "delete" /\ req[t].uid \in params
          /\ /\ req[t].op = "delete" /\ pc[t] # "removeParams"
             /\ req[t].uid \in params
             => work[t].params
          /\ /\ req[t].op = "delete" /\ pc[t] = "commit"
             /\ policies[req[t].uid] # Absent
             => work[t].row = Absent
    /\ \A s, t \in Threads :
          s # t /\ work[s].params /\ work[t].params => req[s].uid # req[t].uid

Inv == /\ TypeInv
       /\ UidsApart
       /\ RowsLocked
       /\ NamesLocked
       /\ ParamsLocked
       /\ UniqueNames
       /\ RulesFollowPolicy

--------------------------------------------------------------------------------
(* Facts about one step.                                                     *)

LEMMA WorkParts ==
    ASSUME NEW w \in Works, NEW x
    PROVE  /\ [w EXCEPT !.row = x].row = x /\ [w EXCEPT !.row = x].params = w.params
           /\ [w EXCEPT !.params = x].row = w.row /\ [w EXCEPT !.params = x].params = x
           /\ [w EXCEPT !.added = x].row = w.row
           /\ [w EXCEPT !.added = x].params = w.params
           /\ [w EXCEPT !.removed = x].row = w.row
           /\ [w EXCEPT !.removed = x].params = w.params
  BY DEF Works

(* A thread that acts has a uid; one with writes acts.                       *)
LEMMA ActingUid ==
    ASSUME TypeOK, NEW t \in Threads
    PROVE  /\ Acting(t) => req[t].uid \in Uids /\ pc[t] # "idle"
           /\ work[t].row # Same \/ work[t].params => pc[t] # "idle"
           /\ pc[t] \notin {"idle", "list"} => Acting(t)
           /\ work[t] \in Works
  <1>1. /\ req[t] \in Requests \cup {NoRequest} /\ StatementOf(req[t].op, pc[t])
        /\ pc[t] = "idle" => work[t] = NoWork
        /\ work[t] \in Works
    BY DEF TypeOK
  <1>2. Acting(t) => req[t] \in Requests
    BY <1>1 DEF Acting, NoRequest
  <1>3. Acting(t) => req[t].uid \in Uids
    BY <1>2, RequestFields DEF Acting
  <1>4. Acting(t) => pc[t] # "idle"
    BY <1>1 DEF Acting, StatementOf
  <1>5. pc[t] \notin {"idle", "list"} => Acting(t)
    BY <1>1 DEF Acting, StatementOf
  <1> QED BY <1>1, <1>3, <1>4, <1>5 DEF NoWork

--------------------------------------------------------------------------------
(* The invariant after each kind of step.                                    *)

(* A step that only reads, by a request other than a deletion.               *)
LEMMA ReadStep ==
    ASSUME Inv, TypeInv', NEW t \in Threads, NEW l, req[t].op # "delete",
           pc' = [pc EXCEPT ![t] = l], UNCHANGED <<database, req, work>>
    PROVE  Inv'
  <1>1. pc \in [Threads -> Labels]
    BY DEF Inv, TypeInv, TypeOK
  <1>2. \A s \in Threads : s # t => pc'[s] = pc[s]
    BY <1>1
  <1>3. UidsApart'
    BY DEF Inv, UidsApart, Acting, Creating, database
  <1>4. RowsLocked'
    BY <1>2 DEF Inv, RowsLocked, Creating, database
  <1>5. NamesLocked'
    BY DEF Inv, NamesLocked, database
  <1>6. ParamsLocked'
    BY <1>2 DEF Inv, ParamsLocked, database
  <1>7. UniqueNames' /\ RulesFollowPolicy'
    BY DEF Inv, UniqueNames, RulesFollowPolicy, database
  <1> QED BY <1>3, <1>4, <1>5, <1>6, <1>7 DEF Inv

(* A request that ends without a commit releases what it wrote.              *)
LEMMA ReleaseStep ==
    ASSUME Inv, TypeInv', NEW t \in Threads, NEW a, Finish(t, a), UNCHANGED database
    PROVE  Inv'
  <1>1. /\ \A s \in Threads : s # t => /\ pc'[s] = pc[s] /\ req'[s] = req[s]
                                      /\ work'[s] = work[s]
        /\ req'[t] = NoRequest /\ work'[t] = NoWork
    BY DEF Finish, Inv, TypeInv, TypeOK
  <1>2. /\ NoRequest.op = "none" /\ NoWork.row = Same /\ NoWork.params = FALSE
        /\ Same \notin Rows /\ Same # Absent
    BY StoreAssumption DEF NoRequest, NoWork
  <1>3. UidsApart'
    BY <1>1, <1>2 DEF Inv, UidsApart, Acting, Creating, database
  <1>4. RowsLocked'
    BY <1>1, <1>2 DEF Inv, RowsLocked, Creating, database
  <1>5. NamesLocked'
    BY <1>1, <1>2 DEF Inv, NamesLocked, database
  <1>6. ParamsLocked'
    BY <1>1, <1>2 DEF Inv, ParamsLocked, database
  <1>7. UniqueNames' /\ RulesFollowPolicy'
    BY DEF Inv, UniqueNames, RulesFollowPolicy, database
  <1> QED BY <1>3, <1>4, <1>5, <1>6, <1>7 DEF Inv

LEMMA CrashStep ==
    ASSUME Inv, TypeInv', Crash
    PROVE  Inv'
  <1>1. \A t \in Threads : req'[t] = NoRequest /\ work'[t] = NoWork
    BY DEF Crash
  <1>2. /\ NoRequest.op = "none" /\ NoWork.row = Same /\ NoWork.params = FALSE
        /\ Same \notin Rows /\ Same # Absent
    BY StoreAssumption DEF NoRequest, NoWork
  <1>3. UidsApart'
    BY <1>1, <1>2 DEF Inv, UidsApart, Acting, Creating, database, Crash
  <1>4. RowsLocked' /\ NamesLocked' /\ ParamsLocked'
    BY <1>1, <1>2 DEF RowsLocked, NamesLocked, ParamsLocked
  <1>5. UniqueNames' /\ RulesFollowPolicy'
    BY DEF Inv, UniqueNames, RulesFollowPolicy, database, Crash
  <1> QED BY <1>3, <1>4, <1>5 DEF Inv

LEMMA BeginStep ==
    ASSUME Inv, TypeInv', NEW t \in Threads, NEW r \in Requests, Begin(t, r)
    PROVE  Inv'
  <1>1. /\ \A s \in Threads : s # t => pc'[s] = pc[s] /\ req'[s] = req[s]
        /\ req'[t] = r /\ pc'[t] = FirstStatement(r.op)
        /\ work' = work /\ UNCHANGED database
    BY DEF Begin, Inv, TypeInv, TypeOK
  <1>2. work[t] = NoWork
    BY DEF Begin, Inv, TypeInv, TypeOK
  <1>3. /\ NoWork.row = Same /\ NoWork.params = FALSE
        /\ Same \notin Rows /\ Same # Absent
    BY StoreAssumption DEF NoWork
  <1>4. r.op # "list" => r.uid \in Uids
    BY RequestFields
  <1>5. UidsApart'
    <2>1. r.op \in {"create", "import"} =>
             r.uid \notin known /\ \A s \in Threads : Creating(s) => req[s].uid # r.uid
      BY DEF Begin, Fresh, Creating
    <2>2. r.op \notin {"create", "import", "list"} => r.uid \in known
      BY DEF Begin
    <2>3. r.op # "none"
      BY RequestFields
    <2>4. \A u \in Uids : policies'[u] # Absent \/ SeedPolicies[u] # Absent => u \in known'
      BY <1>1 DEF Inv, UidsApart, database
    <2>5. ASSUME NEW s \in Threads, Acting(s)'
          PROVE  (req[s].uid \in known)' <=> ~Creating(s)'
      BY <1>1, <2>1, <2>2, <2>3, <2>5 DEF Inv, UidsApart, database, Acting, Creating
    <2>6. ASSUME NEW p \in Threads, NEW q \in Threads, p # q, Creating(q)', Acting(p)'
          PROVE  req'[p].uid # req'[q].uid
      <3>1. CASE p # t /\ q # t
        BY <1>1, <2>6, <3>1 DEF Inv, UidsApart, Acting, Creating
      <3>2. CASE p = t
        BY <1>1, <2>1, <2>2, <2>6, <3>2 DEF Inv, UidsApart, Acting, Creating
      <3>3. CASE q = t
        BY <1>1, <2>1, <2>2, <2>6, <3>3 DEF Inv, UidsApart, Acting, Creating
      <3> QED BY <3>1, <3>2, <3>3
    <2> QED BY <2>4, <2>5, <2>6 DEF UidsApart
  <1>6. RowsLocked'
    BY <1>1, <1>2, <1>3 DEF Inv, RowsLocked, Creating, database
  <1>7. NamesLocked'
    BY <1>1, <1>2, <1>3 DEF Inv, NamesLocked, database
  <1>8. ParamsLocked'
    <2>1. r.op = "delete" => pc'[t] = "removeParams"
      BY <1>1 DEF FirstStatement
    <2> QED BY <1>1, <1>2, <1>3, <2>1 DEF Inv, ParamsLocked, database
  <1>9. UniqueNames' /\ RulesFollowPolicy'
    BY <1>1 DEF Inv, UniqueNames, RulesFollowPolicy, database
  <1> QED BY <1>5, <1>6, <1>7, <1>8, <1>9 DEF Inv

(* POLICY_CREATE and POLICY_UPDATE: the transaction takes the row and the    *)
(* name, which nobody else has or is about to have.                          *)
LEMMA GiveRowStep ==
    ASSUME Inv, TypeInv', NEW t \in Threads, NEW l, NEW row \in Rows,
           req[t].op # "delete", Acting(t),
           pc' = [pc EXCEPT ![t] = l], UNCHANGED <<database, req>>,
           work' = [work EXCEPT ![t] = [work[t] EXCEPT !.row = row]],
           Creating(t) \/ (req[t].op = "update" /\ policies[req[t].uid] # Absent),
           ~NameTaken(t, row.name),
           \A s \in Threads \ {t} :
              ~RowConflict(t, s) /\ ~NameConflict(t, s, row.name)
    PROVE  Inv'
  <1>1. /\ \A s \in Threads : s # t => pc'[s] = pc[s] /\ work'[s] = work[s]
        /\ work'[t].row = row /\ work'[t].params = work[t].params
    BY WorkParts DEF Inv, TypeInv, TypeOK
  <1>2. Same \notin Rows /\ Absent \notin Rows /\ Same # Absent
    BY StoreAssumption
  <1>3. UidsApart'
    BY DEF Inv, UidsApart, Acting, Creating, database
  <1>4. RowsLocked'
    BY <1>1, <1>2 DEF Inv, RowsLocked, Creating, database, RowConflict
  <1>5. NamesLocked'
    <2>1. ASSUME NEW u \in Uids, u # req[t].uid, policies[u] # Absent
          PROVE  policies[u].name # row.name
      BY <2>1 DEF NameTaken, HasName, Inv, TypeInv, TypeOK
    <2>2. ASSUME NEW s \in Threads, s # t, work[s].row \in Rows
          PROVE  work[s].row.name # row.name
      BY <1>2, <2>2 DEF RowConflict, NameConflict, HasName
    <2> QED BY <1>1, <2>1, <2>2 DEF Inv, NamesLocked, database
  <1>6. ParamsLocked'
    BY <1>1 DEF Inv, ParamsLocked, database
  <1>7. UniqueNames' /\ RulesFollowPolicy'
    BY DEF Inv, UniqueNames, RulesFollowPolicy, database
  <1> QED BY <1>3, <1>4, <1>5, <1>6, <1>7 DEF Inv

(* GROUP_REMOVE_ALL, POLICY_GROUP_CREATE, POLICY_GROUP_DELETE.               *)
LEMMA GroupWriteStep ==
    ASSUME Inv, TypeInv', NEW t \in Threads, NEW l, NEW w,
           req[t].op = "delete" => pc[t] # "removeParams" /\ l # "commit",
           pc[t] # "commit",
           pc' = [pc EXCEPT ![t] = l], UNCHANGED <<database, req>>,
           work' = [work EXCEPT ![t] = w],
           w.row = work[t].row, w.params = work[t].params
    PROVE  Inv'
  <1>1. /\ \A s \in Threads : s # t => pc'[s] = pc[s] /\ work'[s] = work[s]
        /\ \A s \in Threads : /\ work'[s].row = work[s].row
                               /\ work'[s].params = work[s].params
        /\ pc'[t] = l
    BY DEF Inv, TypeInv, TypeOK
  <1>2. UidsApart'
    BY DEF Inv, UidsApart, Acting, Creating, database
  <1>3. RowsLocked'
    BY <1>1 DEF Inv, RowsLocked, Creating, database
  <1>4. NamesLocked'
    BY <1>1 DEF Inv, NamesLocked, database
  <1>5. ParamsLocked'
    BY <1>1 DEF Inv, ParamsLocked, database
  <1>6. UniqueNames' /\ RulesFollowPolicy'
    BY DEF Inv, UniqueNames, RulesFollowPolicy, database
  <1> QED BY <1>2, <1>3, <1>4, <1>5, <1>6 DEF Inv

LEMMA RemoveParamsStep ==
    ASSUME Inv, TypeInv', NEW t \in Threads, RemoveParams(t)
    PROVE  Inv'
  <1> DEFINE b == ParamsFound(t, work[t])
  <1>1. /\ pc[t] = "removeParams" /\ Holders(t) = {}
        /\ work' = [work EXCEPT ![t] = [work[t] EXCEPT !.params = b]]
        /\ pc' = [pc EXCEPT ![t] = "removeGroups"]
        /\ UNCHANGED <<database, req>>
    BY DEF RemoveParams, Write, Advance, database
  <1>2. req[t].op = "delete"
    BY <1>1, OperationAt DEF Inv, TypeInv
  <1>3. /\ \A s \in Threads : s # t => pc'[s] = pc[s] /\ work'[s] = work[s]
        /\ work'[t].row = work[t].row /\ work'[t].params = b
        /\ pc'[t] = "removeGroups"
    BY <1>1, WorkParts DEF Inv, TypeInv, TypeOK
  <1>4. b => \A s \in Threads : s # t /\ work[s].params => req[s].uid # req[t].uid
    BY <1>1 DEF Holders, WaitsFor
  <1>5. b <=> req[t].uid \in params
    <2>1. work[t].row # Absent
      BY <1>1 DEF Inv, RowsLocked
    <2> QED BY <2>1 DEF ParamsFound, Inv, RulesFollowPolicy
  <1> HIDE DEF b
  <1>6. UidsApart'
    BY <1>1 DEF Inv, UidsApart, Acting, Creating, database
  <1>7. RowsLocked'
    <2>1. work[t].row # Absent
      BY <1>1 DEF Inv, RowsLocked
    <2>2. ASSUME NEW s \in Threads
          PROVE  work'[s].row = work[s].row /\ (pc'[s] = pc[s] \/ s = t)
      BY <1>3
    <2> QED BY <1>1, <1>3, <2>1, <2>2 DEF Inv, RowsLocked, Creating, database
  <1>8. NamesLocked'
    <2>1. \A s \in Threads : work'[s].row = work[s].row
      BY <1>3
    <2> QED BY <1>1, <2>1 DEF Inv, NamesLocked, database
  <1>9. ParamsLocked'
    <2>1. \A s \in Threads : req'[s] = req[s]
      BY <1>1
    <2>2. UNCHANGED <<params, policies>>
      BY <1>1 DEF database
    <2>3. ASSUME NEW s \in Threads
          PROVE  /\ work'[s].params => req'[s].op = "delete" /\ req'[s].uid \in params'
                 /\ /\ req'[s].op = "delete" /\ pc'[s] # "removeParams"
                    /\ req'[s].uid \in params'
                    => work'[s].params
                 /\ /\ req'[s].op = "delete" /\ pc'[s] = "commit"
                    /\ policies'[req'[s].uid] # Absent
                    => work'[s].row = Absent
      <3>1. CASE s # t
        BY <1>3, <2>1, <2>2, <3>1 DEF Inv, ParamsLocked
      <3>2. CASE s = t
        BY <1>2, <1>3, <1>5, <2>1, <2>2, <3>2
      <3> QED BY <3>1, <3>2
    <2>4. ASSUME NEW p \in Threads, NEW q \in Threads, p # q,
                 work'[p].params, work'[q].params
          PROVE  req'[p].uid # req'[q].uid
      <3>1. CASE p # t /\ q # t
        BY <1>3, <2>1, <2>4, <3>1 DEF Inv, ParamsLocked
      <3>2. CASE p = t \/ q = t
        BY <1>3, <1>4, <2>1, <2>4, <3>2
      <3> QED BY <3>1, <3>2
    <2> QED BY <2>3, <2>4 DEF ParamsLocked
  <1>10. UniqueNames' /\ RulesFollowPolicy'
    BY <1>1 DEF Inv, UniqueNames, RulesFollowPolicy, database
  <1> QED BY <1>6, <1>7, <1>8, <1>9, <1>10 DEF Inv

LEMMA DeletePolicyStep ==
    ASSUME Inv, TypeInv', NEW t \in Threads, DeletePolicy(t)
    PROVE  Inv'
  <1>1. /\ pc[t] = "deletePolicy" /\ Holders(t) = {}
        /\ work' = [work EXCEPT ![t] = IF VisibleRow(t) = Absent THEN work[t]
                                       ELSE [work[t] EXCEPT !.row = Absent]]
        /\ pc' = [pc EXCEPT ![t] = "commit"]
        /\ UNCHANGED <<database, req>>
    BY DEF DeletePolicy, Write, Advance, database
  <1>2. req[t].op = "delete" /\ req[t].uid \in Uids /\ ~Creating(t)
    BY <1>1, OperationAt DEF Inv, TypeInv, Creating
  <1>3. /\ work[t].row = Same /\ Absent # Same /\ Same \notin Rows
        /\ Absent \notin Rows
    BY <1>1, <1>2, StoreAssumption DEF Inv, TypeInv, TypeOK, Works, RowsLocked
  <1>4. VisibleRow(t) = policies[req[t].uid]
    BY <1>3 DEF VisibleRow
  <1>5. /\ \A s \in Threads : s # t => pc'[s] = pc[s] /\ work'[s] = work[s]
        /\ work'[t].params = work[t].params /\ pc'[t] = "commit"
        /\ policies[req[t].uid] = Absent => work'[t].row = Same
        /\ policies[req[t].uid] # Absent => work'[t].row = Absent
    BY <1>1, <1>3, <1>4, WorkParts DEF Inv, TypeInv, TypeOK
  <1>6. policies[req[t].uid] # Absent => \A s \in Threads \ {t} : ~RowConflict(t, s)
    BY <1>1, <1>4 DEF Holders, WaitsFor
  <1>7. UidsApart'
    BY <1>1 DEF Inv, UidsApart, Acting, Creating, database
  <1>8. RowsLocked'
    BY <1>1, <1>2, <1>3, <1>5, <1>6
    DEF Inv, RowsLocked, Creating, database, RowConflict
  <1>9. NamesLocked'
    BY <1>1, <1>3, <1>5 DEF Inv, NamesLocked, database
  <1>10. ParamsLocked'
    BY <1>1, <1>2, <1>5 DEF Inv, ParamsLocked, database
  <1>11. UniqueNames' /\ RulesFollowPolicy'
    BY <1>1 DEF Inv, UniqueNames, RulesFollowPolicy, database
  <1> QED BY <1>7, <1>8, <1>9, <1>10, <1>11 DEF Inv

LEMMA CommitStep ==
    ASSUME Inv, TypeInv', NEW t \in Threads, Commit(t)
    PROVE  Inv'
  <1> DEFINE u == req[t].uid
             w == work[t]
  <1>1. /\ pc[t] = "commit"
        /\ policies' = IF w.row = Same THEN policies ELSE [policies EXCEPT ![u] = w.row]
        /\ ruled' = IF w.row = Absent THEN ruled \ {u} ELSE ruled
        /\ params' = IF w.params THEN params \ {u} ELSE params
        /\ known' = known \cup {u}
    BY DEF Commit
  <1>2. /\ \A s \in Threads : s # t => /\ pc'[s] = pc[s] /\ req'[s] = req[s]
                                      /\ work'[s] = work[s]
        /\ req'[t] = NoRequest /\ work'[t] = NoWork
    BY DEF Commit, Finish, Inv, TypeInv, TypeOK
  <1>3. /\ NoRequest.op = "none" /\ NoWork.row = Same /\ NoWork.params = FALSE
        /\ Same \notin Rows /\ Same # Absent /\ Absent \notin Rows
    BY StoreAssumption DEF NoRequest, NoWork
  <1>4. /\ Acting(t) /\ u \in Uids
        /\ w.row \in Rows \cup {Absent, Same} /\ w.params \in BOOLEAN
    BY <1>1, ActingUid, OperationAt DEF Inv, TypeInv, Works
  <1>5. policies \in [Uids -> Rows \cup {Absent}]
    BY DEF Inv, TypeInv, TypeOK
  <1>6. /\ \A v \in Uids : v # u => policies'[v] = policies[v]
        /\ w.row = Same => policies'[u] = policies[u]
        /\ w.row # Same => policies'[u] = w.row
    BY <1>1, <1>4, <1>5
  <1> HIDE DEF u, w
  <1>7. /\ w.row = Absent => req[t].op = "delete"
        /\ w.row \in Rows => Creating(t) \/ policies[u] # Absent
        /\ \A s \in Threads : s # t /\ w.row # Same /\ work[s].row # Same
                               => req[s].uid # u
    BY DEF Inv, RowsLocked, u, w
  <1>8. UidsApart'
    <2>1. \A v \in Uids : policies'[v] # Absent \/ SeedPolicies[v] # Absent => v \in known'
      BY <1>1, <1>6 DEF Inv, UidsApart
    <2>2. ASSUME NEW s \in Threads, Acting(s)'
          PROVE  (req[s].uid \in known)' <=> ~Creating(s)'
      <3>1. s # t
        BY <1>2, <1>3, <2>2 DEF Acting
      <3>2. Creating(s) => req[s].uid # u
        BY <1>4, <3>1 DEF Inv, UidsApart, u
      <3> QED BY <1>1, <1>2, <2>2, <3>1, <3>2 DEF Inv, UidsApart, Acting, Creating
    <2>3. ASSUME NEW p \in Threads, NEW q \in Threads, p # q, Creating(q)', Acting(p)'
          PROVE  req'[p].uid # req'[q].uid
      <3>1. p # t /\ q # t
        BY <1>2, <1>3, <2>3 DEF Acting, Creating
      <3> QED BY <1>2, <2>3, <3>1 DEF Inv, UidsApart, Acting, Creating
    <2> QED BY <2>1, <2>2, <2>3 DEF UidsApart
  <1>9. RowsLocked'
    <2>1. ASSUME NEW p \in Threads, NEW q \in Threads, p # q,
                 work'[p].row # Same, work'[q].row # Same
          PROVE  req'[p].uid # req'[q].uid
      <3>1. p # t /\ q # t
        BY <1>2, <1>3, <2>1
      <3> QED BY <1>2, <2>1, <3>1 DEF Inv, RowsLocked
    <2>2. ASSUME NEW s \in Threads
          PROVE  /\ work'[s].row = Absent => req'[s].op = "delete" /\ pc'[s] = "commit"
                 /\ work'[s].row \in Rows =>
                      \/ Creating(s)'
                      \/ req'[s].op = "update" /\ policies'[req'[s].uid] # Absent
      <3>1. CASE s = t
        BY <1>2, <1>3, <3>1
      <3>2. CASE s # t
        <4>1. /\ work'[s] = work[s] /\ req'[s] = req[s] /\ pc'[s] = pc[s]
          BY <1>2, <3>2
        <4>2. ASSUME work[s].row \in Rows, ~Creating(s)
              PROVE  policies'[req[s].uid] # Absent
          <5>1. policies[req[s].uid] # Absent /\ req[s].op = "update"
            BY <4>2 DEF Inv, RowsLocked
          <5>2. req[s].uid \in Uids
            BY <5>1, ActingUid DEF Inv, TypeInv, Acting
          <5>3. req[s].uid = u => w.row = Same
            BY <1>3, <1>7, <3>2, <4>2
          <5> QED BY <1>6, <5>1, <5>2, <5>3
        <4> QED BY <4>1, <4>2 DEF Inv, RowsLocked, Creating
      <3> QED BY <3>1, <3>2
    <2> QED BY <2>1, <2>2 DEF RowsLocked
  <1>10. NamesLocked'
    <2>1. ASSUME NEW s \in Threads, NEW v \in Uids, work'[s].row \in Rows,
                 v # req'[s].uid, policies'[v] # Absent
          PROVE  policies'[v].name # work'[s].row.name
      <3>1. s # t /\ work'[s] = work[s] /\ req'[s] = req[s]
        BY <1>2, <1>3, <2>1
      <3>2. CASE v # u \/ w.row = Same
        BY <1>6, <2>1, <3>1, <3>2 DEF Inv, NamesLocked
      <3>3. CASE v = u /\ w.row # Same
        BY <1>4, <1>6, <2>1, <3>1, <3>3 DEF Inv, NamesLocked, w
      <3> QED BY <3>2, <3>3
    <2>2. ASSUME NEW p \in Threads, NEW q \in Threads, p # q,
                 work'[p].row \in Rows, work'[q].row \in Rows
          PROVE  work'[p].row.name # work'[q].row.name
      <3>1. p # t /\ q # t
        BY <1>2, <1>3, <2>2
      <3> QED BY <1>2, <2>2, <3>1 DEF Inv, NamesLocked
    <2> QED BY <2>1, <2>2 DEF NamesLocked
  <1>11. ParamsLocked'
    <2>1. \A s \in Threads : s # t /\ work[s].params /\ w.params => req[s].uid # u
      BY DEF Inv, ParamsLocked, u, w
    <2>2. ASSUME NEW s \in Threads
          PROVE  /\ work'[s].params => req'[s].op = "delete" /\ req'[s].uid \in params'
                 /\ /\ req'[s].op = "delete" /\ pc'[s] # "removeParams"
                    /\ req'[s].uid \in params'
                    => work'[s].params
                 /\ /\ req'[s].op = "delete" /\ pc'[s] = "commit"
                    /\ policies'[req'[s].uid] # Absent
                    => work'[s].row = Absent
      <3>1. CASE s = t
        BY <1>2, <1>3, <3>1
      <3>2. CASE s # t
        <4>1. /\ work'[s] = work[s] /\ req'[s] = req[s] /\ pc'[s] = pc[s]
          BY <1>2, <3>2
        <4>2. ASSUME req[s].op = "delete", policies'[req[s].uid] # Absent
              PROVE  policies[req[s].uid] # Absent
          <5>1. Acting(s) /\ ~Creating(s)
            BY <4>2 DEF Acting, Creating
          <5>2. req[s].uid \in Uids /\ req[s].uid \in known
            BY <5>1, ActingUid DEF Inv, TypeInv, UidsApart
          <5>3. CASE req[s].uid # u \/ w.row = Same
            BY <1>6, <4>2, <5>2, <5>3
          <5>4. CASE req[s].uid = u /\ w.row # Same
            <6>1. w.row \in Rows
              BY <1>4, <1>6, <4>2, <5>4
            <6>2. ~Creating(t)
              BY <1>4, <5>2, <5>4 DEF Inv, UidsApart, u
            <6> QED BY <1>7, <5>4, <6>1, <6>2
          <5> QED BY <5>3, <5>4
        <4> QED BY <1>1, <2>1, <3>2, <4>1, <4>2 DEF Inv, ParamsLocked
      <3> QED BY <3>1, <3>2
    <2>3. ASSUME NEW p \in Threads, NEW q \in Threads, p # q,
                 work'[p].params, work'[q].params
          PROVE  req'[p].uid # req'[q].uid
      <3>1. p # t /\ q # t
        BY <1>2, <1>3, <2>3
      <3> QED BY <1>2, <2>3, <3>1 DEF Inv, ParamsLocked
    <2> QED BY <2>2, <2>3 DEF ParamsLocked
  <1>12. UniqueNames'
    <2>1. ASSUME NEW v \in Uids, v # u, policies[v] # Absent, w.row \in Rows
          PROVE  policies[v].name # w.row.name
      BY <2>1 DEF Inv, NamesLocked, u, w
    <2> QED BY <1>4, <1>6, <2>1 DEF Inv, UniqueNames
  <1>13. RulesFollowPolicy'
    <2>1. params = ruled /\ ruled = {v \in Uids : SeedPolicies[v] # Absent /\ policies[v] # Absent}
      BY DEF Inv, RulesFollowPolicy
    <2>2. /\ w.params => req[t].op = "delete" /\ u \in params
          /\ req[t].op = "delete" /\ u \in params => w.params
          /\ req[t].op = "delete" /\ policies[u] # Absent => w.row = Absent
      BY <1>1 DEF Inv, ParamsLocked, u, w
    <2>3. CASE w.row = Absent
      BY <1>1, <1>3, <1>4, <1>6, <1>7, <2>1, <2>2, <2>3 DEF RulesFollowPolicy
    <2>4. CASE w.row \in Rows
      <3>1. req[t].op # "delete"
        BY <2>4 DEF Inv, RowsLocked, Creating, w
      <3>2. params' = params /\ ruled' = ruled
        BY <1>1, <1>3, <2>2, <2>4, <3>1
      <3>3. policies[u] # Absent \/ SeedPolicies[u] = Absent
        BY <1>4, <1>7, <2>4 DEF Inv, UidsApart, u
      <3> QED BY <1>3, <1>6, <2>1, <2>4, <3>2, <3>3 DEF RulesFollowPolicy
    <2>5. CASE w.row = Same
      <3>1. ~w.params
        BY <1>3, <1>4, <2>1, <2>2, <2>5
      <3>2. params' = params /\ ruled' = ruled /\ policies' = policies
        BY <1>1, <1>3, <2>5, <3>1
      <3> QED BY <2>1, <3>2 DEF RulesFollowPolicy
    <2> QED BY <1>4, <2>3, <2>4, <2>5
  <1> QED BY <1>8, <1>9, <1>10, <1>11, <1>12, <1>13 DEF Inv

--------------------------------------------------------------------------------
(* Every step of a request is of one of these kinds.                         *)

LEMMA FailStep ==
    ASSUME Inv, TypeInv', NEW t \in Threads, NEW o, Fail(t, o)
    PROVE  Inv'
  BY ReleaseStep DEF Fail

LEMMA CreateInv ==
    ASSUME Inv, TypeInv', NEW t \in Threads,
           InsertPolicy(t) \/ RefuseName(t) \/ RefuseValue(t)
    PROVE  Inv'
  <1>1. CASE InsertPolicy(t)
    <2> DEFINE row == InsertedRow(req[t])
               n == row.name
               l == IF req[t].op = "create" THEN "commit" ELSE "find"
    <2>1. /\ pc[t] = "insert" /\ Holders(t) = {} /\ Fits(row) /\ ~NameTaken(t, n)
          /\ work' = [work EXCEPT ![t] = [work[t] EXCEPT !.row = row]]
          /\ pc' = [pc EXCEPT ![t] = l] /\ UNCHANGED <<database, req>>
      BY <1>1 DEF InsertPolicy, Write, Advance, database
    <2>2. req[t] \in Requests /\ req[t].op \in {"create", "import"}
      BY <2>1, OperationAt DEF Inv, TypeInv
    <2>3. Acting(t) /\ Creating(t) /\ req[t].op # "delete"
      BY <2>2 DEF Acting, Creating
    <2>4. row \in Rows /\ row.name = InsertedName(req[t])
      BY <2>1, <2>2, InsertedNameType, StoreAssumption DEF InsertedRow, Fits, Rows
    <2>5. ASSUME NEW s \in Threads \ {t}
          PROVE  ~RowConflict(t, s) /\ ~NameConflict(t, s, n)
      <3>1. work[s].row # Same => Acting(s)
        <4>1. TypeOK /\ work[s] \in Works
          BY DEF Inv, TypeInv, TypeOK
        <4>2. work[s].row # Same => work[s].row \in Rows \/ work[s].row = Absent
          BY <4>1 DEF Works
        <4> QED BY <4>2 DEF Inv, RowsLocked, Acting, Creating
      <3>2. ~RowConflict(t, s)
        BY <2>3, <3>1 DEF RowConflict, Inv, UidsApart
      <3>3. ~NameConflict(t, s, n)
        BY <2>1, <2>4 DEF Holders, WaitsFor
      <3> QED BY <3>2, <3>3
    <2> HIDE DEF row, n, l
    <2>6. /\ ~NameTaken(t, row.name)
          /\ \A s \in Threads \ {t} : ~RowConflict(t, s) /\ ~NameConflict(t, s, row.name)
      <3>1. row.name = n
        BY DEF n
      <3> QED BY ONLY <2>1, <2>5, <3>1
    <2> QED BY <2>1, <2>3, <2>4, <2>6, GiveRowStep
  <1>2. CASE RefuseName(t) \/ RefuseValue(t)
    BY <1>2, FailStep DEF RefuseName, RefuseValue
  <1> QED BY <1>1, <1>2

LEMMA LoadInv ==
    ASSUME Inv, TypeInv', NEW t \in Threads,
           \/ FindPolicy(t) \/ ReadGroups(t) \/ ReadRuleSets(t) \/ ReadRules(t)
           \/ ReadParams(t) \/ PolicyNotFound(t)
    PROVE  Inv'
  <1>1. CASE PolicyNotFound(t)
    BY <1>1, FailStep DEF PolicyNotFound
  <1>2. CASE ~PolicyNotFound(t)
    <2>1. pc[t] \in {"find", "groups", "rulesets", "details"} /\ pc[t] # "idle"
      BY <1>2 DEF FindPolicy, ReadGroups, ReadRuleSets, ReadRules, ReadParams
    <2>2. req[t].op # "delete"
      BY <2>1, OperationAt DEF Inv, TypeInv
    <2>3. (\E l : pc' = [pc EXCEPT ![t] = l]) /\ UNCHANGED <<database, req, work>>
      BY <1>2 DEF FindPolicy, ReadGroups, ReadRuleSets, ReadRules, ReadParams, Read,
                  Advance, database
    <2> QED BY <2>2, <2>3, ReadStep
  <1> QED BY <1>1, <1>2

LEMMA UpdateInv ==
    ASSUME Inv, TypeInv', NEW t \in Threads, UpdatePolicy(t) \/ RefuseRename(t)
    PROVE  Inv'
  <1>1. CASE RefuseRename(t)
    BY <1>1, FailStep DEF RefuseRename
  <1>2. CASE UpdatePolicy(t)
    <2> DEFINE row == WrittenRow(req[t], read[t].row)
    <2>1. /\ pc[t] = "update" /\ Holders(t) = {}
          /\ pc' = [pc EXCEPT ![t] = "commit"] /\ UNCHANGED <<database, req>>
      BY <1>2 DEF UpdatePolicy, Advance, database
    <2>2. req[t] \in Requests /\ req[t].op \in {"import", "update"}
      BY <2>1, OperationAt DEF Inv, TypeInv
    <2>3. Acting(t) /\ req[t].op # "delete"
      BY <2>2 DEF Acting
    <2>4. row \in Rows
      BY <2>1, <2>2, WrittenRowType DEF Inv, TypeInv, RowReadFirst
    <2> HIDE DEF row
    <2>5. CASE VisibleRow(t) = Absent
      <3>1. work' = work
        BY <1>2, <2>5 DEF UpdatePolicy
      <3> QED BY <2>1, <2>3, <3>1, ReadStep
    <2>6. CASE VisibleRow(t) # Absent
      <3>1. /\ Fits(row) /\ ~NameTaken(t, row.name)
            /\ work' = [work EXCEPT ![t] = [work[t] EXCEPT !.row = row]]
        BY <1>2, <2>6 DEF UpdatePolicy, Write, row
      <3>2. \A s \in Threads \ {t} : ~RowConflict(t, s) /\ ~NameConflict(t, s, row.name)
        BY <2>1, <2>6, <3>1 DEF Holders, WaitsFor, row
      <3>3. Creating(t) \/ (req[t].op = "update" /\ policies[req[t].uid] # Absent)
        <4>1. work[t].row \in Rows \cup {Absent, Same}
          BY DEF Inv, TypeInv, TypeOK, Works
        <4>2. work[t].row # Absent
          BY <2>3 DEF Inv, RowsLocked
        <4>3. work[t].row = Same => policies[req[t].uid] # Absent
          BY <2>6 DEF VisibleRow
        <4>4. work[t].row \in Rows =>
                 Creating(t) \/ (req[t].op = "update" /\ policies[req[t].uid] # Absent)
          BY DEF Inv, RowsLocked
        <4>5. Creating(t) \/ req[t].op = "update"
          BY <2>2 DEF Creating
        <4> QED BY <4>1, <4>2, <4>3, <4>4, <4>5
      <3> QED BY <2>1, <2>3, <2>4, <3>1, <3>2, <3>3, GiveRowStep
    <2> QED BY <2>5, <2>6
  <1> QED BY <1>1, <1>2

LEMMA DeleteInv ==
    ASSUME Inv, TypeInv', NEW t \in Threads,
           RemoveParams(t) \/ RemoveGroups(t) \/ DeletePolicy(t)
    PROVE  Inv'
  <1>1. CASE RemoveGroups(t)
    <2> DEFINE w == [work[t] EXCEPT !.removed = VisibleGroups(t)]
    <2>1. /\ pc[t] = "removeGroups" /\ work' = [work EXCEPT ![t] = w]
          /\ pc' = [pc EXCEPT ![t] = "deletePolicy"] /\ UNCHANGED <<database, req>>
      BY <1>1 DEF RemoveGroups, Write, Advance, database
    <2>2. w.row = work[t].row /\ w.params = work[t].params
      BY WorkParts DEF Inv, TypeInv, TypeOK
    <2> HIDE DEF w
    <2> QED BY <2>1, <2>2, GroupWriteStep
  <1> QED BY <1>1, RemoveParamsStep, DeletePolicyStep

LEMMA GroupInv ==
    ASSUME Inv, TypeInv', NEW t \in Threads,
           CheckPolicy(t) \/ InsertGroup(t) \/ RefuseGroup(t) \/ DeleteGroup(t)
    PROVE  Inv'
  <1>1. pc[t] \in {"check", "insertGroup", "deleteGroup"} /\ pc[t] # "idle"
    BY DEF CheckPolicy, InsertGroup, RefuseGroup, DeleteGroup
  <1>2. req[t].op # "delete" /\ pc[t] # "commit"
    BY <1>1, OperationAt DEF Inv, TypeInv
  <1>3. CASE CheckPolicy(t)
    <2>1. (\E l : pc' = [pc EXCEPT ![t] = l]) /\ UNCHANGED <<database, req, work>>
      BY <1>3 DEF CheckPolicy, Advance, database
    <2> QED BY <1>2, <2>1, ReadStep
  <1>4. CASE RefuseGroup(t)
    BY <1>4, FailStep DEF RefuseGroup
  <1>5. CASE InsertGroup(t)
    <2> DEFINE w == [work[t] EXCEPT !.added = {req[t].group}]
    <2>1. /\ work' = [work EXCEPT ![t] = w] /\ pc' = [pc EXCEPT ![t] = "commit"]
          /\ UNCHANGED <<database, req>>
      BY <1>5 DEF InsertGroup, Write, Advance, database
    <2>2. w.row = work[t].row /\ w.params = work[t].params
      BY WorkParts DEF Inv, TypeInv, TypeOK
    <2> HIDE DEF w
    <2> QED BY <1>2, <2>1, <2>2, GroupWriteStep
  <1>6. CASE DeleteGroup(t)
    <2> DEFINE w == [work[t] EXCEPT !.removed = {req[t].group} \cap VisibleGroups(t)]
    <2>1. /\ work' = [work EXCEPT ![t] = w] /\ pc' = [pc EXCEPT ![t] = "commit"]
          /\ UNCHANGED <<database, req>>
      BY <1>6 DEF DeleteGroup, Write, Advance, database
    <2>2. w.row = work[t].row /\ w.params = work[t].params
      BY WorkParts DEF Inv, TypeInv, TypeOK
    <2> HIDE DEF w
    <2> QED BY <1>2, <2>1, <2>2, GroupWriteStep
  <1> QED BY <1>3, <1>4, <1>5, <1>6

--------------------------------------------------------------------------------
LEMMA InvInit == Init => Inv
  <1> SUFFICES ASSUME Init PROVE Inv
    OBVIOUS
  <1>1. TypeInv
    BY TypeInvInit
  <1>2. /\ NoRequest.op = "none" /\ NoWork.row = Same /\ NoWork.params = FALSE
        /\ Same \notin Rows /\ Same # Absent
    BY StoreAssumption DEF NoRequest, NoWork
  <1>3. UidsApart
    BY <1>2 DEF Init, UidsApart, Acting, Creating
  <1>4. RowsLocked /\ NamesLocked /\ ParamsLocked
    BY <1>2 DEF Init, RowsLocked, NamesLocked, ParamsLocked
  <1>5. UniqueNames /\ RulesFollowPolicy
    BY StoreAssumption DEF Init, UniqueNames, RulesFollowPolicy
  <1> QED BY <1>1, <1>3, <1>4, <1>5 DEF Inv

LEMMA InvStep == Inv /\ [Next]_vars => Inv'
  <1> SUFFICES ASSUME Inv, [Next]_vars PROVE Inv'
    OBVIOUS
  <1>1. TypeInv'
    BY TypeInvStep DEF Inv
  <1>2. ASSUME NEW t \in Threads, NEW r \in Requests, Begin(t, r)
        PROVE  Inv'
    BY <1>1, <1>2, BeginStep
  <1>3. ASSUME NEW t \in Threads, Step(t)
        PROVE  Inv'
    <2>1. CASE ListPolicies(t)
      BY <1>1, <2>1, ReleaseStep DEF ListPolicies
    <2>2. CASE Commit(t)
      BY <1>1, <2>2, CommitStep
    <2> QED BY <1>1, <1>3, <2>1, <2>2, CreateInv, LoadInv, UpdateInv, DeleteInv, GroupInv
            DEF Step
  <1>4. ASSUME NEW t \in Threads, LockTimeout(t)
        PROVE  Inv'
    BY <1>1, <1>4, FailStep DEF LockTimeout
  <1>5. CASE Crash
    BY <1>1, <1>5, CrashStep
  <1>6. CASE UNCHANGED vars
    BY <1>1, <1>6 DEF Inv, UidsApart, RowsLocked, NamesLocked, ParamsLocked, Acting,
                      Creating, UniqueNames, RulesFollowPolicy, vars
  <1> QED BY <1>2, <1>3, <1>4, <1>5, <1>6 DEF Next

(* A policy that a client knows and that is gone does not come back.         *)
LEMMA StaysDeleted ==
    ASSUME Inv, [Next]_vars, NEW u \in known, policies[u] = Absent
    PROVE  policies'[u] = Absent
  <1>1. u \in Uids
    BY DEF Inv, TypeInv, TypeOK
  <1>2. ASSUME NEW t \in Threads, Commit(t)
        PROVE  policies'[u] = Absent
    <2>1. /\ pc[t] = "commit"
          /\ policies' = IF work[t].row = Same THEN policies
                         ELSE [policies EXCEPT ![req[t].uid] = work[t].row]
      BY <1>2 DEF Commit
    <2>2. Acting(t) /\ work[t].row \in Rows \cup {Absent, Same}
      BY <2>1, ActingUid DEF Inv, TypeInv, Works
    <2>3. req[t].uid = u => work[t].row \notin Rows
      BY <2>2 DEF Inv, RowsLocked, UidsApart
    <2> QED BY <1>1, <2>1, <2>2, <2>3 DEF Inv, TypeInv, TypeOK
  <1>3. CASE \A t \in Threads : ~Commit(t)
    <2>1. policies' = policies
      BY <1>3 DEF Next, Step, Begin, InsertPolicy, RefuseName, RefuseValue,
             FindPolicy, ReadGroups, ReadRuleSets, ReadRules, ReadParams,
             PolicyNotFound, UpdatePolicy, RefuseRename, RemoveParams, RemoveGroups,
             DeletePolicy, CheckPolicy, InsertGroup, RefuseGroup, DeleteGroup,
             ListPolicies, LockTimeout, Crash, Advance, Write, Read, Fail, database, vars
    <2> QED BY <2>1
  <1> QED BY <1>2, <1>3

--------------------------------------------------------------------------------
(* However creations, imports, renamings and deletions overlap, fail or are  *)
(* cut short by a crash, no two stored policies have the same name           *)
(* (PolicyCore.java:82-130).                                                 *)
THEOREM NamesStayUnique == Spec => []UniqueNames
  <1>1. Inv => UniqueNames
    BY DEF Inv
  <1> QED BY <1>1, InvInit, InvStep, PTL DEF Spec

(* The rules and the parameters of a policy are stored exactly as long as    *)
(* the policy, in every interleaving (deletePolicy, PolicyCore.java:98-110). *)
THEOREM RulesFollow == Spec => []RulesFollowPolicy
  <1>1. Inv => RulesFollowPolicy
    BY DEF Inv
  <1> QED BY <1>1, InvInit, InvStep, PTL DEF Spec

(* No update, however late, brings a deleted policy back (updatePolicy,      *)
(* PolicyCore.java:116-130).                                                 *)
THEOREM DeletedForGood == Spec => DeletedStaysDeleted
  <1> DEFINE Kept == \A u \in known : policies[u] = Absent => policies'[u] = Absent
  <1>1. Inv /\ [Next]_vars => [Kept]_vars
    <2>1. ASSUME Inv, [Next]_vars, NEW u \in known, policies[u] = Absent
          PROVE  policies'[u] = Absent
      BY <2>1, StaysDeleted
    <2> QED BY <2>1
  <1> QED BY <1>1, InvInit, InvStep, PTL DEF Spec, DeletedStaysDeleted
================================================================================
