----------------------------- MODULE PolicyRegistry -----------------------------
(***************************************************************************)
(* What the policy service of cipol (PolicyCore.java) promises its clients, *)
(* whatever statements and locks it takes: a map from uids to rows and a   *)
(* set of groups, which a request changes in one step, when it succeeds.   *)
(*                                                                         *)
(* That step is not the whole operation.  PolicyCore first reads and later *)
(* writes what it read, and nothing keeps others from writing in between:  *)
(* the policy a request found may be gone, the row it loaded may be old,   *)
(* the groups it saw may not be all.  What a client has seen so far, and   *)
(* how far it has come, is therefore part of the promise: stage and seen.  *)
(***************************************************************************)
EXTENDS Policies

CONSTANT Clients

VARIABLES
    policies,       \* the row of each uid, or Absent
    groups,         \* the groups of all policies, as <<uid, group>>
    known,          \* the uids the registry ever gave out
    req,            \* the request of each client
    stage,          \* how far it has come
    seen,           \* the row and the groups it has seen
    answer          \* the answer to the last request

rvars == <<policies, groups, known, req, stage, seen, answer>>

(* asked: nothing is decided; found: the policy was there; looked: and its  *)
(* groups were these.                                                       *)
Stages == {"free", "asked", "found", "looked"}
Unseen == [row |-> Absent, groups |-> {}]

Stored(u)      == policies[u] # Absent
GroupsOf(u)    == {g \in Groups : <<u, g>> \in groups}
NameFree(u, n) == \A v \in Uids \ {u} : ~HasName(policies[v], n)

RInit ==
    /\ policies = SeedPolicies
    /\ groups   = SeedGroups
    /\ known    = {u \in Uids : SeedPolicies[u] # Absent}
    /\ req      = [c \in Clients |-> NoRequest]
    /\ stage    = [c \in Clients |-> "free"]
    /\ seen     = [c \in Clients |-> Unseen]
    /\ answer   = [c \in Clients |-> [kind |-> "none"]]

Release(c) ==
    /\ stage' = [stage EXCEPT ![c] = "free"]
    /\ req'   = [req EXCEPT ![c] = NoRequest]
    /\ seen'  = [seen EXCEPT ![c] = Unseen]

Reply(c, a) == Release(c) /\ answer' = [answer EXCEPT ![c] = a]

(* A creation asks for a uid no policy ever had, any other request for one  *)
(* the client was given.                                                    *)
Ask(c, r) ==
    /\ r.op \in Ops
    /\ r.op \in {"create", "import"} =>
          r.uid \notin known \cup
                    {req[d].uid : d \in {e \in Clients : req[e].op \in {"create", "import"}}}
    /\ r.op \notin {"create", "import", "list"} => r.uid \in known
    /\ req'    = [req EXCEPT ![c] = r]
    /\ stage'  = [stage EXCEPT ![c] = "asked"]
    /\ answer' = [answer EXCEPT ![c] = [kind |-> "none"]]
    /\ UNCHANGED <<policies, groups, known, seen>>

--------------------------------------------------------------------------------
(* What a request reads before it takes effect.                             *)

Find(c) ==
    /\ req[c].op \in {"update", "load", "groupCreate", "groupDelete"}
    /\ stage[c] = "asked"
    /\ Stored(req[c].uid)
    /\ stage' = [stage EXCEPT ![c] = "found"]
    /\ seen'  = IF req[c].op \in {"update", "load"}
                THEN [seen EXCEPT ![c].row = policies[req[c].uid]] ELSE seen
    /\ UNCHANGED <<policies, groups, known, req, answer>>

Look(c) ==
    /\ \/ req[c].op = "delete" /\ stage[c] = "asked"
       \/ req[c].op \in {"load", "groupDelete"} /\ stage[c] = "found"
    /\ stage' = [stage EXCEPT ![c] = "looked"]
    /\ seen'  = [seen EXCEPT ![c].groups =
                     IF req[c].op = "groupDelete"
                     THEN {req[c].group} \cap GroupsOf(req[c].uid) ELSE GroupsOf(req[c].uid)]
    /\ UNCHANGED <<policies, groups, known, req, answer>>

--------------------------------------------------------------------------------
(* The one step in which a request takes effect.                            *)

(* createPolicy, importPolicy: the policy is there, name and description.   *)
Create(c) ==
    LET r   == req[c]
        row == CreatedRow(r)
    IN  /\ r.op \in {"create", "import"} /\ stage[c] = "asked"
        /\ ~Stored(r.uid) /\ Fits(row) /\ NameFree(r.uid, row.name)
        /\ policies' = [policies EXCEPT ![r.uid] = row]
        /\ known' = known \cup {r.uid}
        /\ Reply(c, [kind |-> "ok"]) /\ UNCHANGED groups

(* updatePolicy: the row seen, with one field replaced; no row, no change.  *)
Update(c) ==
    LET r   == req[c]
        row == WrittenRow(r, seen[c].row)
    IN  /\ r.op = "update" /\ stage[c] = "found"
        /\ \/ ~Stored(r.uid) /\ UNCHANGED policies
           \/ /\ Stored(r.uid) /\ Fits(row) /\ NameFree(r.uid, row.name)
              /\ policies' = [policies EXCEPT ![r.uid] = row]
        /\ Reply(c, [kind |-> "ok"]) /\ UNCHANGED <<groups, known>>

(* deletePolicy: the policy and the groups seen.                            *)
Delete(c) ==
    LET u == req[c].uid
    IN  /\ req[c].op = "delete" /\ stage[c] = "looked"
        /\ policies' = [policies EXCEPT ![u] = Absent]
        /\ groups'   = groups \ ({u} \X seen[c].groups)
        /\ Reply(c, [kind |-> "ok"]) /\ UNCHANGED known

AddGroup(c) ==
    LET row == <<req[c].uid, req[c].group>>
    IN  /\ req[c].op = "groupCreate" /\ stage[c] = "found"
        /\ row \notin groups /\ req[c].group \notin Long
        /\ groups' = groups \cup {row}
        /\ Reply(c, [kind |-> "ok"]) /\ UNCHANGED <<policies, known>>

RemoveGroup(c) ==
    /\ req[c].op = "groupDelete" /\ stage[c] = "looked"
    /\ groups' = groups \ ({req[c].uid} \X seen[c].groups)
    /\ Reply(c, [kind |-> "ok"]) /\ UNCHANGED <<policies, known>>

(* All of the set S while the policy is stored, some of it when it is gone. *)
Readable(u, S) == IF Stored(u) THEN {S} ELSE SUBSET S

(* loadPolicy: the row and the groups seen, each at its time, the rulesets  *)
(* and the rules with their parameters.                                     *)
Load(c) ==
    LET u == req[c].uid
    IN  /\ req[c].op = "load" /\ stage[c] = "looked"
        /\ Release(c)
        /\ \E rulesets \in Readable(u, SetIds(u)) :
           \E rules, ps \in Readable(u, RuleIds(u)) :
              answer' = [answer EXCEPT ![c] =
                           [kind |-> "ok", uid |-> u, policy |->
                               [row |-> seen[c].row, groups |-> seen[c].groups,
                                rulesets |-> rulesets, rules |-> rules, params |-> ps,
                                todo |-> <<>>]]]
        /\ UNCHANGED <<policies, groups, known>>

List(c) ==
    /\ req[c].op = "list" /\ stage[c] = "asked"
    /\ Reply(c, [kind |-> "ok", listed |-> {u \in Uids : Stored(u)}])
    /\ UNCHANGED <<policies, groups, known>>

--------------------------------------------------------------------------------
(* The steps in which a request ends without effect.                        *)

(* It is refused for what is stored.                                        *)
RefuseUnknown(c) ==
    /\ req[c].op \in {"update", "load", "groupCreate", "groupDelete"}
    /\ stage[c] = "asked" /\ ~Stored(req[c].uid)
    /\ Reply(c, [kind |-> "notFound"]) /\ UNCHANGED <<policies, groups, known>>

RefuseName(c) ==
    LET r == req[c]
    IN  /\ \/ /\ r.op \in {"create", "import"} /\ stage[c] = "asked"
              /\ ~NameFree(r.uid, InsertedName(r))
           \/ /\ r.op = "update" /\ stage[c] = "found"
              /\ ~NameFree(r.uid, WrittenRow(r, seen[c].row).name)
        /\ Reply(c, [kind |-> "duplicate"]) /\ UNCHANGED <<policies, groups, known>>

RefuseGroup(c) ==
    /\ req[c].op = "groupCreate" /\ stage[c] = "found"
    /\ <<req[c].uid, req[c].group>> \in groups
    /\ Reply(c, [kind |-> "groupExists"]) /\ UNCHANGED <<policies, groups, known>>

(* What it would store does not fit: no name, or a value that is too long.  *)
Unfit(c) ==
    LET r == req[c]
    IN  \/ r.op \in {"create", "import"} /\ ~Fits(CreatedRow(r))
        \/ /\ r.op = "update" /\ stage[c] = "found" /\ Stored(r.uid)
           /\ ~Fits(WrittenRow(r, seen[c].row))
        \/ r.op = "groupCreate" /\ stage[c] = "found" /\ r.group \in Long

(* It fails, for its own values or for another request in the way.          *)
Fail(c) ==
    /\ Unfit(c) \/ \E d \in Clients \ {c} : stage[d] # "free"
    /\ Reply(c, [kind |-> "error"])
    /\ UNCHANGED <<policies, groups, known>>

(* The server stops: what has not taken effect never will.                  *)
Stop ==
    /\ \E c \in Clients : stage[c] # "free"
    /\ req'    = [c \in Clients |-> NoRequest]
    /\ stage'  = [c \in Clients |-> "free"]
    /\ seen'   = [c \in Clients |-> Unseen]
    /\ answer' = [c \in Clients |-> IF stage[c] = "free" THEN answer[c]
                                    ELSE [kind |-> "lost"]]
    /\ UNCHANGED <<policies, groups, known>>

Serve(c) ==
    \/ Find(c) \/ Look(c)
    \/ Create(c) \/ Update(c) \/ Delete(c) \/ AddGroup(c) \/ RemoveGroup(c)
    \/ Load(c) \/ List(c)
    \/ RefuseUnknown(c) \/ RefuseName(c) \/ RefuseGroup(c) \/ Fail(c)

RNext ==
    \/ \E c \in Clients : \/ stage[c] = "free" /\ \E r \in Requests : Ask(c, r)
                          \/ stage[c] # "free" /\ Serve(c)
    \/ Stop

RSpec == RInit /\ [][RNext]_rvars
================================================================================
