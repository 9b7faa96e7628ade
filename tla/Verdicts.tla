-------------------------------- MODULE Verdicts --------------------------------
(***************************************************************************)
(* What POST /api/validate/{policyId} promises, without saying how: the    *)
(* policy is read once, and the answer is the one that policy gives the    *)
(* commit, decided by the first objection among the rules that concern it. *)
(***************************************************************************)
EXTENDS Rules, FiniteSets

CONSTANTS
    Requests,       \* the validation requests of a run
    Policies,       \* the contents the policy can be given
    Absent,         \* the policy is not in the store
    None            \* no answer yet

VARIABLES
    store,          \* the policy stored under the requested id, or Absent
    state,          \* "idle", "asked", "loaded" or "answered"
    commit,         \* the commit each request is about
    loaded,         \* the policy each request is answered with, or Absent
    verdict         \* the answer of each request

vvars == <<store, state, commit, loaded, verdict>>

--------------------------------------------------------------------------------
(* A point is the place <<i, j>> of rule definition j of rule set i.        *)

Definition(p, point) == p.rules[point[1]].rules[point[2]]

Before(a, b) == a[1] < b[1] \/ (a[1] = b[1] /\ a[2] < b[2])

(* The points of policy p that concern commit c.                            *)
Concerned(p, c) ==
    UNION {{<<i, j>> : j \in 1..Len(p.rules[i].rules)} :
              i \in {k \in 1..Len(p.rules) : /\ ~ p.rules[k].disabled
                                             /\ IsPathAppliable(p.rules[k], c)}}

Points(p, c) == {point \in Concerned(p, c) : ~ Definition(p, point).disabled}

(* JIRA does not answer the points in down.                                 *)
Answer(p, c, down, point) == Outcome(Definition(p, point), p.groups, c, point \notin down)

Objections(p, c, down) == {point \in Points(p, c) : Answer(p, c, down, point) # "ok"}

Accepted(applied) == [status |-> 200, success |-> TRUE, applied |-> applied]
Rejected(applied) == [status |-> 200, success |-> FALSE, applied |-> applied]
Crashed           == [status |-> 500, success |-> FALSE, applied |-> {}]

(* The verdict of policy p, given with the points that were applied.        *)
Verdict(p, c, down) ==
    LET objections == Objections(p, c, down)
        first == CHOOSE o \in objections : \A other \in objections \ {o} : Before(o, other)
        upTo  == {point \in Points(p, c) : point = first \/ Before(point, first)}
    IN  CASE objections = {} -> Accepted(Points(p, c))
          [] objections # {} ->
                CASE Answer(p, c, down, first) = "fail"    -> Rejected(upTo)
                  [] Answer(p, c, down, first) = "refused" -> Rejected({})
                  [] Answer(p, c, down, first) = "crashed" -> Crashed

--------------------------------------------------------------------------------
VInit ==
    /\ store \in Policies
    /\ state = [r \in Requests |-> "idle"]
    /\ commit = [r \in Requests |-> None]
    /\ loaded = [r \in Requests |-> Absent]
    /\ verdict = [r \in Requests |-> None]

Ask(r) ==
    /\ state[r] = "idle"
    /\ state' = [state EXCEPT ![r] = "asked"]
    /\ \E c \in Commits : commit' = [commit EXCEPT ![r] = c]
    /\ UNCHANGED <<store, loaded, verdict>>

(* The request takes the policy as it is now.                               *)
Look(r) ==
    /\ state[r] = "asked"
    /\ state' = [state EXCEPT ![r] = "loaded"]
    /\ loaded' = [loaded EXCEPT ![r] = store]
    /\ store # Absent
    /\ UNCHANGED <<store, commit, verdict>>

NotThere(r) ==
    /\ state[r] = "asked"
    /\ store = Absent
    /\ state' = [state EXCEPT ![r] = "answered"]
    /\ verdict' = [verdict EXCEPT ![r] = Rejected({})]
    /\ UNCHANGED <<store, commit, loaded>>

Decide(r) ==
    /\ state[r] = "loaded"
    /\ state' = [state EXCEPT ![r] = "answered"]
    /\ \E down \in SUBSET Points(loaded[r], commit[r]) :
          verdict' = [verdict EXCEPT ![r] = Verdict(loaded[r], commit[r], down)]
    /\ UNCHANGED <<store, commit, loaded>>

Change ==
    /\ store' \in Policies \cup {Absent}
    /\ UNCHANGED <<state, commit, loaded, verdict>>

VNext ==
    \/ Change
    \/ \E r \in Requests : Ask(r) \/ Look(r) \/ NotThere(r) \/ Decide(r)

VSpec == VInit /\ [][VNext]_vvars
================================================================================
