------------------------------ MODULE Validation ------------------------------
(***************************************************************************)
(* The validation of commits: APIController.validate over APICore.validate *)
(* (cipol-web, cipol-core).  Several requests run at once, one per servlet *)
(* thread, while the policy is edited and JIRA comes and goes.  A request  *)
(* loads the policy in one transaction (see PolicyStore), then walks its   *)
(* rule sets and their rule definitions on its own copy.                   *)
(***************************************************************************)
EXTENDS Rules, FiniteSets

CONSTANTS
    Requests,       \* the validation requests of a run
    Policies,       \* the contents the policy can be given
    Absent,         \* the policy is not in the store
    None            \* not set yet

ASSUME ValidationAssumption ==
    /\ Absent \notin Policies
    /\ None \notin Commits
    /\ \A p \in Policies :
          /\ Len(p.rules) \in Nat
          /\ \A i \in 1..Len(p.rules) : Len(p.rules[i].rules) \in Nat

VARIABLES
    store,          \* the policy stored under the requested uid, or Absent
    up,             \* JIRA answers
    phase,          \* where each request is in the code
    commit,         \* the CommitInformation of each request
    policy,         \* the Policy object each request loaded
    at,             \* the indexes of its two loops
    details,        \* the details of its ValidationReport
    report,         \* its HTTP response: the report sent, or HTTP 500
    audit           \* the audit log

request == <<commit, policy, at, details, report>>
world   == <<store, up>>
vars    == <<store, up, phase, commit, policy, at, details, report, audit>>

Phases == {"idle", "load", "rulesets", "rules", "consolidate", "audit", "answered"}

(* What is a success has no text, what is not has one (perhaps empty).      *)
Details == [at : Nat \X Nat, success : {TRUE}, text : {"null"}]
           \cup [at : Nat \X Nat, success : {FALSE}, text : {"empty", "some"}]

Reports == [status : {200}, success : {TRUE}, text : {"null"}, details : Seq(Details)]
           \cup [status : {200}, success : {FALSE}, text : {"empty", "some"},
                 details : Seq(Details)]

InternalError == [status |-> 500]

ASSUME NoneAssumption == None \notin Reports \cup {InternalError}

(* The text is that of a LocalizableException, and the bundles have one for *)
(* each of its kinds: it is not empty by definition, so that the text clause *)
(* of ReportsAreReadable says nothing of these reports.                     *)
ErrorReport == [status |-> 200, success |-> FALSE, text |-> "some", details |-> <<>>]

AuditLines == [request : Requests, success : BOOLEAN]

--------------------------------------------------------------------------------
RuleSetAt(r) == policy[r].rules[at[r][1]]

DefinitionAt(r) == RuleSetAt(r).rules[at[r][2]]

Go(r, where) == phase' = [phase EXCEPT ![r] = where]

NextRuleSet(r) == at' = [at EXCEPT ![r] = <<@[1] + 1, 1>>]

NextRule(r) == at' = [at EXCEPT ![r] = <<@[1], @[2] + 1>>]

Applied(r) == Outcome(DefinitionAt(r), policy[r].groups, commit[r], up)

DetailAt(r, outcome) ==
    [at |-> at[r], success |-> outcome = "ok",
     text |-> CASE outcome = "ok" -> "null"
                [] outcome # "ok" /\ DefinitionAt(r).rule \in Speechless -> "empty"
                [] outcome # "ok" /\ DefinitionAt(r).rule \notin Speechless -> "some"]

(* Wrong: the text of a report that fails is not taken over.                *)
ConsolidatedWithoutText(ds) ==
    [status |-> 200, success |-> \A i \in DOMAIN ds : ds[i].success, text |-> "null",
     details |-> ds]

(* The report is a success unless a detail is not; it takes the text of the *)
(* first that is not.                                                       *)
Consolidated(ds) ==
    LET failures == {i \in DOMAIN ds : ~ ds[i].success}
        first    == CHOOSE i \in failures : \A j \in failures : i <= j
    IN  [status |-> 200, success |-> failures = {},
         text |-> IF failures = {} THEN "null" ELSE ds[first].text, details |-> ds]

--------------------------------------------------------------------------------
Init ==
    /\ store \in Policies
    /\ up = TRUE
    /\ phase = [r \in Requests |-> "idle"]
    /\ commit = [r \in Requests |-> None]
    /\ policy = [r \in Requests |-> Absent]
    /\ at = [r \in Requests |-> <<1, 1>>]
    /\ details = [r \in Requests |-> <<>>]
    /\ report = [r \in Requests |-> None]
    /\ audit = <<>>

(* A client posts a commit.                                                 *)
Post(r, c) ==
    /\ phase[r] = "idle"
    /\ commit' = [commit EXCEPT ![r] = c]
    /\ Go(r, "load")
    /\ UNCHANGED <<store, up, policy, at, details, report, audit>>

Load(r) ==
    /\ phase[r] = "load"
    /\ store # Absent
    /\ policy' = [policy EXCEPT ![r] = store]
    /\ Go(r, "rulesets")
    /\ UNCHANGED <<store, up, commit, at, details, report, audit>>

(* PolicyNotFoundException is localizable: an error report.                 *)
PolicyNotFound(r) ==
    /\ phase[r] = "load"
    /\ store = Absent
    /\ report' = [report EXCEPT ![r] = ErrorReport]
    /\ Go(r, "audit")
    /\ UNCHANGED <<store, up, commit, policy, at, details, audit>>

SkipRuleSet(r) ==
    /\ phase[r] = "rulesets"
    /\ at[r][1] <= Len(policy[r].rules)
    /\ RuleSetAt(r).disabled \/ ~ IsPathAppliable(RuleSetAt(r), commit[r])
    /\ NextRuleSet(r)
    /\ UNCHANGED <<store, up, phase, commit, policy, details, report, audit>>

EnterRuleSet(r) ==
    /\ phase[r] = "rulesets"
    /\ at[r][1] <= Len(policy[r].rules)
    /\ ~ RuleSetAt(r).disabled /\ IsPathAppliable(RuleSetAt(r), commit[r])
    /\ Go(r, "rules")
    /\ UNCHANGED <<store, up, commit, policy, at, details, report, audit>>

LeaveRuleSet(r) ==
    /\ phase[r] = "rules"
    /\ at[r][2] > Len(RuleSetAt(r).rules)
    /\ NextRuleSet(r)
    /\ Go(r, "rulesets")
    /\ UNCHANGED <<store, up, commit, policy, details, report, audit>>

(* Wrong: the walk does not leave the disabled rule.                        *)
SkipRuleStuck(r) ==
    /\ phase[r] = "rules"
    /\ at[r][2] <= Len(RuleSetAt(r).rules)
    /\ DefinitionAt(r).disabled
    /\ UNCHANGED vars

SkipRule(r) ==
    /\ phase[r] = "rules"
    /\ at[r][2] <= Len(RuleSetAt(r).rules)
    /\ DefinitionAt(r).disabled
    /\ NextRule(r)
    /\ UNCHANGED <<store, up, phase, commit, policy, details, report, audit>>

(* A rule that ends normally leaves a detail; a FAIL aborts both loops.     *)
ApplyRule(r) ==
    /\ phase[r] = "rules"
    /\ at[r][2] <= Len(RuleSetAt(r).rules)
    /\ ~ DefinitionAt(r).disabled
    /\ Applied(r) \in {"ok", "fail"}
    /\ details' = [details EXCEPT ![r] = Append(@, DetailAt(r, Applied(r)))]
    /\ IF Aborts(Applied(r))
       THEN Go(r, "consolidate") /\ UNCHANGED at
       ELSE NextRule(r) /\ UNCHANGED phase
    /\ UNCHANGED <<store, up, commit, policy, report, audit>>

(* Wrong: the error report is sent without an audit line.                   *)
RefuseRuleUnaudited(r) ==
    /\ phase[r] = "rules"
    /\ at[r][2] <= Len(RuleSetAt(r).rules)
    /\ ~ DefinitionAt(r).disabled
    /\ Applied(r) = "refused"
    /\ report' = [report EXCEPT ![r] = ErrorReport]
    /\ Go(r, "answered")
    /\ UNCHANGED <<store, up, commit, policy, at, details, audit>>

(* A rule that throws a LocalizableException loses the details found so     *)
(* far: the controller builds an error report of its own.                   *)
RefuseRule(r) ==
    /\ phase[r] = "rules"
    /\ at[r][2] <= Len(RuleSetAt(r).rules)
    /\ ~ DefinitionAt(r).disabled
    /\ Applied(r) = "refused"
    /\ report' = [report EXCEPT ![r] = ErrorReport]
    /\ Go(r, "audit")
    /\ UNCHANGED <<store, up, commit, policy, at, details, audit>>

(* Any other exception leaves the controller: HTTP 500, and no audit.       *)
CrashRule(r) ==
    /\ phase[r] = "rules"
    /\ at[r][2] <= Len(RuleSetAt(r).rules)
    /\ ~ DefinitionAt(r).disabled
    /\ Applied(r) = "crashed"
    /\ report' = [report EXCEPT ![r] = InternalError]
    /\ Go(r, "answered")
    /\ UNCHANGED <<store, up, commit, policy, at, details, audit>>

Consolidate(r) ==
    /\ \/ phase[r] = "consolidate"
       \/ phase[r] = "rulesets" /\ at[r][1] > Len(policy[r].rules)
    /\ report' = [report EXCEPT ![r] = Consolidated(details[r])]
    /\ Go(r, "audit")
    /\ UNCHANGED <<store, up, commit, policy, at, details, audit>>

(* Wrong: only the failures are written to the log.                         *)
AuditFailuresOnly(r) ==
    /\ phase[r] = "audit"
    /\ audit' = IF report[r].success THEN audit
                ELSE Append(audit, [request |-> r, success |-> FALSE])
    /\ Go(r, "answered")
    /\ UNCHANGED <<store, up, commit, policy, at, details, report>>

(* The audit line is written, then the report is sent.                      *)
Audit(r) ==
    /\ phase[r] = "audit"
    /\ audit' = Append(audit, [request |-> r, success |-> report[r].success])
    /\ Go(r, "answered")
    /\ UNCHANGED <<store, up, commit, policy, at, details, report>>

(* The policy is edited, deleted or restored behind the requests.           *)
EditPolicy ==
    /\ store' \in (Policies \cup {Absent}) \ {store}
    /\ UNCHANGED <<up, phase, commit, policy, at, details, report, audit>>

JIRAGoesOrComes ==
    /\ up' = ~ up
    /\ UNCHANGED <<store, phase, commit, policy, at, details, report, audit>>

(* The steps of the servlet thread that serves r.                           *)
Serve(r) ==
    \/ Load(r)
    \/ PolicyNotFound(r)
    \/ SkipRuleSet(r)
    \/ EnterRuleSet(r)
    \/ LeaveRuleSet(r)
    \/ SkipRule(r)
    \/ ApplyRule(r)
    \/ RefuseRule(r)
    \/ CrashRule(r)
    \/ Consolidate(r)
    \/ Audit(r)

Next ==
    \/ EditPolicy
    \/ JIRAGoesOrComes
    \/ \E r \in Requests : Serve(r) \/ \E c \in Commits : Post(r, c)

(* A servlet thread that can run ends up running.                           *)
Fairness == \A r \in Requests : WF_vars(Serve(r))

Spec == Init /\ [][Next]_vars /\ Fairness

--------------------------------------------------------------------------------
(* Properties.                                                              *)

(* The variables keep to their types (the objects of APICore.validate).     *)
TypeOK ==
    /\ store \in Policies \cup {Absent}
    /\ up \in BOOLEAN
    /\ phase \in [Requests -> Phases]
    /\ commit \in [Requests -> Commits \cup {None}]
    /\ policy \in [Requests -> Policies \cup {Absent}]
    /\ at \in [Requests -> Nat \X Nat]
    /\ details \in [Requests -> Seq(Details)]
    /\ report \in [Requests -> Reports \cup {None, InternalError}]
    /\ audit \in Seq(AuditLines)

(* In the order of the policy, once each, and nothing after a failure.      *)
Before(a, b) == a[1] < b[1] \/ (a[1] = b[1] /\ a[2] < b[2])

InOrder(ds) ==
    \A i, j \in DOMAIN ds : i < j => ds[i].success /\ Before(ds[i].at, ds[j].at)

(* The report lists what was applied in the order of the policy, once each  *)
(* (IntegrationTest reads details by position), a failure can only be the   *)
(* last, and a failing report carries a text, which the commit hook needs   *)
(* to see it as a failure (cipol_lib.py:60-63).                             *)
ReportsAreReadable ==
    \A r \in Requests :
        phase[r] \in {"audit", "answered"} /\ report[r].status = 200 =>
            /\ InOrder(report[r].details)
            /\ ~ report[r].success => report[r].text = "some"

(* Exactly the requests answered with a report are in the audit log, each   *)
(* once, with the verdict that was sent (APIController.java:63); a request  *)
(* that ended in HTTP 500 is not.                                           *)
AuditTellsTheAnswers ==
    \A r \in Requests :
        LET lines == {i \in DOMAIN audit : audit[i].request = r}
        IN  IF phase[r] = "answered" /\ report[r].status = 200
            THEN \E i \in lines : lines = {i} /\ audit[i].success = report[r].success
            ELSE lines = {}

(* Every request is answered, whatever is edited meanwhile.                 *)
EveryRequestIsAnswered ==
    \A r \in Requests : phase[r] = "load" ~> phase[r] = "answered"

(* What the walk promises: one verdict, of one version of the policy.  The  *)
(* loops are not to be seen.                                                *)
Seen(where) == CASE where = "idle" -> "idle"
                 [] where = "load" -> "asked"
                 [] where \in {"rulesets", "rules", "consolidate"} -> "loaded"
                 [] where \in {"audit", "answered"} -> "answered"

Told(answer) ==
    CASE answer = None -> None
      [] answer = InternalError -> [status |-> 500, success |-> FALSE, applied |-> {}]
      [] answer \notin {None, InternalError} ->
            [status  |-> 200,
             success |-> answer.success,
             applied |-> {answer.details[i].at : i \in DOMAIN answer.details}]

V == INSTANCE Verdicts WITH
        state   <- [r \in Requests |-> Seen(phase[r])],
        loaded  <- policy,
        verdict <- [r \in Requests |-> Told(report[r])]

(* The walk over rule sets and rules, with its skips, aborts and exceptions,*)
(* answers every request with the verdict of the policy as it was loaded.   *)
AnswersTheVerdict == V!VSpec
================================================================================
