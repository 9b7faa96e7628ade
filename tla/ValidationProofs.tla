---------------------------- MODULE ValidationProofs ----------------------------
(* Proofs about Validation: its types, what its reports and its audit log    *)
(* hold, for any policies, commits, rules and requests.                      *)
EXTENDS Validation, SequenceTheorems, TLAPS

--------------------------------------------------------------------------------
(* Sequences.                                                                *)

LEMMA Appended ==
    ASSUME NEW S, NEW s \in Seq(S), NEW x \in S
    PROVE  /\ Append(s, x) \in Seq(S)
           /\ Len(s) \in Nat
           /\ DOMAIN s = 1..Len(s)
           /\ DOMAIN Append(s, x) = 1..(Len(s) + 1)
           /\ \A i \in DOMAIN s : Append(s, x)[i] = s[i] /\ s[i] \in S
           /\ Append(s, x)[Len(s) + 1] = x
    <1>1. Append(s, x) \in Seq(S) /\ Len(Append(s, x)) = Len(s) + 1
        BY AppendProperties
    <1>2. DOMAIN s = 1..Len(s) /\ Len(s) \in Nat
        BY LenProperties
    <1>3. DOMAIN Append(s, x) = 1..(Len(s) + 1)
        BY <1>1, LenProperties
    <1> QED
        BY <1>1, <1>2, <1>3, AppendProperties, ElementOfSeq

--------------------------------------------------------------------------------
(* Reports.                                                                  *)

(* A detail that failed has a text that is not empty.                        *)
Speaking(ds) == \A i \in DOMAIN ds : ~ ds[i].success => ds[i].text = "some"

Readable(answer) ==
    /\ InOrder(answer.details)
    /\ ~ answer.success => answer.text = "some"

LEMMA DetailFields ==
    ASSUME NEW d \in Details
    PROVE  d.at \in Nat \X Nat /\ d.success \in BOOLEAN /\ d.text \in {"null", "empty", "some"}
    BY DEF Details

LEMMA ReportFields ==
    ASSUME NEW answer \in Reports
    PROVE  /\ answer.status = 200 /\ answer.success \in BOOLEAN
           /\ answer # InternalError /\ answer # None
    <1>1. answer.status = 200 /\ answer.success \in BOOLEAN
        BY DEF Reports
    <1>2. InternalError.status = 500
        BY DEF InternalError
    <1>3. answer # None
        BY NoneAssumption
    <1> QED
        BY <1>1, <1>2, <1>3

LEMMA ErrorReportIs ==
    ErrorReport \in Reports /\ Readable(ErrorReport) /\ ErrorReport.status = 200
    BY EmptySeq DEF ErrorReport, Reports, Readable, InOrder

(* Only the last detail can be a failure: the report takes its text.         *)
LEMMA ConsolidatedIs ==
    ASSUME NEW ds \in Seq(Details), InOrder(ds), Speaking(ds)
    PROVE  /\ Consolidated(ds) \in Reports
           /\ Readable(Consolidated(ds))
           /\ Consolidated(ds).details = ds
           /\ Consolidated(ds).success = (\A i \in DOMAIN ds : ds[i].success)
    <1> DEFINE failures == {i \in DOMAIN ds : ~ ds[i].success}
               first == CHOOSE i \in failures : \A j \in failures : i <= j
               text == IF failures = {} THEN "null" ELSE ds[first].text
    <1>1. DOMAIN ds \subseteq Nat /\ \A i \in DOMAIN ds : ds[i] \in Details
        BY LenProperties, ElementOfSeq
    <1>2. failures # {} => text = "some"
        <2> SUFFICES ASSUME failures # {} PROVE ds[first].text = "some"
            OBVIOUS
        <2>1. PICK k \in failures : TRUE
            OBVIOUS
        <2>2. \A j \in failures : k <= j
            BY <1>1 DEF InOrder
        <2>3. first \in failures
            BY <2>2
        <2> HIDE DEF first
        <2> QED
            BY <2>3 DEF Speaking
    <1>3. Consolidated(ds) = [status |-> 200, success |-> failures = {},
                              text |-> text, details |-> ds]
        BY DEF Consolidated
    <1>4. (failures = {}) \in BOOLEAN /\ (failures = {} => text = "null")
        OBVIOUS
    <1> HIDE DEF text
    <1>5. Consolidated(ds) \in Reports
        <2>1. CASE failures = {}
            <3>1. Consolidated(ds) = [status |-> 200, success |-> TRUE,
                                      text |-> "null", details |-> ds]
                <4>1. (failures = {}) = TRUE
                    BY <2>1
                <4> QED
                    BY <1>3, <1>4, <2>1, <4>1, Zenon
            <3> QED
                BY <3>1 DEF Reports
        <2>2. CASE failures # {}
            <3>1. Consolidated(ds) = [status |-> 200, success |-> FALSE,
                                      text |-> "some", details |-> ds]
                <4>1. (failures = {}) = FALSE
                    BY <2>2
                <4> QED
                    BY <1>2, <1>3, <2>2, <4>1, Zenon
            <3> QED
                BY <3>1 DEF Reports
        <2> QED
            BY <2>1, <2>2
    <1> QED
        <2>1. /\ Consolidated(ds).success = (failures = {})
              /\ Consolidated(ds).text = text /\ Consolidated(ds).details = ds
            BY <1>3
        <2> QED
            BY <1>2, <1>5, <2>1 DEF Readable

(* The detail a rule leaves.                                                 *)
LEMMA DetailIs ==
    ASSUME NEW r \in Requests, at[r] \in Nat \X Nat, NEW o \in {"ok", "fail"},
           o = "fail" => DefinitionAt(r).rule \notin Speechless
    PROVE  /\ DetailAt(r, o) \in Details
           /\ DetailAt(r, o).at = at[r]
           /\ DetailAt(r, o).success = (o = "ok")
           /\ ~ DetailAt(r, o).success => DetailAt(r, o).text = "some"
    BY DEF DetailAt, Details

(* A failure that reaches the walk has a text.                               *)
LEMMA FailuresSpeak ==
    ASSUME NEW r \in Requests, Applied(r) = "fail"
    PROVE  DefinitionAt(r).rule \notin Speechless
    BY DEF Applied, Outcome, Spoken

--------------------------------------------------------------------------------
(* Types.                                                                    *)

LEMMA Types ==
    ASSUME TypeOK, NEW r \in Requests
    PROVE  /\ phase[r] \in Phases /\ at[r] \in Nat \X Nat
           /\ details[r] \in Seq(Details)
           /\ policy[r] \in Policies \cup {Absent}
           /\ commit[r] \in Commits \cup {None}
    BY DEF TypeOK

(* The request r has walked in order, and speaks when it failed.             *)
Walking(r) ==
    /\ phase[r] \in {"idle", "load"} => details[r] = <<>>
    /\ phase[r] \in {"rulesets", "rules", "consolidate"}
          => InOrder(details[r]) /\ Speaking(details[r])
    /\ phase[r] \in {"rulesets", "rules"}
          => \A i \in DOMAIN details[r] :
                details[r][i].success /\ Before(details[r][i].at, at[r])

(* It has a report once it is in the last two phases.                        *)
Reported(r) ==
    /\ phase[r] \notin {"audit", "answered"} => report[r] = None
    /\ phase[r] = "audit" => report[r] \in Reports
    /\ phase[r] = "answered" => report[r] \in Reports \cup {InternalError}
    /\ report[r] \in Reports => Readable(report[r])

Inv ==
    /\ TypeOK
    /\ \A r \in Requests : Walking(r) /\ Reported(r)
    /\ AuditTellsTheAnswers

LEMMA InitTypes == Init => Inv
    <1> SUFFICES ASSUME Init PROVE Inv
        OBVIOUS
    <1>1. TypeOK
        BY EmptySeq DEF Init, TypeOK, Phases
    <1>2. ASSUME NEW r \in Requests PROVE Walking(r) /\ Reported(r)
        <2>1. None \notin Reports
            BY NoneAssumption
        <2> QED
            BY <2>1 DEF Init, Walking, Reported
    <1>3. AuditTellsTheAnswers
        BY DEF Init, AuditTellsTheAnswers
    <1> QED
        BY <1>1, <1>2, <1>3 DEF Inv

(* What the steps of the loops do to the indexes.                            *)
LEMMA Indexes ==
    ASSUME TypeOK, NEW r \in Requests
    PROVE  /\ NextRuleSet(r) => /\ at' \in [Requests -> Nat \X Nat]
                                /\ at'[r] = <<at[r][1] + 1, 1>>
           /\ NextRule(r) => /\ at' \in [Requests -> Nat \X Nat]
                             /\ at'[r] = <<at[r][1], at[r][2] + 1>>
           /\ \A where \in Phases : Go(r, where) => /\ phase' \in [Requests -> Phases]
                                                   /\ phase'[r] = where
           /\ NextRuleSet(r) \/ NextRule(r) => \A q \in Requests \ {r} : at'[q] = at[q]
           /\ \A where : Go(r, where) => \A q \in Requests \ {r} : phase'[q] = phase[q]
    <1>1. at \in [Requests -> Nat \X Nat] /\ phase \in [Requests -> Phases]
        BY DEF TypeOK
    <1>2. at[r][1] + 1 \in Nat /\ at[r][2] + 1 \in Nat /\ at[r][1] \in Nat
        BY <1>1
    <1>3. <<at[r][1] + 1, 1>> \in Nat \X Nat /\ <<at[r][1], at[r][2] + 1>> \in Nat \X Nat
        BY <1>2
    <1> QED
        BY <1>1, <1>3 DEF NextRuleSet, NextRule, Go

(* A step serves one request and leaves the others alone.                    *)
Others(r) ==
    \A q \in Requests \ {r} :
        /\ phase'[q] = phase[q] /\ commit'[q] = commit[q] /\ policy'[q] = policy[q]
        /\ at'[q] = at[q] /\ details'[q] = details[q] /\ report'[q] = report[q]

LEMMA OneIsServed ==
    ASSUME TypeOK, NEW r \in Requests, Serve(r) \/ \E c \in Commits : Post(r, c)
    PROVE  Others(r)
    <1>1. \A where : Go(r, where) => \A q \in Requests \ {r} : phase'[q] = phase[q]
        BY Indexes
    <1>2. NextRuleSet(r) \/ NextRule(r) => \A q \in Requests \ {r} : at'[q] = at[q]
        BY Indexes
    <1>3. /\ phase \in [Requests -> Phases] /\ commit \in [Requests -> Commits \cup {None}]
          /\ policy \in [Requests -> Policies \cup {Absent}]
          /\ at \in [Requests -> Nat \X Nat] /\ details \in [Requests -> Seq(Details)]
          /\ report \in [Requests -> Reports \cup {None, InternalError}]
        BY DEF TypeOK
    <1>4. ASSUME NEW c \in Commits, Post(r, c) PROVE Others(r)
        BY <1>1, <1>3, <1>4 DEF Post, Others
    <1>5. CASE Load(r) \/ PolicyNotFound(r)
        BY <1>1, <1>3, <1>5 DEF Load, PolicyNotFound, Others
    <1>6. CASE SkipRuleSet(r) \/ EnterRuleSet(r) \/ LeaveRuleSet(r) \/ SkipRule(r)
        BY <1>1, <1>2, <1>6 DEF SkipRuleSet, EnterRuleSet, LeaveRuleSet, SkipRule, Others
    <1>7. CASE ApplyRule(r)
        BY <1>1, <1>2, <1>3, <1>7 DEF ApplyRule, Others
    <1>8. CASE RefuseRule(r) \/ CrashRule(r) \/ Consolidate(r)
        BY <1>1, <1>3, <1>8 DEF RefuseRule, CrashRule, Consolidate, Others
    <1>9. CASE Audit(r)
        BY <1>1, <1>9 DEF Audit, Others
    <1> QED
        BY <1>4, <1>5, <1>6, <1>7, <1>8, <1>9 DEF Serve

(* The conjuncts of TypeOK but for the audit log.                            *)
LEMMA TypeStep ==
    ASSUME TypeOK, NEW r \in Requests, Walking(r), Reported(r),
           Serve(r) \/ \E c \in Commits : Post(r, c)
    PROVE  TypeOK'
    <1> USE DEF TypeOK
    <1>1. \A where \in Phases : Go(r, where) => phase' \in [Requests -> Phases]
        BY Indexes
    <1>2. NextRuleSet(r) \/ NextRule(r) => at' \in [Requests -> Nat \X Nat]
        BY Indexes
    <1>3. {"idle", "load", "rulesets", "rules", "consolidate", "audit", "answered"} = Phases
        BY DEF Phases
    <1>4. ASSUME NEW c \in Commits, Post(r, c) PROVE TypeOK'
        BY <1>1, <1>3, <1>4 DEF Post
    <1>5. CASE Load(r)
        BY <1>1, <1>3, <1>5 DEF Load
    <1>6. CASE SkipRuleSet(r) \/ EnterRuleSet(r) \/ LeaveRuleSet(r) \/ SkipRule(r)
        BY <1>1, <1>2, <1>3, <1>6 DEF SkipRuleSet, EnterRuleSet, LeaveRuleSet, SkipRule
    <1>7. CASE ApplyRule(r)
        <2>1. DetailAt(r, Applied(r)) \in Details
            BY <1>7, DetailIs, FailuresSpeak DEF ApplyRule
        <2>2. details[r] \in Seq(Details)
            OBVIOUS
        <2>3. Append(details[r], DetailAt(r, Applied(r))) \in Seq(Details)
            BY <2>1, <2>2, Appended
        <2>4. details' = [details EXCEPT ![r] = Append(details[r], DetailAt(r, Applied(r)))]
            BY <1>7 DEF ApplyRule
        <2>5. details' \in [Requests -> Seq(Details)]
            BY <2>3, <2>4
        <2>6. phase' \in [Requests -> Phases] /\ at' \in [Requests -> Nat \X Nat]
            BY <1>1, <1>2, <1>3, <1>7 DEF ApplyRule
        <2> QED
            BY <1>7, <2>5, <2>6 DEF ApplyRule
    <1>8. CASE PolicyNotFound(r) \/ RefuseRule(r) \/ CrashRule(r)
        <2>1. ErrorReport \in Reports
            BY ErrorReportIs
        <2>2. phase' \in [Requests -> Phases]
            BY <1>1, <1>3, <1>8 DEF PolicyNotFound, RefuseRule, CrashRule
        <2>3. report' \in [Requests -> Reports \cup {None, InternalError}]
            BY <1>8, <2>1 DEF PolicyNotFound, RefuseRule, CrashRule
        <2> QED
            BY <1>8, <2>2, <2>3 DEF PolicyNotFound, RefuseRule, CrashRule
    <1>9. CASE Consolidate(r)
        <2>1. Consolidated(details[r]) \in Reports
            BY <1>9, ConsolidatedIs DEF Consolidate, Walking
        <2> QED
            BY <1>1, <1>3, <1>9, <2>1 DEF Consolidate
    <1>10. CASE Audit(r)
        <2>1. report[r].success \in BOOLEAN
            BY <1>10, ReportFields DEF Audit, Reported
        <2>2. [request |-> r, success |-> report[r].success] \in AuditLines
            BY <2>1 DEF AuditLines
        <2>3. audit' \in Seq(AuditLines)
            BY <1>10, <2>2, Appended DEF Audit
        <2> QED
            BY <1>1, <1>3, <1>10, <2>3 DEF Audit
    <1> QED
        BY <1>4, <1>5, <1>6, <1>7, <1>8, <1>9, <1>10 DEF Serve

--------------------------------------------------------------------------------
(* The walk and its report.                                                  *)

(* A detail before the indexes stays before them when they move on.          *)
LEMMA MovingOn ==
    ASSUME NEW a \in Nat \X Nat, NEW b \in Nat \X Nat
    PROVE  /\ Before(a, b) => Before(a, <<b[1] + 1, 1>>)
           /\ Before(a, b) \/ a = b => Before(a, <<b[1], b[2] + 1>>)
    BY DEF Before

LEMMA Appending ==
    ASSUME NEW ds \in Seq(Details), NEW d \in Details, InOrder(ds), Speaking(ds),
           ~ d.success => d.text = "some",
           \A i \in DOMAIN ds : ds[i].success /\ Before(ds[i].at, d.at)
    PROVE  InOrder(Append(ds, d)) /\ Speaking(Append(ds, d))
    <1> DEFINE more == Append(ds, d)
    <1>1. /\ Len(ds) \in Nat /\ DOMAIN ds = 1..Len(ds) /\ DOMAIN more = 1..(Len(ds) + 1)
          /\ \A i \in DOMAIN ds : more[i] = ds[i]
          /\ more[Len(ds) + 1] = d
        BY Appended
    <1> HIDE DEF more
    <1>2. \A i \in DOMAIN more : i \in DOMAIN ds \/ i = Len(ds) + 1
        BY <1>1
    <1>3. Speaking(more)
        BY <1>1, <1>2 DEF Speaking
    <1>4. InOrder(more)
        <2> SUFFICES ASSUME NEW i \in DOMAIN more, NEW j \in DOMAIN more, i < j
                     PROVE  more[i].success /\ Before(more[i].at, more[j].at)
            BY DEF InOrder
        <2>1. i \in DOMAIN ds
            BY <1>1
        <2>2. CASE j \in DOMAIN ds
            BY <1>1, <2>1, <2>2 DEF InOrder
        <2>3. CASE j = Len(ds) + 1
            BY <1>1, <2>1, <2>3
        <2> QED
            BY <1>2, <2>2, <2>3
    <1> QED
        BY <1>3, <1>4 DEF more

LEMMA ApplyStep ==
    ASSUME TypeOK, NEW r \in Requests, Walking(r), Reported(r), ApplyRule(r)
    PROVE  Walking(r)' /\ Reported(r)'
    <1> DEFINE d == DetailAt(r, Applied(r))
               ds == details[r]
    <1>1. /\ d \in Details /\ d.at = at[r] /\ d.success = (Applied(r) = "ok")
          /\ ~ d.success => d.text = "some"
        BY DetailIs, FailuresSpeak, Types DEF ApplyRule
    <1>2. ds \in Seq(Details) /\ at[r] \in Nat \X Nat
        BY Types
    <1>3. /\ InOrder(ds) /\ Speaking(ds)
          /\ \A i \in DOMAIN ds : ds[i].success /\ Before(ds[i].at, at[r])
        BY DEF ApplyRule, Walking
    <1>4. details'[r] = Append(ds, d)
        BY DEF ApplyRule, TypeOK
    <1> HIDE DEF d, ds
    <1>5. InOrder(details'[r]) /\ Speaking(details'[r])
        BY <1>1, <1>2, <1>3, <1>4, Appending
    <1>6. /\ DOMAIN details'[r] = 1..(Len(ds) + 1) /\ Len(ds) \in Nat /\ DOMAIN ds = 1..Len(ds)
          /\ \A i \in DOMAIN ds : details'[r][i] = ds[i] /\ ds[i] \in Details
          /\ details'[r][Len(ds) + 1] = d
        BY <1>1, <1>2, <1>4, Appended
    <1>7. report' = report
        BY DEF ApplyRule
    <1>8. CASE Applied(r) = "fail"
        <2>1. phase'[r] = "consolidate"
            BY <1>8, Indexes DEF ApplyRule, Aborts, Phases
        <2> QED
            BY <1>5, <1>7, <2>1 DEF Walking, Reported, ApplyRule
    <1>9. CASE Applied(r) = "ok"
        <2>1. phase'[r] = "rules" /\ at'[r] = <<at[r][1], at[r][2] + 1>>
            BY <1>9, Indexes DEF ApplyRule, Aborts
        <2>2. ASSUME NEW i \in DOMAIN details'[r]
              PROVE  details'[r][i].success /\ Before(details'[r][i].at, at'[r])
            <3>1. CASE i \in DOMAIN ds
                <4>1. ds[i].at \in Nat \X Nat
                    BY <1>6, <3>1, DetailFields
                <4> QED
                    BY <1>2, <1>3, <1>6, <2>1, <3>1, <4>1, MovingOn
            <3>2. CASE i = Len(ds) + 1
                BY <1>1, <1>2, <1>6, <1>9, <2>1, <3>2, MovingOn
            <3> QED
                BY <1>6, <3>1, <3>2
        <2> QED
            BY <1>5, <1>7, <2>1, <2>2 DEF Walking, Reported, ApplyRule
    <1> QED
        BY <1>8, <1>9 DEF ApplyRule

LEMMA WalkStep ==
    ASSUME TypeOK, NEW r \in Requests, Walking(r), Reported(r),
           Serve(r) \/ \E c \in Commits : Post(r, c)
    PROVE  Walking(r)' /\ Reported(r)'
    <1>1. \A where \in Phases : Go(r, where) => phase'[r] = where
        BY Indexes
    <1>2. {"idle", "load", "rulesets", "rules", "consolidate", "audit", "answered"} = Phases
        BY DEF Phases
    <1>3. /\ details[r] \in Seq(Details) /\ at[r] \in Nat \X Nat
          /\ report \in [Requests -> Reports \cup {None, InternalError}]
        BY Types DEF TypeOK
    <1>4. ASSUME NEW c \in Commits, Post(r, c) PROVE Walking(r)' /\ Reported(r)'
        BY <1>1, <1>2, <1>4 DEF Post, Walking, Reported
    <1>5. CASE Load(r)
        BY <1>1, <1>2, <1>5 DEF Load, Walking, Reported, InOrder, Speaking
    <1>6. CASE SkipRuleSet(r) \/ EnterRuleSet(r) \/ LeaveRuleSet(r) \/ SkipRule(r)
        <2>1. \A i \in DOMAIN details[r] : details[r][i].at \in Nat \X Nat
            BY <1>3, DetailFields, LenProperties, ElementOfSeq
        <2>2. /\ NextRuleSet(r) => at'[r] = <<at[r][1] + 1, 1>>
              /\ NextRule(r) => at'[r] = <<at[r][1], at[r][2] + 1>>
            BY Indexes
        <2>3. NextRuleSet(r) \/ NextRule(r) \/ at' = at =>
                 \A i \in DOMAIN details[r] :
                    Before(details[r][i].at, at[r]) => Before(details[r][i].at, at'[r])
            BY <1>3, <2>1, <2>2, MovingOn
        <2>4. /\ phase[r] \in {"rulesets", "rules"} /\ phase'[r] \in {"rulesets", "rules"}
              /\ details' = details /\ report' = report
              /\ NextRuleSet(r) \/ NextRule(r) \/ at' = at
            BY <1>1, <1>2, <1>6 DEF SkipRuleSet, EnterRuleSet, LeaveRuleSet, SkipRule
        <2> QED
            BY <2>3, <2>4 DEF Walking, Reported
    <1>7. CASE ApplyRule(r)
        BY <1>7, ApplyStep
    <1>8. CASE PolicyNotFound(r) \/ RefuseRule(r)
        BY <1>1, <1>2, <1>3, <1>8, ErrorReportIs
           DEF PolicyNotFound, RefuseRule, Walking, Reported
    <1>9. CASE CrashRule(r)
        BY <1>1, <1>2, <1>3, <1>9, ReportFields DEF CrashRule, Walking, Reported
    <1>10. CASE Consolidate(r)
        <2>1. Consolidated(details[r]) \in Reports /\ Readable(Consolidated(details[r]))
            BY <1>3, <1>10, ConsolidatedIs DEF Consolidate, Walking
        <2> QED
            BY <1>1, <1>2, <1>3, <1>10, <2>1 DEF Consolidate, Walking, Reported
    <1>11. CASE Audit(r)
        BY <1>1, <1>2, <1>11 DEF Audit, Walking, Reported
    <1> QED
        BY <1>4, <1>5, <1>6, <1>7, <1>8, <1>9, <1>10, <1>11 DEF Serve

--------------------------------------------------------------------------------
(* The audit log.                                                            *)

Lines(r) == {i \in DOMAIN audit : audit[i].request = r}

Audited(r) ==
    IF phase[r] = "answered" /\ report[r].status = 200
    THEN \E i \in Lines(r) : Lines(r) = {i} /\ audit[i].success = report[r].success
    ELSE Lines(r) = {}

LEMMA AuditParts == AuditTellsTheAnswers <=> \A r \in Requests : Audited(r)
    BY DEF AuditTellsTheAnswers, Audited, Lines

LEMMA AuditStep ==
    ASSUME TypeOK, NEW r \in Requests, Walking(r), Reported(r), AuditTellsTheAnswers,
           Serve(r) \/ \E c \in Commits : Post(r, c)
    PROVE  AuditTellsTheAnswers'
    <1>1. \A where \in Phases : Go(r, where) => phase'[r] = where
        BY Indexes
    <1>2. {"idle", "load", "rulesets", "rules", "consolidate", "audit", "answered"} = Phases
        BY DEF Phases
    <1>3. Others(r)
        BY OneIsServed
    <1>4. \A q \in Requests : Audited(q)
        BY AuditParts
    <1> SUFFICES ASSUME NEW q \in Requests PROVE Audited(q)'
        BY DEF AuditTellsTheAnswers, Audited, Lines
    <1>5. CASE Audit(r)
        <2> DEFINE line == [request |-> r, success |-> report[r].success]
                   n == Len(audit) + 1
        <2>1. report[r].success \in BOOLEAN /\ report[r].status = 200
            BY <1>5, ReportFields DEF Audit, Reported
        <2>2. line \in AuditLines /\ line.request = r /\ line.success = report[r].success
            BY <2>1 DEF AuditLines
        <2>3. audit \in Seq(AuditLines) /\ audit' = Append(audit, line)
            BY <1>5 DEF Audit, TypeOK
        <2> HIDE DEF line
        <2>4. /\ Len(audit) \in Nat /\ DOMAIN audit = 1..Len(audit)
              /\ DOMAIN audit' = 1..n /\ audit'[n] = line
              /\ \A i \in DOMAIN audit : audit'[i] = audit[i]
            BY <2>2, <2>3, Appended
        <2>5. DOMAIN audit' = DOMAIN audit \cup {n} /\ n \notin DOMAIN audit
            BY <2>4
        <2> HIDE DEF n
        <2>6. CASE q = r
            <3>1. Lines(r) = {}
                BY <1>4, <1>5 DEF Audited, Audit
            <3>2. Lines(r)' = {n}
                BY <2>2, <2>4, <2>5, <3>1 DEF Lines
            <3>3. phase'[r] = "answered" /\ report' = report
                BY <1>1, <1>2, <1>5 DEF Audit
            <3> QED
                BY <2>1, <2>2, <2>4, <2>6, <3>2, <3>3 DEF Audited
        <2>7. CASE q # r
            <3>1. Lines(q)' = Lines(q)
                BY <2>2, <2>4, <2>5, <2>7 DEF Lines
            <3>2. phase'[q] = phase[q] /\ report'[q] = report[q]
                BY <1>3, <2>7 DEF Others
            <3>3. \A i \in Lines(q) : audit'[i] = audit[i]
                BY <2>4 DEF Lines
            <3> QED
                BY <1>4, <3>1, <3>2, <3>3 DEF Audited
        <2> QED
            BY <2>6, <2>7
    <1>6. CASE ~ Audit(r)
        <2>1. /\ audit' = audit /\ phase[r] # "answered"
              /\ phase'[r] = "answered" => report'[r] = InternalError
            <3>1. ASSUME NEW c \in Commits, Post(r, c)
                  PROVE  audit' = audit /\ phase[r] # "answered" /\ phase'[r] # "answered"
                BY <1>1, <1>2, <3>1 DEF Post
            <3>2. CASE Load(r) \/ PolicyNotFound(r) \/ RefuseRule(r) \/ Consolidate(r)
                BY <1>1, <1>2, <3>2 DEF Load, PolicyNotFound, RefuseRule, Consolidate
            <3>3. CASE SkipRuleSet(r) \/ EnterRuleSet(r) \/ LeaveRuleSet(r) \/ SkipRule(r)
                BY <1>1, <1>2, <3>3 DEF SkipRuleSet, EnterRuleSet, LeaveRuleSet, SkipRule
            <3>4. CASE ApplyRule(r)
                BY <1>1, <1>2, <3>4 DEF ApplyRule
            <3>5. CASE CrashRule(r)
                BY <3>5 DEF CrashRule, TypeOK
            <3> QED
                BY <1>6, <3>1, <3>2, <3>3, <3>4, <3>5 DEF Serve
        <2>2. InternalError.status = 500
            BY DEF InternalError
        <2>3. CASE q = r
            BY <1>4, <2>1, <2>2, <2>3 DEF Audited, Lines
        <2>4. CASE q # r
            BY <1>3, <1>4, <2>1, <2>4 DEF Audited, Lines, Others
        <2> QED
            BY <2>3, <2>4
    <1> QED
        BY <1>5, <1>6

--------------------------------------------------------------------------------
(* The theorems.                                                             *)

(* What is invariant when the world changes, or nothing does.                *)
LEMMA WorldStep ==
    ASSUME Inv, EditPolicy \/ JIRAGoesOrComes \/ UNCHANGED vars
    PROVE  Inv'
    <1>1. TypeOK'
        BY DEF Inv, TypeOK, EditPolicy, JIRAGoesOrComes, vars
    <1>2. UNCHANGED <<phase, commit, policy, at, details, report, audit>>
        BY DEF EditPolicy, JIRAGoesOrComes, vars
    <1>3. ASSUME NEW q \in Requests PROVE (Walking(q) /\ Reported(q))'
        BY <1>2 DEF Inv, Walking, Reported
    <1>4. AuditTellsTheAnswers'
        BY <1>2 DEF Inv, AuditTellsTheAnswers
    <1> QED
        BY <1>1, <1>3, <1>4 DEF Inv

LEMMA Step == Inv /\ [Next]_vars => Inv'
    <1> SUFFICES ASSUME Inv, [Next]_vars PROVE Inv'
        OBVIOUS
    <1>1. CASE EditPolicy \/ JIRAGoesOrComes \/ UNCHANGED vars
        BY <1>1, WorldStep
    <1>2. ASSUME NEW r \in Requests, Serve(r) \/ \E c \in Commits : Post(r, c)
          PROVE  Inv'
        <2>1. TypeOK' /\ AuditTellsTheAnswers' /\ Walking(r)' /\ Reported(r)' /\ Others(r)
            BY <1>2, TypeStep, AuditStep, WalkStep, OneIsServed DEF Inv
        <2>2. ASSUME NEW q \in Requests \ {r} PROVE (Walking(q) /\ Reported(q))'
            BY <2>1 DEF Inv, Others, Walking, Reported
        <2> QED
            BY <2>1, <2>2 DEF Inv
    <1> QED
        BY <1>1, <1>2 DEF Next

LEMMA Always == Spec => []Inv
    BY InitTypes, Step, PTL DEF Spec

(* The objects of APICore.validate keep to their types: every report can be  *)
(* built, whatever the rules answer.                                         *)
THEOREM ValidationTypes == Spec => []TypeOK
    <1>1. Inv => TypeOK
        BY DEF Inv
    <1> QED
        BY <1>1, Always, PTL

(* Every report that is sent lists the rules in the order of the policy and  *)
(* nothing after a failure, whose text is not empty.                         *)
THEOREM ReportsReadable == Spec => []ReportsAreReadable
    <1>1. Inv => ReportsAreReadable
        <2> SUFFICES ASSUME Inv, NEW r \in Requests,
                            phase[r] \in {"audit", "answered"}, report[r].status = 200
                     PROVE  Readable(report[r])
            BY DEF ReportsAreReadable, Readable
        <2>1. InternalError.status = 500
            BY DEF InternalError
        <2> QED
            BY <2>1 DEF Inv, Reported
    <1> QED
        BY <1>1, Always, PTL

(* The audit log has one line for each report that was sent, with its        *)
(* verdict, and no other.                                                    *)
THEOREM AuditIsTrue == Spec => []AuditTellsTheAnswers
    <1>1. Inv => AuditTellsTheAnswers
        BY DEF Inv
    <1> QED
        BY <1>1, Always, PTL
================================================================================
