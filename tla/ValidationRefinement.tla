-------------------------- MODULE ValidationRefinement --------------------------
(***************************************************************************)
(* Validation implements Verdicts, proved for any policies and commits: as *)
(* the walk goes on, the details are those of the points behind it, and    *)
(* none of those objects when JIRA answers.                                *)
(***************************************************************************)
EXTENDS ValidationProofs

--------------------------------------------------------------------------------
(* What rules answer.                                                        *)

LEMMA SameOutcome ==
    ASSUME NEW d, NEW g, NEW c, NEW u
    PROVE  V!Outcome(d, g, c, u) = Outcome(d, g, c, u)
    <1>1. V!RuleIds = RuleIds
        BY DEF V!RuleIds, RuleIds
    <1>2. \A rule, o : V!Spoken(rule, o) = Spoken(rule, o)
        BY DEF V!Spoken, Spoken
    <1>3. \A params, name : V!Param(params, name) = Param(params, name)
        BY DEF V!Param, Param
    <1>4. V!MessageLength(d.params, c) = MessageLength(d.params, c)
        BY <1>3 DEF V!MessageLength, MessageLength
    <1>5. V!Authenticated(c) = Authenticated(c)
        BY DEF V!Authenticated, Authenticated
    <1>6. V!Authorization(d.params, g, c) = Authorization(d.params, g, c)
        <2>1. \A params, name : V!Listed(params, name) = Listed(params, name)
            BY <1>3 DEF V!Listed, Listed
        <2>2. \A author, as : V!BelongsTo(g, author, as) = BelongsTo(g, author, as)
            BY DEF V!BelongsTo, BelongsTo, V!IsMemberOfPolicyGroup, IsMemberOfPolicyGroup
        <2> QED
            BY <2>1, <2>2 DEF V!Authorization, Authorization
    <1>7. V!JIRAIssueExists(d.params, c, u) = JIRAIssueExists(d.params, c, u)
        <2>1. \A config, keys : V!AskJIRA(config, keys, u) = AskJIRA(config, keys, u)
            BY DEF V!AskJIRA, AskJIRA
        <2>2. \A keys : V!AskDatabase(keys) = AskDatabase(keys)
            BY DEF V!AskDatabase, AskDatabase
        <2> QED
            BY <1>3, <2>1, <2>2 DEF V!JIRAIssueExists, JIRAIssueExists, V!Configured, Configured
    <1> QED
        BY <1>1, <1>2, <1>4, <1>5, <1>6, <1>7 DEF V!Outcome, Outcome

LEMMA SamePaths ==
    ASSUME NEW s, NEW c
    PROVE  V!IsPathAppliable(s, c) <=> IsPathAppliable(s, c)
    BY DEF V!IsPathAppliable, IsPathAppliable

(* JIRA only matters where it is asked; when it answers, what was accepted   *)
(* without it is accepted, and what failed or was refused still is.          *)
LEMMA JIRAHelps ==
    ASSUME NEW d, NEW g, NEW c, NEW u \in BOOLEAN
    PROVE  /\ Outcome(d, g, c, u) = "ok" => Outcome(d, g, c, TRUE) = "ok"
           /\ Outcome(d, g, c, u) = "fail" => Outcome(d, g, c, TRUE) = "fail"
           /\ Outcome(d, g, c, u) = "refused" => Outcome(d, g, c, TRUE) = "refused"
    <1>1. CASE d.rule # "jira-issue-exists"
        <2>1. CASE d.rule \in RuleIds
            <3>1. CASE d.rule = "message"
                BY <3>1 DEF Outcome
            <3>2. CASE d.rule = "authenticated"
                BY <3>2 DEF Outcome
            <3>3. CASE d.rule = "authorization"
                BY <3>3 DEF Outcome
            <3> QED
                BY <1>1, <2>1, <3>1, <3>2, <3>3 DEF RuleIds
        <2>2. CASE d.rule \notin RuleIds
            BY <2>2 DEF Outcome, RuleIds, Spoken
        <2> QED
            BY <2>1, <2>2
    <1>2. CASE d.rule = "jira-issue-exists"
        <2> DEFINE id == Param(d.params, "jira-config-id")
                   keys == KeysIn[c.message]
                   ask(v) == AskJIRA(Configured(id), keys, v)
                   asked(v) == JIRAIssueExists(d.params, c, v)
        <2>1. Configured(id) \in {"absent", "badUrl", "stored"}
            BY RulesAssumption DEF Configured
        <2>2. /\ ask(u) # "fail" /\ (ask(u) = "ok" => ask(TRUE) = "ok")
              /\ ask(u) = "refused" => ask(TRUE) = "refused"
            BY <2>1 DEF AskJIRA
        <2>3. asked(u) = asked(TRUE) \/ (asked(u) = ask(u) /\ asked(TRUE) = ask(TRUE))
            <3>1. CASE id = Blank \/ c.message = Null
                BY <3>1 DEF JIRAIssueExists
            <3>2. CASE id # Blank /\ c.message # Null /\ (keys = {} \/ Profile = "TEST")
                BY <3>2 DEF JIRAIssueExists
            <3>3. CASE id # Blank /\ c.message # Null /\ keys # {} /\ Profile = "PROD"
                BY <3>3 DEF JIRAIssueExists
            <3>4. Profile \in {"PROD", "TEST"}
                BY RulesAssumption
            <3> HIDE DEF asked, ask, id, keys
            <3> QED
                BY <3>1, <3>2, <3>3, <3>4
        <2>4. \A v : Outcome(d, g, c, v) = Spoken(d.rule, asked(v))
            <3> SUFFICES ASSUME NEW v PROVE Outcome(d, g, c, v) = Spoken(d.rule, asked(v))
                OBVIOUS
            <3> HIDE DEF id, keys, ask
            <3> QED
                BY <1>2 DEF Outcome, RuleIds
        <2> HIDE DEF asked, ask
        <2> QED
            BY <2>2, <2>3, <2>4 DEF Spoken
    <1> QED
        BY <1>1, <1>2

--------------------------------------------------------------------------------
(* Points.                                                                   *)

RuleAt(p, i, j) == p.rules[i].rules[j]

LEMMA PointIs ==
    ASSUME NEW p \in Policies, NEW c
    PROVE  \A o : o \in V!Points(p, c) <=>
              \E i \in 1..Len(p.rules) : \E j \in 1..Len(p.rules[i].rules) :
                 /\ o = <<i, j>> /\ ~ RuleAt(p, i, j).disabled
                 /\ ~ p.rules[i].disabled /\ IsPathAppliable(p.rules[i], c)
    <1> SUFFICES ASSUME NEW o
                 PROVE  o \in V!Points(p, c) <=>
                          \E i \in 1..Len(p.rules) : \E j \in 1..Len(p.rules[i].rules) :
                             /\ o = <<i, j>> /\ ~ RuleAt(p, i, j).disabled
                             /\ ~ p.rules[i].disabled /\ IsPathAppliable(p.rules[i], c)
        OBVIOUS
    <1>1. o \in V!Concerned(p, c) <=>
             \E i \in 1..Len(p.rules) : /\ ~ p.rules[i].disabled
                                       /\ V!IsPathAppliable(p.rules[i], c)
                                       /\ \E j \in 1..Len(p.rules[i].rules) : o = <<i, j>>
        BY DEF V!Concerned
    <1>2. \A i, j : o = <<i, j>> => V!Definition(p, o) = RuleAt(p, i, j)
        BY DEF V!Definition, RuleAt
    <1>3. o \in V!Points(p, c) <=> o \in V!Concerned(p, c) /\ ~ V!Definition(p, o).disabled
        BY DEF V!Points
    <1> QED
        BY <1>1, <1>2, <1>3, SamePaths

LEMMA PointPair ==
    ASSUME NEW p \in Policies, NEW c, NEW o \in V!Points(p, c)
    PROVE  /\ o[1] \in 1..Len(p.rules) /\ o[2] \in 1..Len(p.rules[o[1]].rules)
           /\ o = <<o[1], o[2]>> /\ o \in Nat \X Nat
    <1>0. PICK i \in 1..Len(p.rules) : \E j \in 1..Len(p.rules[i].rules) : o = <<i, j>>
        BY PointIs
    <1>1. PICK j \in 1..Len(p.rules[i].rules) : o = <<i, j>>
        BY <1>0
    <1>2. Len(p.rules) \in Nat /\ Len(p.rules[i].rules) \in Nat
        BY ValidationAssumption
    <1>3. i \in Nat /\ j \in Nat
        BY <1>2
    <1> QED
        BY <1>1, <1>3

LEMMA SameBefore == \A a, b : V!Before(a, b) <=> Before(a, b)
    BY DEF V!Before, Before

LEMMA Total ==
    ASSUME NEW a \in Nat \X Nat, NEW b \in Nat \X Nat
    PROVE  /\ a = b \/ Before(a, b) \/ Before(b, a)
           /\ ~ (Before(a, b) /\ Before(b, a)) /\ ~ Before(a, a)
    <1>1. a = <<a[1], a[2]>> /\ b = <<b[1], b[2]>>
        OBVIOUS
    <1>2. a[1] \in Nat /\ a[2] \in Nat /\ b[1] \in Nat /\ b[2] \in Nat
        OBVIOUS
    <1> QED
        BY <1>1, <1>2 DEF Before

LEMMA AnswerIs ==
    ASSUME NEW p, NEW c, NEW down, NEW o
    PROVE  V!Answer(p, c, down, o)
              = Outcome(RuleAt(p, o[1], o[2]), p.groups, c, o \notin down)
    BY SameOutcome DEF V!Answer, V!Definition, RuleAt

--------------------------------------------------------------------------------
(* Verdicts.                                                                 *)

LEMMA AcceptedIs ==
    ASSUME NEW p, NEW c, NEW down, V!Objections(p, c, down) = {}
    PROVE  V!Verdict(p, c, down) = V!Accepted(V!Points(p, c))
    BY DEF V!Verdict

(* The verdict is that of the first objection o.                             *)
LEMMA FirstObjection ==
    ASSUME NEW p \in Policies, NEW c, NEW down, NEW o \in V!Points(p, c),
           V!Answer(p, c, down, o) # "ok",
           \A q \in V!Points(p, c) : Before(q, o) => V!Answer(p, c, down, q) = "ok"
    PROVE  /\ V!Answer(p, c, down, o) = "fail" =>
                 V!Verdict(p, c, down)
                    = V!Rejected({q \in V!Points(p, c) : q = o \/ Before(q, o)})
           /\ V!Answer(p, c, down, o) = "refused" => V!Verdict(p, c, down) = V!Rejected({})
           /\ V!Answer(p, c, down, o) = "crashed" => V!Verdict(p, c, down) = V!Crashed
    <1> DEFINE objections == V!Objections(p, c, down)
               Least(x) == \A other \in objections \ {x} : V!Before(x, other)
               first == CHOOSE x \in objections : Least(x)
               upTo(x) == {q \in V!Points(p, c) : q = x \/ V!Before(q, x)}
    <1>1. \A x : x \in objections <=> x \in V!Points(p, c) /\ V!Answer(p, c, down, x) # "ok"
        BY DEF V!Objections
    <1>2. \A x \in objections : x \in Nat \X Nat
        BY <1>1, PointPair
    <1> HIDE DEF objections
    <1>3. o \in objections
        BY <1>1
    <1>4. Least(o)
        <2> SUFFICES ASSUME NEW x \in objections \ {o} PROVE V!Before(o, x)
            OBVIOUS
        <2>1. ~ Before(x, o)
            BY <1>1
        <2> QED
            BY <1>2, <1>3, <2>1, Total, SameBefore
    <1>5. ASSUME NEW x \in objections, Least(x) PROVE x = o
        <2> SUFFICES ASSUME x # o PROVE FALSE
            OBVIOUS
        <2>1. Before(x, o)
            BY <1>3, <1>5, SameBefore
        <2> QED
            BY <1>1, <2>1
    <1>6. first = o
        <2> HIDE DEF Least
        <2> QED
            BY <1>3, <1>4, <1>5
    <1>7. V!Verdict(p, c, down)
             = CASE objections = {} -> V!Accepted(V!Points(p, c))
                 [] objections # {} ->
                       CASE V!Answer(p, c, down, first) = "fail"    -> V!Rejected(upTo(first))
                         [] V!Answer(p, c, down, first) = "refused" -> V!Rejected({})
                         [] V!Answer(p, c, down, first) = "crashed" -> V!Crashed
        BY DEF V!Verdict, objections
    <1>8. upTo(o) = {q \in V!Points(p, c) : q = o \/ Before(q, o)}
        BY SameBefore
    <1> HIDE DEF first, upTo
    <1> QED
        BY <1>3, <1>6, <1>7, <1>8

--------------------------------------------------------------------------------
(* The walk: what is behind the indexes is in the details and agrees.        *)

PointsOf(ds) == {ds[i].at : i \in DOMAIN ds}

Points(r) == V!Points(policy[r], commit[r])

Passed(r) == {q \in Points(r) : Before(q, at[r])}

(* The answer of point q when JIRA answers.                                  *)
AnswerAt(r, q) == V!Answer(policy[r], commit[r], {}, q)

InRuleSet(r) ==
    /\ at[r][1] \in 1..Len(policy[r].rules) /\ at[r][2] >= 1
    /\ ~ RuleSetAt(r).disabled /\ IsPathAppliable(RuleSetAt(r), commit[r])

Stopped(r) ==
    /\ at[r] \in Points(r) /\ AnswerAt(r, at[r]) = "fail"
    /\ PointsOf(details[r]) = Passed(r) \cup {at[r]}
    /\ \E i \in DOMAIN details[r] : ~ details[r][i].success

AcceptedRightly(r) ==
    policy[r] \in Policies /\ V!Objections(policy[r], commit[r], {}) = {}

Track(r) ==
    /\ phase[r] \in {"idle", "load"} => at[r] = <<1, 1>>
    /\ phase[r] \in {"rulesets", "rules", "consolidate"}
          => policy[r] \in Policies /\ \A q \in Passed(r) : AnswerAt(r, q) = "ok"
    /\ phase[r] \in {"rulesets", "rules"} => PointsOf(details[r]) = Passed(r)
    /\ phase[r] = "rulesets" => at[r][1] >= 1 /\ at[r][2] = 1
    /\ phase[r] = "rules" => InRuleSet(r)
    /\ phase[r] = "consolidate" => Stopped(r)
    /\ phase[r] \in {"audit", "answered"} /\ report[r].status = 200 /\ report[r].success
          => AcceptedRightly(r)

(* Where the walk is, when it is at a rule that is not disabled.             *)
LEMMA AtPoint ==
    ASSUME TypeOK, NEW r \in Requests, policy[r] \in Policies, InRuleSet(r),
           at[r][2] <= Len(RuleSetAt(r).rules), ~ DefinitionAt(r).disabled
    PROVE  /\ at[r] \in Points(r)
           /\ DefinitionAt(r) = RuleAt(policy[r], at[r][1], at[r][2])
    <1>1. at[r] \in Nat \X Nat
        BY Types
    <1>2. at[r] = <<at[r][1], at[r][2]>> /\ at[r][1] \in Nat /\ at[r][2] \in Nat
        BY <1>1
    <1>3. at[r][2] \in 1..Len(policy[r].rules[at[r][1]].rules)
        <2>1. Len(policy[r].rules[at[r][1]].rules) \in Nat
            BY ValidationAssumption DEF InRuleSet
        <2> QED
            BY <1>2, <2>1 DEF InRuleSet, RuleSetAt
    <1>4. DefinitionAt(r) = RuleAt(policy[r], at[r][1], at[r][2])
        BY DEF DefinitionAt, RuleSetAt, RuleAt
    <1> DEFINE i == at[r][1]
               j == at[r][2]
    <1>5. /\ i \in 1..Len(policy[r].rules) /\ j \in 1..Len(policy[r].rules[i].rules)
          /\ at[r] = <<i, j>> /\ ~ RuleAt(policy[r], i, j).disabled
          /\ ~ policy[r].rules[i].disabled /\ IsPathAppliable(policy[r].rules[i], commit[r])
        BY <1>2, <1>3, <1>4 DEF InRuleSet, RuleSetAt
    <1> HIDE DEF i, j
    <1>6. at[r] \in V!Points(policy[r], commit[r])
        BY <1>5, PointIs
    <1> QED
        BY <1>4, <1>6 DEF Points

(* What the rule there answers now, it answers when JIRA does, but a crash.  *)
LEMMA AppliedIs ==
    ASSUME TypeOK, NEW r \in Requests, policy[r] \in Policies, InRuleSet(r),
           at[r][2] <= Len(RuleSetAt(r).rules), ~ DefinitionAt(r).disabled
    PROVE  /\ Applied(r) \in {"ok", "fail", "refused"} => AnswerAt(r, at[r]) = Applied(r)
           /\ Applied(r) = V!Answer(policy[r], commit[r], {q \in {at[r]} : ~ up}, at[r])
    <1>1. up \in BOOLEAN
        BY DEF TypeOK
    <1>2. Applied(r) = Outcome(RuleAt(policy[r], at[r][1], at[r][2]), policy[r].groups,
                               commit[r], up)
        BY AtPoint DEF Applied
    <1>3. AnswerAt(r, at[r]) = Outcome(RuleAt(policy[r], at[r][1], at[r][2]),
                                       policy[r].groups, commit[r], TRUE)
        <2>1. (at[r] \notin {}) = TRUE
            OBVIOUS
        <2> QED
            BY <2>1, AnswerIs, Zenon DEF AnswerAt
    <1>4. V!Answer(policy[r], commit[r], {q \in {at[r]} : ~ up}, at[r])
             = Outcome(RuleAt(policy[r], at[r][1], at[r][2]), policy[r].groups, commit[r], up)
        <2>1. (at[r] \notin {q \in {at[r]} : ~ up}) = up
            BY <1>1
        <2> QED
            BY <2>1, AnswerIs, Zenon
    <1>5. /\ Applied(r) = "ok" => AnswerAt(r, at[r]) = "ok"
          /\ Applied(r) = "fail" => AnswerAt(r, at[r]) = "fail"
          /\ Applied(r) = "refused" => AnswerAt(r, at[r]) = "refused"
        BY <1>1, <1>2, <1>3, JIRAHelps
    <1> QED
        BY <1>2, <1>4, <1>5

LEMMA PointsAppended ==
    ASSUME NEW ds \in Seq(Details), NEW d \in Details
    PROVE  PointsOf(Append(ds, d)) = PointsOf(ds) \cup {d.at}
    <1>1. /\ Len(ds) \in Nat /\ DOMAIN ds = 1..Len(ds)
          /\ DOMAIN Append(ds, d) = 1..(Len(ds) + 1)
          /\ \A i \in DOMAIN ds : Append(ds, d)[i] = ds[i]
          /\ Append(ds, d)[Len(ds) + 1] = d
        BY Appended
    <1>2. DOMAIN Append(ds, d) = DOMAIN ds \cup {Len(ds) + 1}
        BY <1>1
    <1> QED
        BY <1>1, <1>2 DEF PointsOf

(* The steps of the loops that apply no rule: nothing new is behind.         *)
LEMMA LoopStep ==
    ASSUME TypeOK, NEW r \in Requests, Track(r), Reported(r),
           SkipRuleSet(r) \/ EnterRuleSet(r) \/ LeaveRuleSet(r) \/ SkipRule(r)
    PROVE  Track(r)'
    <1> DEFINE i == at[r][1]
               j == at[r][2]
    <1>0. {"idle", "load", "rulesets", "rules", "consolidate", "audit", "answered"} = Phases
        BY DEF Phases
    <1>1. /\ policy' = policy /\ commit' = commit /\ details' = details
          /\ phase[r] \in {"rulesets", "rules"} /\ policy[r] \in Policies
          /\ phase'[r] \in {"rulesets", "rules"}
        BY <1>0, Indexes DEF SkipRuleSet, EnterRuleSet, LeaveRuleSet, SkipRule, Track
    <1>2. at[r] \in Nat \X Nat /\ i \in Nat /\ j \in Nat /\ at[r] = <<i, j>>
        BY Types
    <1>3. /\ NextRuleSet(r) => at'[r] = <<i + 1, 1>>
          /\ NextRule(r) => at'[r] = <<i, j + 1>>
        BY Indexes
    <1>4. \A q \in Points(r) : /\ q = <<q[1], q[2]>> /\ q[1] \in Nat /\ q[2] \in Nat /\ q[2] >= 1
                              /\ q[2] <= Len(policy[r].rules[q[1]].rules)
                              /\ ~ RuleAt(policy[r], q[1], q[2]).disabled
                              /\ ~ policy[r].rules[q[1]].disabled
                              /\ IsPathAppliable(policy[r].rules[q[1]], commit[r])
        <2> SUFFICES ASSUME NEW q \in Points(r)
                     PROVE  /\ q = <<q[1], q[2]>> /\ q[1] \in Nat /\ q[2] \in Nat /\ q[2] >= 1
                            /\ q[2] <= Len(policy[r].rules[q[1]].rules)
                            /\ ~ RuleAt(policy[r], q[1], q[2]).disabled
                            /\ ~ policy[r].rules[q[1]].disabled
                            /\ IsPathAppliable(policy[r].rules[q[1]], commit[r])
            OBVIOUS
        <2>1. PICK k \in 1..Len(policy[r].rules) : \E l \in 1..Len(policy[r].rules[k].rules) :
                 /\ q = <<k, l>> /\ ~ RuleAt(policy[r], k, l).disabled
                 /\ ~ policy[r].rules[k].disabled
                 /\ IsPathAppliable(policy[r].rules[k], commit[r])
            BY <1>1, PointIs DEF Points
        <2>2. PICK l \in 1..Len(policy[r].rules[k].rules) :
                 /\ q = <<k, l>> /\ ~ RuleAt(policy[r], k, l).disabled
            BY <2>1
        <2>3. Len(policy[r].rules) \in Nat /\ Len(policy[r].rules[k].rules) \in Nat
            BY <1>1, ValidationAssumption
        <2> QED
            BY <2>1, <2>2, <2>3
    <1>5. \A q \in Points(r) : Before(q, at'[r]) <=> Before(q, at[r])
        <2>1. CASE SkipRuleSet(r)
            <3>1. \A q \in Points(r) : q[1] # i
                BY <1>4, <2>1 DEF SkipRuleSet, RuleSetAt
            <3>2. at'[r] = <<i + 1, 1>>
                BY <1>3, <2>1 DEF SkipRuleSet
            <3> QED
                BY <1>2, <1>4, <3>1, <3>2 DEF Before
        <2>2. CASE EnterRuleSet(r)
            BY <2>2 DEF EnterRuleSet
        <2>3. CASE LeaveRuleSet(r)
            <3>1. Len(policy[r].rules[i].rules) \in Nat
                BY <1>1, <2>3, ValidationAssumption DEF LeaveRuleSet, Track, InRuleSet
            <3>2. \A q \in Points(r) : q[1] = i => q[2] < j
                BY <1>2, <1>4, <2>3, <3>1 DEF LeaveRuleSet, RuleSetAt
            <3>3. at'[r] = <<i + 1, 1>>
                BY <1>3, <2>3 DEF LeaveRuleSet
            <3> QED
                BY <1>2, <1>4, <3>2, <3>3 DEF Before
        <2>4. CASE SkipRule(r)
            <3>1. \A q \in Points(r) : q # <<i, j>>
                <4>1. RuleAt(policy[r], i, j).disabled
                    BY <2>4 DEF SkipRule, DefinitionAt, RuleSetAt, RuleAt
                <4>2. ASSUME NEW q \in Points(r), q = <<i, j>> PROVE FALSE
                    <5>1. q[1] = i /\ q[2] = j
                        BY <4>2
                    <5> QED
                        BY <1>4, <4>1, <5>1
                <4> QED
                    BY <4>2
            <3>2. at'[r] = <<i, j + 1>>
                BY <1>3, <2>4 DEF SkipRule
            <3> QED
                BY <1>2, <1>4, <3>1, <3>2 DEF Before
        <2> QED
            BY <2>1, <2>2, <2>3, <2>4
    <1>6. Passed(r)' = Passed(r)
        BY <1>1, <1>5 DEF Passed, Points
    <1>7. /\ PointsOf(details'[r]) = Passed(r)'
          /\ policy'[r] \in Policies /\ \A q \in Passed(r)' : AnswerAt(r, q)' = "ok"
        BY <1>1, <1>6 DEF Track, AnswerAt
    <1>8. phase'[r] = "rulesets" => at'[r][1] >= 1 /\ at'[r][2] = 1
        BY <1>0, <1>2, <1>3, Indexes
           DEF SkipRuleSet, EnterRuleSet, LeaveRuleSet, SkipRule, Track, InRuleSet
    <1>9. phase'[r] = "rules" => InRuleSet(r)'
        <2>1. CASE SkipRuleSet(r) \/ LeaveRuleSet(r)
            BY <1>0, <2>1, Indexes DEF SkipRuleSet, LeaveRuleSet
        <2>2. CASE EnterRuleSet(r)
            <3>1. Len(policy[r].rules) \in Nat
                BY <1>1, ValidationAssumption
            <3> QED
                BY <1>1, <1>2, <2>2, <3>1 DEF EnterRuleSet, Track, InRuleSet, RuleSetAt
        <2>3. CASE SkipRule(r)
            BY <1>1, <1>2, <1>3, <2>3 DEF SkipRule, Track, InRuleSet, RuleSetAt
        <2> QED
            BY <2>1, <2>2, <2>3
    <1> QED
        BY <1>1, <1>7, <1>8, <1>9 DEF Track

LEMMA ApplyTrack ==
    ASSUME TypeOK, NEW r \in Requests, Track(r), Walking(r), ApplyRule(r)
    PROVE  Track(r)'
    <1> DEFINE i == at[r][1]
               j == at[r][2]
               d == DetailAt(r, Applied(r))
    <1>1. /\ policy' = policy /\ commit' = commit
          /\ policy[r] \in Policies /\ InRuleSet(r) /\ PointsOf(details[r]) = Passed(r)
          /\ \A q \in Passed(r) : AnswerAt(r, q) = "ok"
        BY DEF ApplyRule, Track
    <1>2. at[r] \in Nat \X Nat /\ i \in Nat /\ j \in Nat /\ at[r] = <<i, j>>
          /\ details[r] \in Seq(Details)
        BY Types
    <1>3. at[r] \in Points(r) /\ AnswerAt(r, at[r]) = Applied(r)
        BY <1>1, AtPoint, AppliedIs DEF ApplyRule
    <1>4. d \in Details /\ d.at = at[r] /\ d.success = (Applied(r) = "ok")
        BY <1>2, DetailIs, FailuresSpeak DEF ApplyRule
    <1>5. details'[r] = Append(details[r], d)
        BY DEF ApplyRule, TypeOK
    <1> HIDE DEF d
    <1>6. PointsOf(details'[r]) = Passed(r) \cup {at[r]}
        BY <1>1, <1>2, <1>4, <1>5, PointsAppended
    <1>7. CASE Applied(r) = "ok"
        <2>1. phase'[r] = "rules" /\ at'[r] = <<i, j + 1>>
            BY <1>7, Indexes DEF ApplyRule, Aborts
        <2>2. \A q \in Points(r) : Before(q, at'[r]) <=> Before(q, at[r]) \/ q = at[r]
            <3>1. \A q \in Points(r) : q = <<q[1], q[2]>> /\ q[1] \in Nat /\ q[2] \in Nat
                BY <1>1, PointPair DEF Points
            <3> QED
                BY <1>2, <2>1, <3>1 DEF Before
        <2>3. Passed(r)' = Passed(r) \cup {at[r]}
            BY <1>1, <1>3, <2>2 DEF Passed, Points
        <2>4. \A q \in Passed(r)' : AnswerAt(r, q)' = "ok"
            BY <1>1, <1>3, <1>7, <2>3 DEF AnswerAt
        <2>5. InRuleSet(r)'
            BY <1>1, <1>2, <2>1 DEF InRuleSet, RuleSetAt
        <2> QED
            BY <1>1, <1>6, <2>1, <2>3, <2>4, <2>5 DEF Track
    <1>8. CASE Applied(r) = "fail"
        <2>1. phase'[r] = "consolidate" /\ at' = at
            BY <1>8, Indexes DEF ApplyRule, Aborts, Phases
        <2>2. Passed(r)' = Passed(r) /\ Points(r)' = Points(r)
            BY <1>1, <2>1 DEF Passed, Points
        <2>3. \E k \in DOMAIN details'[r] : ~ details'[r][k].success
            <3>1. /\ DOMAIN details'[r] = 1..(Len(details[r]) + 1) /\ Len(details[r]) \in Nat
                  /\ details'[r][Len(details[r]) + 1] = d
                BY <1>2, <1>4, <1>5, Appended
            <3>2. Len(details[r]) + 1 \in DOMAIN details'[r]
                BY <3>1
            <3> QED
                BY <1>4, <1>8, <3>1, <3>2
        <2>4. Stopped(r)'
            BY <1>1, <1>3, <1>6, <1>8, <2>1, <2>2, <2>3 DEF Stopped, AnswerAt
        <2>5. \A q \in Passed(r)' : AnswerAt(r, q)' = "ok"
            BY <1>1, <2>2 DEF AnswerAt
        <2> QED
            BY <1>1, <2>1, <2>4, <2>5 DEF Track
    <1> QED
        BY <1>7, <1>8 DEF ApplyRule

LEMMA ReportTrack ==
    ASSUME TypeOK, NEW r \in Requests, Track(r), Walking(r), Consolidate(r)
    PROVE  /\ Track(r)'
           /\ report'[r] = Consolidated(details[r]) /\ report'[r] \in Reports
           /\ report'[r].details = details[r]
           /\ \/ phase[r] = "consolidate" /\ ~ report'[r].success
              \/ report'[r].success /\ AcceptedRightly(r) /\ Passed(r) = Points(r)
    <1>1. /\ details[r] \in Seq(Details) /\ InOrder(details[r]) /\ Speaking(details[r])
          /\ policy' = policy /\ commit' = commit /\ policy[r] \in Policies
          /\ \A q \in Passed(r) : AnswerAt(r, q) = "ok"
        BY Types DEF Consolidate, Walking, Track
    <1>2. phase'[r] = "audit" /\ report'[r] = Consolidated(details[r])
        BY Indexes DEF Consolidate, TypeOK, Phases
    <1>3. /\ report'[r] \in Reports /\ report'[r].details = details[r]
          /\ report'[r].success = (\A i \in DOMAIN details[r] : details[r][i].success)
        BY <1>1, <1>2, ConsolidatedIs
    <1>4. CASE phase[r] = "consolidate"
        <2>1. ~ report'[r].success
            BY <1>3, <1>4 DEF Track, Stopped
        <2> QED
            BY <1>2, <1>3, <1>4, <2>1 DEF Track
    <1>5. CASE phase[r] = "rulesets" /\ at[r][1] > Len(policy[r].rules)
        <2>1. report'[r].success
            BY <1>3, <1>5 DEF Walking
        <2>2. ASSUME NEW q \in Points(r) PROVE Before(q, at[r])
            <3>1. q[1] \in 1..Len(policy[r].rules) /\ Len(policy[r].rules) \in Nat
                BY <1>1, PointPair, ValidationAssumption DEF Points
            <3>2. at[r][1] \in Nat
                BY Types
            <3> QED
                BY <1>5, <3>1, <3>2 DEF Before
        <2>3. Passed(r) = Points(r)
            BY <2>2 DEF Passed
        <2>4. AcceptedRightly(r)
            BY <1>1, <2>3 DEF AcceptedRightly, AnswerAt, Points, V!Objections
        <2>5. AcceptedRightly(r)'
            BY <1>1, <2>4 DEF AcceptedRightly
        <2> QED
            BY <1>2, <1>3, <2>1, <2>3, <2>4, <2>5 DEF Track
    <1> QED
        BY <1>4, <1>5 DEF Consolidate

LEMMA TrackStep ==
    ASSUME TypeOK, NEW r \in Requests, Track(r), Walking(r), Reported(r),
           Serve(r) \/ \E c \in Commits : Post(r, c)
    PROVE  Track(r)'
    <1>1. \A where \in Phases : Go(r, where) => phase'[r] = where
        BY Indexes
    <1>2. {"idle", "load", "rulesets", "rules", "consolidate", "audit", "answered"} = Phases
        BY DEF Phases
    <1>3. ASSUME NEW c \in Commits, Post(r, c) PROVE Track(r)'
        BY <1>1, <1>2, <1>3 DEF Post, Track
    <1>4. CASE Load(r)
        <2>1. /\ phase'[r] = "rulesets" /\ at'[r] = <<1, 1>> /\ details'[r] = <<>>
              /\ policy'[r] \in Policies /\ policy'[r] = store
            BY <1>1, <1>2, <1>4 DEF Load, Track, Walking, TypeOK
        <2>2. PointsOf(details'[r]) = {}
            BY <2>1 DEF PointsOf
        <2>3. Passed(r)' = {}
            <3> SUFFICES ASSUME NEW q \in V!Points(store, commit'[r])
                         PROVE  ~ Before(q, <<1, 1>>)
                BY <2>1 DEF Passed, Points
            <3>1. q \in Nat \X Nat /\ q[1] >= 1 /\ q[2] >= 1
                <4>1. /\ q[1] \in 1..Len(store.rules) /\ q[2] \in 1..Len(store.rules[q[1]].rules)
                      /\ q \in Nat \X Nat
                    BY <2>1, PointPair
                <4>2. Len(store.rules) \in Nat /\ Len(store.rules[q[1]].rules) \in Nat
                    BY <2>1, <4>1, ValidationAssumption
                <4> QED
                    BY <4>1, <4>2
            <3> QED
                BY <3>1 DEF Before
        <2> QED
            BY <2>1, <2>2, <2>3 DEF Track
    <1>5. CASE PolicyNotFound(r) \/ RefuseRule(r)
        <2>1. phase'[r] = "audit" /\ report'[r] = ErrorReport
            BY <1>1, <1>2, <1>5 DEF PolicyNotFound, RefuseRule, TypeOK
        <2>2. ~ ErrorReport.success
            BY DEF ErrorReport
        <2> QED
            BY <2>1, <2>2 DEF Track
    <1>6. CASE SkipRuleSet(r) \/ EnterRuleSet(r) \/ LeaveRuleSet(r) \/ SkipRule(r)
        BY <1>6, LoopStep
    <1>7. CASE ApplyRule(r)
        BY <1>7, ApplyTrack
    <1>8. CASE CrashRule(r)
        <2>1. phase'[r] = "answered" /\ report'[r] = InternalError
            BY <1>1, <1>2, <1>8 DEF CrashRule, TypeOK
        <2>2. InternalError.status # 200
            BY DEF InternalError
        <2> QED
            BY <2>1, <2>2 DEF Track
    <1>9. CASE Consolidate(r)
        BY <1>9, ReportTrack
    <1>10. CASE Audit(r)
        BY <1>1, <1>2, <1>10 DEF Audit, Track, AcceptedRightly
    <1> QED
        BY <1>3, <1>4, <1>5, <1>6, <1>7, <1>8, <1>9, <1>10 DEF Serve

TrackInv == Inv /\ \A r \in Requests : Track(r)

LEMMA TrackInit == Init => TrackInv
    <1> SUFFICES ASSUME Init, NEW r \in Requests PROVE Track(r)
        BY InitTypes DEF TrackInv
    <1> QED
        BY DEF Init, Track

LEMMA TrackNext == TrackInv /\ [Next]_vars => TrackInv'
    <1> SUFFICES ASSUME TrackInv, [Next]_vars PROVE TrackInv'
        OBVIOUS
    <1>1. Inv'
        BY Step DEF TrackInv
    <1>2. CASE EditPolicy \/ JIRAGoesOrComes \/ UNCHANGED vars
        <2>1. UNCHANGED <<phase, commit, policy, at, details, report>>
            BY <1>2 DEF EditPolicy, JIRAGoesOrComes, vars
        <2>2. ASSUME NEW q \in Requests PROVE Track(q)'
            BY <2>1 DEF TrackInv, Track, Passed, Points, AnswerAt, InRuleSet, RuleSetAt,
                        Stopped, AcceptedRightly
        <2> QED
            BY <1>1, <2>2 DEF TrackInv
    <1>3. ASSUME NEW r \in Requests, Serve(r) \/ \E c \in Commits : Post(r, c)
          PROVE  TrackInv'
        <2>1. Track(r)' /\ Others(r)
            BY <1>3, TrackStep, OneIsServed DEF Inv, TrackInv
        <2>2. ASSUME NEW q \in Requests \ {r} PROVE Track(q)'
            <3>1. /\ phase'[q] = phase[q] /\ commit'[q] = commit[q] /\ policy'[q] = policy[q]
                  /\ at'[q] = at[q] /\ details'[q] = details[q] /\ report'[q] = report[q]
                BY <2>1 DEF Others
            <3>2. Points(q)' = Points(q) /\ RuleSetAt(q)' = RuleSetAt(q)
                BY <3>1 DEF Points, RuleSetAt
            <3>3. Passed(q)' = Passed(q) /\ \A o : AnswerAt(q, o)' = AnswerAt(q, o)
                BY <3>1, <3>2 DEF Passed, AnswerAt
            <3>4. Track(q)
                BY DEF TrackInv
            <3> QED
                BY <3>1, <3>2, <3>3, <3>4 DEF Track, InRuleSet, Stopped, AcceptedRightly
        <2> QED
            BY <1>1, <2>1, <2>2 DEF TrackInv
    <1> QED
        BY <1>2, <1>3 DEF Next

--------------------------------------------------------------------------------
(* Every step is a step of Verdicts, or none.                                *)

LEMMA SeenMoves ==
    ASSUME TypeOK, NEW r \in Requests, NEW where \in Phases, Go(r, where)
    PROVE  [q \in Requests |-> Seen(phase[q])]'
              = [[q \in Requests |-> Seen(phase[q])] EXCEPT ![r] = Seen(where)]
    BY DEF TypeOK, Go

LEMMA SeenStays ==
    ASSUME TypeOK, NEW r \in Requests, NEW where \in Phases, Go(r, where),
           Seen(where) = Seen(phase[r])
    PROVE  [q \in Requests |-> Seen(phase[q])]' = [q \in Requests |-> Seen(phase[q])]
    BY DEF TypeOK, Go

LEMMA ToldMoves ==
    ASSUME TypeOK, NEW r \in Requests, NEW answer, report' = [report EXCEPT ![r] = answer]
    PROVE  [q \in Requests |-> Told(report[q])]'
              = [[q \in Requests |-> Told(report[q])] EXCEPT ![r] = Told(answer)]
    BY DEF TypeOK

LEMMA SeenIs ==
    /\ Seen("idle") = "idle" /\ Seen("load") = "asked"
    /\ \A w \in {"rulesets", "rules", "consolidate"} : Seen(w) = "loaded"
    /\ \A w \in {"audit", "answered"} : Seen(w) = "answered"
    BY DEF Seen

LEMMA ToldIs ==
    /\ Told(ErrorReport) = V!Rejected({})
    /\ Told(InternalError) = V!Crashed
    /\ \A answer \in Reports :
          Told(answer) = IF answer.success THEN V!Accepted(PointsOf(answer.details))
                         ELSE V!Rejected(PointsOf(answer.details))
    <1>1. ASSUME NEW answer \in Reports
          PROVE  Told(answer) = IF answer.success THEN V!Accepted(PointsOf(answer.details))
                                ELSE V!Rejected(PointsOf(answer.details))
        <2>1. answer # None /\ answer # InternalError /\ answer.success \in BOOLEAN
            BY <1>1, ReportFields
        <2>2. Told(answer) = [status |-> 200, success |-> answer.success,
                              applied |-> PointsOf(answer.details)]
            BY <2>1, Zenon DEF Told, PointsOf
        <2>3. CASE answer.success = TRUE
            BY <2>2, <2>3 DEF V!Accepted
        <2>4. CASE answer.success = FALSE
            BY <2>2, <2>4 DEF V!Rejected
        <2> QED
            BY <2>1, <2>3, <2>4
    <1>2. Told(ErrorReport) = V!Rejected({})
        <2>1. ~ ErrorReport.success /\ PointsOf(ErrorReport.details) = {}
            BY DEF ErrorReport, PointsOf
        <2> QED
            BY <1>1, <2>1, ErrorReportIs
    <1>3. Told(InternalError) = V!Crashed
        BY NoneAssumption DEF Told, V!Crashed
    <1> QED
        BY <1>1, <1>2, <1>3

(* A step of request r that decides its verdict is a step Decide.            *)
LEMMA DecideStep ==
    ASSUME TypeOK, NEW r \in Requests, NEW down \in SUBSET Points(r), NEW answer,
           NEW where \in {"audit", "answered"},
           phase[r] \in {"rulesets", "rules", "consolidate"}, Go(r, where),
           report' = [report EXCEPT ![r] = answer],
           Told(answer) = V!Verdict(policy[r], commit[r], down),
           UNCHANGED <<store, commit, policy>>
    PROVE  V!Decide(r)
    <1>1. where \in Phases
        BY DEF Phases
    <1>2. /\ [q \in Requests |-> Seen(phase[q])][r] = "loaded"
          /\ [q \in Requests |-> Seen(phase[q])]'
                = [[q \in Requests |-> Seen(phase[q])] EXCEPT ![r] = "answered"]
        BY <1>1, SeenMoves, SeenIs
    <1>3. [q \in Requests |-> Told(report[q])]'
             = [[q \in Requests |-> Told(report[q])] EXCEPT
                   ![r] = V!Verdict(policy[r], commit[r], down)]
        BY ToldMoves
    <1> QED
        BY <1>2, <1>3 DEF V!Decide, Points

(* The report of the whole walk, or of the walk up to a failure.             *)
LEMMA ConsolidateDecides ==
    ASSUME TrackInv, NEW r \in Requests, Consolidate(r)
    PROVE  V!Decide(r)
    <1>1. TypeOK /\ Track(r) /\ Walking(r)
        BY DEF TrackInv, Inv
    <1>2. /\ policy[r] \in Policies /\ phase[r] \in {"rulesets", "consolidate"}
          /\ PointsOf(details[r]) = IF phase[r] = "rulesets" THEN Passed(r)
                                    ELSE Passed(r) \cup {at[r]}
          /\ \A q \in Passed(r) : AnswerAt(r, q) = "ok"
          /\ phase[r] = "consolidate" => Stopped(r)
        BY <1>1 DEF Consolidate, Track, Stopped
    <1> DEFINE answer == Consolidated(details[r])
    <1>3. /\ answer \in Reports /\ answer.details = details[r]
          /\ \/ phase[r] = "consolidate" /\ ~ answer.success
             \/ answer.success /\ AcceptedRightly(r) /\ Passed(r) = Points(r)
        BY <1>1, ReportTrack
    <1> HIDE DEF answer
    <1>4. Told(answer) = V!Verdict(policy[r], commit[r], {})
        <2>1. CASE ~ answer.success
            <3>1. Told(answer) = V!Rejected(Passed(r) \cup {at[r]})
                BY <1>2, <1>3, <2>1, ToldIs
            <3>2. at[r] \in Points(r) /\ AnswerAt(r, at[r]) = "fail"
                BY <1>2, <1>3, <2>1 DEF Stopped
            <3>3. {q \in Points(r) : q = at[r] \/ Before(q, at[r])} = Passed(r) \cup {at[r]}
                BY <3>2 DEF Passed
            <3>4. V!Verdict(policy[r], commit[r], {})
                     = V!Rejected({q \in Points(r) : q = at[r] \/ Before(q, at[r])})
                BY <1>2, <3>2, FirstObjection DEF Points, AnswerAt, Passed
            <3> QED
                BY <3>1, <3>3, <3>4
        <2>2. CASE answer.success
            <3>1. /\ PointsOf(details[r]) = Points(r)
                  /\ V!Objections(policy[r], commit[r], {}) = {}
                BY <1>2, <1>3, <2>2 DEF Stopped, AcceptedRightly
            <3> QED
                BY <1>3, <2>2, <3>1, ToldIs, AcceptedIs DEF Points
        <2> QED
            BY <2>1, <2>2
    <1>5. Go(r, "audit") /\ report' = [report EXCEPT ![r] = answer]
          /\ UNCHANGED <<store, commit, policy>>
        BY DEF Consolidate, answer
    <1> QED
        BY <1>1, <1>2, <1>4, <1>5, DecideStep

(* A rule that throws: its answer is the verdict, whether JIRA is to blame   *)
(* or not.                                                                   *)
LEMMA ThrowDecides ==
    ASSUME TrackInv, NEW r \in Requests, RefuseRule(r) \/ CrashRule(r)
    PROVE  V!Decide(r)
    <1>1. TypeOK /\ Track(r)
        BY DEF TrackInv, Inv
    <1>2. /\ policy[r] \in Policies /\ phase[r] = "rules" /\ InRuleSet(r)
          /\ at[r][2] <= Len(RuleSetAt(r).rules) /\ ~ DefinitionAt(r).disabled
          /\ \A q \in Passed(r) : AnswerAt(r, q) = "ok"
        BY <1>1 DEF RefuseRule, CrashRule, Track
    <1> DEFINE down == {q \in {at[r]} : ~ up}
    <1>3. /\ at[r] \in Points(r) /\ down \in SUBSET Points(r)
          /\ V!Answer(policy[r], commit[r], down, at[r]) = Applied(r)
        BY <1>1, <1>2, AtPoint, AppliedIs
    <1>4. \A q \in Points(r) : Before(q, at[r]) => V!Answer(policy[r], commit[r], down, q) = "ok"
        <2> SUFFICES ASSUME NEW q \in Points(r), Before(q, at[r])
                     PROVE  V!Answer(policy[r], commit[r], down, q) = "ok"
            OBVIOUS
        <2>1. q # at[r]
            BY <1>1, <1>3, Types, Total
        <2>2. (q \notin down) = TRUE /\ (q \notin {}) = TRUE
            BY <2>1
        <2>3. V!Answer(policy[r], commit[r], down, q) = AnswerAt(r, q)
            BY <2>2, AnswerIs, Zenon DEF AnswerAt
        <2> QED
            BY <1>2, <2>3 DEF Passed
    <1> HIDE DEF down
    <1> DEFINE answer == V!Answer(policy[r], commit[r], down, at[r])
    <1>5. answer # "ok" => /\ answer = "refused" => V!Verdict(policy[r], commit[r], down)
                                                    = V!Rejected({})
                           /\ answer = "crashed" => V!Verdict(policy[r], commit[r], down)
                                                    = V!Crashed
        BY <1>2, <1>3, <1>4, FirstObjection DEF Points
    <1> HIDE DEF answer
    <1>6. answer = Applied(r)
        BY <1>3 DEF answer
    <1>7. CASE RefuseRule(r)
        <2>1. Told(ErrorReport) = V!Verdict(policy[r], commit[r], down)
            BY <1>5, <1>6, <1>7, ToldIs DEF RefuseRule
        <2> QED
            BY <1>1, <1>2, <1>3, <1>7, <2>1, DecideStep DEF RefuseRule
    <1>8. CASE CrashRule(r)
        <2>1. Told(InternalError) = V!Verdict(policy[r], commit[r], down)
            BY <1>5, <1>6, <1>8, ToldIs DEF CrashRule
        <2> QED
            BY <1>1, <1>2, <1>3, <1>8, <2>1, DecideStep DEF CrashRule
    <1> QED
        BY <1>7, <1>8

LEMMA ServeRefines ==
    ASSUME TrackInv, NEW r \in Requests, Serve(r) \/ \E c \in Commits : Post(r, c)
    PROVE  V!VNext \/ UNCHANGED V!vvars
    <1>1. TypeOK
        BY DEF TrackInv, Inv
    <1>2. {"idle", "load", "rulesets", "rules", "consolidate", "audit", "answered"} = Phases
        BY DEF Phases
    <1>3. ASSUME NEW c \in Commits, Post(r, c) PROVE V!Ask(r)
        <2>1. /\ [q \in Requests |-> Seen(phase[q])][r] = "idle"
              /\ [q \in Requests |-> Seen(phase[q])]'
                    = [[q \in Requests |-> Seen(phase[q])] EXCEPT ![r] = "asked"]
            BY <1>1, <1>2, <1>3, SeenMoves, SeenIs DEF Post
        <2> QED
            BY <1>3, <2>1 DEF Post, V!Ask
    <1>4. CASE Load(r)
        <2>1. /\ [q \in Requests |-> Seen(phase[q])][r] = "asked"
              /\ [q \in Requests |-> Seen(phase[q])]'
                    = [[q \in Requests |-> Seen(phase[q])] EXCEPT ![r] = "loaded"]
            BY <1>1, <1>2, <1>4, SeenMoves, SeenIs DEF Load
        <2> QED
            BY <1>4, <2>1 DEF Load, V!Look, V!VNext
    <1>5. CASE PolicyNotFound(r)
        <2>1. /\ [q \in Requests |-> Seen(phase[q])][r] = "asked"
              /\ [q \in Requests |-> Seen(phase[q])]'
                    = [[q \in Requests |-> Seen(phase[q])] EXCEPT ![r] = "answered"]
            BY <1>1, <1>2, <1>5, SeenMoves, SeenIs DEF PolicyNotFound
        <2>2. [q \in Requests |-> Told(report[q])]'
                 = [[q \in Requests |-> Told(report[q])] EXCEPT ![r] = V!Rejected({})]
            BY <1>1, <1>5, ToldMoves, ToldIs DEF PolicyNotFound
        <2> QED
            BY <1>5, <2>1, <2>2 DEF PolicyNotFound, V!NotThere, V!VNext
    <1>6. CASE RefuseRule(r) \/ CrashRule(r) \/ Consolidate(r)
        BY <1>6, ThrowDecides, ConsolidateDecides DEF V!VNext
    <1>7. ASSUME NEW where \in Phases, Seen(where) = Seen(phase[r]),
                 Go(r, where) \/ phase' = phase,
                 UNCHANGED <<store, commit, policy, report>>
          PROVE  UNCHANGED V!vvars
        BY <1>1, <1>7, SeenStays DEF V!vvars
    <1>8. CASE SkipRuleSet(r) \/ EnterRuleSet(r) \/ LeaveRuleSet(r) \/ SkipRule(r)
        BY <1>2, <1>7, <1>8, SeenIs
           DEF SkipRuleSet, EnterRuleSet, LeaveRuleSet, SkipRule
    <1>9. CASE ApplyRule(r)
        BY <1>2, <1>7, <1>9, SeenIs DEF ApplyRule
    <1>10. CASE Audit(r)
        BY <1>2, <1>7, <1>10, SeenIs DEF Audit
    <1> QED
        BY <1>3, <1>4, <1>5, <1>6, <1>8, <1>9, <1>10 DEF Serve, V!VNext

(* However its loops run, whatever is edited meanwhile and whenever JIRA     *)
(* answers, APIController.validate answers every request with the verdict of *)
(* the one policy it loaded.                                                 *)
THEOREM TellsTheVerdict == Spec => AnswersTheVerdict
    <1>1. Init => V!VInit
        <2> SUFFICES ASSUME Init PROVE V!VInit
            OBVIOUS
        <2>1. [r \in Requests |-> Seen(phase[r])] = [r \in Requests |-> "idle"]
            BY SeenIs DEF Init
        <2>2. Told(None) = None
            BY NoneAssumption DEF Told
        <2>3. [r \in Requests |-> Told(report[r])] = [r \in Requests |-> None]
            BY <2>2 DEF Init
        <2> QED
            BY <2>1, <2>3 DEF Init, V!VInit
    <1>2. TrackInv /\ [Next]_vars => [V!VNext]_(V!vvars)
        <2> SUFFICES ASSUME TrackInv, [Next]_vars PROVE V!VNext \/ UNCHANGED V!vvars
            OBVIOUS
        <2>1. CASE EditPolicy
            <3>1. UNCHANGED <<phase, commit, policy, report>>
                BY <2>1 DEF EditPolicy
            <3> QED
                BY <2>1, <3>1 DEF EditPolicy, V!Change, V!VNext
        <2>2. CASE JIRAGoesOrComes \/ UNCHANGED vars
            <3>1. UNCHANGED <<store, phase, commit, policy, report>>
                BY <2>2 DEF JIRAGoesOrComes, vars
            <3> QED
                BY <3>1 DEF V!vvars
        <2>3. ASSUME NEW r \in Requests, Serve(r) \/ \E c \in Commits : Post(r, c)
              PROVE  V!VNext \/ UNCHANGED V!vvars
            BY <2>3, ServeRefines
        <2> QED
            BY <2>1, <2>2, <2>3 DEF Next
    <1> QED
        BY <1>1, <1>2, TrackInit, TrackNext, PTL DEF Spec, AnswersTheVerdict, V!VSpec
================================================================================
