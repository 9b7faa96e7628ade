----------------------------- MODULE MCValidation -----------------------------
(* Small instances of Validation for TLC.                                    *)
EXTENDS Validation, TLC

CONSTANTS r1, r2, admin, dev, team, atTeam, short, long, keyed, strange,
          CORE1, CORE2, ID0, ID1, ID2, readme, doc, root, everything

MCLength == [m \in Messages \cup {Null} |->
               CASE m = Null -> 0 [] m = short -> 1 [] OTHER -> 3]

(* keyed names an issue that exists, strange one that does not as well.      *)
MCKeysIn == [m \in Messages |->
               CASE m = keyed -> {CORE1} [] m = strange -> {CORE1, CORE2} [] OTHER -> {}]

MCAt == [g \in Groups |-> atTeam]

(* The pattern root matches the files of the root directory only.            *)
MCMatches == {everything} \X Paths \cup {<<root, readme>>}

(* ID0 is not stored.                                                        *)
MCConfigs == ID1 :> "stored" @@ ID2 :> "badUrl"

None0 == [x \in {} |-> Blank]

Def(rule, params) == [rule |-> rule, disabled |-> FALSE, params |-> params]

Set(path, rules) == [path |-> path, disabled |-> FALSE, rules |-> rules]

Policy(rules) == [groups |-> team :> {dev}, rules |-> rules]

MinLength(n) == Def("message", "minlength" :> n)
Allowed(as)  == Def("authorization", "allowed" :> as)
Issue(id)    == Def("jira-issue-exists", "jira-config-id" :> id)

(* A policy in the manner of the Test policy of IntegrationTest: everything  *)
(* needs a message and an author, the root an administrator.                 *)
House == Policy(<<Set(Blank, <<MinLength(2), Def("authenticated", None0)>>),
                  Set(root, <<Allowed({admin})>>)>>)

(* Disabled rule sets and rules, a disallowed author, parameters that are    *)
(* missing or no number.                                                     *)
Strict == Policy(<<[Set(everything, <<MinLength(9)>>) EXCEPT !.disabled = TRUE],
                   Set(everything,
                       <<[MinLength(9) EXCEPT !.disabled = TRUE],
                         Def("authorization", "allowed" :> {atTeam, admin}
                                              @@ "disallowed" :> {admin})>>),
                   Set(root, <<MinLength(Garbage)>>),
                   Set(everything, <<Def("message", None0)>>)>>)

(* Two look-ups in JIRA around a rule of the root.                           *)
Tracked == Policy(<<Set(everything, <<Issue(ID1)>>),
                    Set(root, <<Issue(ID2)>>),
                    Set(Blank, <<MinLength(2), Issue(ID1)>>)>>)

(* A rule id that no bean has, a JIRA configuration that is not stored.      *)
Broken == Policy(<<Set(root, <<Def("unknown", None0)>>),
                   Set(everything, <<Issue(ID0)>>)>>)

Bare == Policy(<<>>)

MCPolicies == {Bare, House, Strict, Tracked, Broken}

MCCommits == {[author |-> admin, message |-> keyed, paths |-> {readme}],
              [author |-> dev, message |-> strange, paths |-> {readme, doc}],
              [author |-> dev, message |-> keyed, paths |-> {doc}],
              [author |-> Blank, message |-> long, paths |-> {doc}],
              [author |-> admin, message |-> short, paths |-> {doc}],
              [author |-> dev, message |-> Null, paths |-> {readme}],
              [author |-> admin, message |-> Null, paths |-> {}]}

RequestSymmetry == Permutations(Requests)
================================================================================
