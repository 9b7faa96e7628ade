--------------------------------- MODULE Rules ---------------------------------
(***************************************************************************)
(* The rules of cipol (cipol-rule, cipol-jira) and their look-up           *)
(* (RuleCoreService.java): what one rule definition answers for a commit.  *)
(*                                                                         *)
(* A definition is [rule, disabled, params]: params maps the names of its  *)
(* PARAM rows (unique by UQ_PARAM) to their values.  A commit is           *)
(* [author, message, paths].  The texts rules produce are left out, except *)
(* that the text of a failure may be empty.                                *)
(***************************************************************************)
EXTENDS Integers, Sequences

CONSTANTS
    Null,           \* a null Java reference
    Blank,          \* a value StringUtils.isBlank accepts
    Garbage,        \* a value Integer.parseInt refuses
    Messages,       \* commit messages
    Length,         \* Length[m]: StringUtils.length
    KeysIn,         \* KeysIn[m]: the issue keys ISSUE_PATTERN finds in m
    Authors,        \* authors that are not blank
    Groups,         \* names of policy groups
    At,             \* At[g]: the authorization "@g"
    Issues,         \* the keys of the issues that exist in JIRA
    Configs,        \* Configs[id]: the URL of the JIRA configuration id, if stored
    Paths,          \* paths of a commit
    Matches,        \* AntPathMatcher: the pairs <<pattern, path>> that match
    DefaultPath,    \* "**"
    Commits,        \* the commits of a run
    Profile,        \* Spring profile: "PROD" asks JIRA, "TEST" the database
    Speechless      \* rules whose failure text is empty in the bundle

ASSUME RulesAssumption ==
    /\ Commits \subseteq [author : Authors \cup {Blank},
                           message : Messages \cup {Null},
                           paths : SUBSET Paths]
    /\ Length \in [Messages \cup {Null} -> Nat]
    /\ Length[Null] = 0
    /\ Blank \notin Authors
    /\ Null \notin Messages
    /\ DOMAIN KeysIn = Messages
    /\ DOMAIN At = Groups
    /\ \A path \in Paths : <<DefaultPath, path>> \in Matches
    /\ \A g \in Groups : At[g] \notin Authors \cup {Blank}
    /\ \A i \in DOMAIN Configs : Configs[i] \in {"badUrl", "stored"}
    /\ Profile \in {"PROD", "TEST"}

(* How the application of a rule ends: OK, FAIL, a LocalizableException     *)
(* ("refused") or any other exception ("crashed").  Only a FAIL aborts.     *)
Outcomes == {"ok", "fail", "refused", "crashed"}

(* Wrong: the walk goes on after a failure, to report them all.             *)
AbortsNever(outcome) == FALSE

Aborts(outcome) == outcome = "fail"

--------------------------------------------------------------------------------
(* Rule sets, parameters.                                                   *)

(* The rule set applies when its pattern, "**" when blank, matches a path.  *)
IsPathAppliable(ruleSet, commit) ==
    \E path \in commit.paths :
        <<IF ruleSet.path = Blank THEN DefaultPath ELSE ruleSet.path, path>> \in Matches

(* params.get(name): null, and '', and spaces are one value, Blank.         *)
Param(params, name) == IF name \in DOMAIN params THEN params[name] ELSE Blank

(* getString(params, name, false, ""), split at the commas: a set of        *)
(* authorizations.                                                          *)
Listed(params, name) == IF Param(params, name) = Blank THEN {} ELSE Param(params, name)

--------------------------------------------------------------------------------
(* The rules.                                                               *)

MessageLength(params, commit) ==
    LET minlength == Param(params, "minlength")
    IN  CASE minlength \in {Blank, Garbage}         -> "refused"
          [] minlength \notin {Blank, Garbage} ->
                IF Length[commit.message] < minlength THEN "fail" ELSE "ok"

Authenticated(commit) == IF commit.author = Blank THEN "fail" ELSE "ok"

IsMemberOfPolicyGroup(groups, author, group) ==
    group \in DOMAIN groups /\ author \in groups[group]

BelongsTo(groups, author, authorizations) ==
    \/ author \in authorizations
    \/ \E g \in Groups : At[g] \in authorizations /\ IsMemberOfPolicyGroup(groups, author, g)

Authorization(params, groups, commit) ==
    IF /\ BelongsTo(groups, commit.author, Listed(params, "allowed"))
       /\ ~ BelongsTo(groups, commit.author, Listed(params, "disallowed"))
    THEN "ok"
    ELSE "fail"

(* ConfigCore.loadConfig.                                                   *)
Configured(id) == IF id \in DOMAIN Configs THEN Configs[id] ELSE "absent"

(* JIRAServiceImpl: a configuration that is not stored is a null reference, *)
(* followed at the first key, and the REST client throws for an issue JIRA does not  *)
(* have as well as when JIRA does not answer.                               *)
AskJIRA(config, keys, up) ==
    CASE config = "absent" -> "crashed"
      [] config = "badUrl" -> "refused"
      [] config = "stored" ->
            IF up /\ keys \subseteq Issues THEN "ok" ELSE "crashed"

(* JIRATestService: the issues are instances of the database, a missing one *)
(* is null and is not counted.                                              *)
AskDatabase(keys) == IF keys \cap Issues # {} THEN "ok" ELSE "fail"

JIRAIssueExists(params, commit, up) ==
    LET id == Param(params, "jira-config-id")
    IN  CASE id = Blank -> "refused"
          [] id # Blank /\ commit.message = Null -> "crashed"
          [] id # Blank /\ commit.message # Null ->
                CASE KeysIn[commit.message] = {} -> "fail"
                  [] KeysIn[commit.message] # {} /\ Profile = "TEST" ->
                        AskDatabase(KeysIn[commit.message])
                  [] KeysIn[commit.message] # {} /\ Profile = "PROD" ->
                        AskJIRA(Configured(id), KeysIn[commit.message], up)

--------------------------------------------------------------------------------
(* A definition: the look-up of its rule, its options, its application.     *)

RuleIds == {"message", "authenticated", "authorization", "jira-issue-exists"}

(* Wrong: a failure without a text is let through.                          *)
SpokenUnchecked(rule, outcome) == outcome

(* FailRuleExecutionResult refuses an empty text: Validate.notEmpty throws. *)
Spoken(rule, outcome) ==
    IF outcome = "fail" /\ rule \in Speechless THEN "crashed" ELSE outcome

(* What applying definition d of a policy with these groups answers when    *)
(* JIRA is up or not; an unknown rule is a RuleNotFoundException.           *)
Outcome(d, groups, commit, up) ==
    LET answers == CASE d.rule = "message"       -> MessageLength(d.params, commit)
                     [] d.rule = "authenticated" -> Authenticated(commit)
                     [] d.rule = "authorization" ->
                           Authorization(d.params, groups, commit)
                     [] d.rule = "jira-issue-exists" ->
                           JIRAIssueExists(d.params, commit, up)
                     [] d.rule \notin RuleIds    -> "refused"
    IN  Spoken(d.rule, answers)

================================================================================
