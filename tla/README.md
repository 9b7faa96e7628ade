# Verification of cipol

cipol validates commits against a policy. An administrator keeps policies in an
H2 database through a Spring web application; the hooks of the version control
system send each commit to the application (`POST /api/validate/{policyId}`) and
let it through or not. This directory holds TLA+ modules of that system, TLC
configurations that check them, and TLAPS proofs. Paths below are relative to
`src/`, and Java packages are left out.

## 1. The system

| Component | State it keeps | Operations | Talks to |
|---|---|---|---|
| Policy store (`cipol-core` PolicyCore, SQL, init.sql) | tables POLICY, GROUPS, RULESET, RULEDEF, PARAM | create, import, update, delete, load, list, groupCreate, groupDelete; each one transaction | H2, through a pool of 10 connections |
| Validation (`cipol-core` APICore) | nothing between requests; a report while it runs | validate: walks rule sets and rules | policy store (once), rules |
| Rules (`cipol-rule`, `cipol-jira`, RuleCoreService) | index of the rules | message, authenticated, authorization, jira-issue-exists | configuration store, JIRA |
| API controller (`cipol-web` APIController) | the audit log | validate: report, error report or HTTP 500, then audit | validation |
| Subversion hook (`connectors`) | one process per commit | reads the transaction with svnlook, posts it, exits 0 or 1 | svnlook, API controller |
| Configuration store (ConfigCore) | INSTANCE, PARAM | save and load a parameter, load a configuration | H2 |
| Authentication hub (AuthProviderCore, HubCipolAuthProvider) | the selected provider, a parameter | supports, authenticate | configuration store |
| Administration end (PolicyAsyncController, PolicyController) | none | AJAX calls, export, import | policy store |
| Policy page (`forms.js`, `policy.js`) | fields being edited, listeners, calls on their way, rows of groups | edit, accept, cancel, create and delete groups, delete the policy | administration end |
| Request locale (LocaleInterceptor) | a thread-local locale | set after a page, read by handlers | controllers |
| Others: home directory, texts, templates, Spring wiring, navigation, test support | none that changes | | |

What is hard in this code:

* **Threads over one database.** Operations of PolicyCore are several SQL
  statements under read-committed MVCC. Checks and writes are separate statements;
  a loaded object is written back later; some tables have no foreign key.
* **A walk with many exits.** The validation leaves its two loops by skips, by an
  abort, by two kinds of exceptions, while the policy changes behind it and JIRA
  may stop answering.
* **Three programs in a row.** Hook, server and JIRA fail separately; the exit
  status of the hook must come out as a refusal in every one of those cases.
* **A page that does not wait.** Nothing in the browser stops a second call before the
  first is answered; one click may send several; calls overtake each other, fail, and
  are carried out after the page has given them up.
* **A stale read outside the database**: the locale of a pooled thread (section 5).

`PROJECT.json` lists each hazard at its line with the properties that cover it.
What makes each component correct, in short: the *store* keeps names unique, keeps
rules, parameters and groups exactly as long as their policy, loads policies whole
while they are there and refuses only for committed reasons; the *validation* answers with the verdict
of one version of the policy and audits each report once; the *hook* lets through
only what the policy accepts; the *page* never leaves a field waiting and shows at rest
what the server stored; the *configuration* returns the value last saved under the
name asked for; the *hub* asks the provider that said it supports the login; the
*locale* is the request's own.

## 2. The modules

```
Policies <- PolicyRegistry   what the policy service promises
  ^              ^ refinement
  +---- PolicyStore <- PolicyStoreProofs <- PolicyStoreSafety
             ^ MCPolicyStore     <- PolicyStoreAnswers <- PolicyStoreRefinement  (proofs)

PolicyPage  <- PolicyPageProofs                                     (proofs)
     ^ MCPolicyPage

Rules <- Verdicts            what a validation promises
  ^         ^ refinement
  +---- Validation <- ValidationProofs <- ValidationRefinement      (proofs)
            ^   ^ MCValidation                   ^
            CommitHook <---------------- CommitHookProofs           (proofs)
                ^ MCCommitHook
```

### Policies and PolicyStore

`Policies` holds the words PolicyStore and PolicyRegistry share: rows, requests and the
row a request writes. In PolicyStore the tables are the variables `policies`, `groups`, `ruled` (RULESET and RULEDEF,
which PolicyCore only deletes together) and `params` (PARAM); `known` is history.
Each thread has the request it serves (`req`), its next statement (`pc`), the
uncommitted writes of its transaction (`work`), the policy it is loading (`read`)
and the last answer it sent. There is one action for each SQL statement:
`InsertPolicy`, `FindPolicy`, `ReadGroups`, `ReadRuleSets`, `ReadRules`, `ReadParams`,
`UpdatePolicy`, `RemoveParams`, `RemoveGroups`, `DeletePolicy`, `CheckPolicy`,
`InsertGroup`, `DeleteGroup`, `ListPolicies`; one for each way out with an exception
(`RefuseName`, `RefuseRename`, `RefuseGroup`, `PolicyNotFound`, and `RefuseValue` for a
value that does not fit its column); then `Commit`, `LockTimeout` and `Crash`.

`Long` is the set of names, descriptions and group names that are too long for their
columns (init.sql:8-9, 18); `Fits` says which rows the table takes. A row is checked before
its locks are asked for. `RemoveParams` looks its rules up in what its own transaction has
left of them (`ParamsFound`): deleted after the row of the policy, whose cascade takes the
rules, the parameters would not be found. Apart from that a transaction keeps the
deletion of a row as a whole, and `Commit` applies it to `policies` and `ruled` at once.

H2 is external. From the connection URL (DataSourceConfig.java:26, `MVCC=true`,
`AUTOCOMMIT=OFF`): a statement sees what is committed and what its own transaction
wrote; it waits for an open transaction that wrote the same row or unique key
(`WaitsFor`), and fails if the lock times out. A statement that waited is run again
on what is committed then. A crash loses what was not committed and nothing else;
H2's write delay, which may lose the last commits on a power failure, is left out.

The `@Cacheable` and `@CacheEvict` annotations are inert, as no cache manager is
configured, so there is no cache in the model. Roles (`@Secured`) are left out.

### PolicyRegistry

The specification PolicyStore implements (`ImplementsRegistry`): policies and groups, and
no statement, lock or rollback. A request takes effect in one step (`Create`, `Update`,
`Delete`, `AddGroup`, `RemoveGroup`, `Load`, `List`), is refused for what is stored at that
moment (`RefuseUnknown`, `RefuseName`, `RefuseGroup`), or fails without effect: for a value
of its own that does not fit (`Unfit`) or for another request in the way (`Fail`), or because
the server stops (`Stop`). It does not promise that the service is serial, since it is not: what a request
has found (`Find`) or looked at (`Look`) may be old when it takes effect. The state of a
request is therefore `stage` and `seen`, and the two violated runs are behaviours of the
registry too. What the registry excludes is everything else: a half import, a change by
one who is refused, two changes for one request, a load that lacks rules of a policy
that is still there. A load of a policy that is deleted meanwhile may lack some: PolicyCore
does answer such torn copies, so that neither the registry (`Readable`) nor `LoadedWhole`
speaks of them.

The mapping (end of PolicyStore.tla) reads `stage` off the statement (`StageOf`) and `seen`
off the row and groups read, or the groups about to be deleted (`SeenOf`); all other
variables are the same. Writes before the commit, the load of an import and the reads of
rulesets, rules and parameters are invisible.

### Rules

What one rule definition answers for a commit: `ok`, `fail`, `refused` (a
LocalizableException, which becomes a report) or `crashed` (any other exception).
Parameters are a function from names to values, since UQ_PARAM makes names unique;
null, empty and blank values are one value. `Matches` stands for AntPathMatcher,
`Length` and `KeysIn` for what is computed from the message. A failure whose text is
empty in the resource bundle is `crashed` (`Spoken`): FailRuleExecutionResult throws.
`Configured` is ConfigCore.loadConfig for the one configuration that is read at run
time, JIRA's: stored, stored with a URL that is none, or absent. In profile PROD an issue
that JIRA does not have makes the REST client throw; in
profile TEST the issue comes from the database and a missing one is null.

### Verdicts and Validation

`Verdicts` is the specification of a validation: it takes the policy once and then,
in one step, answers with the first objection among the rules that concern the
commit. The objection is defined without loops, over the set of points `<<i, j>>`.
`Validation` is APIController.validate over APICore.validate as written: one step for
each turn of the loops, `policy` the copy loaded, `at` the two indexes, `details` the
report so far, `audit` the log. `EditPolicy` and `JIRAGoesOrComes` are the world outside.
`AnswersTheVerdict` is the refinement: `Validation` implements `Verdicts!VSpec` when
`report` is read as the verdict. A run of the loops is invisible to it, whence the
mapping of all phases of the walk to "loaded".

No rule of the repository returns TERMINATE, so it has no case. `Load` is one step
here: that PolicyCore reads the policy in several statements is the subject of
`PolicyStore`, whose `LoadedWhole` shows when the copy is whole; a copy torn by a
concurrent deletion is left out of `Validation`. An error report has a text by definition,
as every LocalizableException has one in the bundles: what `ReportsAreReadable` says of
texts can only fail for the reports of rules.

### CommitHook

`cipol_pre_commit.py` and `cipol_lib.py` composed with `Validation`: the hook of request
r reads message, author and paths, posts them (`SendRequest` is the joint step with
`Post`), and turns the response into an exit status. `Faults` chooses what may fail:
svnlook (empty output), the network (request or response lost: Python exits with 1) and
the call itself (missing argument: usage, exit 0). Left out: `json.dumps` raises on bytes
that are not UTF-8 (cipol_lib.py:38), whereupon the hook exits with 1 and nothing is sent.
The Git connectors hold no code.

### PolicyPage

The page of a policy, the network and the end of the server it talks to.

| State | Code |
|---|---|
| `page`, `halted` | the window: `alert` while a dialogue blocks it, `gone` after the policy was deleted from it; the field whose failure handler waits for the dialogue |
| `field[f]` | one text field: `shown` its value, `oldvalue` and `readonly` the attributes, `buttons` the actions `action_state` shows, `listeners` how often `text_field_edit` registered its handlers |
| `rows[g]` | the rows of the table that name group g |
| `calls`, `sent` | the AJAX calls; `heard` while Ext still waits for the answer |
| `gate` | whether the server takes calls: the session may end and resume, the policy may go |
| `stored`, `storedGroups` | the tables, as far as the page shows them |
| `others` | how often something else happened to the policy or the session (a bound) |
| `was`, `misled`, `unsure` | history: what was ever stored; fields whose last answer was a refusal the page took for success; what the page may be wrong about |

`Edit`, `Type`, `Accept`, `AcceptUnchanged`, `Cancel`, `GroupCreate`, `GroupDelete`,
`ShowPage` and `DeletePolicy` are what the administrator does; `Refuse`, `FailCall`,
`ReadRow` and `WriteRow`, `CreateGroup` and `DeleteGroup` what PolicyAsyncController does
and answers; `SessionEnds`, `SessionResumes`, `OtherUpdates`, `OtherGroups` and `PolicyGoes`
what happens beside this page; the others are the handlers of the page. An edit registers the listeners once more and none is
removed (forms.js:110-130), so that `Accept` sends `listeners` calls at once. The answer
of a call is `ok`, another text with HTTP 200 (`text`: onException, a group that exists,
the login page) or a failure; handlers run in any order. After 30 s, or when the
connection breaks, Ext runs the failure handler (`TimeOut`) and the call is no longer
heard, yet the server may carry it out. A failure handler opens a dialogue, which stops
it until `Dismiss`: only then does the field go back to edition (forms.js:60-62). Typing while a call is on its way is possible
because the property is spelt `readonly` (forms.js:53). `PathGroup` is what Spring reads
from `.../delete/a.b`: it drops what follows the last dot.

The server carries out a group call in one step, since PolicyStore has its statements,
and an update in two: updatePolicy reads the row (`ReadRow`) and writes back both columns
(`WriteRow`), so that the updates of name and description the page sends at a time may
undo each other. Left out: texts and styles, the mark of an empty name (`text_validate_required`; with an empty
name no call is sent), fields of other pages.

## 3. The runs

| Run | Question | Instance | Result |
|---|---|---|---|
| admin | do concurrent create, import, update and delete keep the store consistent? | 2 threads, 3 uids, 2 names, 2 descriptions; stops and timeouts | holds |
| groups | and group operations, deletes and loads of a policy with two rule sets? | 3 threads, 2 groups | holds |
| sequential | are groups and fields right with one client? | 1 thread, all operations; a name, a description and a group that are too long | holds |
| live | is every request answered? | 2 threads, all operations | holds |
| orphan | does every group have a policy? | 2 threads | **violated** |
| lost | does an update change one field only? | 2 threads | **violated** |
| verdict | is every validation answered with the verdict, in order, and audited? | 2 requests, 5 policies, 7 commits, profile PROD | holds |
| enforce | does only what the policy accepts go through? | 2 commits, network faults | holds |
| page | is the page true at rest, is no field left waiting? | 2 fields, 2 values, 2 groups (one with a dot), 2 calls, 2 edits, 1 event beside the page | holds |
| hook_live | does every hook exit, is every request answered? | 1 commit, all faults, profile TEST | holds |
| failopen | and if svnlook fails? | 1 commit | **violated** |
| page_told | is every refusal told? | 1 field, 1 call | **violated** |

`admin`, `groups` and `sequential` also check `ImplementsRegistry`: between them they call every
operation, the first two with concurrent clients.

*Bounds.* Two threads are enough for every race between two operations; `groups` has
three since a load, a deletion and a group creation meet there. Three uids, of which
two are seeded, leave room for one creation while both names are taken, freed or
exchanged. The names include one that differs from another by spaces only. The five
policies of MCValidation have, between them, blank and specific patterns, a disabled
rule set, a disabled rule, a failure before, between and after other rules, an unknown
rule, missing and malformed parameters, a JIRA configuration that is not stored and one
with a bad URL, two rules that call JIRA, a group among the allowed and an author among the disallowed
of the authorization rules. The commits have a null message, a blank author, no path,
issues that exist and that do not. `up` is the only state of JIRA.
In the page, two edits of a field make one click send two calls; two calls may be one on
each field, whose reads and writes of the row cross, or two on one group; two values tell an
old one from a new one; two groups, one being the other with a dot, meet in `PathGroup`. The
one event beside the page (MaxOthers) is a change by another administrator, the end of the
policy, or the end of the session, which may resume. With two fields a third call
is too many for a run of minutes; more calls and events are left to the proofs, which have
no bounds.

*Deadlock* is checked but for PolicyPage, which really stops: the page is gone or the bounds
on its calls and edits are reached.

*Symmetry* is used for threads and requests in the safety runs only.

*Fairness.* PolicyStore: a thread with a request goes on, or its lock wait times out
(servlet threads are scheduled, H2 lock waits are bounded). No request need arrive,
and no crash. Validation: `WF(Serve)`; a call of JIRA is one step, that is, the REST
client returns or throws. CommitHook: the processes run; no connection is ever
assumed to be lost, so that a hook may not owe its end to a fault. The liveness of the
hook rests on the server's, since `httplib` has no timeout here. PolicyPage: the dialogue
is dismissed and, for each call, the browser runs one of its handlers, which it can always
do since the 30 s of Ext end a call nobody answers. No server is assumed to answer.

*Violations.* `orphan`: PolicyCore.java:140 checks the policy, a deletion commits, the
group is inserted. `lost`: PolicyCore.java:119-129 writes back both columns. `failopen`:
cipol_lib.py:11 ignores the status of svnlook, an empty list of paths matches no rule set.
`page_told`: forms.js:64 takes any HTTP 200 for
success, PolicyAsyncController.java:53 answers a refusal with 200 and "a message to display
to the user". `sequential` and `enforce` show the same properties hold without the interleaving and
without the fault.

Every property of a passing run has a mutant in `PROJECT.json`: an operator marked
"Wrong:" in the modules, which a plausible mistake would put in place of the right one,
and with which TLC finds the property violated.

## 4. What is proved

Eight modules hold proofs. Each theorem is for every value of the constants that the
named assumptions of its module allow; those are the only assumptions, and a hypothesis
a theorem adds to them is named below. TLC also finds every inductive invariant true on
instances of the passing runs.

**The store** (`StoreAssumption`: the seed has unique names, values that fit and rules only
for stored policies; `Trim` yields names; the empty description fits), for any threads, uids, names, groups, rule sets and rules:

* `PolicyStoreProofs!TypeCorrect`: `Spec => []TypeOK`. The inductive invariant adds
  `RowReadFirst`: from the second statement of a load on, the thread has a row, which is
  what makes the record `UpdatePolicy` writes a row.
* `PolicyStoreSafety!NamesStayUnique`: `Spec => []UniqueNames`. Uniqueness of committed
  names is not inductive: a commit installs a row checked earlier. The invariant `Inv`
  says what locks protect: no two open transactions have written one row (`RowsLocked`),
  and the name an open transaction takes is neither committed elsewhere nor taken by
  another (`NamesLocked`); creations have uids of their own (`UidsApart`).
* `PolicyStoreSafety!RulesFollow`: `Spec => []RulesFollowPolicy`. A transaction that
  writes the deletion of a policy with rules has written that of their parameters
  before (`ParamsLocked`).
* `PolicyStoreSafety!DeletedForGood`: `Spec => DeletedStaysDeleted`, from the same
  invariant: an open transaction cannot hold a row for a policy deleted meanwhile.
* `PolicyStoreAnswers!LocksNeverCircle`: `Spec => []NoDeadlock`. Which writes a transaction
  holds depends on its statement (`WrittenWhere`): parameters are deleted before groups,
  groups before the row. The lemma `WaitsForLater` turns this into an order: a request
  waits only for one that is at a later statement, and one that has written a row waits
  for nobody. That is plain of a request about to commit. The other one is an import at
  its update, which keeps the uid and the name its insertion has locked
  (`NewRow`, `RowsLocked`, `NamesLocked`).
* `PolicyStoreAnswers!LoadsAreWhole`: `Spec => []LoadedWhole`. The invariant `LoadsWhole` is that of
  the nested queries: what was found and what the queries still in `todo` will find make
  the whole policy, as long as the policy is stored. Sequences of rulesets and rules have any
  length. `AnsweredKnown` and `DeletedForGood` carry this past the commit: a policy answered
  whole may disappear but not come back.
* `PolicyStoreAnswers!ImportsAppearWhole`: `Spec => ImportIsWhole`. An import reads back, through its
  own transaction, the row it inserted, and completes that one (`NewRow`).
* `PolicyStoreAnswers!GroupsHavePolicies` and `UpdatesTouchOneField`: `NoOrphanGroups` and
  `UpdateTouchesOneField`, under the hypothesis `Alone` (one thread): the checked policy is
  still there when the group is added, the row read is the row stored (`AloneInv`). The
  hypothesis is needed: the runs orphan and lost refute both for two threads.
* `PolicyStoreRefinement!ImplementsTheRegistry`: `Spec => ImplementsRegistry`, for any number of
  threads. `RefineInv` adds to the invariants above what a transaction is about to commit:
  the group a creation adds is neither stored nor about to be added by another
  (`GroupWrites`, `GroupsLocked`); an update holds the row it completed, or none because the policy is
  gone (`UpdateWrites`); a load has found nothing that is not its policy's (`LoadsPart`). There is
  one lemma for each kind of statement: `WriteRefines`, `InsertGroupRefines` and
  `ReadRulesRefines` are stutters of the registry (an import's `FindPolicy` and
  `ReadGroups` too), the others map to its action of the same purpose. In `FailRefines` a lock
  timeout needs that the one waited for really serves a request, and a value that does not
  fit is `Unfit` for the registry too, since what is written already does fit (`WritesFit`,
  `ValuesUnfit`); in `CreateRefines` the name is
  free at the commit although it was checked at the insertion (`NamesLocked`).

**The page** (`PageAssumption`: fields are no groups, the seed is typed), for any fields,
values, groups, calls, edits and events beside the page:

* `PolicyPageProofs!PageTypes`: `Spec => []TypeOK`, with calls that have identities of
  their own.
* `PolicyPageProofs!ClockHasCall`: `Spec => []ClockMeansCall`. The invariant `ClockInv` adds
  that a failure handler stands at an alert only while there is one.
* `PolicyPageProofs!CancelBringsBackStored`: `Spec => []OldValueWasStored`. An answer OK
  may come after the value was changed again, by an edit, another administrator or a stale
  write-back; what holds is that its value was stored (`AnsweredWereStored`).
* `PolicyPageProofs!PageIsTrue`: `Spec => []PageTellsTheStore`. At rest is not inductive:
  the invariant `PageInv` says what holds on the way there. A field that is not in doubt
  shows the value of all its calls, which is stored once one of them was answered OK
  (`FieldsAgree`, with `IdleIsReadonly`), whatever the calls on other fields read and write
  back; the calls on a group are of one kind, one creation at most succeeds, and one row at
  most is left to come or go (`GroupsAgree`); what a call may change that the page gave up
  is in `unsure` (`LostAreUnsure`). The exceptions that `unsure` collects are listed at the
  property. They are cases where the code really leaves the page wrong, and there the
  theorem says nothing: hazards that consist in one of them have no property.

**The validation** (`RulesAssumption`, `ValidationAssumption`, `NoneAssumption`), for any
policies, rules, commits and requests, while policies change and JIRA comes and goes:

* `ValidationProofs!ValidationTypes`, `ReportsReadable`, `AuditIsTrue`: `TypeOK`,
  `ReportsAreReadable`, `AuditTellsTheAnswers`. The invariant `Inv` adds that the rules
  reported so far are successes before the indexes of the walk (`Walking`), and which
  phases have a report (`Reported`).
* `ValidationRefinement!TellsTheVerdict`: `Spec => AnswersTheVerdict`, that is, Validation
  implements `Verdicts!VSpec`. The invariant `TrackInv` relates the two loops to the set of
  points Verdicts is defined on: the points of the report are those behind the indexes
  (`PointsOf(details[r]) = Passed(r)`), and none of them objects. The step of the loops
  that ends the walk is then the step of Verdicts, with the rule in hand as first objection.
  Since JIRA may go down between two rules, points behind the indexes are judged as if it
  were up: the lemma `JIRAHelps` shows that an answer given without JIRA is the one given
  with it, or a crash.

**The hook** (the same, `HookAssumption`), composed with the validation:

* `CommitHookProofs!HookTypes`: `HookSpec => []HookTypeOK`.
* `CommitHookProofs!AcceptedAudited`: `HookSpec => []AcceptedIsAudited` when `"usage"` is not
  in `Faults`, whatever svnlook and the network do. The hypothesis is needed: without its
  arguments the hook exits with 0 (cipol_pre_commit.py).
* `CommitHookProofs!EnforcedUnlessSvnlookFails`: `HookSpec => []PolicyIsEnforced` when
  `Faults \subseteq {"network"}`. The run failopen shows why svnlook may not fail. The
  invariant `HookInv` adds to `TrackInv` that a hook has read its transaction (`Reading`)
  and that the server has this commit from it (`Asking`).

**Left to TLC**: everything under fairness (`EveryRequestEnds`, `EveryRequestIsAnswered`,
`EveryHookExits`, `EveryWaitEnds`), which this prover does not reach. Every other property of a
passing run is a theorem. Those of the runs that expect a violation are false, but for the
hypotheses named above.

## 5. Not modelled, and the plan

Left out for good: page templates, texts and their formatting, the home directory,
Spring wiring, test support, export and upload of a policy (I/O without state); what
REST client, H2, Spring and Subversion do inside.

Left out because the application never takes the step that would matter:

* *Writes of ConfigCore.* No class of the application calls saveParameter or saveConfig;
  tests do. The tables it reads are constants at run time, whence `Configs`.
* *The authentication hub.* The selected provider is such a parameter, and
  setSelectedAuthProvidedId has no caller: supports and authenticate read a constant.
* *The request locale.* The thread-local is never cleared, so that an API request may
  use the language of an earlier page. Only texts depend on it, and no module has texts.

What the plan has left, in order:

1. Validation over `PolicyRegistry`: a validation that loads its policy through the registry,
   so that a copy torn by a concurrent deletion is part of what is checked.
2. ConfigStore and the hub, should the application get a page that writes them.
