---------------------------- MODULE CommitHookProofs ----------------------------
(***************************************************************************)
(* Theorems about the Subversion hook in front of the validation, for any  *)
(* transactions, policies and requests.  The faults they exclude are those *)
(* that let a commit through whatever the policy says.                     *)
(***************************************************************************)
EXTENDS CommitHook, ValidationRefinement

--------------------------------------------------------------------------------
(* The invariant.                                                            *)

Nothing == [author |-> Blank, message |-> NoMessage, paths |-> {}]

(* What svnlook may have printed of transaction t.                           *)
Printed(t) ==
    {[author |-> x[1], message |-> x[2], paths |-> x[3]] :
        x \in {Blank, t.author} \X {NoMessage, Strip[t.message]} \X {{}, t.paths}}

(* A hook has read its transaction, and when svnlook does not fail it read   *)
(* what is there.                                                            *)
Reading(r) ==
    /\ hook[r] # "start" => txn[r] \in Transactions /\ read[r] \in Printed(txn[r])
    /\ hook[r] \in {"start", "message"} => read[r] = Nothing
    /\ "svnlook" \notin Faults =>
          /\ hook[r] \in {"author", "paths", "request", "response"}
                => read[r].message = Strip[txn[r].message]
          /\ hook[r] \in {"paths", "request", "response"} => read[r].author = txn[r].author
          /\ hook[r] \in {"request", "response"} => read[r].paths = txn[r].paths

(* The server has the commit from the hook; only a success lets it through.  *)
Asking(r) ==
    /\ hook[r] \in {"start", "message", "author", "paths", "request"} => phase[r] = "idle"
    /\ phase[r] # "idle" /\ "svnlook" \notin Faults => commit[r] = Subject(r)
    /\ exit[r] # None => hook[r] = "exited"
    /\ exit[r] = 0 /\ "usage" \notin Faults =>
          phase[r] = "answered" /\ report[r] \in Reports /\ report[r].success

HookTyped ==
    /\ hook \in [Requests -> HookPhases]
    /\ txn \in [Requests -> Transactions \cup {None}]
    /\ read \in [Requests -> Commits]
    /\ exit \in [Requests -> {0, 1, None}]

HookInv ==
    /\ TrackInv
    /\ HookTyped
    /\ \A r \in Requests : Reading(r) /\ Asking(r)

--------------------------------------------------------------------------------
(* Transactions.                                                             *)

LEMMA PrintedAreCommits ==
    ASSUME NEW t \in Transactions
    PROVE  /\ Printed(t) \subseteq Commits
           /\ Nothing \in Printed(t)
           /\ t = [author |-> t.author, message |-> t.message, paths |-> t.paths]
    <1>1. /\ t \in Commits
          /\ \A paths \in {{}, t.paths}, author \in {Blank, t.author},
                message \in {NoMessage, Strip[t.message]} :
                   [author |-> author, message |-> message, paths |-> paths] \in Commits
        BY HookAssumption
    <1>2. t = [author |-> t.author, message |-> t.message, paths |-> t.paths]
        BY <1>1, RulesAssumption
    <1>3. ASSUME NEW c \in Printed(t) PROVE c \in Commits
        <2>1. PICK x \in {Blank, t.author} \X {NoMessage, Strip[t.message]} \X {{}, t.paths} :
                 c = [author |-> x[1], message |-> x[2], paths |-> x[3]]
            BY DEF Printed
        <2>2. /\ x[1] \in {Blank, t.author} /\ x[2] \in {NoMessage, Strip[t.message]}
              /\ x[3] \in {{}, t.paths}
            OBVIOUS
        <2> QED
            BY <1>1, <2>1, <2>2
    <1>4. Nothing \in Printed(t)
        <2>1. <<Blank, NoMessage, {}>>
                 \in {Blank, t.author} \X {NoMessage, Strip[t.message]} \X {{}, t.paths}
            OBVIOUS
        <2> QED
            BY <2>1 DEF Printed, Nothing
    <1> QED
        BY <1>2, <1>3, <1>4

(* Its parts, and the transactions made of them.                             *)
LEMMA PrintedParts ==
    ASSUME NEW t \in Transactions
    PROVE  /\ \A c \in Printed(t) :
                 /\ c = [author |-> c.author, message |-> c.message, paths |-> c.paths]
                 /\ c.author \in {Blank, t.author} /\ c.paths \in {{}, t.paths}
                 /\ c.message \in {NoMessage, Strip[t.message]}
           /\ \A a \in {Blank, t.author}, m \in {NoMessage, Strip[t.message]},
                 ps \in {{}, t.paths} :
                    [author |-> a, message |-> m, paths |-> ps] \in Printed(t)
    <1> DEFINE P == {Blank, t.author} \X {NoMessage, Strip[t.message]} \X {{}, t.paths}
    <1>1. ASSUME NEW c \in Printed(t)
          PROVE  /\ c = [author |-> c.author, message |-> c.message, paths |-> c.paths]
                 /\ c.author \in {Blank, t.author} /\ c.paths \in {{}, t.paths}
                 /\ c.message \in {NoMessage, Strip[t.message]}
        <2>1. PICK x \in P : c = [author |-> x[1], message |-> x[2], paths |-> x[3]]
            BY DEF Printed
        <2>2. /\ x[1] \in {Blank, t.author} /\ x[2] \in {NoMessage, Strip[t.message]}
              /\ x[3] \in {{}, t.paths}
            OBVIOUS
        <2> QED
            BY <2>1, <2>2
    <1>2. ASSUME NEW a \in {Blank, t.author}, NEW m \in {NoMessage, Strip[t.message]},
                 NEW ps \in {{}, t.paths}
          PROVE  [author |-> a, message |-> m, paths |-> ps] \in Printed(t)
        <2>1. <<a, m, ps>> \in P
            OBVIOUS
        <2> QED
            BY <2>1 DEF Printed
    <1> QED
        BY <1>1, <1>2

(* One more value read.                                                      *)
LEMMA MessageRead ==
    ASSUME NEW t \in Transactions, NEW c \in Printed(t), NEW m \in {NoMessage, Strip[t.message]}
    PROVE  /\ [c EXCEPT !.message = m] \in Printed(t)
           /\ [c EXCEPT !.message = m].message = m
    <1>0. /\ c = [author |-> c.author, message |-> c.message, paths |-> c.paths]
          /\ c.author \in {Blank, t.author} /\ c.paths \in {{}, t.paths}
          /\ c.message \in {NoMessage, Strip[t.message]}
        BY PrintedParts
    <1>1. [c EXCEPT !.message = m] = [author |-> c.author, message |-> m, paths |-> c.paths]
        BY <1>0
    <1>2. [author |-> c.author, message |-> m, paths |-> c.paths] \in Printed(t)
        BY <1>0, PrintedParts
    <1> QED
        BY <1>1, <1>2

LEMMA AuthorRead ==
    ASSUME NEW t \in Transactions, NEW c \in Printed(t), NEW a \in {Blank, t.author}
    PROVE  /\ [c EXCEPT !.author = a] \in Printed(t)
           /\ [c EXCEPT !.author = a].author = a
           /\ [c EXCEPT !.author = a].message = c.message
    <1>0. /\ c = [author |-> c.author, message |-> c.message, paths |-> c.paths]
          /\ c.author \in {Blank, t.author} /\ c.paths \in {{}, t.paths}
          /\ c.message \in {NoMessage, Strip[t.message]}
        BY PrintedParts
    <1>1. [c EXCEPT !.author = a] = [author |-> a, message |-> c.message, paths |-> c.paths]
        BY <1>0
    <1>2. [author |-> a, message |-> c.message, paths |-> c.paths] \in Printed(t)
        BY <1>0, PrintedParts
    <1> QED
        BY <1>1, <1>2

LEMMA PathsRead ==
    ASSUME NEW t \in Transactions, NEW c \in Printed(t), NEW ps, ps = {} \/ ps = t.paths
    PROVE  /\ [c EXCEPT !.paths = ps] \in Printed(t)
           /\ [c EXCEPT !.paths = ps].paths = ps
           /\ [c EXCEPT !.paths = ps].message = c.message
           /\ [c EXCEPT !.paths = ps].author = c.author
    <1>0. /\ c = [author |-> c.author, message |-> c.message, paths |-> c.paths]
          /\ c.author \in {Blank, t.author} /\ c.paths \in {{}, t.paths}
          /\ c.message \in {NoMessage, Strip[t.message]}
        BY PrintedParts
    <1>1. [c EXCEPT !.paths = ps] = [author |-> c.author, message |-> c.message, paths |-> ps]
        BY <1>0
    <1>2. [author |-> c.author, message |-> c.message, paths |-> ps] \in Printed(t)
        BY <1>0, PrintedParts
    <1> QED
        BY <1>1, <1>2

(* What svnlook prints, when it may fail and when it may not.                *)
LEMMA OutputIs ==
    ASSUME NEW real, NEW nothing, NEW x \in Output(real, nothing)
    PROVE  x \in {nothing, real} /\ ("svnlook" \notin Faults => x = real)
    BY DEF Output

LEMMA WholeIsSubject ==
    ASSUME NEW r \in Requests, txn[r] \in Transactions, read[r] \in Printed(txn[r]),
           read[r].message = Strip[txn[r].message], read[r].author = txn[r].author,
           read[r].paths = txn[r].paths
    PROVE  read[r] = Subject(r)
    <1>1. read[r] = [author |-> read[r].author, message |-> read[r].message,
                     paths |-> read[r].paths]
        BY DEF Printed
    <1>2. txn[r] = [author |-> txn[r].author, message |-> txn[r].message,
                    paths |-> txn[r].paths]
        BY PrintedAreCommits
    <1> QED
        BY <1>1, <1>2 DEF Subject

--------------------------------------------------------------------------------
(* The server, seen by a hook.                                               *)

LEMMA Served ==
    ASSUME TypeOK, NEW r \in Requests, Serve(r)
    PROVE  /\ commit' = commit
           /\ phase[r] \notin {"idle", "answered"} /\ phase'[r] # "idle"
    <1>1. \A where \in Phases : Go(r, where) => phase'[r] = where
        BY Indexes
    <1>2. {"idle", "load", "rulesets", "rules", "consolidate", "audit", "answered"} = Phases
        BY DEF Phases
    <1>3. CASE Load(r) \/ PolicyNotFound(r) \/ RefuseRule(r) \/ CrashRule(r)
        BY <1>1, <1>2, <1>3 DEF Load, PolicyNotFound, RefuseRule, CrashRule
    <1>4. CASE SkipRuleSet(r) \/ EnterRuleSet(r) \/ LeaveRuleSet(r) \/ SkipRule(r)
        BY <1>1, <1>2, <1>4 DEF SkipRuleSet, EnterRuleSet, LeaveRuleSet, SkipRule
    <1>5. CASE ApplyRule(r)
        BY <1>1, <1>2, <1>5 DEF ApplyRule
    <1>6. CASE Consolidate(r) \/ Audit(r)
        BY <1>1, <1>2, <1>6 DEF Consolidate, Audit
    <1> QED
        BY <1>3, <1>4, <1>5, <1>6 DEF Serve

LEMMA ServerKeeps ==
    ASSUME TypeOK, ServerStep, NEW r \in Requests
    PROVE  /\ UNCHANGED hookVars /\ commit'[r] = commit[r]
           /\ phase[r] = "idle" <=> phase'[r] = "idle"
           /\ phase[r] = "answered" => phase'[r] = phase[r] /\ report'[r] = report[r]
    <1>1. CASE EditPolicy \/ JIRAGoesOrComes
        BY <1>1 DEF EditPolicy, JIRAGoesOrComes, ServerStep
    <1>2. ASSUME NEW q \in Requests, Serve(q)
          PROVE  /\ commit'[r] = commit[r]
                 /\ phase[r] = "idle" <=> phase'[r] = "idle"
                 /\ phase[r] = "answered" => phase'[r] = phase[r] /\ report'[r] = report[r]
        BY <1>2, Served, OneIsServed DEF Others
    <1> QED
        BY <1>1, <1>2 DEF ServerStep

LEMMA HookStepsServer == TrackInv /\ HookTyped /\ [HookNext]_allVars => [Next]_vars
    <1> SUFFICES ASSUME HookTyped, [HookNext]_allVars PROVE [Next]_vars
        OBVIOUS
    <1>1. CASE ServerStep
        BY <1>1 DEF ServerStep, Next
    <1>2. ASSUME NEW r \in Requests, SendRequest(r) PROVE [Next]_vars
        BY <1>2 DEF SendRequest, HookTyped, Next
    <1>3. ASSUME NEW r \in Requests,
                 \/ Commit(r) \/ ReadMessage(r) \/ ReadAuthor(r) \/ GetCommittedPaths(r)
                 \/ GetResponse(r) \/ PrintUsage(r) \/ LoseConnection(r)
          PROVE  [Next]_vars
        BY <1>3 DEF Commit, ReadMessage, ReadAuthor, GetCommittedPaths, GetResponse,
                    PrintUsage, LoseConnection
    <1>4. CASE UNCHANGED allVars
        BY <1>4 DEF allVars, vars
    <1> QED
        BY <1>1, <1>2, <1>3, <1>4 DEF HookNext, HookStep, HookProgress

--------------------------------------------------------------------------------
(* Steps.                                                                    *)

LEMMA HookStarts == HookInit => HookInv
    <1> SUFFICES ASSUME HookInit PROVE HookInv
        OBVIOUS
    <1>1. TrackInv
        BY TrackInit DEF HookInit
    <1>2. Nothing \in Commits
        BY HookAssumption, PrintedAreCommits
    <1>3. /\ hook = [r \in Requests |-> "start"] /\ txn = [r \in Requests |-> None]
          /\ read = [r \in Requests |-> Nothing] /\ exit = [r \in Requests |-> None]
        BY DEF HookInit, Nothing
    <1>4. HookTyped
        BY <1>2, <1>3 DEF HookTyped, HookPhases
    <1>5. ASSUME NEW r \in Requests PROVE Reading(r) /\ Asking(r)
        <2>1. phase[r] = "idle"
            BY DEF HookInit, Init
        <2> QED
            BY <1>3, <2>1, HookAssumption DEF Reading, Asking
    <1> QED
        BY <1>1, <1>4, <1>5 DEF HookInv

(* What the steps of one hook leave to the others.                           *)
OtherHooks(r) ==
    \A q \in Requests \ {r} :
        /\ hook'[q] = hook[q] /\ txn'[q] = txn[q] /\ read'[q] = read[q] /\ exit'[q] = exit[q]
        /\ phase'[q] = phase[q] /\ commit'[q] = commit[q] /\ report'[q] = report[q]

LEMMA OneHook ==
    ASSUME TypeOK, HookTyped, NEW r \in Requests, HookStep(r)
    PROVE  OtherHooks(r)
    <1> USE DEF HookTyped
    <1>1. CASE SendRequest(r)
        <2>1. Post(r, read[r]) /\ read[r] \in Commits
            BY <1>1 DEF SendRequest
        <2>2. Others(r)
            BY <2>1, OneIsServed
        <2> QED
            BY <1>1, <2>2 DEF SendRequest, OtherHooks, Others
    <1>2. CASE Commit(r) \/ ReadMessage(r) \/ ReadAuthor(r) \/ GetCommittedPaths(r)
        BY <1>2 DEF Commit, ReadMessage, ReadAuthor, GetCommittedPaths, OtherHooks, vars
    <1>3. CASE GetResponse(r) \/ PrintUsage(r) \/ LoseConnection(r)
        BY <1>3 DEF GetResponse, PrintUsage, LoseConnection, Exit, OtherHooks, vars
    <1> QED
        BY <1>1, <1>2, <1>3 DEF HookStep, HookProgress

(* What a hook that goes on has afterwards.                                  *)
Onward(r) == HookTyped' /\ Reading(r)' /\ Asking(r)'

LEMMA CommitStep ==
    ASSUME HookInv, NEW r \in Requests, Commit(r) PROVE Onward(r)
    <1>1. PICK t \in Transactions : txn' = [txn EXCEPT ![r] = t]
        BY DEF Commit
    <1>2. /\ HookTyped /\ hook[r] = "start" /\ hook' = [hook EXCEPT ![r] = "message"]
          /\ read' = read /\ exit' = exit /\ phase' = phase /\ commit' = commit /\ report' = report
          /\ Reading(r) /\ Asking(r)
        BY DEF HookInv, Commit, vars
    <1>3. HookTyped'
        BY <1>1, <1>2 DEF HookTyped, HookPhases
    <1>4. hook'[r] = "message" /\ txn'[r] = t
        BY <1>1, <1>2 DEF HookTyped
    <1>5. read[r] = Nothing /\ Nothing \in Printed(t)
        BY <1>2, PrintedAreCommits DEF Reading
    <1>6. Reading(r)'
        BY <1>2, <1>4, <1>5 DEF Reading
    <1>7. phase'[r] = "idle" /\ exit'[r] = exit[r] /\ exit[r] = None
        BY <1>2 DEF Asking
    <1>8. Asking(r)'
        BY <1>4, <1>7, HookAssumption DEF Asking
    <1> QED
        BY <1>3, <1>6, <1>8 DEF Onward

(* The three steps that read: what is read goes where it belongs.            *)
LEMMA ReadStep ==
    ASSUME HookInv, NEW r \in Requests,
           ReadMessage(r) \/ ReadAuthor(r) \/ GetCommittedPaths(r)
    PROVE  Onward(r)
    <1>1. /\ HookTyped /\ txn' = txn /\ exit' = exit
          /\ phase' = phase /\ commit' = commit /\ report' = report
          /\ Reading(r) /\ Asking(r)
        BY DEF HookInv, ReadMessage, ReadAuthor, GetCommittedPaths, vars
    <1>2. PICK t \in Transactions : t = txn[r] /\ read[r] \in Printed(t)
        BY <1>1 DEF Reading, ReadMessage, ReadAuthor, GetCommittedPaths
    <1>3. PICK c \in Printed(t) : c = read[r]
        BY <1>2
    <1>4. ASSUME NEW d \in Printed(t), NEW w \in HookPhases,
                 hook' = [hook EXCEPT ![r] = w], read' = [read EXCEPT ![r] = d]
          PROVE  HookTyped' /\ hook'[r] = w /\ read'[r] = d
        <2>1. d \in Commits
            BY <1>2, PrintedAreCommits
        <2> QED
            BY <1>1, <1>4, <2>1 DEF HookTyped
    <1>5. /\ hook[r] \in {"message", "author", "paths"} => phase'[r] = "idle" /\ exit'[r] = None
        BY <1>1 DEF Asking
    <1>6. CASE ReadMessage(r)
        <2>1. PICK m \in Output(Strip[t.message], NoMessage) :
                 read' = [read EXCEPT ![r] = [c EXCEPT !.message = m]]
            BY <1>2, <1>3, <1>6 DEF ReadMessage
        <2>2. /\ m \in {NoMessage, Strip[t.message]}
              /\ "svnlook" \notin Faults => m = Strip[t.message]
            BY OutputIs
        <2>3. /\ [c EXCEPT !.message = m] \in Printed(t)
              /\ [c EXCEPT !.message = m].message = m
            BY <2>2, MessageRead
        <2>4. /\ hook[r] = "message" /\ hook' = [hook EXCEPT ![r] = "author"]
              /\ "author" \in HookPhases
            BY <1>6 DEF ReadMessage, HookPhases
        <2>5. HookTyped' /\ hook'[r] = "author" /\ read'[r] = [c EXCEPT !.message = m]
            BY <1>4, <2>1, <2>3, <2>4
        <2>6. Reading(r)'
            BY <1>1, <1>2, <1>3, <2>2, <2>3, <2>5 DEF Reading
        <2>7. Asking(r)'
            BY <1>5, <2>4, <2>5, HookAssumption DEF Asking
        <2> QED
            BY <2>5, <2>6, <2>7 DEF Onward
    <1>7. CASE ReadAuthor(r)
        <2>1. PICK a \in Output(t.author, Blank) :
                 read' = [read EXCEPT ![r] = [c EXCEPT !.author = a]]
            BY <1>2, <1>3, <1>7 DEF ReadAuthor
        <2>2. /\ a \in {Blank, t.author}
              /\ "svnlook" \notin Faults => a = t.author
            BY OutputIs
        <2>3. /\ [c EXCEPT !.author = a] \in Printed(t)
              /\ [c EXCEPT !.author = a].author = a
              /\ [c EXCEPT !.author = a].message = c.message
            BY <2>2, AuthorRead
        <2>4. /\ hook[r] = "author" /\ hook' = [hook EXCEPT ![r] = "paths"]
              /\ "paths" \in HookPhases
            BY <1>7 DEF ReadAuthor, HookPhases
        <2>5. HookTyped' /\ hook'[r] = "paths" /\ read'[r] = [c EXCEPT !.author = a]
            BY <1>4, <2>1, <2>3, <2>4
        <2>6. Reading(r)'
            BY <1>1, <1>2, <1>3, <2>2, <2>3, <2>4, <2>5 DEF Reading
        <2>7. Asking(r)'
            BY <1>5, <2>4, <2>5, HookAssumption DEF Asking
        <2> QED
            BY <2>5, <2>6, <2>7 DEF Onward
    <1>8. CASE GetCommittedPaths(r)
        <2>1. PICK ps \in Output(t.paths, {}) :
                 read' = [read EXCEPT ![r] = [c EXCEPT !.paths = ps]]
            BY <1>2, <1>3, <1>8 DEF GetCommittedPaths
        <2>2. /\ ps = {} \/ ps = t.paths
              /\ "svnlook" \notin Faults => ps = t.paths
            BY OutputIs
        <2>3. /\ [c EXCEPT !.paths = ps] \in Printed(t)
              /\ [c EXCEPT !.paths = ps].paths = ps
              /\ [c EXCEPT !.paths = ps].message = c.message
              /\ [c EXCEPT !.paths = ps].author = c.author
            BY <2>2, PathsRead
        <2>4. /\ hook[r] = "paths" /\ hook' = [hook EXCEPT ![r] = "request"]
              /\ "request" \in HookPhases
            BY <1>8 DEF GetCommittedPaths, HookPhases
        <2>5. HookTyped' /\ hook'[r] = "request" /\ read'[r] = [c EXCEPT !.paths = ps]
            BY <1>4, <2>1, <2>3, <2>4
        <2>6. Reading(r)'
            BY <1>1, <1>2, <1>3, <2>2, <2>3, <2>4, <2>5 DEF Reading
        <2>7. Asking(r)'
            BY <1>5, <2>4, <2>5, HookAssumption DEF Asking
        <2> QED
            BY <2>5, <2>6, <2>7 DEF Onward
    <1> QED
        BY <1>6, <1>7, <1>8

(* The server has what the hook read.                                        *)
LEMMA SendStep ==
    ASSUME HookInv, NEW r \in Requests, SendRequest(r) PROVE Onward(r)
    <1>1. /\ HookTyped /\ TypeOK /\ Reading(r) /\ Asking(r) /\ hook[r] = "request"
          /\ hook' = [hook EXCEPT ![r] = "response"]
          /\ txn' = txn /\ read' = read /\ exit' = exit
          /\ commit' = [commit EXCEPT ![r] = read[r]] /\ Go(r, "load")
        BY DEF HookInv, TrackInv, Inv, SendRequest, Post
    <1>2. phase'[r] = "load" /\ commit'[r] = read[r] /\ hook'[r] = "response"
        BY <1>1, Indexes DEF Phases, TypeOK, HookTyped
    <1>3. HookTyped'
        BY <1>1 DEF HookTyped, HookPhases
    <1>4. Reading(r)'
        BY <1>1, <1>2 DEF Reading
    <1>5. "svnlook" \notin Faults => commit'[r] = Subject(r)'
        <2>1. Subject(r)' = Subject(r)
            BY <1>1 DEF Subject
        <2> QED
            BY <1>1, <1>2, <2>1, WholeIsSubject DEF Reading
    <1>6. Asking(r)'
        BY <1>1, <1>2, <1>5, HookAssumption DEF Asking
    <1> QED
        BY <1>3, <1>4, <1>6 DEF Onward

(* The three ways a hook ends.  A report that fails has a text (Readable),   *)
(* so that it cannot be taken for a success.                                 *)
LEMMA ExitStep ==
    ASSUME HookInv, NEW r \in Requests, GetResponse(r) \/ PrintUsage(r) \/ LoseConnection(r)
    PROVE  Onward(r)
    <1>1. /\ HookTyped /\ Reading(r) /\ Asking(r) /\ Reported(r)
          /\ hook[r] \in {"message", "request", "response"}
          /\ hook' = [hook EXCEPT ![r] = "exited"]
          /\ txn' = txn /\ read' = read
          /\ phase' = phase /\ commit' = commit /\ report' = report
        BY DEF HookInv, TrackInv, Inv, GetResponse, PrintUsage, LoseConnection, Exit, vars
    <1>2. PICK status \in {0, 1} :
             /\ exit' = [exit EXCEPT ![r] = status]
             /\ status = 0 /\ "usage" \notin Faults =>
                   phase[r] = "answered" /\ report[r] \in Reports /\ report[r].success
        <2>1. CASE GetResponse(r)
            <3>1. report[r] \in Reports \cup {InternalError} /\ phase[r] = "answered"
                BY <1>1, <2>1 DEF GetResponse, Reported
            <3>2. report[r] \in Reports =>
                     /\ report[r].success \in BOOLEAN /\ report[r] # InternalError
                     /\ ~ report[r].success => report[r].text = "some"
                BY <1>1, ReportFields DEF Reported, Readable
            <3>3. CASE report[r] = InternalError
                <4>1. ExitStatus(report[r]) = 1
                    BY <3>3 DEF ExitStatus
                <4> QED
                    BY <2>1, <4>1 DEF GetResponse, Exit
            <3>4. CASE report[r] \in Reports /\ report[r].success
                <4>1. ExitStatus(report[r]) = 0
                    BY <3>2, <3>4 DEF ExitStatus
                <4> QED
                    BY <2>1, <3>1, <3>4, <4>1 DEF GetResponse, Exit
            <3>5. CASE report[r] \in Reports /\ ~ report[r].success
                <4>1. ExitStatus(report[r]) = 1
                    BY <3>2, <3>5 DEF ExitStatus
                <4> QED
                    BY <2>1, <4>1 DEF GetResponse, Exit
            <3> QED
                BY <3>1, <3>3, <3>4, <3>5
        <2>2. CASE PrintUsage(r)
            BY <2>2 DEF PrintUsage, Exit
        <2>3. CASE LoseConnection(r)
            BY <2>3 DEF LoseConnection, Exit
        <2> QED
            BY <2>1, <2>2, <2>3
    <1>3. hook'[r] = "exited" /\ exit'[r] = status
        BY <1>1, <1>2 DEF HookTyped
    <1>4. HookTyped'
        BY <1>1, <1>2 DEF HookTyped, HookPhases
    <1>5. Reading(r)'
        BY <1>1, <1>3 DEF Reading
    <1>6. Asking(r)'
        <2>1. Subject(r)' = Subject(r)
            BY <1>1 DEF Subject
        <2> QED
            BY <1>1, <1>2, <1>3, <2>1 DEF Asking
    <1> QED
        BY <1>4, <1>5, <1>6 DEF Onward

LEMMA HookGoesOn == HookInv /\ [HookNext]_allVars => HookInv'
    <1> SUFFICES ASSUME HookInv, [HookNext]_allVars PROVE HookInv'
        OBVIOUS
    <1>1. TrackInv'
        BY HookStepsServer, TrackNext DEF HookInv
    <1>2. TypeOK /\ HookTyped /\ \A q \in Requests : Reading(q) /\ Asking(q)
        BY DEF HookInv, TrackInv, Inv
    <1>3. CASE ServerStep
        <2>1. HookTyped'
            BY <1>2, <1>3 DEF ServerStep, hookVars, HookTyped
        <2>2. ASSUME NEW q \in Requests PROVE Reading(q)' /\ Asking(q)'
            <3>1. /\ hook' = hook /\ txn' = txn /\ read' = read /\ exit' = exit
                  /\ commit'[q] = commit[q] /\ (phase[q] = "idle" <=> phase'[q] = "idle")
                  /\ phase[q] = "answered" => phase'[q] = phase[q] /\ report'[q] = report[q]
                BY <1>2, <1>3, ServerKeeps DEF hookVars
            <3>2. Subject(q)' = Subject(q)
                BY <3>1 DEF Subject
            <3> QED
                BY <1>2, <3>1, <3>2 DEF Reading, Asking
        <2> QED
            BY <1>1, <2>1, <2>2 DEF HookInv
    <1>4. ASSUME NEW r \in Requests, HookStep(r) PROVE HookInv'
        <2>1. Onward(r)
            BY <1>4, CommitStep, ReadStep, SendStep, ExitStep DEF HookStep, HookProgress
        <2>2. ASSUME NEW q \in Requests \ {r} PROVE Reading(q)' /\ Asking(q)'
            <3>1. /\ hook'[q] = hook[q] /\ txn'[q] = txn[q] /\ read'[q] = read[q]
                  /\ exit'[q] = exit[q] /\ phase'[q] = phase[q] /\ commit'[q] = commit[q]
                  /\ report'[q] = report[q]
                BY <1>2, <1>4, OneHook DEF OtherHooks
            <3>2. Subject(q)' = Subject(q)
                BY <3>1 DEF Subject
            <3> QED
                BY <1>2, <3>1, <3>2 DEF Reading, Asking
        <2> QED
            BY <1>1, <2>1, <2>2 DEF HookInv, Onward
    <1>5. CASE UNCHANGED allVars
        <2>1. HookTyped'
            BY <1>2, <1>5 DEF allVars, HookTyped
        <2>2. ASSUME NEW q \in Requests PROVE Reading(q)' /\ Asking(q)'
            BY <1>2, <1>5 DEF allVars, Reading, Asking, Subject
        <2> QED
            BY <1>1, <2>1, <2>2 DEF HookInv
    <1> QED
        BY <1>3, <1>4, <1>5 DEF HookNext

LEMMA HookAlways == HookSpec => []HookInv
    BY HookStarts, HookGoesOn, PTL DEF HookSpec

--------------------------------------------------------------------------------
(* The theorems.                                                             *)

(* Whatever fails, what a hook has read is a commit the server can take, and *)
(* the variables keep to their types.                                        *)
THEOREM HookTypes == HookSpec => []HookTypeOK
    <1>1. HookInv => HookTypeOK
        BY DEF HookInv, TrackInv, Inv, HookTyped, HookTypeOK
    <1> QED
        BY <1>1, HookAlways, PTL

(* Unless the hook is called without its arguments, a commit goes through    *)
(* only after its request was audited as a success.                          *)
THEOREM AcceptedAudited ==
    ASSUME "usage" \notin Faults PROVE HookSpec => []AcceptedIsAudited
    <1>1. HookInv => AcceptedIsAudited
        <2> SUFFICES ASSUME HookInv, NEW r \in Requests, exit[r] = 0
                     PROVE  \E i \in DOMAIN audit :
                               audit[i] = [request |-> r, success |-> TRUE]
            BY DEF AcceptedIsAudited
        <2>1. phase[r] = "answered" /\ report[r] \in Reports /\ report[r].success
            BY DEF HookInv, Asking
        <2>2. report[r].status = 200 /\ report[r].success = TRUE
            BY <2>1, ReportFields
        <2>3. AuditTellsTheAnswers /\ audit \in Seq(AuditLines)
            BY DEF HookInv, TrackInv, Inv, TypeOK
        <2>4. PICK i \in DOMAIN audit : audit[i].request = r /\ audit[i].success = TRUE
            BY <2>1, <2>2, <2>3 DEF AuditTellsTheAnswers
        <2>5. audit[i] \in AuditLines
            BY <2>3, LenProperties, ElementOfSeq
        <2>6. audit[i] = [request |-> r, success |-> TRUE]
            BY <2>4, <2>5 DEF AuditLines
        <2> QED
            BY <2>6
    <1> QED
        BY <1>1, HookAlways, PTL

(* When nothing but the network fails, a commit goes through only if the     *)
(* policy, as the server read it for this commit, has no objection to it.    *)
THEOREM EnforcedUnlessSvnlookFails ==
    ASSUME Faults \subseteq {"network"} PROVE HookSpec => []PolicyIsEnforced
    <1>1. HookInv => PolicyIsEnforced
        <2> SUFFICES ASSUME HookInv, NEW r \in Requests, exit[r] = 0
                     PROVE  /\ policy[r] \in Policies
                            /\ V!Objections(policy[r], Subject(r), {}) = {}
            BY DEF PolicyIsEnforced
        <2>1. "usage" \notin Faults /\ "svnlook" \notin Faults
            OBVIOUS
        <2>2. /\ phase[r] = "answered" /\ report[r] \in Reports /\ report[r].success
              /\ commit[r] = Subject(r)
            BY <2>1 DEF HookInv, Asking
        <2>3. report[r].status = 200
            BY <2>2, ReportFields
        <2>4. AcceptedRightly(r)
            BY <2>2, <2>3 DEF HookInv, TrackInv, Track
        <2> QED
            BY <2>2, <2>4 DEF AcceptedRightly
    <1> QED
        BY <1>1, HookAlways, PTL
================================================================================
