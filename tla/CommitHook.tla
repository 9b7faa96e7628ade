------------------------------ MODULE CommitHook ------------------------------
(***************************************************************************)
(* The Subversion pre-commit hook (cipol_pre_commit.py, cipol_lib.py) in   *)
(* front of the validation of cipol.  Subversion runs one hook process per *)
(* commit and lets the commit through when the process exits with 0.       *)
(*                                                                         *)
(* Outside this code: svnlook, which may fail (its output is then empty,   *)
(* os.popen ignores its status), and the network, which may lose a request *)
(* or a response (httplib raises, Python exits with 1).                    *)
(***************************************************************************)
EXTENDS Validation

CONSTANTS
    Transactions,   \* the commits users try
    Strip,          \* Strip[m]: the message m without the space around it
    NoMessage,      \* ''
    Faults          \* what may fail in a run, of {"svnlook", "network", "usage"}

ASSUME HookAssumption ==
    /\ Transactions \subseteq Commits /\ Transactions # {}
    /\ None \notin {0, 1}
    /\ \A t \in Transactions : t.message # Null
    /\ NoMessage \in Messages
    /\ Length[NoMessage] = 0
    /\ KeysIn[NoMessage] = {}
    /\ Strip \in [Messages -> Messages]
    /\ \A t \in Transactions :
          \A paths \in {{}, t.paths}, author \in {Blank, t.author},
             message \in {NoMessage, Strip[t.message]} :
                [author |-> author, message |-> message, paths |-> paths] \in Commits

VARIABLES
    hook,           \* where each hook process is in main()
    txn,            \* the transaction it is about
    read,           \* what it got from svnlook
    exit            \* its exit status

hookVars == <<hook, txn, read, exit>>
allVars  == <<store, up, phase, commit, policy, at, details, report, audit,
              hook, txn, read, exit>>

HookPhases == {"start", "message", "author", "paths", "request", "response", "exited"}

(* The output of svnlook for a real value, '' when svnlook fails.           *)
Output(real, nothing) == {real} \cup {nothing : f \in Faults \cap {"svnlook"}}

(* Wrong: the HTTP status is not looked at.                                 *)
ExitStatusUnchecked(response) ==
    IF response # InternalError /\ ~ response.success THEN 1 ELSE 0

(* main() exits with 1 when validate() returned a text that is not ''.      *)
ExitStatus(response) ==
    CASE response = InternalError -> 1
      [] response # InternalError /\ response.success -> 0
      [] response # InternalError /\ ~ response.success ->
            IF response.text = "empty" THEN 0 ELSE 1

--------------------------------------------------------------------------------
HookInit ==
    /\ Init
    /\ hook = [r \in Requests |-> "start"]
    /\ txn = [r \in Requests |-> None]
    /\ read = [r \in Requests |->
                 [author |-> Blank, message |-> NoMessage, paths |-> {}]]
    /\ exit = [r \in Requests |-> None]

Exit(r, status) ==
    /\ hook' = [hook EXCEPT ![r] = "exited"]
    /\ exit' = [exit EXCEPT ![r] = status]

Commit(r) ==
    /\ hook[r] = "start"
    /\ \E t \in Transactions : txn' = [txn EXCEPT ![r] = t]
    /\ hook' = [hook EXCEPT ![r] = "message"]
    /\ UNCHANGED <<vars, read, exit>>

(* The script is called without the transaction: it prints its usage and    *)
(* ends normally.                                                           *)
PrintUsage(r) ==
    /\ "usage" \in Faults
    /\ hook[r] = "message"
    /\ Exit(r, 0)
    /\ UNCHANGED <<vars, txn, read>>

(* Wrong: the output of svnlook log is sent as it is.                       *)
ReadMessageUnstripped(r) ==
    /\ hook[r] = "message"
    /\ read' = [read EXCEPT ![r].message = txn[r].message]
    /\ hook' = [hook EXCEPT ![r] = "author"]
    /\ UNCHANGED <<vars, txn, exit>>

(* What is read is sent as JSON later (cipol_lib.py:38).  Bytes that are not *)
(* UTF-8 make json.dumps raise, and the hook exits with 1: that refusal is  *)
(* not among the messages of Commits.                                       *)
ReadMessage(r) ==
    /\ hook[r] = "message"
    /\ \E m \in Output(Strip[txn[r].message], NoMessage) :
          read' = [read EXCEPT ![r].message = m]
    /\ hook' = [hook EXCEPT ![r] = "author"]
    /\ UNCHANGED <<vars, txn, exit>>

ReadAuthor(r) ==
    /\ hook[r] = "author"
    /\ \E a \in Output(txn[r].author, Blank) : read' = [read EXCEPT ![r].author = a]
    /\ hook' = [hook EXCEPT ![r] = "paths"]
    /\ UNCHANGED <<vars, txn, exit>>

GetCommittedPaths(r) ==
    /\ hook[r] = "paths"
    /\ \E ps \in Output(txn[r].paths, {}) : read' = [read EXCEPT ![r].paths = ps]
    /\ hook' = [hook EXCEPT ![r] = "request"]
    /\ UNCHANGED <<vars, txn, exit>>

(* conn.request: the server takes the commit.                               *)
SendRequest(r) ==
    /\ hook[r] = "request"
    /\ Post(r, read[r])
    /\ hook' = [hook EXCEPT ![r] = "response"]
    /\ UNCHANGED <<txn, read, exit>>

(* Wrong: an HTTP status that is not 200 is waited out.                     *)
GetReport(r) ==
    /\ hook[r] = "response"
    /\ phase[r] = "answered"
    /\ report[r] # InternalError
    /\ Exit(r, ExitStatus(report[r]))
    /\ UNCHANGED <<vars, txn, read>>

(* conn.getresponse and what validate() and main() make of it.              *)
GetResponse(r) ==
    /\ hook[r] = "response"
    /\ phase[r] = "answered"
    /\ Exit(r, ExitStatus(report[r]))
    /\ UNCHANGED <<vars, txn, read>>

(* The connection is refused or lost; the server may go on all the same.    *)
LoseConnection(r) ==
    /\ "network" \in Faults
    /\ hook[r] \in {"request", "response"}
    /\ Exit(r, 1)
    /\ UNCHANGED <<vars, txn, read>>

HookProgress(r) ==
    \/ Commit(r)
    \/ ReadMessage(r)
    \/ ReadAuthor(r)
    \/ GetCommittedPaths(r)
    \/ SendRequest(r)
    \/ GetResponse(r)

HookStep(r) == HookProgress(r) \/ PrintUsage(r) \/ LoseConnection(r)

ServerStep ==
    /\ EditPolicy \/ JIRAGoesOrComes \/ \E r \in Requests : Serve(r)
    /\ UNCHANGED hookVars

HookNext == ServerStep \/ \E r \in Requests : HookStep(r)

(* Hook processes and servlet threads that can run end up running; nothing  *)
(* says that a connection is ever lost.                                     *)
HookFairness ==
    \A r \in Requests :
        /\ WF_allVars(HookProgress(r))
        /\ WF_allVars(Serve(r) /\ UNCHANGED hookVars)

HookSpec == HookInit /\ [][HookNext]_allVars /\ HookFairness

--------------------------------------------------------------------------------
(* Properties.                                                              *)

(* What of the transaction the policy is about.                             *)
Subject(r) == [txn[r] EXCEPT !.message = Strip[@]]

(* A commit goes through only when the policy, as one request read it, has  *)
(* no objection to the transaction itself (README:13: "Policy is enforced   *)
(* at server and client side by providing hooks").                          *)
PolicyIsEnforced ==
    \A r \in Requests :
        exit[r] = 0 => /\ policy[r] \in Policies
                       /\ V!Objections(policy[r], Subject(r), {}) = {}

(* A commit that goes through was audited as a success, however the request *)
(* ended; the reverse may fail, when the response is lost.                  *)
AcceptedIsAudited ==
    \A r \in Requests :
        exit[r] = 0 => \E i \in DOMAIN audit : audit[i] = [request |-> r, success |-> TRUE]

(* No commit waits for ever on its hook.                                    *)
EveryHookExits == \A r \in Requests : <>(hook[r] = "exited")

(* The variables keep to their types; what a hook read is a commit (main()).*)
HookTypeOK ==
    /\ TypeOK
    /\ hook \in [Requests -> HookPhases]
    /\ txn \in [Requests -> Transactions \cup {None}]
    /\ read \in [Requests -> Commits]
    /\ exit \in [Requests -> {0, 1, None}]
================================================================================
