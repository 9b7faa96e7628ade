------------------------------- MODULE PolicyPage -------------------------------
(***************************************************************************)
(* The page of one policy (forms.js, policy.js over Ext Core) and the end  *)
(* of the server it calls (PolicyAsyncController).  An administrator edits *)
(* text fields in place and adds or removes groups; each edit is an AJAX   *)
(* call.  Nothing stops a second call before the first is answered, and    *)
(* calls overtake each other on the way to the server and back.            *)
(*                                                                         *)
(* The server carries out a group call in one step and an update in two:   *)
(* updatePolicy reads the row and writes back all of it.  What else        *)
(* PolicyCore does within a call is the subject of PolicyStore.            *)
(***************************************************************************)
EXTENDS Integers

LOCAL INSTANCE FiniteSetsExt

CONSTANTS
    Fields,         \* ids of the text fields ("name", "description")
    Values,         \* what a field may hold
    Seed,           \* Seed[f]: the value of f when the page is first shown
    Groups,         \* names of groups
    SeedGroups,     \* the groups when the page is first shown
    PathGroup,      \* PathGroup[g]: the name Spring reads from .../delete/g
    MaxCalls,       \* bound: calls sent in a run
    MaxEdits,       \* bound: edits of fields while a page is shown
    MaxOthers       \* bound: what else happens to the policy or the session

ASSUME PageAssumption ==
    /\ Fields \cap Groups = {}
    /\ Seed \in [Fields -> Values]
    /\ SeedGroups \subseteq Groups
    /\ PathGroup \in [Groups -> Groups]
    /\ MaxCalls \in Nat /\ MaxEdits \in Nat /\ MaxOthers \in Nat

VARIABLES
    page,           \* "ready", "alert" (a dialogue blocks it) or "gone"
    halted,         \* the field whose failure handler waits for the dialogue
    field,          \* the elements of each text field
    rows,           \* rows[g]: how many rows of the table name group g
    calls,          \* the AJAX calls on their way
    sent,           \* how many were sent
    gate,           \* "open", or why the server refuses every call
    stored,         \* the values of the fields in the database
    storedGroups,   \* the groups in the database
    others,         \* how often another than this page changed the server
    was,            \* was[f]: the values that were ever stored (history)
    misled,         \* fields that took a refusal for success (history)
    unsure          \* fields and groups the page may be wrong about (history)

browser == <<page, halted, field, rows>>
network == <<calls, sent>>
server  == <<gate, stored, storedGroups, others, was>>
doubts  == <<misled, unsure>>
vars    == <<page, halted, field, rows, calls, sent,
             gate, stored, storedGroups, others, was, misled, unsure>>

--------------------------------------------------------------------------------
(* Calls.  stage is "sent" until the server answers: "ok" is OK, "text" any *)
(* other HTTP 200, "failed" another status.  In between, an update is at    *)
(* "read" with the row it has read.  The page listens to a call until its   *)
(* handler has run, the 30 s of Ext are over, or it is reloaded.            *)

NoRow    == <<>>
RowsRead == [Fields -> Values] \cup {NoRow}

Stages  == {"sent", "read", "ok", "text", "failed"}
Pending == {"sent", "read"}

UpdateCalls == {c \in [id : Nat, op : {"update"}, on : Fields, value : Values,
                        row : RowsRead, stage : Stages, heard : BOOLEAN] :
                   c.stage = "read" => c.row # NoRow}
GroupCalls  == [id : Nat, op : {"groupCreate", "groupDelete"}, on : Groups,
                stage : Stages \ {"read"}, heard : BOOLEAN]

CallsOn(x) == {c \in calls : c.on = x}

Send(new, n) == calls' = calls \cup new /\ sent' = sent + n

UpdateCall(i, f) == [id |-> i, op |-> "update", on |-> f, value |-> field[f].shown,
                     row |-> NoRow, stage |-> "sent", heard |-> TRUE]
GroupCall(op, g) == [id |-> sent + 1, op |-> op, on |-> g,
                     stage |-> "sent", heard |-> TRUE]

(* The page no longer listens: only what the server has yet to do remains.  *)
Unheard(cs) == {[c EXCEPT !.heard = FALSE] : c \in {d \in cs : d.stage \in Pending}}

(* The page may be wrong about the fields and groups in X.                  *)
Doubt(X) == unsure' = unsure \cup X /\ UNCHANGED misled

--------------------------------------------------------------------------------
(* Text fields.  listeners counts what text_field_edit has registered on    *)
(* the input, the accept button and the cancel button: one of each a time.  *)

ActionStates == {"idle", "edit", "wait"}

(* The buttons that are shown.                                              *)
Buttons(state) == CASE state = "edit" -> {"accept", "cancel"}
                    [] state = "wait" -> {"wait"}
                    [] state = "idle" -> {"edit"}

FieldStates == [shown : Values, oldvalue : Values, readonly : BOOLEAN,
                buttons : {Buttons(s) : s \in ActionStates}, listeners : Nat]

Shown(v) == [shown |-> v, oldvalue |-> v, readonly |-> TRUE,
             buttons |-> Buttons("idle"), listeners |-> 0]

ActionState(e, state) == [e EXCEPT !.buttons = Buttons(state)]

(* text_field_edit registers the listeners once more each time.             *)
Editable(e) == [ActionState(e, "edit") EXCEPT !.readonly = FALSE,
                                              !.listeners = e.listeners + 1]

(* text_field_restore.                                                      *)
Restored(e) == [ActionState(e, "idle") EXCEPT !.readonly = TRUE]

Idle(f)    == "edit" \in field[f].buttons
Waiting(f) == "wait" \in field[f].buttons

(* The administrator changes what f shows while a call on it is on its way. *)
Meddled(f) == Doubt(IF CallsOn(f) = {} THEN {} ELSE {f})

EditsOfPage == MapThenSumSet(LAMBDA f : field[f].listeners, Fields)

(* text_field_edit.                                                         *)
Edit(f) ==
    /\ page = "ready" /\ Idle(f)
    /\ EditsOfPage < MaxEdits
    /\ field' = [field EXCEPT ![f] = Editable(@)]
    /\ UNCHANGED <<page, halted, rows, network, server, doubts>>

(* Typing.  text_field_accept sets a property "readonly" the browser does   *)
(* not know: while it waits, the field can still be typed in.               *)
Type(f, v) ==
    /\ page = "ready" /\ ~ field[f].readonly
    /\ v # field[f].shown
    /\ field' = [field EXCEPT ![f].shown = v]
    /\ Meddled(f)
    /\ UNCHANGED <<page, halted, rows, network, server>>

(* Wrong: oldvalue is set when the call is sent, not when it succeeds.      *)
AcceptEarly(f) ==
    LET n == field[f].listeners IN
    /\ page = "ready" /\ n > 0
    /\ field[f].oldvalue # field[f].shown
    /\ sent + n <= MaxCalls
    /\ Send({UpdateCall(i, f) : i \in sent + 1 .. sent + n}, n)
    /\ field' = [field EXCEPT ![f] = [ActionState(@, "wait") EXCEPT
                                         !.oldvalue = field[f].shown]]
    /\ UNCHANGED <<page, halted, rows, server, doubts>>

(* text_field_accept, by the accept button or ENTER, which the input hears  *)
(* in any state: each listener finds the value changed and sends a call.    *)
Accept(f) ==
    LET n == field[f].listeners IN
    /\ page = "ready" /\ n > 0
    /\ field[f].oldvalue # field[f].shown
    /\ sent + n <= MaxCalls
    /\ Send({UpdateCall(i, f) : i \in sent + 1 .. sent + n}, n)
    /\ field' = [field EXCEPT ![f] = ActionState(@, "wait")]
    /\ UNCHANGED <<page, halted, rows, server, doubts>>

(* text_field_accept with nothing to save.                                  *)
AcceptUnchanged(f) ==
    /\ page = "ready" /\ field[f].listeners > 0
    /\ field[f].oldvalue = field[f].shown
    /\ field' = [field EXCEPT ![f] = Restored(@)]
    /\ UNCHANGED <<page, halted, rows, network, server, doubts>>

(* text_field_cancel.                                                       *)
Cancel(f) ==
    /\ page = "ready" /\ "cancel" \in field[f].buttons
    /\ field' = [field EXCEPT ![f] = [Restored(@) EXCEPT !.shown = field[f].oldvalue]]
    /\ Meddled(f)
    /\ UNCHANGED <<page, halted, rows, network, server>>

--------------------------------------------------------------------------------
(* Groups.                                                                  *)

SendGroupCall(op, g) ==
    /\ sent < MaxCalls
    /\ Send({GroupCall(op, g)}, 1)
    /\ Doubt(IF \A c \in CallsOn(g) : c.op = op THEN {} ELSE {g})
    /\ UNCHANGED <<browser, server>>

(* Policy.groupCreate, with a name in its input: text_validate_required     *)
(* lets no empty one through.                                               *)
GroupCreate(g) ==
    /\ page = "ready"
    /\ SendGroupCall("groupCreate", g)

(* Policy.groupDelete, confirmed; the icon is in the row of the group.      *)
GroupDelete(g) ==
    /\ page = "ready" /\ rows[g] > 0
    /\ SendGroupCall("groupDelete", g)

--------------------------------------------------------------------------------
(* The server.                                                              *)

Answered(c, stage) == IF c.op = "update" THEN [c EXCEPT !.stage = stage, !.row = NoRow]
                      ELSE [c EXCEPT !.stage = stage]

Answer(c, stage) ==
    /\ calls' = (calls \ {c}) \cup {d \in {Answered(c, stage)} : c.heard}
    /\ UNCHANGED <<browser, sent, gate, others>>

(* The policy is gone (onException answers with a text), or the session is  *)
(* over (the call is redirected to the login page, HTTP 200 as well).       *)
Refuse(c) ==
    /\ c.stage = "sent" /\ gate # "open"
    /\ Answer(c, "text")
    /\ UNCHANGED <<stored, storedGroups, was, doubts>>

(* updatePolicy loads the policy.                                           *)
ReadRow(c) ==
    /\ c.op = "update" /\ c.stage = "sent" /\ gate = "open"
    /\ calls' = (calls \ {c}) \cup {[c EXCEPT !.stage = "read", !.row = stored]}
    /\ UNCHANGED <<browser, sent, server, doubts>>

(* And writes back every column, the field of the call with its new value.  *)
(* If the policy went in the meantime no row is updated: OK all the same.   *)
WriteRow(c) ==
    LET row == [c.row EXCEPT ![c.on] = c.value] IN
    /\ c.op = "update" /\ c.stage = "read"
    /\ IF gate = "noPolicy" THEN UNCHANGED <<stored, was, doubts>>
       ELSE /\ stored' = row
            /\ was' = [f \in Fields |-> was[f] \cup {row[f]}]
            /\ Doubt({f \in Fields \ {c.on} : row[f] # stored[f]})
    /\ Answer(c, "ok")
    /\ UNCHANGED storedGroups

(* HTTP 500: another policy has that name, a value is longer than its       *)
(* column (init.sql:8-9, 18), a lock timed out (PolicyStore).               *)
FailCall(c) ==
    /\ \/ c.stage = "sent" /\ gate = "open"
       \/ c.stage = "read" /\ gate # "noPolicy"
    /\ Answer(c, "failed")
    /\ UNCHANGED <<stored, storedGroups, was, doubts>>

CreateGroup(c) ==
    /\ c.op = "groupCreate" /\ c.stage = "sent" /\ gate = "open"
    /\ storedGroups' = storedGroups \cup {c.on}
    /\ Answer(c, IF c.on \in storedGroups THEN "text" ELSE "ok")
    /\ UNCHANGED <<stored, was, doubts>>

(* There need be no such group: the answer is OK all the same.              *)
DeleteGroup(c) ==
    /\ c.op = "groupDelete" /\ c.stage = "sent" /\ gate = "open"
    /\ storedGroups' = storedGroups \ {PathGroup[c.on]}
    /\ Answer(c, "ok")
    /\ Doubt(IF PathGroup[c.on] = c.on THEN {} ELSE {c.on, PathGroup[c.on]})
    /\ UNCHANGED <<stored, was>>

(* A call the page has given up never reaches the server.                   *)
Drop(c) ==
    /\ c.stage = "sent" /\ ~ c.heard
    /\ calls' = calls \ {c}
    /\ UNCHANGED <<browser, sent, server, doubts>>

(* Something happens to the policy or to the session that is not of this    *)
(* page's doing.                                                            *)
Other == others < MaxOthers /\ others' = others + 1

SessionEnds ==
    /\ gate = "open"
    /\ Other
    /\ gate' = "loggedOut"
    /\ UNCHANGED <<browser, network, stored, storedGroups, was, doubts>>

(* The administrator logs in again, in another window.                      *)
SessionResumes ==
    /\ gate = "loggedOut"
    /\ gate' = "open"
    /\ UNCHANGED <<browser, network, others, stored, storedGroups, was, doubts>>

--------------------------------------------------------------------------------
(* What other administrators do to the policy.                              *)

OtherUpdates(row) ==
    /\ gate # "noPolicy" /\ row # stored
    /\ Other
    /\ stored' = row
    /\ was' = [f \in Fields |-> was[f] \cup {row[f]}]
    /\ Doubt({f \in Fields : row[f] # stored[f]})
    /\ UNCHANGED <<browser, network, gate, storedGroups>>

OtherGroups(g) ==
    /\ gate # "noPolicy"
    /\ Other
    /\ storedGroups' = IF g \in storedGroups THEN storedGroups \ {g}
                       ELSE storedGroups \cup {g}
    /\ Doubt({g})
    /\ UNCHANGED <<browser, network, gate, stored, was>>

PolicyGoes ==
    /\ gate # "noPolicy"
    /\ Other
    /\ gate' = "noPolicy" /\ storedGroups' = {}
    /\ UNCHANGED <<browser, network, stored, was, doubts>>

--------------------------------------------------------------------------------
(* The handlers of the page.                                                *)

Hear(c, stages) == page = "ready" /\ c.heard /\ c.stage \in stages

(* success of text_field_accept: whatever the text of the answer.           *)
UpdateSucceeds(c) ==
    /\ c.op = "update" /\ Hear(c, {"ok", "text"})
    /\ field' = [field EXCEPT ![c.on] = [Restored(@) EXCEPT !.oldvalue = c.value]]
    /\ calls' = calls \ {c}
    /\ IF c.stage = "ok" THEN misled' = misled \ {c.on} /\ UNCHANGED unsure
       ELSE misled' = misled \cup {c.on} /\ unsure' = unsure \cup {c.on}
    /\ UNCHANGED <<page, halted, rows, sent, server>>

(* Wrong: any HTTP 200 means the group was created.                         *)
GroupCreatedAnyText(c) ==
    /\ c.op = "groupCreate" /\ Hear(c, {"ok", "text"})
    /\ rows' = [rows EXCEPT ![c.on] = @ + 1]
    /\ calls' = calls \ {c}
    /\ UNCHANGED <<page, halted, field, sent, server, doubts>>

GroupCreated(c) ==
    /\ c.op = "groupCreate" /\ Hear(c, {"ok"})
    /\ rows' = [rows EXCEPT ![c.on] = @ + 1]
    /\ calls' = calls \ {c}
    /\ UNCHANGED <<page, halted, field, sent, server, doubts>>

(* Wrong: a row is counted out that is not there.                           *)
GroupDeletedBlindly(c) ==
    /\ c.op = "groupDelete" /\ Hear(c, {"ok"})
    /\ rows' = [rows EXCEPT ![c.on] = @ - 1]
    /\ calls' = calls \ {c}
    /\ UNCHANGED <<page, halted, field, sent, server, doubts>>

(* groupRemove fails, to no effect, when no row is left.  The element that  *)
(* goes is the cell with the name and the icon: the cells of the members    *)
(* of a group the server has rendered stay (policy.html:48-56).             *)
GroupDeleted(c) ==
    /\ c.op = "groupDelete" /\ Hear(c, {"ok"})
    /\ rows' = [rows EXCEPT ![c.on] = IF @ > 0 THEN @ - 1 ELSE 0]
    /\ calls' = calls \ {c}
    /\ UNCHANGED <<page, halted, field, sent, server, doubts>>

GroupRefused(c) ==
    /\ c.op # "update" /\ Hear(c, {"text"})
    /\ page' = "alert"
    /\ calls' = calls \ {c}
    /\ UNCHANGED <<halted, field, rows, sent, server, doubts>>

(* Wrong: the failure handler leaves the buttons alone.                     *)
FailureAlertOnly(c) ==
    /\ page' = "alert" /\ halted' = {}
    /\ UNCHANGED <<field, rows, sent, server>>

(* The failure handlers: an alert, which stops them until it is dismissed.  *)
Failure(c) ==
    /\ page' = "alert"
    /\ halted' = IF c.op = "update" THEN {c.on} ELSE {}
    /\ UNCHANGED <<field, rows, sent, server>>

CallFails(c) ==
    /\ Hear(c, {"failed"})
    /\ Failure(c)
    /\ calls' = calls \ {c}
    /\ UNCHANGED doubts

(* Wrong: no timeout, only an answer ends a call.                           *)
TimeOutNever(c) ==
    /\ page = "ready" /\ c.heard /\ c.stage \notin Pending
    /\ Failure(c)
    /\ calls' = (calls \ {c}) \cup Unheard({c})
    /\ Doubt({c.on})

(* The connection breaks or 30 s have passed.  The server may have carried  *)
(* the call out, or may do so yet.                                          *)
TimeOut(c) ==
    /\ page = "ready" /\ c.heard
    /\ Failure(c)
    /\ calls' = (calls \ {c}) \cup Unheard({c})
    /\ Doubt({c.on})

(* The handler goes on: the field goes back to edition.                     *)
Dismiss ==
    /\ page = "alert"
    /\ page' = "ready" /\ halted' = {}
    /\ field' = [f \in Fields |-> IF f \in halted THEN ActionState(field[f], "edit")
                                   ELSE field[f]]
    /\ UNCHANGED <<rows, network, server, doubts>>

--------------------------------------------------------------------------------
(* The page is shown: PolicyController.load over policy.html.  Calls of the *)
(* page before may still reach the server.                                  *)
ShowPage ==
    /\ page = "ready" /\ gate = "open"
    /\ field' = [f \in Fields |-> Shown(stored[f])]
    /\ rows' = [g \in Groups |-> IF g \in storedGroups THEN 1 ELSE 0]
    /\ calls' = Unheard(calls)
    /\ misled' = {} /\ unsure' = {c.on : c \in Unheard(calls)}
    /\ UNCHANGED <<page, halted, sent, server>>

(* The administrator follows the link that deletes the policy, confirmed.   *)
DeletePolicy ==
    /\ page = "ready" /\ gate = "open"
    /\ page' = "gone" /\ calls' = Unheard(calls)
    /\ gate' = "noPolicy" /\ storedGroups' = {}
    /\ UNCHANGED <<halted, field, rows, sent, stored, others, was, doubts>>

Init ==
    /\ page = "ready" /\ halted = {}
    /\ field = [f \in Fields |-> Shown(Seed[f])]
    /\ rows = [g \in Groups |-> IF g \in SeedGroups THEN 1 ELSE 0]
    /\ calls = {} /\ sent = 0
    /\ gate = "open"
    /\ stored = Seed /\ storedGroups = SeedGroups
    /\ others = 0
    /\ was = [f \in Fields |-> {Seed[f]}]
    /\ misled = {} /\ unsure = {}

User ==
    \/ \E f \in Fields : Edit(f) \/ Accept(f) \/ AcceptUnchanged(f) \/ Cancel(f)
    \/ \E f \in Fields, v \in Values : Type(f, v)
    \/ \E g \in Groups : GroupCreate(g) \/ GroupDelete(g)
    \/ ShowPage \/ DeletePolicy

Serve(c) == \/ Refuse(c) \/ FailCall(c) \/ ReadRow(c) \/ WriteRow(c)
            \/ CreateGroup(c) \/ DeleteGroup(c)

Others == \/ \E row \in [Fields -> Values] : OtherUpdates(row)
          \/ \E g \in Groups : OtherGroups(g)
          \/ PolicyGoes

Handle(c) == \/ UpdateSucceeds(c) \/ GroupCreated(c) \/ GroupDeleted(c)
             \/ GroupRefused(c) \/ CallFails(c) \/ TimeOut(c)

Next ==
    \/ User \/ Dismiss \/ SessionEnds \/ SessionResumes \/ Others
    \/ \E c \in calls : Serve(c) \/ Drop(c) \/ Handle(c)

(* The browser runs the handler of a call that was answered, and its timer  *)
(* ends the others; a dialogue is dismissed.  No server need answer.        *)
Fairness ==
    /\ WF_vars(Dismiss)
    /\ \A i \in 1..MaxCalls : WF_vars(\E c \in calls : c.id = i /\ Handle(c))

Spec == Init /\ [][Next]_vars /\ Fairness

--------------------------------------------------------------------------------
(* Properties.                                                              *)

(* The variables keep to their types; calls have identities of their own.   *)
TypeOK ==
    /\ page \in {"ready", "alert", "gone"}
    /\ halted \in SUBSET Fields
    /\ field \in [Fields -> FieldStates]
    /\ rows \in [Groups -> Nat]
    /\ calls \in SUBSET (UpdateCalls \cup GroupCalls)
    /\ sent \in Nat
    /\ \A c \in calls : c.id <= sent
    /\ \A c, d \in calls : c.id = d.id => c = d
    /\ gate \in {"open", "loggedOut", "noPolicy"}
    /\ stored \in [Fields -> Values]
    /\ storedGroups \in SUBSET Groups
    /\ others \in Nat
    /\ was \in [Fields -> SUBSET Values]
    /\ misled \in SUBSET Fields
    /\ unsure \in SUBSET (Fields \cup Groups)

(* A field that shows the clock has a call the page listens to, or its      *)
(* failure handler stands at the alert: it is never left waiting (forms.js: *)
(* 57-70), however many calls one click sent and in whatever order they end.*)
ClockMeansCall ==
    page # "gone" => \A f \in Fields :
        Waiting(f) => f \in halted \/ \E c \in CallsOn(f) : c.heard

(* The attribute oldvalue, which Cancel brings back (forms.js:77-84), is a  *)
(* value the database has held, as long as there is the policy: but for a   *)
(* field whose last answer was a refusal the handler took for success       *)
(* (forms.js:64), whoever else edits, writes back or ends a session.        *)
OldValueWasStored ==
    gate # "noPolicy" => \A f \in Fields \ misled : field[f].oldvalue \in was[f]

(* At rest the page tells the truth: once no call on a field or a group is  *)
(* on its way, the page and the database agree on it, and a field that is   *)
(* not being edited shows the stored value.  So it is although one click    *)
(* sends a call for each edit so far (forms.js:110-130), a group may be     *)
(* created or deleted twice at a time and some calls fail.  The exceptions, *)
(* in unsure, are these and no others: the field was typed in or cancelled  *)
(* during a call, the group created and deleted at a time; a call on it was *)
(* given up; its refusal was taken for success; an update wrote back what   *)
(* it had read before (PolicyCore.java:119-129); another administrator      *)
(* changed it; Spring took one group for another.                           *)
PageTellsTheStore ==
    gate # "noPolicy" /\ page # "gone" =>
        /\ \A f \in Fields \ unsure : CallsOn(f) = {} =>
              /\ field[f].oldvalue = stored[f]
              /\ Idle(f) => field[f].shown = stored[f]
        /\ \A g \in Groups \ unsure : CallsOn(g) = {} =>
              rows[g] = IF g \in storedGroups THEN 1 ELSE 0

(* An administrator hears of every call that PolicyCore refused because the *)
(* policy is gone: the text onException answers with is "a message to       *)
(* display to the user" (PolicyAsyncController.java:53).                    *)
RefusalsAreTold ==
    [][\A c \in calls : Handle(c) /\ c.stage = "text" /\ gate = "noPolicy"
                       => page' = "alert"]_vars

(* No field waits for ever, even when the server does not answer.           *)
EveryWaitEnds == \A f \in Fields : Waiting(f) ~> ~ Waiting(f) \/ page = "gone"
================================================================================
